# TLA+ models of the Alkali CSD firmware

The repository holds the software of an open NVMe accelerator platform: a
storage device (Zynq UltraScale+) on which a host can run small programs next
to the data. Two programs matter here.

* **rpu-app** (C, Zephyr, on the Cortex-R5): the NVMe controller. The FPGA's
  target controller ("TC") holds the controller registers and interrupts the
  RPU when the host writes one; a DMA engine with two channels copies between
  host memory and RPU memory. Administration, read and write commands are served
  on the RPU (from a RAM disk); vendor commands are sent to the APU by RPMsg.
* **apu-app** (C++, Linux, on the Cortex-A53): runs the vendor commands: loads
  and starts accelerators (uBPF programs that may call TensorFlow Lite on the VTA
  accelerator), reads and writes the LBA range for them, and updates the firmware
  in flash.

This directory models the parts whose correctness rests on the order of events.
Every definition that models code is mapped to its lines in `PROJECT.json`.

## 1. Inventory

For each part: the state it keeps, its operations, how it meets the others, what
is hard, and what makes it correct. Line references are under `src/`.

| Part | State | Operations | Meets | Hard | Correct when |
|---|---|---|---|---|---|
| DMA driver, `rpu-app/src/dma.c` | per channel a FIFO of descriptors and a `running` flag; one descriptor slab; registers of the engine | `nvme_dma_xfer_host_to_mem`, `nvme_dma_xfer_mem_to_host`, `nvme_dma_irq_handler` | called by the main thread, the TC handler and its own callbacks; calls back into `cmd.c` | a flag tested here and reset there; callbacks that submit; both status registers read before either is served; engine runs in parallel | transfers of a channel move and are reported in order, each once; no channel stalls; no descriptor has two owners |
| TC: doorbells and queues, `tc.c`, `tc.h` | for each queue base, size, head, tail, phase; `cmd_slab` | `nvme_tc_irq_handler`, `_tail_handler`, `_head_handler`, `get_sq_addr`, `get_cq_addr` | doorbells from the host; fetches by DMA; slots for `cmd.c` | doorbells read late and coalesced; phase bits; a full ring judged from a stale head; slab exhausted; two contexts in `get_cq_addr` | each command is fetched once; each completion is seen once, in order; no overwrite |
| TC: controller registers, `tc.c` | CC, CSTS, AQA, ASQ, ACQ | `nvme_tc_cc_handler`, `_aqa_`, `_asq_`, `_acq_handler` | host | reset and shutdown while commands are outstanding; queue state survives reset | CSTS follows CC; after a reset the driver finds its own queues |
| Command life cycle, `cmd.c` | a `nvme_cmd_priv_t` for each command; `prp_slab` | dispatch, `nvme_cmd_return`, the transfer of data along PRPs | fetched by `tc.c`; DMA callbacks; RPMsg | freed in a callback while another context uses it; the PRP list fetched asynchronously; a failed step in the middle | every command is completed once; the data are those of the PRPs |
| Administration commands, `cmds/` | queues created and deleted, features | create, delete, set features, identify, get log | `tc.c`'s queue arrays | bounds of identifiers and sizes; order of creation and deletion | accesses stay inside the arrays; no queue without its partner |
| Read, write, `cmds/read.c`, `write.c`, `ramdisk.c` | the RAM disk | read, write | `cmd.c` | ranges | accesses stay inside the disk |
| Vendor commands, `cmds/vendor.c`, `rpmsg.c` | pool of four buffers; the endpoint | send to the APU, receive its answer | main thread against interrupt handlers | buffers leak on errors; a command used after it was returned | every command is completed; no buffer is lost |
| Remoteproc, `platform_info.c`, `zynqmp_r5_a53_rproc.c` | the kick flag | IPI handler, `platform_poll` | APU | a kick while an earlier one is handled | no message waits for another kick |
| APU transport, `apu-app/src/rpmsg.cpp`, `cmd.cpp`, `main.cpp` | the endpoint's file, mapped buffers | read a message, dispatch, acknowledge | RPU | failures of a handler | every message is answered once |
| Accelerators, `acc.cpp`, `cmds/*acc_ctl.cpp`, `lba.cpp`, `status.cpp` | a list of accelerators, each with program, buffers, thread, state | add, configure, start, stop, reset, query, remove | threads against the command loop | deleted or reconfigured while its thread runs | a running accelerator keeps its program and buffers |
| Firmware update, `cmds/fw.cpp`, `qspi.cpp` | image buffer, flashing thread | download, commit | flash | acknowledged before it is done; a shorter second image | the flash holds a piece of one image |
| VTA runtime, `vta/vta_runtime.cc` | instruction queue with dependency tokens, micro-op cache, buffers | push, synchronise, rewrite | simulator or hardware | tokens unbalanced; cache overwritten while in use | no pipeline deadlock; each instruction sees its operands |
| VTA simulator and drivers | queues and tokens of the pipeline stages; page table | run, allocate, map | runtime | stages waiting for each other; list shared by threads | the simulated order respects the tokens |
| VTA delegate | tensors, tiling | add, convolution | runtime | tiling at edges | the tiles cover the tensor |

**Who runs when on the RPU.** `nvme.overlay` gives the TC interrupt (90) and the
DMA interrupt (89) the same priority, so neither handler interrupts the other;
the main thread (`main.c`: `platform_poll`, then `k_sleep`) runs only
while no handler does and can be interrupted anywhere outside `irq_lock`. It is
the main thread that runs `rpmsg_endpoint_cb` and completes the APU's commands;
all other commands are completed in DMA callbacks. The engine and the host run in
parallel with everything.

The complete list of what can go wrong, each item at its line, is `hazards` in
`PROJECT.json`, with the properties that cover it or the reason why none does.

## 2. The modules

```
DmaService  <--implements--  NvmeDma  (NvmeDmaProofs)
     |
     | assumed as FIFO channels by
     |
     +-->  NvmeQueuePair  --implements-->  CompletionRing
     |        (NvmeQueuePairProofs, which cites CompletionRingProofs)
     +-->  NvmePrp     one transfer of data, byte by byte  (NvmePrpProofs)
     +-->  NvmeCmd     many commands and what they own, chunk by chunk  (NvmeCmdProofs)
     +-->  NvmeAdmin   registers, administration queue, an I/O queue made and remade
              (NvmeAdminProofs)

ApuAcc, ApuFlash  --extended by-->  ApuApp       the APU application and its link  (ApuAppProofs)
VtaQueue, VtaMemory  --extended by-->  VtaDelegate   an addition, down to the device
                                             (VtaDelegateProofs)
```

### DmaService and NvmeDma

`DmaService` is what the rest of the firmware relies on: three counters for each
channel (submitted, moved, delivered), each behind the one before, none skipping.

`NvmeDma` is `dma.c`. `fifo`, `running` and `free` are `rx_fifo`/`tx_fifo`, the
two flags and the descriptor slab; a descriptor's content is the number of its
transfer. A submission from the main thread is two steps, because
`nvme_dma_xfer_fill_desc` runs before `irq_lock`; one from the TC handler or from
a callback is one, because no software runs in between. `nvme_dma_irq_handler` is
cut at each point where the engine's progress or a callback's submissions matter:
read both status registers (`IrqEnter`), then for each channel skip its block, or
take the descriptor (`IrqGet`), run the callback (any number of `CallbackSubmit`
on either channel), free and restart (`IrqRestart`). The engine is external: the
write of the tag register starts it, the end sets VALID, reading clears it.

### CompletionRing

One completion queue from both ends. `Post` is `nvme_cmd_return` with
`nvme_tc_get_cq_addr` in interrupt context, where it is one step; `PostFull` its
early return; `HeadHandler` is `nvme_tc_head_handler`. The host (external)
recognises entries by the phase bit alone, acknowledges when it likes, and its
doorbell writes may be served late, when the register already holds a later value.
`owed` records what was posted and not consumed.

### NvmeQueuePair

A submission queue with its completion queue and every party on it: the host, the
TC handler with its inner loop over doorbell writes and the loop of the tail
handler, the callbacks of fetches, data transfers and completion entries, the APU,
and the main thread, whose `nvme_cmd_return` is four steps: read `cq_tail`, test
and flip `cq_phase`, store `cq_tail`, read `cq_phase` for the stamp and queue the
transfer. `stage` and `sq_buf` are the blocks of `cmd_slab`. What a command does is
abstracted to where it is completed: in the callback of its fetch, in that of its
data, or in the main thread. The two DMA channels are the FIFO queues that
`DmaService` promises. `Init` chooses a scene: which commands there are, how many
blocks, and whether the host is careful.

The host keeps at most `MaxOut < SqSize` commands outstanding and, when careful,
submits only if there is room for the completions of all of them. It does not read
the SQ head field of completions. That is how the Linux driver behaves.

### NvmePrp

The transfer of one command's data: `transfer_data_with_prps`, `transfer_chunk`,
`calc_prp_size` and `prp_cb` with the arithmetic of the code on a small page. A host
address is a page and an offset. `Init` chooses any length, any offset of PRP1, any
entry of a page for the start of the first list, and the direction; the host's
layout (`HostAddr`, `HostEntry`) is written down independently of the walk, from what
the NVMe lists are: `HostAddr(p)` says where byte `p` is, `HostEntry(n, e)` what entry
`e` of list page `n` holds. An entry of the PRP buffer beyond what was fetched is
`Junk`. Callbacks run only when no handler is at work. Two channels: chunks of a read
go by "tx" while its lists come by "rx"; for a write both share "rx".

### NvmeCmd

Commands and what they own: blocks of `cmd_slab`, buffers of `buffer_pool`, entries of
`prp_slab`. `cmd`, `xfer` and `data` are the fields of `nvme_cmd_priv_t`; `stage` says
where the command of a block is ("stuck": an error path returned without completing
it). A callback is one step. The main thread's handling of an answer is cut wherever
it has queued a transfer and goes on using the command: `ThreadReturn` / `ThreadFree`
(`rpmsg.c` 62-64), `ThreadFirstChunk` / `ThreadCount` / `ThreadOnePage`,
`ThreadSecondChunk`, `ThreadList` (`cmd.c` 164-176, 227-247).

Data are counted in chunks, of which a list names at most what is left: chained lists
are in `NvmePrp`. `xfer.len` is unsigned and wraps (`Wrap`, larger than any length).
`Kind` abstracts the dispatch: a command without data stands for every one that is
completed at once, a read or write outside the RAM disk too. A buffer stands for one
of the four largest blocks of the pool; how the pool splits them is Zephyr's. Rings
have room, `NvmeQueuePair` is about those.

`SendFails` says whether a message can fail to be allocated or sent. Nothing in the code
ensures that the main thread is done with an answer before the block of its command is
given to another, and nothing in the model does: `cmd_stale` shows it happening, and
`reused` records that it has. From then on the thread counts the chunks of the wrong
command and frees the wrong buffer, so the properties of buffers and completions are
about every behaviour up to that moment (`~reused => ...`), and say nothing after it. What
holds after it as well is stated without the condition: the types, and the account of
`prp_slab` (`PoolsAccounted`).

A completion reaches the host and `cq_cb` frees its block in one step (`CqCb`): the time
between the two, in which the host may already send the next command, is in
`NvmeQueuePair`.

### NvmeAdmin

The controller as a driver sees it: `reg` are the registers the host writes, `irq` the
writes that `nvme_tc_irq_handler` has yet to serve, `csts` its answer; `sq` and `cq` are
the queue arrays of `nvme_tc_priv`, `resp` the static buffers of identify and get_log.
Each register handler is one step (`CcHandler`, `AqaHandler`, ...), a tail handler
queues a fetch for every command up to the doorbell. A command is handled in the
callback of its fetch; one that answers with data is cut between the `memset` of its
buffer and the moment it is filled, because the engine may be reading the buffer for
an earlier command. The host follows a script (`Workload`), enables, resets at any time
and shuts down once. The fields that no code reads (`sq_valid`, `cq_valid`, `sq_pc`,
`cq_pc`, `cq_ien`) are left out; a queue that was deleted is served all the same.

One assumption is named: the host enables again only when the administration queue is
`Fresh`, at its start and with nothing under way. `nvme_tc_cc_handler` resets neither
heads, tails and phases nor what is in the channels, so a driver that resets in the
middle of a pass finds a controller that goes on in the middle of a pass.

### ApuAcc, ApuFlash, ApuApp

`ApuApp` composes the APU application. `ApuAcc` has the accelerator objects (a RESET
makes a new one and deletes the old, which its thread may still use), the runs, each cut
where the thread reads or writes the object or the RAM disk, the firmware and the status
record; `misuse` records touches of an object that is in use or deleted. `ApuFlash` has
the download buffer, the flashing thread and the flash, word by word: `MEMERASE` on the
whole device is one step for each erase block, and `write` one for each word, so that a
failure or a loss of power finds any number of blocks erased and any number of words
written. A block or word that is itself half-way is not modelled. `ApuApp` adds the
set-up of the RPMsg files, each step of which may fail, the main loop with one action
for every command it distinguishes, `send_ack` on a ring that may be full, and the RPU's
side of the link: IPI, `ipi_nokick`, `platform_poll` and the loop that empties the ring.
A buffer that cannot be mapped (`HasBuffer`: of any command that comes with a length, a
firmware commit too, for which `mmap` is asked for address 0), an execution that fails,
a flash that cannot be opened, erased or written to the end, and a loss of power are
steps that may come at any time. A careful host (`resets`) configures an accelerator
only when it is new, starts it once and resets it once it was told that it is done.

`setup_acc` makes one accelerator. `STOP` and the enabling of accelerators change
nothing that is read and are among the commands that are only acknowledged.

### VtaQueue, VtaMemory, VtaDelegate

One or more element-wise additions of a TensorFlow Lite model, from `Eval` down to the
simulated device. `VtaQueue` is the runtime's command queue as operators on a record:
instructions, the pops pending for each stage, the pushes attached to the last
instruction or to a NOOP, the micro-op cache. `VtaMemory` is the page allocator.
`VtaDelegate` has the program that `aluAdd` issues (`Program`: two virtual threads on
the halves of the accumulator memory), its calls one by one, and the three stages of
`sim_tlpp.cc`, each of which runs its instructions of the queue in their order, the next
as soon as its tokens are there. Numbers keep the code's conversions: fixed-point
scaling, arithmetic shifts, clamping and truncation to 8 bits. The 32-bit wrap of the
ALU is left out, since a sum of two 8-bit inputs times a 16-bit multiplier stays below
it; elements of a block beyond the vector are arbitrary. A `CHECK` that fails is
`assert` and ends the process ("aborted").

The `MC*` modules give TLC a module to load with a configuration; definitions
named as mutants next to an operation are variants of it with a plausible mistake,
and are used by no specification.

## 3. What the runs check

| Run | Instance | States | Shows |
|---|---|---|---|
| `dma` | 3 descriptors, 3 transfers on each channel | 36 thousand | `NoLostWakeup`, `DescHasOneOwner`, `CompletionMatchesHead` (the "Spurious DMA interrupt" branches are dead), `EngineNotDisturbed`, and `KeepsPromise`: the driver implements `DmaService`, its liveness included |
| `completion_ring` | 4 slots, 2 values, 2 doorbell writes waiting, unbounded number of passes | 35 thousand | `HostReadsOldest`, `NoOverwrite`, `DropOnlyWhenHostBehind`, `FullIsTemporary`, `CompletionsArrive` |
| `queue_pair` | both queues 3 slots; commands completed by handlers with 3 blocks; a vendor command; commands completed by handlers with 1 block and a careless host | 209 thousand | `RunsOnce`, `PhaseCorrect`, `LossAccounted` in all scenes: losses happen only where the slab or the queue lacked room; with room `CommandsComplete`, and `ImplementsRing` where handlers complete all commands |
| `prp` | pages of 6 with entries of 2, lengths 1 to 48, all offsets | 47 thousand | `ChunksTile`, `ListsInBounds`, `ReturnsAfterData`, `Returns` |
| `cmd_ample` | a read, a write of three chunks, a vendor command and a firmware commit, two at a time; 3 blocks, 3 buffers, 2 PRP entries | 130 thousand | `DataBeforeCompletion`, `TransfersHaveBuffer`, `EveryCommandEnds`, until a block is reused too early |
| `cmd_errors` | six vendor commands, two with wrong PSDT, and one without data, three at a time; 2 blocks, 2 buffers, 1 PRP entry; sends fail | 1.7 million | `PoolsAccounted`, `NoneForgotten`: only the known error paths leak or drop, until a block is reused too early |
| `admin` | queues of 3 entries, 2 commands at a time, 2 resets, four scripts | 70 thousand | `ReadyMeansConfigured`, `RunsOwnCommands`, `CompletionsAreNew`, `ResponsesIntact`, `ArraysRespected`, `CommandsAnswered`, `HandshakesEnd` |
| `apu` | five hosts, one with 3 commands under way; a ring of 2 messages, 2 objects, 2 runs, a flash of 4 words in erase blocks of 2, a loss of power | 391 thousand | `AnsweredInOrder`, `DoneMeansWritten`, `NoUseAfterDelete`, `FlashHoldsOneImage`, `EveryCommandAnswered` |
| `vta_add` | vectors of 2 lanes, 8 accumulators, 2 virtual threads (4 elements to a chunk); additions of 1 to 10 and 12 to 16 elements, int8, int32 and an unsupported type, operands that disagree, two additions in a model; 2 evaluations | 5 thousand | `AddsElements`, `DeviceAtRest`, `BuffersReturned`, `EvalReturns` |
| `cmd_stale`, `queue_pair_race`, `vta_padding` | | | violated, see section 6 |

The type invariant (`TypeOK`) of `NvmeDma` and `CompletionRing` is a theorem of its own; in
the other modules it is a conjunct of one of the invariants named here (`RunsOnce`,
`ListsInBounds`, `PoolsAccounted`, `ArraysRespected`, `AnsweredInOrder`, `DeviceAtRest`), and
is proved where section 4 names that invariant.

*Bounds.* Three transfers with three descriptors let one be in the engine, one queued
and one in a callback or in the thread's hands, and let the slab run empty. The queues
have three slots because two usable slots are the least with which entries are queued
behind each other; nothing bounds the number of passes, and the state spaces are finite
because host and RPU reuse their slots. Commands are resubmitted for ever. Two waiting
writes to the head doorbell (`MaxIrq`) are the least with which one of them is served
with the value of the other; in `NvmeQueuePair` there is no such bound. The first scenes
of `queue_pair` have one block more than the host's commands, and need it: `cq_cb` frees
a block after the host may already have seen the completion and sent the next command.
The firmware has 1024 blocks for all queues. In `prp` a page holds three entries, so
that eight pages of data need up to five lists when the first starts in the last entry
of its page, and every alignment of data, page and list is covered. In `NvmeCmd` three
chunks are the least that take a list; `cmd_ample` has one block and one buffer more
than the host has commands outstanding (`MaxOut`), for the reason above; a host that has
more vendor commands with data under way is in the situation of `cmd_errors`: the
firmware has four buffers. One vendor command at a time is enough in `queue_pair`, where
the main thread must be cut into; several of them compete in `NvmeCmd`.

In `admin` three entries put the second life of an I/O queue in the middle of a pass of
the first; the scripts create, use, delete and create it again up to three times, ask
for responses two at a time (the least with which a buffer is cleared while it is read)
and name queues that were not granted. In `apu` two acknowledgements fill the ring; with
two commands under way none is refused, with three an answer may be; the scripts are the
shortest that set an accelerator up, run it, reset it and run it again, or commit three
times over downloads of different length, one beyond the device. Two erase blocks of two
words are the least for which the device may be left with its first block erased and the
end of the old image in the second, or with the middle of one when a loss of power has
cut a short write before. In `vta_add` 16 elements are two rounds of both virtual
threads, so that each half of the memory is loaded again while its chunk, or the other
half's, may still wait to be stored. With 7 and 15 elements the padding of the last
chunk runs past the memory and a `CHECK` ends the process: `EvalReturns` allows that
where `PaddingOverruns` computes it, and so says that there is no other size for which
it happens. 11 elements are left to `vta_padding`, as `AddsElements` fails there. Two
evaluations show whether anything is left behind.

*The constraint of `cmd_ample` and `cmd_errors`.* `Followed` ends a behaviour at the first
state in which `reused` holds, because every property of those runs holds of the later ones
by its premise, or, for the types and `prp_slab`, by the theorem `TypedInvariance`, which
has none. That first state is still checked. It hides no cycle from `EveryCommandEnds`:
`reused` stays true, and the property asks for nothing once it is.

*Things the runs taught.* The loop in `nvme_tc_irq_handler` until no doorbell
write is left is what makes a careful host safe: a tail handler reads the newest
tail, which may cover commands that the host submitted after a head write still
waiting behind it; as no command is completed before the handler returns, the head
is known by then. `CSTS.SHST` is never cleared (`tc.c:39`): at a second shutdown the
driver would see it set at once, go on to a reset and enable the controller before the
RPU has handled any of it, so the host of `NvmeAdmin` shuts down once. Completions of
commands from before a reset are still written after `RDY` went to 0. What a careful
host is told to be done may have failed in execution, or have run with a firmware that
was acknowledged though its buffer could not be mapped: `DoneMeansWritten` names
both as exceptions. Even a careful host's RESET may delete an object before
its thread has logged its last line (`acc.cpp:78`), the one use after deletion that
`NoUseAfterDelete` lets pass.

A firmware commit is handled as a vendor command (`cmd.c:63`), though its CDW10 is
not a length: it has no buffer, as its opcode announces no data, but a length, and
`vendor.c:80` looks at the length only, so that data are transferred from PRP1 to local
address 0 before the commit goes to the APU. `TransfersHaveBuffer` says that they go to no
buffer of another command, and that no other command does this. On the APU the same length
makes `mmap_buffer` map address 0; where that fails, the commit is acknowledged and nothing
is committed (`CannotMap`).

*Fairness.* The engine finishes what it started (hardware). A pending interrupt is taken
and its handler runs to the end (weak fairness). In `NvmeQueuePair` callbacks and the
main thread are enabled only while the TC handler is not running, which the host can
make recur: they get strong fairness, as DMA interrupt 89 goes before TC interrupt 90 at
one priority and the main thread gets time between interrupts. The host rings a doorbell
after it wrote or consumed, and polls; it need not submit. In `NvmeCmd` doorbells are
served, both channels make progress, the APU answers what reached it and the main thread
runs; a handler is one step there, so weak fairness is enough. In `NvmeAdmin` the driver
finishes the writes it began, polls CSTS and its queues; handlers and the engine are
weakly fair, callbacks strongly, as above; it need not submit, reset or shut down. In
`ApuApp` the main loop, the flashing thread, the interrupt of the mailbox and the RPU's
polling are weakly fair; of the host and of the accelerator's threads nothing is asked.
In `VtaDelegate` the thread and each stage of the device are weakly fair. Nothing is
asked of submitters in `NvmeDma` or of whoever posts in `CompletionRing`.

*Deadlock* is checked except where the system may stop: `dma` (all of the bounded
number of transfers were delivered), `prp` (one transfer), `queue_pair` and `cmd_errors`
(all commands may be lost), `admin`, `apu` and `vta_add` (the script or the number of
evaluations is used up).

## 4. What is proved

With TLAPS, for every value of the constants that satisfies the named assumptions.

**NvmeDmaProofs** (for any descriptor slab, any number of transfers; assumes only
that `NoDesc` is no descriptor and `MaxXfers` a natural number): `TypeCorrect`,
`WakeupsNotLost`, `DescriptorsOwned`, `NoSpuriousInterrupt`, `EngineUndisturbed`
and `ImplementsService`, the safety half of `KeepsPromise`. The properties are not
inductive one by one. The invariant adds that the numbers of the transfers in a
FIFO are consecutive and end at `submitted`, that the first of them follows
`delivered`, and exactly which of "engine at work", "VALID set", "seen by the
handler", "in the callback" holds for a running channel: a step that restarts the
engine keeps the order only because the head of the FIFO is the next transfer
not moved. Each action is a step of the proof, with the parts of the invariant it
can disturb below it; the refinement then reads each action as a step of
`DmaService` or a stutter.

**CompletionRingProofs** (for every ring size and set of values; assumes
`Size` and `MaxIrq` positive natural numbers and `NoData` no value): `TypeCorrect`,
`ReadsInOrder`, `NothingOverwritten`, `DropsAreTheHosts`. The invariant (`IInv`)
ties the two ends together: how far the RPU's tail is ahead of the host's head is
the number of completions owed, and the phase it will stamp next is the host's
phase or its inverse according to whether the tail has wrapped (`TailAhead`); the
heads follow each other, `cq_head`, then the doorbell, then the host's
(`HeadsInOrder`); what is in flight, and what is in memory and unread, are the owed
completions, each in its slot with the expected phase, while every other slot has
the phase of an older pass (`InflightOwed`, `RingOwed`).

**NvmePrpProofs** (for every page size, entry size that divides it with two entries
to a page at least, length, offset of the data and of the first list, and any number
of chained lists): `TilingHolds`, `ListBoundsHold`, `ReturnsAfterDataHolds`. That the
chunks tile the buffer says nothing of the next list, so the invariant follows the walk:
the channel holds exactly the chunks that have not moved, in order, with the list
behind them if it shares the channel (`InOrder`); only the chunk that leaves nothing to
queue has the callback (`LastIsLast`); the handlers stand at entry `i` of list `n` when
`Before(n) + i` whole pages follow the first, and a list that is on its way was asked for
with the number of entries that will be used (`Walked`); who holds the PRP buffer, and
what `returned` means (`Ends`). The arithmetic (what division by a page leaves after one
more page, where a list ends in its page) is in lemmas of its own.

**NvmeCmdProofs** (for any number of commands, blocks, buffers and list entries, with
sends that fail and lists that cannot be had, and with a main thread as slow as it likes):
`Invariance`, `TypedInvariance`, `PoolsAccountedHolds`, `NoneForgottenHolds`, and, if `prp_slab`
has an entry for every command of the host (`PrpSlab >= MaxOut`),
`DataBeforeCompletionHolds` and `TransfersHaveBufferHolds`. No theorem assumes anything of
timing. What they show of buffers and completions they show of every behaviour until a block is
given to another command under the main thread (`Spec => [](~reused => IInv)`): `reused` never
becomes false again, so a state without it has a past without it, and the invariant only
has to survive steps between two such states. `TypedInvariance` needs no such condition: a
thread that goes on with the wrong command still works on a command, and a list is given
back by the callback that ends it. That a buffer has one
owner depends on who may still free it, so the invariant says who goes on with each
command: at most one entry of the channels has the callback of a block (`OneCarries`),
none of its chunks is behind that entry (`NoneBehind`), an entry agrees with the fields
of its block (`EntriesOK`), an answer of the APU belongs to one command that waits for it
(`RepliesOK`), the main thread touches a block only while it has more to queue, or after
it queued the last chunk reads what no longer matters (`ThreadOK`), and a block that is
not free has an entry, an answer, the thread, or an error path that dropped it
(`BlocksOK`, `Placed`). Where the data are needs three parts more, proved on top of it: a
command of the host is in its queue or in one block, once (`Once`); a chunk that is queued
is of the command and the transfer its block still has, in the transfer's direction
(`DatasOK`), and that transfer has the RAM disk or the command's buffer (`BufsOK`); the APU has
data only for commands that ask for them (`AnswersOK`). With an entry of `prp_slab` for
each command the slab never runs out, since the lists under way belong to different
commands, none of them the one that needs a list now (`Ample`, a pigeonhole argument). The
condition is needed: a list that cannot be had ends the command while chunks of it are
queued, as `cmd_errors` explores.

**NvmeQueuePairProofs** (for queues of every size from two, any commands, blocks and
scenes): `RunsOnceHolds`, `PhaseCorrectHolds`, `LossAccountedHolds`, each for scenes in which one
context completes all commands (`OneContext`: handlers only, or the main thread only).
The condition is needed: `queue_pair_race` shows that with both contexts `PhaseCorrect`
fails. `RunsOnce` is about the reuse of entries: a fetch reads its entry late, and what
keeps the host from overwriting it is only that the host has fewer commands
outstanding than the queue has entries. So the invariant has a window of the last `w`
entries, all of them different outstanding commands (`Window`), that contains every fetch
not yet done and all that the handler has not taken, in this order (`FetchInv`); and a
command is at one place only: in the window, in a block, or owed (`Apart`). As the window
is no larger than the set of outstanding commands, an entry that is still to be read is
never at the host's tail. The completion queue is shown to be a `CompletionRing` through
an instance of `CompletionRingProofs`, whose lemmas are cited for each step; the main
thread's `nvme_cmd_return`, which changes the phase and the tail in steps of their own,
takes effect there with its last step (`TailBefore`, `PhaseBefore`), and `ThreadInv` says
that the slot it found free is still free then. `LossAccountedHolds` adds, action by action,
where a command goes that leaves its place (`LossInv`).

**NvmeAdminProofs** (for queues of every size from two, any number of commands that the
driver has outstanding, any number of resets and any scripts; assumes further that the
names of the responses are not those of other commands): `ReadyConfiguredHolds`,
`RunsOwnCommandsHolds`, `CompletionsAreNewHolds`, `ResponsesIntactHolds`,
`ArraysRespectedHolds`. The first is about the registers (`IInv`). A handler reads its
registers late, so the invariant says what is under way: the FIFO holds doorbells and
behind them exactly the writes `s + 1` to `k` of the set-up (`ToServe`), the driver has
the others still to make (`ToWrite`), the registers hold what the first `k` wrote
(`Written`) and the queues what the first `s` did (`Configured`). With the states of the
handshakes (`Off` to `Disabling`) this is what carries over a reset: the driver begins
again only when CSTS says that the write to CC was handled, so none of an earlier life
is left in the FIFO.

The other four are about the queues and need one invariant (`QInv`), since what a
command does to a queue, creating it anew, depends on where that command is. A
completion queue that the driver uses is a ring (`Ring`): from the slot that the driver
expects next up to the tail of the RPU each slot has a completion under way or arrived,
one of the two, with the phase the driver expects there, and no other slot has that
phase. What is posted is posted for a command of the driver and once (`Under`). A
submission queue has a window of commands that wait to be run, and each fetch is of one
in the window, the oldest first (`Sub`), as in `NvmeQueuePairProofs`; that the window
never closes round the queue is a pigeonhole argument over the identifiers (`WinSize`).
A response is filled or moved for a command of which nothing is posted (`Busy`), and
that zeros reach the driver only behind another command of their kind is `Data`: the
later command's handler cleared the buffer, and its completion comes later. What makes
the I/O queue safe to create again is `Creates`: the driver asks for it only when the
one before is gone and empty, the doorbells of that one have been handled before the
command is run, since they were rung before it was written and no command runs while the
handler has writes left (`IoBells`), and when the driver learns of the queue it is new
on both sides. `Room` says that an administration command always has room for its
completion, without which a dropped one would leave the driver waiting. TLC checked
`QInv` on the instance of the run `admin` before it was proved. The named assumption
stays: all this is of drivers that enable only a `Fresh` controller (`Clean` and `Stale`
show what that gives).

**ApuAppProofs** (for every set of workloads, size of the ring, number of objects,
runs and losses of power): `AnsweredInOrderHolds`, `FlashHoldsOneImageHolds`,
`NoUseAfterDeleteHolds`, `DoneMeansWrittenHolds`. The invariant is in layers. `LinkInv` accounts
for every command sent: unread, in the ring, answered or refused, with consecutive
numbers; `FlashInv` says for each place of the flashing thread which piece of which image
the device holds: before and while it erases, what is left of some committed image behind
the erased blocks, and while it writes, the beginning of the one it has a copy of. It is
proved for every size of device and erase block. For a careful
host, `QueueInv` and `RunsInv` relate what the host believes of the accelerator to the
commands still on their way and to the runs: a run at work excludes a configuration
or reset in the queue, because the host asks for those only after an answer that was
made after the run had ended. `SetupInv` and `ResultInv` then say which firmware and which
blocks the object will have once those commands are handled, and what each run has
loaded, read and computed so far.

**VtaDelegateProofs** (for every page size, every accumulator memory that has two
vectors to a virtual thread, every set of models and any number of evaluations):
`BuffersReturnedHolds`, `DeviceAtRestHolds`. The lemmas on the allocator come first:
best fit finds a block of the free list or none (a non-empty set of numbers has a
smallest one), `Alloc` answers with a block that nobody has, and `Free` of a block in
use keeps the free list without repetitions. `AddShape` says what the calls of an
addition are, whatever its length: the handle, three buffers, the copy, any number of
calls for the queue, then the synchronisation, the copy back, three frees and the
shutdown. The invariant is that every block in use belongs to exactly one of the
addition's buffers, the queue or an addition that gave up (`Owners`), and that how far
the addition has come decides how many buffers it has (`Place`, `Held`): without that,
the third `VTABufferFree` could meet an empty list.

The second theorem is about the tokens, and its argument is a count. `AddShape` also says
that each call for the queue is due when it is made (`Moves`): a push sends a token on a
channel that has none ahead, a pop waits for one that has, and after the last call no
channel has one (`Owed`). `AfterOK` shows that the queue keeps that account (`Balance`)
whatever it makes of a call, be it a bit of the last instruction, a no-op, or a pop
that stays pending: on each channel the instructions that send are as many as those that
wait, the pending pop and the token ahead. So `Synchronize` hands over a stream in
which as many tokens are sent as are waited for, in which the load and the store stage have
the last word to the compute stage, and whose last instruction is FINISH (`Stream`,
`ClosedIs`). While it runs, in any interleaving of the stages (`Running`), the tokens on a
channel and the senders left are as many as the waiters left: when FINISH, the last of the
compute stage, runs, the channels to that stage have no waiter left, hence no sender, hence
the other stages have no instruction left; and with nothing left there are no tokens. That a
stage never waits for ever is not part of it (`EvalReturns`).

*What the proofs found in the models.* Two `CASE` expressions had alternatives that
overlapped (the sizes in `adm_cmd_fw_download`, the queue identifiers in `NvmeAdmin`): TLC took
the first, which is what the code does, but the definition allowed either. They are
now written in the order in which the code tests.

*Only model-checked*:

* everything under fairness (`FullIsTemporary`, `CompletionsArrive`, `CommandsComplete`,
  `Returns`, `EveryCommandEnds`, `CommandsAnswered`, `HandshakesEnd`, `EveryCommandAnswered`,
  `EvalReturns` and the liveness half of `KeepsPromise`), which the prover cannot express;
* `ImplementsRing`: its mapping counts the head writes in `irq` with `SelectSeq`, a recursion
  over data; what that refinement is for, the order and the phase of completions, is
  proved in `NvmeQueuePairProofs` without it;
* `AddsElements` of `VtaDelegate`, and with it what the accumulator memory holds: it rests on
  what the loop over the micro-ops, a fold, and other recursive definitions compute.

## 5. What is not modelled

* *Numbers that a test decides.* The ranges of `ramdisk.c` (a read is checked for its
  first block only), the wrap of the length in `get_log.c:86`, queues of 65536 entries
  (`queues.c`, `qsize + 1`), transfers of length 0, a page size other than the PRP
  buffer's 4096, of which `tc.c:49` only warns.
* *Descriptor exhaustion* is in `NvmeDma` but not in the modules above it, where the
  65536 descriptors are taken to suffice; their callers do not look at the result.
* *OpenAMP*: its set-up, its locks, and what `rpmsg_send` does in interrupt context when
  no buffer is free (`vendor.c:38`).
* *Payloads* of identify and log pages, and log output.
* *uBPF and TensorFlow Lite* (`vm/`), which are not in the repository: an execution
  ends with a result or fails.
* *Convolution* on the VTA: `vta-delegate.cpp:92` disables it, so `gemmConv2D`, the GEMM
  core and instructions, `padData` and `permuteDims` are not run.
* *Paths of the VTA runtime that nothing reaches*: forced serialisation (its debug flag is
  never set), `AutoSync` and `CheckInsnOverFlow` (an addition stays far below
  `VTA_MAX_XFER`), the eviction of micro-ops (in `VtaQueue`, but an addition never fills
  the micro-op memory); dumps and the profiler.
* *The drivers of the real device*, `tf_driver.cc` and `pynqlib.cpp`: registers and
  contiguous memory behind Linux.
* *Two interpreters at once*. `CommandQueue::ThreadLocal` is one queue for all threads,
  though `vta_runtime.h:82` says "Get thread local command handle"; there is
  one accelerator, and `VtaDelegate` has one thread.
* *Where a firmware image ends*: the download buffer only grows, and a commit takes all
  of it (`qspi.cpp:98`). An erase block or a word that a loss of power finds half done.
* The build system.

The TC hardware's register `IRQ_DAT` is taken to hold the register writes first in,
first out. A memory model is not needed on one core; between the RPU and the engine,
transfers are taken to see what was written before they were started. The unlocked
accesses of the APU's threads are taken one by one, in some order, and recorded as
misuse where they race.

## 6. Findings

* `queue_pair_race`: `nvme_tc_get_cq_addr` (`tc.c` 115-131) takes no lock, yet runs
  in DMA callbacks and in the main thread. When a queue carries both vendor commands
  and others, an interrupt between the main thread's accesses makes an entry carry the
  wrong phase bit or two entries share a slot; comments at `tc.c:121` and `cmd.c:149`
  say the phase is right. `queue_pair` shows that with only one of the two contexts on a
  queue everything holds.
* `cmd_stale`: the main thread uses a command after it queued the transfer that ends
  it: `transfer_chunk` goes on to `xfer_len -= len` and its caller to test the result
  (`cmd.c` 175, 227), `rpmsg_endpoint_cb` reads and frees `cmd->block` (`rpmsg.c` 63).
  By then the completion may have been delivered and the block given to the next
  command. The `printk` at `cmd.c:225`, "a temporary workaround for a race condition",
  does not exclude it.
* `vta_padding`: `aluAdd` gives the padding of its last chunk in elements
  (`vta-delegate-ops.cpp:356` and `:370`), while `vta_runtime.h:126` says of
  `VTALoadBuffer2D` "Sizes are measured in units of vector elements." and the device
  clears that many whole vectors behind the chunk. Where the last chunk nearly fills the
  first half of the accumulator memory, the zeros overwrite results in the other half
  that are not stored yet; where it nearly fills the second, the load runs past the
  memory and `CHECK_LE` at `sim_driver.cc:171` fails, as the run `vta_add` shows for 7 and 15
  elements.

## 7. What is left

All parts that can be modelled are, and every invariant that a run checks is a theorem,
but for what section 4 lists under "Only model-checked". Open are the parts of section 5, and
the proofs of what those recursive definitions compute, for a prover that has induction.
