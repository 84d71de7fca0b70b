------------------------------ MODULE NvmeCmd -------------------------------
(***************************************************************************)
(* The life of commands and what they own (cmd.c, cmds/vendor.c, rpmsg.c): *)
(* a block of cmd_slab each, a buffer of the pool when the APU works on    *)
(* data, an entry of prp_slab while a list of PRPs is under way.  The data *)
(* of a command are counted in chunks: one is in PRP1, two are in PRP1 and *)
(* PRP2, more take a list (NvmePrp has the details).                       *)
(*                                                                         *)
(* A callback of the DMA handler is one step, which nothing interrupts.    *)
(* The main thread, which serves the APU's answers (rpmsg_endpoint_cb),    *)
(* can be interrupted wherever it has handed something to the DMA engine   *)
(* and goes on using the command: there its steps are cut.                 *)
(*                                                                         *)
(* Left to NvmeQueuePair: the rings, which here always have room, and the  *)
(* time between a completion's arrival at the host and cq_cb.              *)
(***************************************************************************)
EXTENDS Integers, Sequences, FiniteSets

CONSTANTS
  Block,       \* the blocks of cmd_slab
  Buffer,      \* the buffers of buffer_pool
  PrpSlab,     \* how many lists of PRPs prp_slab has room for
  Cmd,         \* the commands
  MaxOut,      \* how many of them the host has outstanding at a time
  Kind,        \* what each of them does, see Kinds
  Pages,       \* how many chunks of data it has, if any
  Bad,         \* the commands with PSDT # 0
  SendFails,   \* 1: a message to the APU may fail to be allocated or sent
  Null,        \* no buffer: address 0
  Disk,        \* the RAM disk, as the place of data
  NoCmd, NoBlock

\* Completed at once; data to or from the RAM disk; vendor commands without
\* data, with data for the APU and with data from it; and one that announces
\* data in its length field and none in its opcode.
Kinds == {"none", "read", "write", "vendor", "vendorIn", "vendorOut", "vendorOdd"}

ASSUME CmdAssumption ==
  /\ Kind \in [Cmd -> Kinds] /\ Pages \in [Cmd -> 1..3] /\ Bad \subseteq Cmd
  /\ NoCmd \notin Cmd /\ NoBlock \notin Block
ASSUME ResourceAssumption ==
  /\ PrpSlab \in Nat /\ MaxOut \in Nat
  /\ Null \notin Buffer /\ Disk \notin Buffer /\ Null # Disk
  /\ SendFails \in {0, 1}

Wrap == 8      \* xfer_len is unsigned: below 0 it is larger than any length

VARIABLES
  outstanding, \* host: the commands it waits for
  sq,          \* the submission queue
  cmd,         \* sq_buf of each block
  stage,       \* where the command of each block is
  xfer,        \* xfer_len, xfer_buf, xfer_cb and dir of each block
  data,        \* block.data of each block: its buffer of the pool
  pool,        \* the free buffers
  prps,        \* how many entries of prp_slab are free
  dma,         \* the transfers queued on the two channels
  replies,     \* the APU's messages
  thread,      \* what the main thread is doing, and with which block
  lost,        \* history: commands that will not be completed, for an error
  starved,     \* history: commands that found prp_slab exhausted
  leaked,      \* history: buffers that an error path left allocated
  reused       \* history: a block was given to another command while the main
               \* thread still used it for the one whose answer it serves

slabs   == <<pool, prps>>
history == <<lost, starved, leaked, reused>>
vars    == <<outstanding, sq, cmd, stage, xfer, data, pool, prps, dma, replies,
             thread, lost, starved, leaked, reused>>

NoXfer == [len |-> 0, buf |-> Null, cb |-> "none", dir |-> "rx"]
Idle   == [pc |-> "idle", block |-> NoBlock]

Init ==
  /\ outstanding = {} /\ sq = <<>>
  /\ cmd = [b \in Block |-> NoCmd] /\ stage = [b \in Block |-> "free"]
  /\ xfer = [b \in Block |-> NoXfer] /\ data = [b \in Block |-> Null]
  /\ pool = Buffer /\ prps = PrpSlab
  /\ dma = [c \in {"rx", "tx"} |-> <<>>]
  /\ replies = <<>> /\ thread = Idle
  /\ lost = {} /\ starved = {} /\ leaked = {} /\ reused = FALSE

-----------------------------------------------------------------------------
(* Pieces of the handlers.  d is what the channels hold when they run.     *)

At(b, s) == stage' = [stage EXCEPT ![b] = s]
Put(d, c, x) == [d EXCEPT ![c] = Append(@, x)]

\* Mutant: every chunk has the callback.
ChunkCallsBack(b, x, last) ==
  [kind |-> "chunk", block |-> b, cmd |-> cmd[b], buf |-> x.buf, last |-> TRUE]

\* A chunk of a transfer x; the last has the callback.
Chunk(b, x, last) ==
  [kind |-> "chunk", block |-> b, cmd |-> cmd[b], buf |-> x.buf, last |-> last]
Fetch(kind, b) ==
  [kind |-> kind, block |-> b, cmd |-> cmd[b], buf |-> Null, last |-> TRUE]

\* Every buffer that a block's command holds.
Held(b) == {data'[b]} \cap Buffer

\* nvme_cmd_return: the completion entry is queued.
Return(b, d) == At(b, "posted") /\ dma' = Put(d, "tx", Fetch("cq", b))

\* send_cmd; when it fails nobody looks.
Send(b, d) ==
  /\ dma' = d
  /\ \/ At(b, "apu") /\ UNCHANGED <<lost, leaked>>
     \/ /\ SendFails = 1
        /\ At(b, "stuck")
        /\ lost' = lost \cup {cmd[b]} /\ leaked' = leaked \cup Held(b)

FetchList(b, d) == Put(d, "rx", Fetch("list", b))

\* Mutant: without an entry of prp_slab the command is given up, not completed.
ListOrGiveUp(b, d) ==
  \/ /\ prps > 0
     /\ prps' = prps - 1
     /\ dma' = FetchList(b, d)
     /\ UNCHANGED <<stage, starved, leaked>>
  \/ /\ prps = 0
     /\ dma' = d
     /\ starved' = starved \cup {cmd[b]} /\ leaked' = leaked \cup ({data[b]} \cap Buffer)
     /\ UNCHANGED <<stage, prps>>

\* transfer_data_with_prps after its first chunk, with more to come than PRP2
\* can name.  Without an entry of prp_slab the command is completed.
ListOrReturn(b, d) ==
  \/ /\ prps > 0
     /\ prps' = prps - 1
     /\ dma' = FetchList(b, d)
     /\ UNCHANGED <<stage, starved, leaked>>
  \/ /\ prps = 0
     /\ Return(b, d)
     /\ starved' = starved \cup {cmd[b]} /\ leaked' = leaked \cup Held(b)
     /\ UNCHANGED prps

\* transfer_data_with_prps in interrupt context, where x is what to transfer.
Transfer(b, x, d) ==
  LET d1 == Put(d, x.dir, Chunk(b, x, x.len = 1))
  IN  /\ xfer' = [xfer EXCEPT ![b] = [x EXCEPT !.len = IF x.len < 3 THEN 0 ELSE x.len - 1]]
      /\ \/ /\ x.len < 3
            /\ dma' = IF x.len = 1 THEN d1 ELSE Put(d1, x.dir, Chunk(b, x, TRUE))
            /\ UNCHANGED <<stage, prps, starved, leaked>>
         \/ x.len >= 3 /\ ListOrReturn(b, d1)

-----------------------------------------------------------------------------
(* Commands arrive: the host, and nvme_tc_tail_handler                     *)

Submit(c) ==
  /\ c \notin outstanding /\ Cardinality(outstanding) < MaxOut
  /\ outstanding' = outstanding \cup {c}
  /\ sq' = Append(sq, c)
  /\ starved' = starved \ {c}
  /\ UNCHANGED <<cmd, stage, xfer, data, slabs, dma, replies, thread, lost, leaked, reused>>

Free == {b \in Block : stage[b] = "free"}

\* A block is the slab's choice; its command's fetch is queued.
TailHandler ==
  /\ sq # <<>>
  /\ sq' = Tail(sq)
  /\ \/ /\ \E b \in Free :
             /\ At(b, "run")
             /\ cmd'  = [cmd EXCEPT ![b] = Head(sq)]
             /\ xfer' = [xfer EXCEPT ![b] = NoXfer]
             /\ data' = [data EXCEPT ![b] = Null]
             /\ dma'  = Put(dma, "rx", [Fetch("fetch", b) EXCEPT !.cmd = Head(sq)])
             /\ reused' = (reused \/ b = thread.block)
        /\ UNCHANGED lost
     \/ /\ Free = {}
        /\ lost' = lost \cup {Head(sq)}
        /\ UNCHANGED <<cmd, stage, xfer, data, dma, reused>>
  /\ UNCHANGED <<outstanding, slabs, replies, thread, starved, leaked>>

-----------------------------------------------------------------------------
(* Callbacks of the DMA handler                                            *)

\* Channel c has done the first of its transfers, which is of kind k.
Done(c, k) == dma[c] # <<>> /\ Head(dma[c]).kind = k
First(c)   == Head(dma[c]).block
Pop(c)     == [dma EXCEPT ![c] = Tail(@)]

\* nvme_cmd_handler for a command served here.
HandleHere ==
  /\ Done("rx", "fetch")
  /\ LET b == First("rx")
         k == Kind[cmd[b]]
     IN  \/ /\ k = "none" \/ (k \in {"read", "write"} /\ cmd[b] \in Bad)
            /\ Return(b, Pop("rx"))
            /\ UNCHANGED <<xfer, data, prps, starved, leaked>>
         \/ /\ k \in {"read", "write"} /\ cmd[b] \notin Bad
            /\ data' = data
            /\ Transfer(b, [len |-> Pages[cmd[b]], buf |-> Disk, cb |-> "return",
                            dir |-> IF k = "read" THEN "tx" ELSE "rx"], Pop("rx"))
  /\ UNCHANGED <<outstanding, sq, cmd, pool, replies, thread, lost, reused>>

\* nvme_cmd_vendor, first half: commands that need a buffer get one, whichever
\* the pool gives.
Buffered(b) == Kind[cmd[b]] \in {"vendorIn", "vendorOut"}

VendorNoBuffer ==
  /\ Done("rx", "fetch")
  /\ Buffered(First("rx")) /\ pool = {}
  /\ At(First("rx"), "stuck")
  /\ lost' = lost \cup {cmd[First("rx")]}
  /\ dma' = Pop("rx")
  /\ UNCHANGED <<outstanding, sq, cmd, xfer, data, slabs, replies, thread, starved, leaked, reused>>

\* Mutant: the buffer is not recorded in the command.
VendorBufferUnrecorded(b) ==
  \/ /\ Buffered(b)
     /\ pool # {}
     /\ LET x == CHOOSE x \in pool : TRUE
        IN  pool' = pool \ {x} /\ data' = data
  \/ ~Buffered(b) /\ UNCHANGED <<pool, data>>

VendorBuffer(b) ==
  \/ /\ Buffered(b)
     /\ pool # {}
     /\ LET x == CHOOSE x \in pool : TRUE
        IN  pool' = pool \ {x} /\ data' = [data EXCEPT ![b] = x]
  \/ ~Buffered(b) /\ UNCHANGED <<pool, data>>

\* Second half: with no data to fetch the message is sent, ...
VendorSend ==
  /\ Done("rx", "fetch")
  /\ Kind[cmd[First("rx")]] \in {"vendor", "vendorOut"}
  /\ VendorBuffer(First("rx"))
  /\ Send(First("rx"), Pop("rx"))
  /\ UNCHANGED <<outstanding, sq, cmd, xfer, prps, replies, thread, starved, reused>>

\* ... else the data come first.  That the transfer was refused, for its PSDT,
\* goes unnoticed.
VendorTransfer ==
  /\ Done("rx", "fetch")
  /\ LET b == First("rx")
     IN  /\ Kind[cmd[b]] \in {"vendorIn", "vendorOdd"}
         /\ VendorBuffer(b)
         /\ \/ /\ cmd[b] \notin Bad
               /\ Transfer(b, [len |-> Pages[cmd[b]], buf |-> data'[b], cb |-> "vendor",
                               dir |-> "rx"], Pop("rx"))
               /\ UNCHANGED lost
            \/ /\ cmd[b] \in Bad
               /\ At(b, "stuck")
               /\ dma' = Pop("rx")
               /\ lost' = lost \cup {cmd[b]} /\ leaked' = leaked \cup Held(b)
               /\ UNCHANGED <<xfer, prps, starved>>
  /\ UNCHANGED <<outstanding, sq, cmd, replies, thread, reused>>

\* A chunk that is not the last of its command has no callback.
ChunkDone(c) ==
  /\ Done(c, "chunk") /\ ~Head(dma[c]).last
  /\ dma' = Pop(c)
  /\ UNCHANGED <<outstanding, sq, cmd, stage, xfer, data, slabs, replies, thread, history>>

\* Mutant: the buffer is freed after a transfer of data for the APU as well.
DataDoneFrees(c) ==
  /\ Done(c, "chunk") /\ Head(dma[c]).last
  /\ data' = data
  /\ LET b == First(c)
     IN  /\ pool' = pool \cup Held(b)
         /\ IF xfer[b].cb = "vendor"
              THEN Send(b, Pop(c))
              ELSE Return(b, Pop(c)) /\ UNCHANGED <<lost, leaked>>
  /\ UNCHANGED <<outstanding, sq, cmd, xfer, prps, replies, thread, starved, reused>>

\* nvme_cmd_return_cb, vendor_cb and rpmsg_cmd_return_cb.
DataDone(c) ==
  /\ Done(c, "chunk") /\ Head(dma[c]).last
  /\ data' = data
  /\ LET b == First(c)
     IN  \/ /\ xfer[b].cb = "vendor"
            /\ Send(b, Pop(c))
            /\ UNCHANGED pool
         \/ /\ xfer[b].cb # "vendor"
            /\ pool' = IF xfer[b].cb = "rpmsg" THEN pool \cup Held(b) ELSE pool
            /\ Return(b, Pop(c))
            /\ UNCHANGED <<lost, leaked>>
  /\ UNCHANGED <<outstanding, sq, cmd, xfer, prps, replies, thread, starved, reused>>

\* Mutant: no chunk of the list has the callback.
ListDoneSilent(c) ==
  /\ Done(c, "list")
  /\ LET b == First(c)
         x == xfer[b]
     IN  /\ dma' = [Pop(c) EXCEPT ![x.dir] = @ \o [n \in 1..x.len |-> Chunk(b, x, FALSE)]]
         /\ xfer' = [xfer EXCEPT ![b].len = 0]
  /\ prps' = prps + 1
  /\ UNCHANGED <<outstanding, sq, cmd, stage, data, pool, replies, thread, history>>

\* prp_cb: the rest of the chunks (of lists that name further lists, NvmePrp).
ListDone(c) ==
  /\ Done(c, "list")
  /\ LET b == First(c)
         x == xfer[b]
     IN  /\ dma' = [Pop(c) EXCEPT ![x.dir] = @ \o [n \in 1..x.len |-> Chunk(b, x, n = x.len)]]
         /\ xfer' = [xfer EXCEPT ![b].len = 0]
  /\ prps' = prps + 1
  /\ UNCHANGED <<outstanding, sq, cmd, stage, data, pool, replies, thread, history>>

\* The completion reaches the host, and cq_cb frees the block.
CqCb ==
  /\ Done("tx", "cq")
  /\ dma' = Pop("tx")
  /\ outstanding' = outstanding \ {Head(dma["tx"]).cmd}
  /\ At(First("tx"), "free")
  /\ UNCHANGED <<sq, cmd, xfer, data, slabs, replies, thread, history>>

-----------------------------------------------------------------------------
(* The APU answers, and the main thread                                    *)

\* A command with data for the host is answered with them, or without when
\* the APU could not map the buffer.
ApuReply(b) ==
  /\ stage[b] = "apu"
  /\ At(b, "replied")
  /\ \E id \in {"return"} \cup (IF Kind[cmd[b]] = "vendorOut" THEN {"return_data"} ELSE {}) :
       replies' = Append(replies, [id |-> id, block |-> b, buf |-> data[b],
                                   len |-> Pages[cmd[b]]])
  /\ UNCHANGED <<outstanding, sq, cmd, xfer, data, slabs, dma, thread, history>>

Receive(id) ==
  /\ thread.pc = "idle" /\ replies # <<>> /\ Head(replies).id = id
  /\ replies' = Tail(replies)

\* RPMSG_CMD_RETURN: the command is completed ...
ThreadReturn ==
  /\ Receive("return")
  /\ Return(Head(replies).block, dma)
  /\ thread' = [pc |-> "free", block |-> Head(replies).block]
  /\ UNCHANGED <<outstanding, sq, cmd, xfer, data, slabs, history>>

\* ... and then its buffer freed, if there is one.
ThreadFree ==
  /\ thread.pc = "free"
  /\ pool' = pool \cup ({data[thread.block]} \cap Buffer)
  /\ thread' = Idle
  /\ UNCHANGED <<outstanding, sq, cmd, stage, xfer, data, prps, dma, replies, history>>

\* RPMSG_CMD_RETURN_DATA, rpmsg_cmd_return_data: a wrong PSDT leaves the buffer.
ThreadBadPsdt ==
  /\ Receive("return_data")
  /\ cmd[Head(replies).block] \in Bad
  /\ Return(Head(replies).block, dma)
  /\ leaked' = leaked \cup ({data[Head(replies).block]} \cap Buffer)
  /\ UNCHANGED <<outstanding, sq, cmd, xfer, data, slabs, thread, lost, starved, reused>>

\* transfer_chunk for PRP1, up to where the DMA engine has it: from here on the
\* callback may run at any time.
ThreadFirstChunk ==
  /\ Receive("return_data")
  /\ LET m == Head(replies)
         x == [len |-> m.len, buf |-> m.buf, cb |-> "rpmsg", dir |-> "tx"]
     IN  /\ cmd[m.block] \notin Bad
         /\ xfer' = [xfer EXCEPT ![m.block] = x]
         /\ dma' = Put(dma, "tx", Chunk(m.block, x, x.len = 1))
         /\ At(m.block, "run")
         /\ thread' = [pc |-> "count", block |-> m.block]
  /\ UNCHANGED <<outstanding, sq, cmd, data, slabs, history>>

\* The rest of transfer_chunk, ...
ThreadCount ==
  /\ thread.pc \in {"count", "count2"}
  /\ xfer' = [xfer EXCEPT ![thread.block].len = (@ - 1) % Wrap]
  /\ thread' = IF thread.pc = "count" THEN [thread EXCEPT !.pc = "test"] ELSE Idle
  /\ UNCHANGED <<outstanding, sq, cmd, stage, data, slabs, dma, replies, history>>

\* ... and of transfer_data_with_prps: nothing remains, ...
ThreadOnePage ==
  /\ thread.pc = "test" /\ xfer[thread.block].len = 0
  /\ thread' = Idle
  /\ UNCHANGED <<outstanding, sq, cmd, stage, xfer, data, slabs, dma, replies, history>>

\* ... or the page in PRP2, ...
ThreadSecondChunk ==
  /\ thread.pc = "test" /\ xfer[thread.block].len = 1
  /\ dma' = Put(dma, xfer[thread.block].dir,
                Chunk(thread.block, xfer[thread.block], TRUE))
  /\ thread' = [thread EXCEPT !.pc = "count2"]
  /\ UNCHANGED <<outstanding, sq, cmd, stage, xfer, data, slabs, replies, history>>

\* ... or a list.
ThreadList ==
  /\ thread.pc = "test" /\ xfer[thread.block].len > 1
  /\ UNCHANGED <<data, xfer>>
  /\ ListOrReturn(thread.block, dma)
  /\ thread' = Idle
  /\ UNCHANGED <<outstanding, sq, cmd, pool, replies, lost, reused>>

-----------------------------------------------------------------------------
ChannelCallback(c) == ChunkDone(c) \/ DataDone(c) \/ ListDone(c)
RxCallback == \/ HandleHere \/ VendorNoBuffer \/ VendorSend \/ VendorTransfer
              \/ ChannelCallback("rx")
TxCallback == CqCb \/ ChannelCallback("tx")
Thread == \/ ThreadReturn \/ ThreadFree \/ ThreadBadPsdt \/ ThreadFirstChunk
          \/ ThreadCount \/ ThreadOnePage \/ ThreadSecondChunk \/ ThreadList

Next == \/ \E c \in Cmd : Submit(c)
        \/ TailHandler \/ RxCallback \/ TxCallback \/ Thread
        \/ \E b \in Block : ApuReply(b)

\* Doorbells are served, transfers end, the APU answers and the main thread gets
\* to run.
Fairness ==
  /\ WF_vars(TailHandler) /\ WF_vars(Thread)
  /\ WF_vars(RxCallback) /\ WF_vars(TxCallback)
  /\ \A b \in Block : WF_vars(ApuReply(b))

Spec == Init /\ [][Next]_vars /\ Fairness

-----------------------------------------------------------------------------
(* Properties                                                              *)

Transfers == [kind : {"fetch", "chunk", "list", "cq"}, block : Block, cmd : Cmd,
              buf : Buffer \cup {Null, Disk}, last : BOOLEAN]

StateTypeOK ==
  /\ outstanding \subseteq Cmd /\ sq \in Seq(Cmd)
  /\ cmd \in [Block -> Cmd \cup {NoCmd}]
  /\ stage \in [Block -> {"free", "run", "apu", "replied", "posted", "stuck"}]
  /\ xfer \in [Block -> [len : 0..(Wrap - 1), buf : Buffer \cup {Null, Disk},
                         cb : {"none", "return", "vendor", "rpmsg"}, dir : {"rx", "tx"}]]
  /\ data \in [Block -> Buffer \cup {Null}]
  /\ pool \subseteq Buffer /\ prps \in 0..PrpSlab
  /\ dma \in [{"rx", "tx"} -> Seq(Transfers)]
  /\ replies \in Seq([id : {"return", "return_data"}, block : Block,
                      buf : Buffer \cup {Null}, len : 1..3])
  /\ thread \in [pc : {"idle", "free", "count", "test", "count2"},
                 block : Block \cup {NoBlock}]
  /\ lost \subseteq Cmd /\ starved \subseteq Cmd /\ leaked \subseteq Buffer

TypeOK == StateTypeOK /\ reused \in BOOLEAN

Queued == {dma["rx"][n] : n \in 1..Len(dma["rx"])} \cup {dma["tx"][n] : n \in 1..Len(dma["tx"])}

\* The blocks whose command has yet to give back its buffer.
Holders ==
  {b \in Block : stage[b] \in {"run", "apu", "replied"}}
    \cup {b \in Block : thread = [pc |-> "free", block |-> b]}

\* A buffer of the pool belongs to one command at most and is free, held or
\* was left behind by one of the error paths that do: none is freed while a
\* transfer or the APU works on it, none twice, and no other path loses one.
BuffersAccounted ==
  /\ \A b1, b2 \in Holders : data[b1] = data[b2] /\ data[b1] # Null => b1 = b2
  /\ LET held == {data[b] : b \in Holders} \cap Buffer
     IN  /\ held \cap pool = {} /\ held \cap leaked = {} /\ pool \cap leaked = {}
         /\ held \cup pool \cup leaked = Buffer
  /\ \A t \in Queued : t.kind = "chunk" => t.buf \notin pool

\* Until the main thread uses a block that has been given to another command
\* (transfer_chunk after it queued the last chunk, or the free after nvme_cmd_return
\* in rpmsg_endpoint_cb), a completion entry is queued behind all of its command's
\* data: none of them is left on the other channel or behind it.  (After prp_slab ran
\* out it is not so: with an entry of it for every command of the host it does not.)
DataBeforeCompletion ==
  ~reused => \A n \in 1..Len(dma["tx"]) :
    LET c == dma["tx"][n].cmd
    IN  dma["tx"][n].kind = "cq" =>
          /\ \A k \in 1..Len(dma["rx"]) : dma["rx"][k].cmd # c
          /\ \A k \in 1..Len(dma["tx"]) : dma["tx"][k].cmd = c => k <= n

\* The lists that prp_slab lacks are on their way: each is given back, once.
PrpsAccounted ==
  prps + Cardinality({n \in 1..Len(dma["rx"]) : dma["rx"][n].kind = "list"}) = PrpSlab

\* Neither pool loses or doubles an entry, whatever fails and in whatever order: the
\* lists of prp_slab always, the buffers until the main thread uses a block that has
\* been given to another command (k_mem_pool_free then frees that one's buffer).
PoolsAccounted == TypeOK /\ PrpsAccounted /\ (~reused => BuffersAccounted)

\* Somebody goes on with the command of block b: a transfer whose callback is yet
\* to run, the APU, or the main thread.
GoesOn(b) ==
  \/ \E t \in Queued : t.block = b /\ t.last
  \/ stage[b] = "apu" \/ thread.block = b
  \/ \E k \in 1..Len(replies) : replies[k].block = b

\* A command the host waits for is still in its queue or has somebody who goes on
\* with it, whatever failed before, but for those that an error path of
\* nvme_tc_tail_handler, nvme_cmd_vendor or send_cmd drops; until the main thread uses
\* a block that has been given to another command.
NoneForgotten ==
  ~reused => \A c \in outstanding \ lost :
    \/ \E k \in 1..Len(sq) : sq[k] = c
    \/ \E b \in Block : cmd[b] = c /\ stage[b] # "free" /\ GoesOn(b)

\* With one block and one buffer more than the host has commands, and an entry of
\* prp_slab for each, it gets an answer to every command: no error path that drops
\* one is taken, and none that leaks until the next finds nothing left.  So it is
\* unless the main thread uses a block that has been given to another command.
EveryCommandEnds == \A c \in Cmd : c \in outstanding ~> (c \notin outstanding \/ reused)

\* The main thread goes on with the command whose answer it received: its block
\* has not been given to another in the meantime.
ThreadHasItsCommand ==
  thread.pc # "idle" =>
    \A n \in 1..Len(dma["rx"]) :
      dma["rx"][n].kind = "fetch" => dma["rx"][n].block # thread.block

\* As long as a chunk is queued it has its place in local memory: the RAM disk, or
\* the buffer that its command still holds.  A command whose opcode and length
\* disagree on whether there are data, as those of a firmware commit do, has no buffer
\* and is transferred to address 0, never into the buffer of another.  Until the main
\* thread uses a block that has been given to another command.
TransfersHaveBuffer ==
  ~reused => \A t \in Queued :
    t.kind = "chunk" =>
      IF Kind[t.cmd] = "vendorOdd" THEN t.buf = Null
      ELSE t.buf = Disk \/ (t.buf # Null /\ t.buf = data[t.block])
=============================================================================
