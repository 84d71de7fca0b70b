---------------------------- MODULE VtaDelegate -----------------------------
(***************************************************************************)
(* Element-wise additions of a TensorFlow Lite model on the VTA, from the  *)
(* delegate's Eval (vta-delegate.cpp) through VTAALUOp::aluAdd             *)
(* (vta-delegate-ops.cpp), the command queue (VtaQueue), and the device    *)
(* as sim_tlpp.cc and sim_driver.cc describe it.                           *)
(*   aluAdd cuts the vectors into chunks that fit one half of the          *)
(* accumulator memory, and gives the halves to NUM_THREADS "virtual        *)
(* threads" in turn, so that the chunk in one half can be stored while     *)
(* the next one is loaded and added in the other half.  Only the tokens    *)
(* keep a load from overwriting what has not been stored yet.              *)
(***************************************************************************)
EXTENDS VtaQueue, VtaMemory

CONSTANTS
  NUM_THREADS,
  MaxXfer,      \* VTA_MAX_XFER, bytes of a queue's buffer
  BLOCK,        \* VTA_BATCH * VTA_BLOCK_OUT, the lanes of a vector
  ACC_DEPTH,    \* VTA_ACC_BUFF_DEPTH, vectors in the accumulator memory
  Models,       \* the models: each a sequence of additions, see OpType
  MaxEval,      \* the model is evaluated at most so often
  In1, In2,     \* the elements of the inputs, as functions on the naturals
  Quant1, Quant2, QuantOut  \* quantisation of inputs and output

\* Elements and types of the two inputs and elements of the output.
OpType == [n1 : Nat \ {0}, n2 : Nat \ {0}, no : Nat \ {0},
           type : {"int8", "int32", "uint8"}]

ASSUME DelegateAssumption ==
  /\ NUM_THREADS \in Nat \ {0} /\ BLOCK \in Nat \ {0}
  /\ ACC_DEPTH \in Nat /\ ACC_DEPTH >= 2 * NUM_THREADS
  /\ \A m \in Models : m \in Seq(OpType) /\ m # <<>>
  /\ MaxXfer \in Nat \ {0} /\ MaxEval \in Nat

VARIABLES
  model,          \* chosen once
  evals,          \* calls of Eval so far
  op,             \* the addition under way, 0: none, Eval is not running
  mode,           \* what its thread does: "issue" commands, "run" the device ...
  calls,          \* the calls of the runtime aluAdd has still to make
  queue,          \* the command queue
  memory,         \* the device's memory ...
  bufs,           \* ... and the blocks of aluAdd's three buffers
  queueMem,       \* the command queue's own two blocks, <<>>: there is no queue
  dram,           \* the elements of the three buffers
  acc, uop,       \* the device's accumulator and micro-op memories
  uopDram,        \* the buffer its micro-ops are loaded from
  insnq,          \* per stage, which instructions of the queue it has still to run
  tokens,         \* [from, to]: tokens sent and not yet consumed
  done,           \* FINISH was the last instruction to run
  output,         \* the elements Eval has left in the output tensor
  leaked          \* history: blocks of additions that gave up without freeing

host   == <<evals, op, mode, calls, queue, memory, bufs, queueMem, output, leaked>>
device == <<acc, uop, insnq, tokens, done, dram>>
vars   == <<model, host, device, uopDram>>

-----------------------------------------------------------------------------
(* Numbers.                                                                *)

MinOf(x, y) == IF x < y THEN x ELSE y
MaxOf(x, y) == IF x > y THEN x ELSE y
CeilDiv(x, y) == (x + y - 1) \div y
Signed(x, bits) == ((x + 2^(bits - 1)) % 2^bits) - 2^(bits - 1)
ShiftRight(x, y) == IF y >= 0 THEN x \div 2^y ELSE x * 2^(-y)

\* simulateRealValue: an 8-bit input as the value that is added.
simulateRealValue(val, q) ==
  LET valshift == Signed((q.offset + val) * 128, 16)
      overflow == valshift = q.multiplier /\ valshift = -32768
      raw      == valshift * q.multiplier
      scaled   == (raw + (IF raw >= 0 THEN 2^14 ELSE 1 - 2^14)) \div 2^15
      saturated == IF overflow THEN 32767 ELSE Signed(scaled, 16)
  IN  ShiftRight(saturated, -q.shift)

\* What aluAdd copies to the device.
Converted(type, val, q) == IF type = "int8" THEN simulateRealValue(val, q) ELSE val

-----------------------------------------------------------------------------
(* aluAdd as the sequence of its calls of the runtime.                     *)

maxelements == ((ACC_DEPTH \div NUM_THREADS) \div 2) * BLOCK

\* Mutant: the threads share one part of the memory.
TileShared(n) ==
  [j \in Nat |-> [vectorshift |-> j * maxelements, threadid |-> 0, sramshift |-> 0]]

\* The loops over vectorshift and threadid: where the j-th chunk starts in the
\* vectors and in the accumulator memory.
Tile(n) ==
  LET length(t) == MinOf(maxelements, n - t.vectorshift)
      tile[j \in Nat] ==
        IF j = 0 THEN [vectorshift |-> 0, threadid |-> 0, sramshift |-> 0]
        ELSE LET t == tile[j - 1] IN
             [vectorshift |-> t.vectorshift + length(t),
              threadid    |-> (t.threadid + 1) % NUM_THREADS,
              sramshift   |-> IF t.threadid = NUM_THREADS - 1 THEN 0
                              ELSE t.sramshift + 2 * CeilDiv(length(t), BLOCK)]
  IN  tile

Tiles(n) == [j \in 1..CeilDiv(n, maxelements) |-> Tile(n)[j - 1]]

Push(from, to) == [f |-> "DepPush", from |-> from, to |-> to]
Pop(from, to)  == [f |-> "DepPop", from |-> from, to |-> to]

\* x_pad_after is given in elements, though the call counts vectors.
LoadCall(buf, t, length, padding, sram) ==
  [f |-> "Load", body |-> [buf |-> buf, offset |-> CeilDiv(t.vectorshift, BLOCK),
                           pad |-> padding, sram |-> sram],
   x_size |-> CeilDiv(length, BLOCK)]

\* A kernel of one micro-op in a loop over the vectors of the chunk.  Each is
\* recorded anew, so that no two are the same.
AluCall(t, vectors, nr, opcode, src, use_imm, imm) ==
  [f |-> "Alu",
   kernel |-> [id |-> <<t.vectorshift, nr>>, seq |-> <<[dst |-> t.sramshift, src |-> src]>>,
               loop |-> [extent |-> vectors, dst_factor |-> 1, src_factor |-> 1],
               opcode |-> opcode, use_imm |-> use_imm, imm |-> imm]]

\* Add, then requantise and clamp to 8 bits.
AluCalls(t, vectors) ==
  LET second == t.sramshift + vectors IN
  <<AluCall(t, vectors, 1, "ADD", second, FALSE, 0),
    AluCall(t, vectors, 2, "MUL", 0, TRUE, QuantOut.multiplier),
    AluCall(t, vectors, 3, "SHR", second, TRUE, 15 - QuantOut.shift),
    AluCall(t, vectors, 4, "ADD", second, TRUE, QuantOut.offset),
    AluCall(t, vectors, 5, "MIN", second, TRUE, 127),
    AluCall(t, vectors, 6, "MAX", second, TRUE, -128)>>

\* Mutant: the sum is never announced to the store stage.
ChunkCallsNoPush(t, n) ==
  <<Pop(kComputeStage, kLoadStage), Push(kLoadStage, kComputeStage),
    Pop(kStoreStage, kComputeStage), Pop(kLoadStage, kComputeStage),
    Pop(kComputeStage, kStoreStage), Push(kStoreStage, kComputeStage),
    Push(kComputeStage, kLoadStage)>>

ChunkCalls(t, n) ==
  LET length  == MinOf(maxelements, n - t.vectorshift)
      padding == IF length % BLOCK = 0 THEN 0 ELSE BLOCK - (length % BLOCK)
      vectors == CeilDiv(length + padding, BLOCK)
  IN  <<Pop(kComputeStage, kLoadStage),
        LoadCall(1, t, length, padding, t.sramshift),
        LoadCall(2, t, length, padding, t.sramshift + vectors),
        Push(kLoadStage, kComputeStage),
        Pop(kStoreStage, kComputeStage),
        Pop(kLoadStage, kComputeStage)>>
      \o AluCalls(t, vectors) \o
      <<Push(kComputeStage, kStoreStage),
        Pop(kComputeStage, kStoreStage),
        [f |-> "Store", x_size |-> CeilDiv(length, BLOCK),
         body |-> [sram |-> t.sramshift, offset |-> CeilDiv(t.vectorshift, BLOCK)]],
        Push(kStoreStage, kComputeStage),
        Push(kComputeStage, kLoadStage)>>

\* The chunks one after the other; each makes as many calls as the first.
AllChunks(n) ==
  LET each == Len(ChunkCalls(Tiles(n)[1], n))
  IN  [i \in 1..(CeilDiv(n, maxelements) * each) |->
        ChunkCalls(Tiles(n)[((i - 1) \div each) + 1], n)[((i - 1) % each) + 1]]

Opening == <<Push(kComputeStage, kLoadStage), Push(kStoreStage, kComputeStage)>>

\* Mutant: the two last pops are missing.
ProgramKeepsTokens(n) == Opening \o AllChunks(n)

Program(n) ==
  Opening \o AllChunks(n) \o <<Pop(kComputeStage, kLoadStage), Pop(kStoreStage, kComputeStage)>>

Call(f) == [f |-> f]
BufferAlloc(size) == [f |-> "Alloc", size |-> size]

aluAdd(n) ==
  <<Call("Handle"), BufferAlloc(4 * n), BufferAlloc(4 * n), BufferAlloc(n), Call("CopyIn")>>
  \o Program(n) \o
  <<Call("Synchronize"), Call("CopyOut"), Call("Free"), Call("Free"), Call("Free"),
    Call("Shutdown")>>

-----------------------------------------------------------------------------
(* The device: one instruction of one stage at a time.                     *)

Channels == {<<kLoadStage, kComputeStage>>, <<kComputeStage, kLoadStage>>,
             <<kStoreStage, kComputeStage>>, <<kComputeStage, kStoreStage>>}

\* GetCoreType
CoreOf(insn) ==
  CASE insn.opcode = "LOAD"  -> IF insn.memory_type = "INP" THEN kLoadStage ELSE kComputeStage
    [] insn.opcode = "STORE" -> kStoreStage
    [] OTHER                 -> kComputeStage

\* SRAM::Load on the accumulators: the vectors, then pad vectors of zeros.
LoadEnd(insn) == insn.body.sram + insn.x_size + insn.body.pad
LoadAcc(insn) ==
  LET b == insn.body
      vector(x) == [k \in 1..BLOCK |-> dram[b.buf][(b.offset + x) * BLOCK + k - 1]]
      zero      == [k \in 1..BLOCK |-> 0]
  IN  [a \in 0..(ACC_DEPTH - 1) |->
        CASE a \in b.sram..(b.sram + insn.x_size - 1) -> vector(a - b.sram)
          [] a \in (b.sram + insn.x_size)..(LoadEnd(insn) - 1) -> zero
          [] OTHER -> acc[a]]

\* SRAM::Load on the micro-op memory.
LoadUop(insn) ==
  [a \in 0..(kMaxNumUop - 1) |->
    IF a \in insn.body.sram..(insn.body.sram + insn.x_size - 1)
    THEN uopDram[insn.body.offset + a - insn.body.sram + 1] ELSE uop[a]]

\* RunALU_, without the wrap-around of its 32-bit integers: a sum of two converted
\* 8-bit inputs times a 16-bit multiplier does not reach it.
AluFunc(opcode, x, y) ==
  CASE opcode = "ADD" -> x + y
    [] opcode = "MUL" -> x * y
    [] opcode = "SHR" -> ShiftRight(x, y)
    [] opcode = "MIN" -> MinOf(x, y)
    [] opcode = "MAX" -> MaxOf(x, y)

\* RunALULoop: the loop over the vectors, in it that over the micro-ops.
RunALU(insn) ==
  LET b == insn.body
      uops == b.uop_end - b.uop_bgn
      step(a, i) ==
        LET x == i \div uops
            u == uop[b.uop_bgn + (i % uops)]
            dst == u.dst + x * b.loop.dst_factor
            src == u.src + x * b.loop.src_factor
        IN  [a EXCEPT ![dst] = [k \in 1..BLOCK |->
               AluFunc(b.alu_opcode, a[dst][k], IF b.use_imm THEN b.imm ELSE a[src][k])]]
  IN  FoldLeft(step, acc, [i \in 1..(b.loop.extent * uops) |-> i - 1])

\* SRAM::TruncStore
StoreOut(insn) ==
  LET b == insn.body
      first == b.offset * BLOCK
  IN  [e \in DOMAIN dram[3] |->
        IF e \in first..(first + insn.x_size * BLOCK - 1)
        THEN Signed(acc[b.sram + (e - first) \div BLOCK][((e - first) % BLOCK) + 1], 8)
        ELSE dram[3][e]]

\* InsnDependencyCheck: the tokens an instruction of a stage waits for and sends.
Waits(s, insn) ==
  {c \in Channels : c[2] = s /\ ((insn.popPrev /\ c[1] < s) \/ (insn.popNext /\ c[1] > s))}
Sends(s, insn) ==
  {c \in Channels : c[1] = s /\ ((insn.pushPrev /\ c[2] < s) \/ (insn.pushNext /\ c[2] > s))}

\* CoreRun, one turn of its loop: the stage's next instruction, once the tokens
\* it waits for are there.
CoreRun(s) ==
  /\ mode = "run" /\ insnq[s] # {}
  /\ LET next == Min(insnq[s])
         insn == queue.insns[next]
         real == insn.x_size > 0
         isLoad(m) == insn.opcode = "LOAD" /\ insn.memory_type = m /\ real
     IN  /\ \A c \in Waits(s, insn) : tokens[c] > 0
         /\ IF isLoad("ACC") /\ LoadEnd(insn) > ACC_DEPTH
            THEN mode' = "aborted" /\ UNCHANGED device
            ELSE /\ acc' = CASE isLoad("ACC") -> LoadAcc(insn)
                             [] insn.opcode = "ALU" -> RunALU(insn)
                             [] OTHER -> acc
                 /\ uop' = IF isLoad("UOP") THEN LoadUop(insn) ELSE uop
                 /\ dram' = IF insn.opcode = "STORE" /\ real
                            THEN [dram EXCEPT ![3] = StoreOut(insn)] ELSE dram
                 /\ tokens' = [c \in Channels |->
                      tokens[c] - (IF c \in Waits(s, insn) THEN 1 ELSE 0)
                                + (IF c \in Sends(s, insn) THEN 1 ELSE 0)]
                 /\ done' = (insn.opcode = "FINISH")
                 /\ insnq' = [insnq EXCEPT ![s] = @ \ {next}]
                 /\ UNCHANGED mode
  /\ UNCHANGED <<model, evals, op, calls, queue, memory, bufs, queueMem,
                 output, leaked, uopDram>>

-----------------------------------------------------------------------------
(* The thread that evaluates the model.                                    *)

Init ==
  /\ model \in Models
  /\ evals = 0 /\ op = 0 /\ mode = "idle" /\ calls = <<>>
  /\ queue = EmptyQueue /\ memory = EmptyMemory /\ bufs = <<>> /\ queueMem = <<>>
  /\ dram = [b \in 1..3 |-> <<>>] /\ output = <<>> /\ leaked = {}
  /\ acc = [a \in 0..(ACC_DEPTH - 1) |-> [k \in 1..BLOCK |-> 0]]
  /\ uop = [a \in 0..(kMaxNumUop - 1) |-> [dst |-> 0, src |-> 0]]
  /\ uopDram = <<>> /\ insnq = [s \in Stages |-> {}]
  /\ tokens = [c \in Channels |-> 0] /\ done = FALSE

\* Eval begins with the first operation.
Eval ==
  /\ mode = "idle" /\ evals < MaxEval
  /\ evals' = evals + 1 /\ op' = 1 /\ mode' = "start"
  /\ UNCHANGED <<model, calls, queue, memory, bufs, queueMem, output,
                 leaked, device, uopDram>>

\* The operands disagree in their sizes, or in their types, which takes the same way
\* out: aluAdd gives up at once, and Eval with it.
RejectSizes ==
  /\ mode = "start"
  /\ LET o == model[op] IN o.n1 # o.n2 \/ o.n1 # o.no
  /\ op' = 0 /\ mode' = "idle"
  /\ UNCHANGED <<model, evals, calls, queue, memory, bufs, queueMem, output,
                 leaked, device, uopDram>>

StartAdd ==
  /\ mode = "start"
  /\ LET o == model[op] IN o.n1 = o.n2 /\ o.n1 = o.no
  /\ calls' = aluAdd(model[op].n1) /\ mode' = "issue"
  /\ UNCHANGED <<model, evals, op, queue, memory, bufs, queueMem, output, leaked,
                 device, uopDram>>

\* The thread's next call is f.
Calls(f) == mode = "issue" /\ calls # <<>> /\ Head(calls).f = f

\* VTATLSCommandHandle: a queue is made, with its two buffers, if there is none.
GetHandle ==
  /\ Calls("Handle")
  /\ IF queueMem # <<>> THEN UNCHANGED <<memory, queueMem>>
     ELSE LET m == Alloc(memory, MaxXfer) IN
          /\ queueMem' = <<AllocBlock(memory, MaxXfer), AllocBlock(m, MaxXfer)>>
          /\ memory' = Alloc(m, MaxXfer)
  /\ calls' = Tail(calls)
  /\ UNCHANGED <<model, evals, op, mode, queue, bufs, output, leaked, device, uopDram>>

VTABufferAlloc ==
  /\ Calls("Alloc")
  /\ bufs' = Append(bufs, AllocBlock(memory, Head(calls).size))
  /\ memory' = Alloc(memory, Head(calls).size)
  /\ calls' = Tail(calls)
  /\ UNCHANGED <<model, evals, op, mode, queue, queueMem, output, leaked, device, uopDram>>

\* Buffer b after the copies of addition o: the operands, converted, and a cleared
\* output; behind them what the block held.
Filled(b, o) ==
  [e \in 0..(CeilDiv(o.n1, BLOCK) * BLOCK - 1) |->
     CASE e >= o.n1 -> 77
       [] OTHER -> CASE b = 1 -> Converted(o.type, In1[e], Quant1)
                     [] b = 2 -> Converted(o.type, In2[e], Quant2)
                     [] b = 3 -> 0]

CopyIn ==
  /\ Calls("CopyIn") /\ model[op].type # "uint8"
  /\ dram' = [b \in 1..3 |-> Filled(b, model[op])]
  /\ calls' = Tail(calls)
  /\ UNCHANGED <<model, evals, op, mode, queue, memory, bufs, queueMem, output, leaked,
                 acc, uop, uopDram, insnq, tokens, done>>

\* A type aluAdd cannot convert: it gives up, and Eval with it, and what it took
\* stays taken.
RejectType ==
  /\ Calls("CopyIn") /\ model[op].type = "uint8"
  /\ leaked' = leaked \cup {bufs[i] : i \in DOMAIN bufs}
  /\ bufs' = <<>> /\ calls' = <<>> /\ op' = 0 /\ mode' = "idle"
  /\ UNCHANGED <<model, evals, queue, memory, queueMem, output, device, uopDram>>

\* The queue after a call of the runtime.
After(q, c) ==
  CASE c.f = "DepPush" -> DepPush(q, c.from, c.to)
    [] c.f = "DepPop"  -> DepPop(q, c.from, c.to)
    [] c.f = "Load"    -> Create(q, kComputeStage, Insn("LOAD", "ACC", c.x_size, c.body))
    [] c.f = "Store"   -> Create(q, kStoreStage, Insn("STORE", "OUT", c.x_size, c.body))
    [] c.f = "Alu"     -> PushALUUop(q, c.kernel)

\* A call that only adds to the queue.
Issue ==
  /\ \E f \in {"DepPush", "DepPop", "Load", "Alu", "Store"} : Calls(f)
  /\ queue' \in {After(queue, Head(calls))} /\ calls' = Tail(calls)
  /\ UNCHANGED <<model, evals, op, mode, memory, bufs, queueMem, output,
                 leaked, device, uopDram>>

\* The micro-ops and the instructions go to the device, and the thread waits
\* for it.
Synchronize ==
  /\ Calls("Synchronize")
  /\ \E q \in {Closed(queue)} :
       /\ mode' = IF PendingPop(q) THEN "aborted" ELSE "run"
       /\ queue' = q
       /\ uopDram' = UopBuffer(q)
       /\ insnq' = [s \in Stages |-> {i \in DOMAIN q.insns : CoreOf(q.insns[i]) = s}]
  /\ calls' = Tail(calls) /\ done' = FALSE
  /\ UNCHANGED <<model, evals, op, memory, bufs, queueMem, output, leaked,
                 acc, uop, dram, tokens>>

\* The device has run FINISH: Clear, which keeps the tokens, and Reset.
Finished ==
  /\ mode = "run" /\ done
  /\ mode' = "issue" /\ done' = FALSE
  /\ insnq' = [s \in Stages |-> {}]
  /\ queue' = [EmptyQueue EXCEPT !.prev = queue.prev, !.next = queue.next]
  /\ UNCHANGED <<model, evals, op, calls, memory, bufs, queueMem, output,
                 leaked, acc, uop, dram, tokens, uopDram>>

\* The result is copied to the output tensor.
CopyOut ==
  /\ Calls("CopyOut")
  /\ output' = [e \in 0..(model[op].no - 1) |-> dram[3][e]]
  /\ calls' = Tail(calls)
  /\ UNCHANGED <<model, evals, op, mode, queue, memory, bufs, queueMem, leaked, device, uopDram>>

\* Mutant: always the same buffer is freed.
VTABufferFreeFirst ==
  /\ Calls("Free")
  /\ memory' = Free(memory, Head(bufs)) /\ bufs' = IF Len(calls) = 2 THEN <<>> ELSE bufs
  /\ calls' = Tail(calls)
  /\ UNCHANGED <<model, evals, op, mode, queue, queueMem, output, leaked, device, uopDram>>

VTABufferFree ==
  /\ Calls("Free")
  /\ memory' = Free(memory, Head(bufs)) /\ bufs' = Tail(bufs)
  /\ calls' = Tail(calls)
  /\ UNCHANGED <<model, evals, op, mode, queue, queueMem, output, leaked, device, uopDram>>

\* VTARuntimeShutdown: the queue goes with its buffers, that of the instructions before
\* that of the micro-ops.  aluAdd returns and Eval goes on with the next operation.
EndAdd ==
  /\ Calls("Shutdown")
  /\ memory' = Free(Free(memory, queueMem[2]), queueMem[1])
  /\ queueMem' = <<>> /\ queue' = EmptyQueue /\ calls' = <<>>
  /\ op' = IF op < Len(model) THEN op + 1 ELSE 0
  /\ mode' = IF op < Len(model) THEN "start" ELSE "idle"
  /\ UNCHANGED <<model, evals, bufs, output, leaked, device, uopDram>>

Thread ==
  \/ RejectSizes \/ StartAdd \/ GetHandle \/ VTABufferAlloc \/ CopyIn \/ RejectType
  \/ Issue \/ Synchronize \/ Finished \/ CopyOut \/ VTABufferFree \/ EndAdd
Next == Eval \/ Thread \/ \E s \in Stages : CoreRun(s)

Spec ==
  /\ Init /\ [][Next]_vars
  /\ WF_vars(Thread) /\ \A s \in Stages : WF_vars(CoreRun(s))

-----------------------------------------------------------------------------
(* Properties.                                                             *)

TypeOK ==
  /\ model \in Models
  /\ evals \in 0..MaxEval /\ op \in 0..Len(model)
  /\ mode \in {"idle", "start", "issue", "run", "aborted"}
  /\ DOMAIN insnq = Stages /\ tokens \in [Channels -> Nat]
  /\ done \in BOOLEAN /\ leaked \subseteq memory.live

\* What the i-th element of an addition should be.
Sum(type, e) ==
  LET sum == Converted(type, In1[e], Quant1) + Converted(type, In2[e], Quant2)
      scaled == ShiftRight(sum * QuantOut.multiplier, 15 - QuantOut.shift)
  IN  MaxOf(-128, MinOf(127, scaled + QuantOut.offset))

\* When an addition has returned, every element of the output tensor is the
\* requantised sum of its operands, in whatever order the three stages ran:
\* no chunk was overwritten by the loads of a later one before it was stored.
AddsElements ==
  [][Calls("Shutdown") => \A e \in DOMAIN output : output[e] = Sum(model[op].type, e)]_vars

\* FINISH is the last instruction to run: when Synchronize returns no load or
\* store is still under way.
FinishLast == done => \A s \in Stages : insnq[s] = {}

\* An addition consumes every token it sent: the device's token queues are not
\* cleared between runs, and one left behind would let a later addition start
\* a load or a store too early.
TokensDrained == mode \in {"idle", "start"} => \A c \in Channels : tokens[c] = 0

\* Nothing of an addition is left on the device when it has ended.
DeviceAtRest == TypeOK /\ FinishLast /\ TokensDrained

\* The allocator never hands out a block that is in use, and between
\* evaluations only additions of an unsupported type have kept their buffers.
BuffersReturned ==
  /\ Sound(memory)
  /\ mode = "idle" => memory.live = leaked \cup ToSet(queueMem)

\* The padding of the last chunk, which is given in elements and used in vectors, runs
\* past the accumulator memory when its second operand is loaded.
PaddingOverruns(n) ==
  LET t == Tiles(n)[CeilDiv(n, maxelements)]
      length == n - t.vectorshift
  IN  t.sramshift + 2 * CeilDiv(length, BLOCK) + ((-length) % BLOCK) > ACC_DEPTH

\* Every evaluation returns: the stages never all wait for each other's tokens, and
\* no CHECK of the runtime ends the process: no pop is left pending at FINISH, and no
\* load runs past the accumulator memory but those whose padding makes it.
EvalReturns ==
  mode # "idle" ~> \/ mode = "idle"
                   \/ mode = "aborted" /\ PaddingOverruns(model[op].n1)
=============================================================================
