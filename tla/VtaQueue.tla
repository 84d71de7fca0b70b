------------------------------ MODULE VtaQueue ------------------------------
(***************************************************************************)
(* The command queue of the VTA runtime (vta_runtime.cc): the instruction  *)
(* queue with its dependency tokens and the micro-op cache, as operators   *)
(* from a queue to the queue after a call.  The device has three stages    *)
(* (load, compute, store) that run their instructions in order and each    *)
(* beside the others; an instruction may wait for a token of a neighbour   *)
(* stage (pop) before it runs and send one (push) after it has run.        *)
(*   The runtime does not make an instruction of every pop: a pop stays    *)
(* pending until the next instruction of its stage takes it along, or      *)
(* until a no-op must carry it.  A push is put on the last instruction of  *)
(* the queue if that one is of the right stage.                            *)
(***************************************************************************)
EXTENDS Integers, Sequences, SequencesExt

CONSTANT kMaxNumUop  \* micro-ops the device's micro-op memory holds

ASSUME QueueAssumption == kMaxNumUop \in Nat \ {0}

\* PipelineStage; a smaller number is the "previous" stage.
kNoneStage    == 0
kLoadStage    == 1
kComputeStage == 2
kStoreStage   == 3
Stages == kLoadStage..kStoreStage

\* The memories a load may fill on the compute stage.
GetMemPipelineStage(memory_type) ==
  IF memory_type \in {"ACC", "UOP"} THEN kComputeStage ELSE kLoadStage

\* The stage DepPush takes an instruction to be of: a load of size 0 (the no-op
\* of two stages) is of none, a no-op of the store stage still is of that stage.
GetPipelineStage(insn) ==
  CASE insn.opcode = "ALU"   -> kComputeStage
    [] insn.opcode = "LOAD"  -> IF insn.x_size = 0 THEN kNoneStage
                                ELSE GetMemPipelineStage(insn.memory_type)
    [] insn.opcode = "STORE" -> kStoreStage
    [] insn.opcode = "FINISH" -> kNoneStage

-----------------------------------------------------------------------------
(* The instruction queue.                                                  *)

\* An instruction without tokens; body holds what its execution needs.
Insn(opcode, memory_type, x_size, body) ==
  [opcode |-> opcode, memory_type |-> memory_type, x_size |-> x_size,
   body |-> body, popPrev |-> FALSE, popNext |-> FALSE,
   pushPrev |-> FALSE, pushNext |-> FALSE]

NoBody == [sram |-> 0]

EmptyQueue ==
  [insns |-> <<>>,
   prev |-> [s \in Stages |-> FALSE], next |-> [s \in Stages |-> FALSE],
   cache |-> <<>>, cacheIdx |-> 0, sramBegin |-> 0, sramEnd |-> 0]

PushNoop(q, stage, pushPrev, pushNext, popPrev, popNext) ==
  LET noop == Insn(IF stage = kStoreStage THEN "STORE" ELSE "LOAD",
                   IF stage = kLoadStage THEN "INP" ELSE "UOP", 0, NoBody)
  IN  [q EXCEPT !.insns = Append(@, [noop EXCEPT
         !.pushPrev = pushPrev, !.pushNext = pushNext,
         !.popPrev = popPrev, !.popNext = popNext])]

NoPending(q, stage) ==
  [q EXCEPT !.prev[stage] = FALSE, !.next[stage] = FALSE]

CommitPendingPop(q, stage) ==
  IF q.prev[stage] \/ q.next[stage]
  THEN NoPending(PushNoop(q, stage, FALSE, FALSE, q.prev[stage], q.next[stage]), stage)
  ELSE q

PendingPop(q) == \E s \in Stages : q.prev[s] \/ q.next[s]

\* The pop is of the stage "to"; a second pop of the same kind forces the first
\* into a no-op.
DepPop(q, from, to) ==
  IF from < to
  THEN [(IF q.prev[to] THEN CommitPendingPop(q, to) ELSE q) EXCEPT !.prev[to] = TRUE]
  ELSE [(IF q.next[to] THEN CommitPendingPop(q, to) ELSE q) EXCEPT !.next[to] = TRUE]

\* The push is of the stage "from".
DepPush(q, from, to) ==
  LET r == CommitPendingPop(q, from)
      n == Len(r.insns)
      Carries == n > 0 /\ GetPipelineStage(r.insns[n]) = from
  IN  CASE from < to /\ Carries /\ ~r.insns[n].pushNext ->
             [r EXCEPT !.insns[n].pushNext = TRUE]
        [] from > to /\ Carries /\ ~r.insns[n].pushPrev ->
             [r EXCEPT !.insns[n].pushPrev = TRUE]
        [] OTHER -> PushNoop(r, from, from > to, from < to, FALSE, FALSE)

\* A new instruction takes the pending pops of its stage along.
Create(q, stage, insn) ==
  NoPending([q EXCEPT !.insns = Append(@, [insn EXCEPT
               !.popPrev = q.prev[stage], !.popNext = q.next[stage]])], stage)

-----------------------------------------------------------------------------
(* The micro-op cache: which kernels are in the micro-op memory, and where. *)

Sizes(cache, n) == FoldLeft(LAMBDA sum, e : sum + Len(e.kernel.seq), 0, SubSeq(cache, 1, n))

Cached(q, kernel) ==
  \E i \in DOMAIN q.cache : q.cache[i].kernel = kernel /\ q.cache[i].begin # q.cache[i].end

\* UopQueue::Push.  A kernel that does not fit behind the last one goes to the
\* start of the memory, and the kernels it overlaps leave the cache.
UopPush(q, kernel) ==
  LET num_op == Len(kernel.seq)
      wraps  == q.sramEnd + num_op > kMaxNumUop
      end    == IF wraps THEN num_op ELSE q.sramEnd + num_op
      evictBegin == IF wraps THEN 0 ELSE q.cacheIdx
      stays  == {i \in (evictBegin + 1)..Len(q.cache) : q.cache[i].begin >= end}
      idx    == IF stays = {} THEN Len(q.cache)
                ELSE (CHOOSE i \in stays : \A j \in stays : i <= j) - 1
      entry  == [kernel |-> kernel, begin |-> IF wraps THEN 0 ELSE q.sramEnd, end |-> end]
  IN  IF Cached(q, kernel) THEN q
      ELSE [q EXCEPT
             !.sramBegin = IF wraps THEN 0 ELSE @, !.sramEnd = end,
             !.cache = SubSeq(@, 1, evictBegin) \o <<entry>> \o SubSeq(@, idx + 1, Len(@)),
             !.cacheIdx = evictBegin + 1]

\* UopQueue::FlushUopLoad: the load of what was pushed since the last one.  The
\* place in the buffer the device reads is where the kernels before it end.
UopLoad(q) ==
  Insn("LOAD", "UOP", q.sramEnd - q.sramBegin,
       [sram |-> q.sramBegin, offset |-> Sizes(q.cache, q.cacheIdx - 1)])

\* UopQueue::ReadBarrier: that buffer, filled when the instructions are run.
UopBuffer(q) == FlattenSeq([i \in DOMAIN q.cache |-> q.cache[i].kernel.seq])

\* CommandQueue::PushALUUop: load the kernel's micro-ops if they are not there,
\* then run them in the kernel's loop.
PushALUUop(q, kernel) ==
  LET u == UopPush(q, kernel)
      l == IF u.sramBegin # u.sramEnd
           THEN [Create(u, kComputeStage, UopLoad(u)) EXCEPT !.sramBegin = u.sramEnd]
           ELSE u
      e == CHOOSE e \in ToSet(l.cache) : e.kernel = kernel
  IN  Create(l, kComputeStage,
             Insn("ALU", "UOP", 1,
                  [uop_bgn |-> e.begin, uop_end |-> e.end, loop |-> kernel.loop,
                   alu_opcode |-> kernel.opcode, use_imm |-> kernel.use_imm,
                   imm |-> kernel.imm]))

-----------------------------------------------------------------------------
(* Synchronize: the instructions that close the stream.                    *)

\* Tokens from the last store and the last load, for which FINISH waits.
JoinStages(q) ==
  LET a == DepPush(q, kStoreStage, kComputeStage)
      b == DepPush(a, kLoadStage, kComputeStage)
      c == DepPop(b, kStoreStage, kComputeStage)
      d == DepPop(c, kLoadStage, kComputeStage)
  IN  CommitPendingPop(d, kComputeStage)

\* The stream as Synchronize hands it to the device.
Closed(q) == Create(JoinStages(q), kComputeStage, Insn("FINISH", "UOP", 1, NoBody))
=============================================================================
