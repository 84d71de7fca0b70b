----------------------------- MODULE NvmeAdmin ------------------------------
(***************************************************************************)
(* The controller as a whole: its registers (nvme_tc_cc_handler and the    *)
(* handlers of AQA, ASQ and ACQ), the administration queue, the commands   *)
(* on it (cmds/queues.c, set_features.c, identify.c, get_log.c) and one    *)
(* I/O queue that is created, used, deleted and created again.             *)
(*                                                                         *)
(* The host is an NVMe driver: it sets the registers up, enables, waits    *)
(* for CSTS, submits, resets and shuts down.  Its register writes wait in  *)
(* a FIFO (IRQ_STA, IRQ_DAT), and a handler reads the register when it     *)
(* gets to the write.                                                      *)
(*                                                                         *)
(* Handlers do not interrupt each other; the DMA engine works meanwhile,   *)
(* so a handler that clears a buffer and fills it again is two steps.      *)
(* Left to NvmeQueuePair and NvmeCmd: the slabs, and doorbells one by one. *)
(* The fields that the code only ever writes (sq_valid, cq_valid, sq_pc,   *)
(* cq_pc, cq_ien) are left out.                                            *)
(***************************************************************************)
EXTENDS Integers, Sequences, FiniteSets

CONSTANTS
  AdmSize, IoSize,   \* the sizes of the queues that the host sets up
  MaxAdm,            \* the administration commands it has outstanding at a time
  MaxResets,         \* how often it resets the controller
  DataOp,            \* the responses of identify (by CNS) and get_log that it uses
  Workload           \* the sequences of commands that it may have to submit

ASSUME SizesAssumption ==
  /\ AdmSize \in Nat \ {0, 1} /\ IoSize \in Nat \ {0, 1}
  /\ MaxAdm \in 1..(AdmSize - 1)

QUEUES == 2          \* tc.h: the entries of the queue arrays
Adm == 0
Queue == 0..(QUEUES - 1)
Size == [q \in Queue |-> IF q = Adm THEN AdmSize ELSE IoSize]

QueueOp == {"create_sq", "create_cq", "delete_sq", "delete_cq"}
Op == DataOp \cup QueueOp \cup {"set_features", "other", "io"}
Cid == 1..MaxAdm

ASSUME WorkloadAssumption ==
  /\ MaxResets \in Nat /\ \A w \in Workload : w \in Seq(Op)
  /\ DataOp \cap (QueueOp \cup {"set_features", "other", "io", "none", "zero"}) = {}

\* A submission queue entry; what memory that no command was written to holds.
Command == [cid : Cid, op : Op, qid : 0..(QUEUES + 1)]
Junk == [cid |-> 1, op |-> "other", qid |-> 0]

\* An address of two words, as in ASQ and ACQ: the queues of the host are at Base.
Base == <<1, 1>>
NoBase == <<0, 0>>

VARIABLES
  reg,       \* the registers that the host writes
  csts,      \* CSTS
  irq,       \* the writes that nvme_tc_irq_handler has yet to handle
  enabled,
  sq, cq,    \* the queue arrays of nvme_tc_priv
  beyond,    \* an entry beyond the arrays was written
  cpu,       \* what the RPU is doing: "idle", "tc" or "fill", a response ...
  filling,   \* ... for this command
  resp,      \* the static response buffers of identify and get_log
  rx, tx,    \* the transfers queued on the two channels
  txDone,    \* 1: the first of tx ended, callback pending
  host,      \* the driver
  sqMem, cqMem

device == <<csts, enabled, sq, cq, beyond, cpu, filling, resp, rx, tx, txDone>>
memory == <<sqMem, cqMem>>
vars   == <<reg, csts, irq, enabled, sq, cq, beyond, cpu, filling, resp, rx, tx, txDone,
            host, sqMem, cqMem>>

NewSq == [base |-> NoBase, size |-> 0, head |-> 0, tail |-> 0]
NewCq == [base |-> NoBase, size |-> 0, head |-> 0, tail |-> 0, phase |-> 0]

EmptySq(q) == [i \in 0..(Size[q] - 1) |-> Junk]
EmptyCq(q) == [i \in 0..(Size[q] - 1) |-> [cid |-> 0, res |-> 0, p |-> 0]]

\* The driver with no queue: for each the commands it waits for, where it writes the
\* next, and the completion it expects.  has: whether the I/O queues exist.
NewHost(script, resets) ==
  [pc |-> "off", todo |-> <<>>, script |-> script, resets |-> resets,
   granted |-> 0, has |-> {}, out |-> [q \in Queue |-> {}],
   got |-> [c \in Cid |-> "none"], tail |-> [q \in Queue |-> 0],
   head |-> [q \in Queue |-> 0], phase |-> [q \in Queue |-> 1]]

DOORBELL_TAIL(q) == IF q = Adm THEN "ADM_TAIL" ELSE "IO_TAIL"
DOORBELL_HEAD(q) == IF q = Adm THEN "ADM_HEAD" ELSE "IO_HEAD"
Register == {"CC", "AQA", "ASQ_0", "ASQ_1", "ACQ_0", "ACQ_1",
             "ADM_TAIL", "ADM_HEAD", "IO_TAIL", "IO_HEAD"}

Init ==
  /\ reg = [r \in Register |->
              IF r = "CC" THEN [en |-> 0, shn |-> 0] ELSE 0]
  /\ csts = [rdy |-> 0, shst |-> 0] /\ irq = <<>> /\ enabled = FALSE
  /\ sq = [q \in Queue |-> NewSq] /\ cq = [q \in Queue |-> NewCq]
  /\ beyond = FALSE /\ cpu = "idle" /\ filling = Junk
  /\ resp = [o \in DataOp |-> "zero"]
  /\ rx = <<>> /\ tx = <<>> /\ txDone = 0
  /\ \E w \in Workload : host = NewHost(w, 0)
  /\ sqMem = [q \in Queue |-> EmptySq(q)] /\ cqMem = [q \in Queue |-> EmptyCq(q)]

-----------------------------------------------------------------------------
(* The host's driver: controller                                           *)

Writes(r, v) == [r |-> r, v |-> v]

\* The administration queue is as after power-on, and nothing of an earlier life is
\* under way.
Fresh ==
  /\ sq[Adm].head = 0 /\ cq[Adm].head = 0 /\ cq[Adm].tail = 0 /\ cq[Adm].phase = 0
  /\ rx = <<>> /\ tx = <<>> /\ cpu # "fill"

\* It sets up the administration queue and enables the controller, ...
\* An assumption: the driver enables a controller again only if it is Fresh.  Nothing
\* in nvme_tc_cc_handler sees to that.
HostEnables ==
  /\ host.pc = "off" /\ Fresh
  /\ host' = [host EXCEPT !.pc = "enabling", !.todo =
       <<Writes("AQA", AdmSize - 1), Writes("ASQ_0", Base[1]), Writes("ASQ_1", Base[2]),
         Writes("ACQ_0", Base[1]), Writes("ACQ_1", Base[2]),
         Writes("CC", [en |-> 1, shn |-> 0])>>]
  /\ UNCHANGED <<reg, irq, device, memory>>

\* ... one register at a time; the hardware notes each write.
HostWrites ==
  /\ host.todo # <<>>
  /\ LET w == Head(host.todo)
     IN  reg' = [reg EXCEPT ![w.r] = w.v] /\ irq' = Append(irq, w.r)
  /\ host' = [host EXCEPT !.todo = Tail(@)]
  /\ UNCHANGED <<device, memory>>

\* What the driver waits for after each change of CC, and what it is then.
Awaits ==
  \/ host.pc = "enabling"  /\ csts.rdy = 1  /\ host' = [host EXCEPT !.pc = "live"]
  \/ host.pc = "stopping"  /\ csts.shst = 2 /\ host' = [host EXCEPT !.pc = "down"]
  \/ host.pc = "disabling" /\ csts.rdy = 0  /\ host' = NewHost(host.script, host.resets)

\* A driver without queues clears their memory before it uses them again.
HostSees ==
  /\ host.todo = <<>>
  /\ Awaits
  /\ cqMem' = IF host'.pc = "off" THEN [q \in Queue |-> EmptyCq(q)] ELSE cqMem
  /\ UNCHANGED <<reg, irq, device, sqMem>>

\* A reset comes at any time, commands under way or not; a shutdown when all are
\* done, and once: the status that says it is complete is never cleared, and a driver
\* that finds it set goes on before the controller has noticed anything.
HostResets ==
  /\ host.pc \in {"live", "down"} /\ host.resets < MaxResets
  /\ host' = [host EXCEPT !.pc = "disabling", !.resets = @ + 1,
                          !.todo = <<Writes("CC", [en |-> 0, shn |-> 0])>>]
  /\ UNCHANGED <<reg, irq, device, memory>>

HostShutsDown ==
  /\ host.pc = "live" /\ csts.shst = 0 /\ \A q \in Queue : host.out[q] = {}
  /\ host' = [host EXCEPT !.pc = "stopping",
                          !.todo = <<Writes("CC", [en |-> 1, shn |-> 1])>>]
  /\ UNCHANGED <<reg, irq, device, memory>>

-----------------------------------------------------------------------------
(* The host's driver: commands                                             *)

\* Responses are asked for at any time; of the other commands one at a time.
Idle == host.out[Adm] \subseteq [cid : Cid, op : DataOp, qid : {0}]

\* The order in which a driver uses the I/O queue: it asks how many there may be,
\* creates the completion queue, then the submission queue, and deletes them the
\* other way round, when no command is left on them.
MayAsk(op) ==
  \/ op \in DataOp
  \/ Idle /\ op \in {"set_features", "other"}
  \/ Idle /\ host.granted = 0 /\ op \in QueueOp
  \/ Idle /\ op = "create_cq" /\ host.has = {}
  \/ Idle /\ op = "create_sq" /\ host.has = {"cq"}
  \/ Idle /\ op = "delete_sq" /\ host.has = {"cq", "sq"} /\ host.out[1] = {}
  \/ Idle /\ op = "delete_cq" /\ host.has = {"cq"}

\* The queue that it names is the last it was granted; if that is none, one that no
\* controller has.
Qid(op) == IF op \notin QueueOp THEN 0
           ELSE IF host.granted = 0 THEN QUEUES + 1 ELSE host.granted

\* Identifiers are given out from the lowest on.
Unused(q, i) == i \notin {d.cid : d \in host.out[q]}

\* The command is written and its doorbell rung.  The driver forgets a submission
\* queue when it asks to delete it, and clears a completion queue it asks for.
Submit(q, c) ==
  /\ host.script # <<>> /\ Head(host.script) = c.op
  /\ host.pc = "live" /\ host.todo = <<>> /\ Cardinality(host.out[q]) < MaxAdm
  /\ c.cid = CHOOSE i \in Cid : Unused(q, i) /\ \A j \in 1..(i - 1) : ~Unused(q, j)
  /\ LET tail == (host.tail[q] + 1) % Size[q]
     IN  /\ sqMem' = [sqMem EXCEPT ![q][host.tail[q]] = c]
         /\ host' = [host EXCEPT !.script = Tail(@), !.out[q] = @ \cup {c},
                       !.tail[q] = tail,
                       !.got[c.cid] = IF q = Adm THEN "none" ELSE @,
                       !.has = IF c.op = "delete_sq" /\ c.qid = 1 THEN @ \ {"sq"} ELSE @]
         /\ reg' = [reg EXCEPT ![DOORBELL_TAIL(q)] = tail]
         /\ irq' = Append(irq, DOORBELL_TAIL(q))
  /\ cqMem' = IF c.op = "create_cq" /\ c.qid = 1
                THEN [cqMem EXCEPT ![1] = EmptyCq(1)] ELSE cqMem
  /\ UNCHANGED <<device>>

SubmitAdm(i, op) ==
  MayAsk(op) /\ Submit(Adm, [cid |-> i, op |-> op, qid |-> Qid(op)])

SubmitIo ==
  /\ host.has = {"cq", "sq"} /\ Cardinality(host.out[1]) < IoSize - 1
  /\ \E i \in Cid : Submit(1, [cid |-> i, op |-> "io", qid |-> 0])

\* The driver finds a completion, by its phase, and acknowledges it.  What answered
\* commands leave in memory is not told apart: Junk, and entries of command 0.
Visible(q) == cqMem[q][host.head[q]].p = host.phase[q]

\* What it makes of it, for the command c that the entry names.
Learn(h, c, e) ==
  CASE c.op = "set_features"                -> [h EXCEPT !.granted = e.res + 1]
    [] c.op = "create_cq" /\ c.qid < QUEUES ->
         [h EXCEPT !.has = @ \cup {"cq"}, !.head[1] = 0, !.phase[1] = 1]
    [] c.op = "create_sq" /\ c.qid < QUEUES -> [h EXCEPT !.has = @ \cup {"sq"}, !.tail[1] = 0]
    [] c.op = "delete_cq" /\ c.qid < QUEUES -> [h EXCEPT !.has = {}]
    [] OTHER                                -> h

Consume(q) ==
  /\ host.pc = "live" /\ host.todo = <<>>
  /\ q = Adm \/ "cq" \in host.has
  /\ Visible(q)
  /\ LET e    == cqMem[q][host.head[q]]
         cs   == {c \in host.out[q] : c.cid = e.cid}
         head == (host.head[q] + 1) % Size[q]
         h    == [host EXCEPT !.out[q] = @ \ cs, !.head[q] = head,
                              !.phase[q] = IF head = 0 THEN 1 - @ ELSE @,
                              !.got = [i \in Cid |-> IF q = Adm /\ i = e.cid THEN "none"
                                                     ELSE @[i]]]
     IN  /\ host' = IF cs = {} THEN h ELSE Learn(h, CHOOSE c \in cs : TRUE, e)
         /\ reg' = [reg EXCEPT ![DOORBELL_HEAD(q)] = head]
         /\ irq' = Append(irq, DOORBELL_HEAD(q))
         /\ cqMem' = [cqMem EXCEPT ![q][host.head[q]] = [cid |-> 0, res |-> 0, p |-> e.p]]
         /\ sqMem' = [sqMem EXCEPT ![q] =
                        [i \in DOMAIN @ |-> IF @[i] \in cs THEN Junk ELSE @[i]]]
  /\ UNCHANGED device

-----------------------------------------------------------------------------
(* nvme_tc_irq_handler                                                     *)

Next1(i, n) == (i + 1) % n

\* Mutant: ready stays when the controller is disabled.
CcHandlerKeepsReady ==
  /\ LET cc == reg["CC"]
     IN  /\ csts' = [rdy  |-> IF cc.en = 1 THEN 1 ELSE csts.rdy,
                     shst |-> IF cc.shn # 0 THEN 2 ELSE csts.shst]
         /\ enabled' = (cc.en = 1)
  /\ UNCHANGED <<sq, cq, rx>>

\* nvme_tc_cc_handler.  The shutdown status is set and never cleared; heads, tails
\* and phases of the queues stay as they are, and so does what is under way.
CcHandler ==
  /\ LET cc == reg["CC"]
     IN  /\ csts' = [rdy  |-> IF cc.en = 1 THEN 1 ELSE IF enabled THEN 0 ELSE csts.rdy,
                     shst |-> IF cc.shn # 0 THEN 2 ELSE csts.shst]
         /\ enabled' = (cc.en = 1)
  /\ UNCHANGED <<sq, cq, rx>>

AqaHandler ==
  /\ sq' = [sq EXCEPT ![Adm].size = reg["AQA"] + 1]
  /\ cq' = [cq EXCEPT ![Adm].size = reg["AQA"] + 1]
  /\ UNCHANGED <<csts, enabled, rx>>

\* Mutant: the base is taken with the first of its two words.
AsqHandlerEarly(r) ==
  /\ sq' = [sq EXCEPT ![Adm].base = IF r = "ASQ_0" THEN <<reg["ASQ_0"], reg["ASQ_1"]>> ELSE @]
  /\ UNCHANGED <<csts, enabled, cq, rx>>

\* The base is taken with the second word.
AsqHandler(r) ==
  /\ sq' = [sq EXCEPT ![Adm].base = IF r = "ASQ_1" THEN <<reg["ASQ_0"], reg["ASQ_1"]>> ELSE @]
  /\ UNCHANGED <<csts, enabled, cq, rx>>

AcqHandler(r) ==
  /\ cq' = [cq EXCEPT ![Adm].base = IF r = "ACQ_1" THEN <<reg["ACQ_0"], reg["ACQ_1"]>> ELSE @]
  /\ UNCHANGED <<csts, enabled, sq, rx>>

\* The slots of queue q from its head up to the doorbell.
Pending(q) == (reg[DOORBELL_TAIL(q)] - sq[q].head) % sq[q].size

Fetch(q, k) == [qid |-> q, base |-> sq[q].base, slot |-> (sq[q].head + k - 1) % sq[q].size]

\* nvme_tc_tail_handler: a fetch for each command up to the doorbell.
TailHandler(q) ==
  /\ rx' = rx \o [k \in 1..Pending(q) |-> Fetch(q, k)]
  /\ sq' = [sq EXCEPT ![q].tail = reg[DOORBELL_TAIL(q)], ![q].head = reg[DOORBELL_TAIL(q)]]
  /\ UNCHANGED <<csts, enabled, cq>>

HeadHandler(q) ==
  /\ cq' = [cq EXCEPT ![q].head = reg[DOORBELL_HEAD(q)]]
  /\ UNCHANGED <<csts, enabled, sq, rx>>

\* One write after the other, until none is left.
Serve ==
  /\ cpu \in {"idle", "tc"} /\ irq # <<>>
  /\ irq' = Tail(irq)
  /\ cpu' = IF Tail(irq) = <<>> THEN "idle" ELSE "tc"
  /\ LET r == Head(irq)
     IN  \/ r = "CC" /\ CcHandler
         \/ r = "AQA" /\ AqaHandler
         \/ r \in {"ASQ_0", "ASQ_1"} /\ AsqHandler(r)
         \/ r \in {"ACQ_0", "ACQ_1"} /\ AcqHandler(r)
         \/ \E q \in Queue : r = DOORBELL_TAIL(q) /\ TailHandler(q)
         \/ \E q \in Queue : r = DOORBELL_HEAD(q) /\ HeadHandler(q)
  /\ UNCHANGED <<reg, beyond, filling, resp, tx, txDone, host, memory>>

-----------------------------------------------------------------------------
(* Commands, in the callbacks of the DMA engine                            *)

\* nvme_cmd_return: queues are those after the command took effect, t is what the
\* channel holds.  A full completion queue drops the entry.
Return(c, q, qs, res, t) ==
  LET next  == Next1(qs[q].tail, qs[q].size)
      phase == IF qs[q].tail = 0 THEN 1 - qs[q].phase ELSE qs[q].phase
  IN  \/ /\ qs[q].head # next
         /\ cq' = [qs EXCEPT ![q].tail = next, ![q].phase = phase]
         /\ tx' = Append(t, [kind |-> "cq", qid |-> q, base |-> qs[q].base,
                             slot |-> qs[q].tail, cid |-> c.cid, res |-> res,
                             p |-> phase, op |-> c.op])
      \/ /\ qs[q].head = next
         /\ cq' = qs /\ tx' = t

\* The entry that a fetch reads.
Entry(f) == IF f.base = Base THEN sqMem[f.qid][f.slot] ELSE Junk

\* number_of_queues grants one I/O queue, and reports numbers from 0 on.
queues == 1

\* Mutant: the number itself is reported.
ResultOne(c) == IF c.op = "set_features" THEN queues ELSE 0

Result(c) == IF c.op = "set_features" THEN queues - 1 ELSE 0

Refused(c) == c.qid = 0 \/ c.qid > QUEUES

\* Mutants: a queue that is created again goes on where it was.
CreateSqKeeps(c) == [sq EXCEPT ![c.qid].base = Base, ![c.qid].size = IoSize]
CreateCqKeeps(c) ==
  [cq EXCEPT ![c.qid].base = Base, ![c.qid].size = IoSize,
             ![c.qid].head = 0, ![c.qid].tail = 0]

CreateSq(c) == [sq EXCEPT ![c.qid] = [base |-> Base, size |-> IoSize, head |-> 0, tail |-> 0]]
CreateCq(c) ==
  [cq EXCEPT ![c.qid] = [base |-> Base, size |-> IoSize, head |-> 0, tail |-> 0, phase |-> 0]]

\* nvme_cmd_handler for a command without data.  Queue identifiers are refused
\* without an error; QUEUES itself is not, and is beyond the arrays.  The deletion of
\* a queue changes nothing that is ever read.
HandleCommand ==
  /\ cpu = "idle" /\ rx # <<>>
  /\ rx' = Tail(rx)
  /\ LET q == Head(rx).qid
         c == Entry(Head(rx))
         accepted == c.op \in QueueOp /\ ~Refused(c)
         inside   == accepted /\ c.qid < QUEUES
     IN  /\ c.op \notin DataOp
         /\ beyond' = (beyond \/ (accepted /\ ~inside))
         /\ sq' = IF inside /\ c.op = "create_sq" THEN CreateSq(c) ELSE sq
         /\ Return(c, q, IF inside /\ c.op = "create_cq" THEN CreateCq(c) ELSE cq,
                   Result(c), tx)
  /\ UNCHANGED <<reg, csts, irq, enabled, cpu, filling, resp, txDone, host, memory>>

\* Mutant: one buffer for all responses.
RespBufShared(op) == CHOOSE o \in DataOp : TRUE

\* The static buffer of each response.
RespBuf(op) == op

\* identify and get_log: the buffer is cleared ...
ClearResponse ==
  /\ cpu = "idle" /\ rx # <<>>
  /\ LET c == Entry(Head(rx))
     IN  /\ c.op \in DataOp
         /\ resp' = [resp EXCEPT ![RespBuf(c.op)] = "zero"]
         /\ cpu' = "fill" /\ filling' = c
  /\ rx' = Tail(rx)
  /\ UNCHANGED <<reg, csts, irq, enabled, sq, cq, beyond, tx, txDone, host, memory>>

\* Mutant: the command is completed here, and again when the data are there.
FillAndReturn ==
  /\ cpu = "fill"
  /\ resp' = [resp EXCEPT ![RespBuf(filling.op)] = filling.op]
  /\ Return(filling, Adm, cq, 0,
            Append(tx, [kind |-> "data", qid |-> Adm, base |-> Base, slot |-> 0,
                        cid |-> filling.cid, res |-> 0, p |-> 0, op |-> filling.op]))
  /\ cpu' = "idle" /\ filling' = Junk
  /\ UNCHANGED <<reg, csts, irq, enabled, sq, beyond, rx, txDone, host, memory>>

\* ... and filled, and its transfer queued.
FillResponse ==
  /\ cpu = "fill"
  /\ resp' = [resp EXCEPT ![RespBuf(filling.op)] = filling.op]
  /\ tx' = Append(tx, [kind |-> "data", qid |-> Adm, base |-> Base, slot |-> 0,
                       cid |-> filling.cid, res |-> 0, p |-> 0, op |-> filling.op])
  /\ cpu' = "idle" /\ filling' = Junk
  /\ UNCHANGED <<reg, csts, irq, enabled, sq, cq, beyond, rx, txDone, host, memory>>

\* The engine copies what the buffer holds now; the callback, nvme_cmd_return_cb,
\* follows when the RPU gets to it.
DataMove ==
  /\ tx # <<>> /\ Head(tx).kind = "data" /\ txDone = 0
  /\ txDone' = 1
  /\ host' = [host EXCEPT !.got[Head(tx).cid] = resp[RespBuf(Head(tx).op)]]
  /\ UNCHANGED <<reg, csts, irq, enabled, sq, cq, beyond, cpu, filling, resp, rx, tx, memory>>

DataCallback ==
  /\ cpu = "idle" /\ txDone = 1
  /\ txDone' = 0
  /\ Return([cid |-> Head(tx).cid, op |-> Head(tx).op], Adm, cq, 0, Tail(tx))
  /\ UNCHANGED <<reg, csts, irq, enabled, sq, beyond, cpu, filling, resp, rx, host, memory>>

\* The engine writes a completion entry; that the host is interrupted and the block
\* freed, in cq_cb, changes nothing here.
CqMove ==
  /\ tx # <<>> /\ Head(tx).kind = "cq"
  /\ LET t == Head(tx)
     IN  cqMem' = IF t.base = Base
                    THEN [cqMem EXCEPT ![t.qid][t.slot] =
                            [cid |-> t.cid, res |-> t.res, p |-> t.p]]
                    ELSE cqMem
  /\ tx' = Tail(tx)
  /\ UNCHANGED <<reg, csts, irq, enabled, sq, cq, beyond, cpu, filling, resp, rx, txDone,
                 host, sqMem>>

-----------------------------------------------------------------------------
HostControl == HostEnables \/ HostWrites \/ HostSees \/ HostResets \/ HostShutsDown
HostSubmits == SubmitIo \/ \E i \in Cid : \E op \in Op \ {"io"} : SubmitAdm(i, op)
Callback    == HandleCommand \/ ClearResponse \/ DataCallback

Next == \/ HostControl \/ HostSubmits \/ \E q \in Queue : Consume(q)
        \/ Serve \/ Callback \/ FillResponse \/ DataMove \/ CqMove

\* Interrupts are taken, transfers end, and the driver goes on with what it began; it
\* need not submit, reset or shut down.  Callbacks wait while the TC handler runs.
Fairness ==
  /\ WF_vars(HostWrites) /\ WF_vars(HostSees) /\ WF_vars(\E q \in Queue : Consume(q))
  /\ WF_vars(Serve) /\ WF_vars(FillResponse) /\ WF_vars(DataMove \/ CqMove)
  /\ SF_vars(HandleCommand \/ ClearResponse) /\ SF_vars(DataCallback)

Spec == Init /\ [][Next]_vars /\ Fairness

-----------------------------------------------------------------------------
(* Properties                                                              *)

TypeOK ==
  /\ DOMAIN reg = Register
  /\ csts \in [rdy : {0, 1}, shst : {0, 2}] /\ enabled \in BOOLEAN
  /\ \A n \in 1..Len(irq) : irq[n] \in DOMAIN reg
  /\ \A q \in Queue :
       /\ sq[q].size \in {0, Size[q]} /\ cq[q].size \in {0, Size[q]}
       /\ {sq[q].head, sq[q].tail, cq[q].head, cq[q].tail} \subseteq 0..(Size[q] - 1)
       /\ cq[q].phase \in {0, 1}
  /\ cpu \in {"idle", "tc", "fill"} /\ filling \in Command
  /\ resp \in [DataOp -> DataOp \cup {"zero"}]
  /\ \A n \in 1..Len(rx) : rx[n].qid \in Queue /\ rx[n].slot \in 0..(Size[rx[n].qid] - 1)
  /\ \A n \in 1..Len(tx) : tx[n].qid \in Queue /\ tx[n].slot \in 0..(Size[tx[n].qid] - 1)
  /\ txDone \in {0, 1}
  /\ host.pc \in {"off", "enabling", "live", "stopping", "down", "disabling"}
  /\ \A q \in Queue : host.out[q] \subseteq Command

\* A driver that sees CSTS.RDY has a controller that works on its queues: the writes
\* to AQA, ASQ and ACQ took effect before, whole, though each is handled on its own.
ReadyMeansConfigured ==
  host.pc = "live" =>
    /\ sq[Adm].base = Base /\ sq[Adm].size = AdmSize
    /\ cq[Adm].base = Base /\ cq[Adm].size = AdmSize

\* What the controller runs is what the driver waits for, each once: on the
\* administration queue and on an I/O queue however often it was deleted and created
\* again.  rx has the commands that were taken from a queue and not yet handled.
\* (After a reset it is not so: see HostEnables.)
RunsOwnCommands ==
  host.pc = "live" =>
    \A m, n \in 1..Len(rx) :
      /\ Entry(rx[m]) \in host.out[rx[m].qid]
      /\ rx[m].qid = rx[n].qid /\ Entry(rx[m]) = Entry(rx[n]) => m = n

\* A completion that the driver takes for new is one: that of a command it waits for,
\* behind the command's data.
CompletionsAreNew ==
  host.pc = "live" =>
    \A q \in Queue :
      Visible(q) /\ (q = Adm \/ "cq" \in host.has) =>
        \E c \in host.out[q] :
          /\ c.cid = cqMem[q][host.head[q]].cid
          /\ c.op \in DataOp => host.got[c.cid] # "none"

\* The driver gets the response that it asked for.  A handler clears a static buffer
\* that the engine may be reading: a command gets zeros only if another of its kind
\* is outstanding.
ResponsesIntact ==
  host.pc = "live" =>
    \A c \in host.out[Adm] :
      c.op \in DataOp =>
        \/ host.got[c.cid] \in {"none", c.op}
        \/ host.got[c.cid] = "zero" /\ \E d \in host.out[Adm] : d # c /\ d.op = c.op

\* A driver that keeps to the number of queues it is granted never makes the
\* controller write beyond its queue arrays, though the commands that create and
\* delete queues let an identifier through that is; and the indices stay in the queues.
ArraysRespected == TypeOK /\ ~beyond

\* The driver gets an answer to every command, unless it resets the controller.
CommandsAnswered ==
  \A q \in Queue : \A i \in Cid :
    (\E c \in host.out[q] : c.cid = i) ~>
      ~\E c \in host.out[q] : c.cid = i

\* Enabling, disabling and shutting down come to an end, whatever is under way.
HandshakesEnd ==
  host.pc \in {"enabling", "disabling", "stopping"} ~> host.pc \in {"off", "live", "down"}
=============================================================================
