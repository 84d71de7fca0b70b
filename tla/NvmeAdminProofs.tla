-------------------------- MODULE NvmeAdminProofs ---------------------------
(***************************************************************************)
(* Proofs about the controller as a whole, for queues of every size, any   *)
(* number of resets and every sequence of commands.                        *)
(*                                                                         *)
(* First the registers (IInv): a driver that sees the controller ready has *)
(* one that works on its queues.  Then the queues (QInv): each completion  *)
(* queue is a ring that holds the completions that are owed, under way or  *)
(* in memory, and nothing else that the driver would take for new; each    *)
(* submission queue has a window of commands that wait to be run; and a    *)
(* command is in one place at a time: unfetched, fetched, its response     *)
(* being filled or moved, its completion posted.                           *)
(***************************************************************************)
EXTENDS NvmeAdmin, FiniteSetTheorems, SequenceTheorems, WellFoundedInduction, TLAPS

-----------------------------------------------------------------------------
(* The inductive invariant                                                 *)

\* The writes that enable the controller, in their order; the other two to CC.
Setup ==
  <<Writes("AQA", AdmSize - 1), Writes("ASQ_0", Base[1]), Writes("ASQ_1", Base[2]),
    Writes("ACQ_0", Base[1]), Writes("ACQ_1", Base[2]), Writes("CC", [en |-> 1, shn |-> 0])>>
Shutdown == Writes("CC", [en |-> 1, shn |-> 1])
Disable  == Writes("CC", [en |-> 0, shn |-> 0])
AllWrites == {Setup[i] : i \in 1..6} \cup {Shutdown, Disable}

Doorbells == {"ADM_TAIL", "ADM_HEAD", "IO_TAIL", "IO_HEAD"}

\* The driver has still to make the writes of Setup from k on.
ToWrite(k) == Len(host.todo) = 6 - k /\ \A i \in 1..(6 - k) : host.todo[i] = Setup[k + i]

\* The controller has still to handle doorbells, then the writes s + 1 to k of Setup.
ToServe(s, k) ==
  /\ Len(irq) >= k - s
  /\ \A i \in 1..Len(irq) :
       IF i <= Len(irq) - (k - s) THEN irq[i] \in Doorbells
       ELSE irq[i] = Setup[k + i - Len(irq)].r

\* What the first k writes left in the registers ...
Written(k) == \A i \in 1..5 : i <= k => reg[Setup[i].r] = Setup[i].v

\* ... and the first s in the queues.
Configured(s) ==
  /\ s >= 1 => sq[Adm].size = AdmSize /\ cq[Adm].size = AdmSize
  /\ s >= 3 => sq[Adm].base = Base
  /\ s >= 5 => cq[Adm].base = Base

\* CC.EN, and CSTS.RDY with the firmware's own flag.
Says(en, rdy) ==
  /\ reg["CC"].en = en /\ csts.rdy = rdy /\ enabled = (rdy = 1)

\* The states of the handshakes; in each, which writes are yet to be made and handled.
Off      == host.pc = "off" /\ host.todo = <<>> /\ ToServe(6, 6) /\ Says(0, 0)
Enabling ==
  /\ host.pc = "enabling"
  /\ \E k \in 0..6 : \E s \in 0..k :
       /\ ToWrite(k) /\ ToServe(s, k) /\ Written(k) /\ Configured(s)
       /\ Says(IF k = 6 THEN 1 ELSE 0, IF s = 6 THEN 1 ELSE 0)
Live     ==
  /\ host.pc = "live" /\ host.todo = <<>> /\ ToServe(6, 6) /\ Configured(6) /\ Says(1, 1)
Stopping ==
  /\ host.pc = "stopping" /\ Says(1, 1)
  /\ \/ host.todo = <<Shutdown>> /\ ToServe(6, 6) /\ csts.shst = 0
     \/ host.todo = <<>> /\ ToServe(5, 6) /\ csts.shst = 0
     \/ host.todo = <<>> /\ ToServe(6, 6)
Down     == host.pc = "down" /\ host.todo = <<>> /\ ToServe(6, 6) /\ Says(1, 1)
Disabling ==
  /\ host.pc = "disabling"
  /\ \/ host.todo = <<Disable>> /\ ToServe(6, 6) /\ Says(1, 1)
     \/ host.todo = <<>> /\ ToServe(5, 6) /\ Says(0, 1)
     \/ host.todo = <<>> /\ ToServe(6, 6) /\ Says(0, 0)

\* What the variables are made of.
SqFields   == {"base", "size", "head", "tail"}
CqFields   == SqFields \cup {"phase"}
HostFields == {"pc", "todo", "script", "resets", "granted", "has", "out", "got", "tail",
               "head", "phase"}

Shapes ==
  /\ DOMAIN reg = Register /\ irq \in Seq(Register)
  /\ DOMAIN host = HostFields /\ host.todo \in Seq(AllWrites)
  /\ DOMAIN csts = {"rdy", "shst"}
  /\ DOMAIN sq = Queue /\ DOMAIN sq[Adm] = SqFields
  /\ DOMAIN cq = Queue /\ DOMAIN cq[Adm] = CqFields

IInv == Shapes /\ (Off \/ Enabling \/ Live \/ Stopping \/ Down \/ Disabling)

-----------------------------------------------------------------------------
(* Sequences                                                               *)

\* The head and the tail of a sequence that is not empty.
LEMMA HeadTail ==
  ASSUME NEW S, NEW s \in Seq(S), s # <<>>
  PROVE  /\ Len(s) \in Nat \ {0} /\ Head(s) = s[1] /\ Head(s) \in S
         /\ Tail(s) \in Seq(S) /\ Len(Tail(s)) = Len(s) - 1
         /\ \A j \in 1..(Len(s) - 1) : Tail(s)[j] = s[j + 1]
<1>1. Len(s) \in Nat \ {0}
  BY EmptySeq
<1> QED
  BY <1>1

\* The writes of Setup, one by one.
LEMMA SetupIs ==
  /\ Setup[1].r = "AQA" /\ Setup[1].v = AdmSize - 1
  /\ Setup[2].r = "ASQ_0" /\ Setup[2].v = 1 /\ Setup[3].r = "ASQ_1" /\ Setup[3].v = 1
  /\ Setup[4].r = "ACQ_0" /\ Setup[4].v = 1 /\ Setup[5].r = "ACQ_1" /\ Setup[5].v = 1
  /\ Setup[6].r = "CC" /\ Setup[6].v.en = 1
  /\ Shutdown.r = "CC" /\ Shutdown.v.en = 1 /\ Disable.r = "CC" /\ Disable.v.en = 0
BY DEF Setup, Shutdown, Disable, Writes, Base

LEMMA WritesName == \A w \in AllWrites : w.r \in Register
<1>1. \A i \in 1..6 : Setup[i].r \in Register
  <2> SUFFICES ASSUME NEW i \in 1..6 PROVE Setup[i].r \in Register
    OBVIOUS
  <2>1. i \in {1, 2, 3, 4, 5, 6}
    OBVIOUS
  <2> QED
    BY <2>1, SetupIs DEF Register
<1> QED
  BY <1>1, SetupIs DEF AllWrites, Register

\* What is left to handle, by the length of the FIFO after a step.
LEMMA LeftToServe ==
  ASSUME NEW n \in Nat, Len(irq') = n, NEW k \in 0..6, NEW s \in 0..k, n >= k - s,
         \A i \in 1..n : IF i <= n - (k - s) THEN irq'[i] \in Doorbells
                         ELSE irq'[i] = Setup[k + i - n].r
  PROVE  ToServe(s, k)'
BY DEF ToServe

\* The controller takes the oldest write.
LEMMA Served ==
  ASSUME irq \in Seq(Register), irq # <<>>, irq' = Tail(irq),
         NEW k \in 0..6, NEW s \in 0..k, ToServe(s, k)
  PROVE  \/ Head(irq) \in Doorbells /\ ToServe(s, k)'
         \/ s < k /\ Head(irq) = Setup[s + 1].r /\ ToServe(s + 1, k)'
<1>1. PICK n \in Nat \ {0} : n = Len(irq)
  BY HeadTail
<1>2. /\ Head(irq) = irq[1] /\ Len(irq') = n - 1
      /\ \A j \in 1..(n - 1) : irq'[j] = irq[j + 1]
  BY <1>1, HeadTail
<1>3. /\ n >= k - s
      /\ \A i \in 1..n : IF i <= n - (k - s) THEN irq[i] \in Doorbells
                         ELSE irq[i] = Setup[k + i - n].r
  BY <1>1 DEF ToServe
<1>4. CASE n > k - s
  <2>1. Head(irq) \in Doorbells
    BY <1>2, <1>3, <1>4
  <2>2. \A i \in 1..(n - 1) : IF i <= (n - 1) - (k - s) THEN irq'[i] \in Doorbells
                              ELSE irq'[i] = Setup[k + i - (n - 1)].r
    <3> SUFFICES ASSUME NEW i \in 1..(n - 1)
                 PROVE  IF i <= (n - 1) - (k - s) THEN irq'[i] \in Doorbells
                        ELSE irq'[i] = Setup[k + i - (n - 1)].r
      OBVIOUS
    <3>1. PICK j \in 1..n : j = i + 1
      OBVIOUS
    <3>2. irq'[i] = irq[j]
      BY <1>2, <3>1
    <3>3. IF j <= n - (k - s) THEN irq[j] \in Doorbells ELSE irq[j] = Setup[k + j - n].r
      BY <1>3
    <3>4. k + j - n = k + i - (n - 1) /\ (j <= n - (k - s) <=> i <= (n - 1) - (k - s))
      BY <3>1
    <3> QED
      BY <3>2, <3>3, <3>4
  <2>3. n - 1 \in Nat /\ n - 1 >= k - s
    BY <1>4
  <2>4. ToServe(s, k)'
    BY <1>2, <2>2, <2>3, LeftToServe
  <2> QED
    BY <2>1, <2>4
<1>5. CASE n = k - s
  <2>1. s < k /\ Head(irq) = Setup[s + 1].r
    <3>1. s < k /\ k + 1 - n = s + 1
      BY <1>5
    <3>2. 1 \in 1..n /\ ~(1 <= n - (k - s))
      BY <1>5
    <3>3. irq[1] = Setup[k + 1 - n].r
      BY <1>3, <3>2
    <3> QED
      BY <1>2, <3>1, <3>3
  <2>2. \A i \in 1..(n - 1) : irq'[i] = Setup[k + i - (n - 1)].r
    <3> SUFFICES ASSUME NEW i \in 1..(n - 1) PROVE irq'[i] = Setup[k + i - (n - 1)].r
      OBVIOUS
    <3>1. PICK j \in 1..n : j = i + 1
      OBVIOUS
    <3>2. irq'[i] = irq[j]
      BY <1>2, <3>1
    <3>3. IF j <= n - (k - s) THEN irq[j] \in Doorbells ELSE irq[j] = Setup[k + j - n].r
      BY <1>3
    <3>4. k + j - n = k + i - (n - 1) /\ ~(j <= n - (k - s))
      BY <1>5, <3>1
    <3> QED
      BY <3>2, <3>3, <3>4
  <2>3. /\ n - 1 \in Nat /\ s + 1 \in 0..k /\ n - 1 >= k - (s + 1)
        /\ \A i \in 1..(n - 1) : ~(i <= (n - 1) - (k - (s + 1)))
    BY <1>5, <2>1
  <2>4. ToServe(s + 1, k)'
    BY <1>2, <2>2, <2>3, LeftToServe
  <2> QED
    BY <2>1, <2>4
<1> QED
  BY <1>3, <1>4, <1>5

\* The host writes the next register of Setup, or a doorbell.
LEMMA Noted ==
  ASSUME irq \in Seq(Register), NEW r \in Register, irq' = Append(irq, r),
         NEW k \in 0..6, NEW s \in 0..k, ToServe(s, k)
  PROVE  /\ irq' \in Seq(Register)
         /\ k < 6 /\ r = Setup[k + 1].r => ToServe(s, k + 1)'
         /\ s = k /\ r \in Doorbells => ToServe(s, k)'
<1>1. PICK n \in Nat : n = Len(irq)
  OBVIOUS
<1>2. /\ irq' \in Seq(Register) /\ Len(irq') = n + 1 /\ irq'[n + 1] = r
      /\ \A j \in 1..n : irq'[j] = irq[j]
  BY <1>1, AppendProperties
<1>3. /\ n >= k - s
      /\ \A i \in 1..n : IF i <= n - (k - s) THEN irq[i] \in Doorbells
                         ELSE irq[i] = Setup[k + i - n].r
  BY <1>1 DEF ToServe
<1>4. ASSUME k < 6, r = Setup[k + 1].r PROVE ToServe(s, k + 1)'
  <2>1. ASSUME NEW i \in 1..(n + 1)
        PROVE  IF i <= (n + 1) - ((k + 1) - s) THEN irq'[i] \in Doorbells
               ELSE irq'[i] = Setup[(k + 1) + i - (n + 1)].r
    <3>1. CASE i = n + 1
      <4>1. (k + 1) + i - (n + 1) = k + 1 /\ ~(i <= (n + 1) - ((k + 1) - s))
        BY <3>1
      <4> QED
        BY <1>2, <1>4, <3>1, <4>1
    <3>2. CASE i # n + 1
      <4>1. i \in 1..n /\ (k + 1) + i - (n + 1) = k + i - n
           /\ (n + 1) - ((k + 1) - s) = n - (k - s)
        BY <3>2
      <4> QED
        BY <1>2, <1>3, <4>1
    <3> QED
      BY <3>1, <3>2
  <2> QED
    BY <1>2, <1>3, <2>1 DEF ToServe
<1>5. ASSUME s = k, r \in Doorbells PROVE ToServe(s, k)'
  <2>1. \A i \in 1..(n + 1) : irq'[i] \in Doorbells
    BY <1>2, <1>3, <1>5
  <2> QED
    BY <1>2, <1>5, <2>1 DEF ToServe
<1> QED
  BY <1>2, <1>4, <1>5

\* Nothing but doorbells is to be handled, whatever the place in Setup.
LEMMA NoneToServe ==
  ASSUME irq \in Seq(Register), NEW k \in 0..6, NEW m \in 0..6, ToServe(k, k)
  PROVE  ToServe(m, m)
<1>1. Len(irq) \in Nat
  OBVIOUS
<1> QED
  BY <1>1 DEF ToServe

-----------------------------------------------------------------------------
(* Steps that leave the handshake alone                                    *)

\* The administration queues stay where and as large as they are.
AdmKept ==
  /\ sq'[Adm].base = sq[Adm].base /\ sq'[Adm].size = sq[Adm].size
  /\ cq'[Adm].base = cq[Adm].base /\ cq'[Adm].size = cq[Adm].size

\* The registers of the handshake are not written.
RegKept == \A r \in Register \ Doorbells : reg'[r] = reg[r]

LEMMA DoorbellsAre ==
  /\ \A q \in Queue : DOORBELL_TAIL(q) \in Doorbells /\ DOORBELL_HEAD(q) \in Doorbells
  /\ Doorbells \subseteq Register
  /\ \A i \in 1..6 : Setup[i].r \in Register \ Doorbells
<1>1. \A q \in Queue : DOORBELL_TAIL(q) \in Doorbells /\ DOORBELL_HEAD(q) \in Doorbells
  BY DEF DOORBELL_TAIL, DOORBELL_HEAD, Doorbells
<1>2. Doorbells \subseteq Register
  BY DEF Doorbells, Register
<1>3. ASSUME NEW i \in 1..6 PROVE Setup[i].r \in Register \ Doorbells
  <2>1. i \in {1, 2, 3, 4, 5, 6}
    OBVIOUS
  <2> QED
    BY <2>1, SetupIs DEF Register, Doorbells
<1> QED
  BY <1>1, <1>2, <1>3

\* The parts of the invariant are as before if what they are about is.
LEMMA PartsKept ==
  ASSUME RegKept, AdmKept
  PROVE  /\ \A k \in 0..6 : Written(k) => Written(k)'
         /\ \A s \in 0..6 : Configured(s) => Configured(s)'
         /\ UNCHANGED <<csts, enabled>> =>
              \A en, rdy \in {0, 1} : Says(en, rdy) => Says(en, rdy)'
<1>1. ASSUME NEW k \in 0..6, Written(k) PROVE Written(k)'
  <2> SUFFICES ASSUME NEW i \in 1..5, i <= k PROVE reg'[Setup[i].r] = Setup[i].v
    BY DEF Written
  <2>1. reg'[Setup[i].r] = reg[Setup[i].r]
    BY DoorbellsAre DEF RegKept
  <2> QED
    BY <1>1, <2>1 DEF Written
<1>2. ASSUME NEW s \in 0..6, Configured(s) PROVE Configured(s)'
  BY <1>2 DEF Configured, AdmKept
<1>3. ASSUME UNCHANGED <<csts, enabled>>, NEW en \in {0, 1}, NEW rdy \in {0, 1}, Says(en, rdy)
      PROVE  Says(en, rdy)'
  <2>1. "CC" \in Register \ Doorbells
    BY DEF Register, Doorbells
  <2> QED
    BY <1>3, <2>1 DEF Says, RegKept
<1> QED
  BY <1>1, <1>2, <1>3

LEMMA Keep ==
  ASSUME IInv, Shapes', RegKept, AdmKept, UNCHANGED <<csts, enabled>>,
         host'.pc = host.pc, host'.todo = host.todo,
         \A k \in 0..6 : \A s \in 0..k : ToServe(s, k) => ToServe(s, k)'
  PROVE  IInv'
<1>1. ToServe(6, 6) => ToServe(6, 6)'
  OBVIOUS
<1>2. ToServe(5, 6) => ToServe(5, 6)'
  OBVIOUS
<1>3. \A en, rdy \in {0, 1} : Says(en, rdy) => Says(en, rdy)'
  BY PartsKept
<1>4. CASE Off
  BY <1>1, <1>3, <1>4 DEF IInv, Off
<1>5. CASE Enabling
  <2>1. PICK k \in 0..6 : \E s \in 0..k :
          /\ ToWrite(k) /\ ToServe(s, k) /\ Written(k) /\ Configured(s)
          /\ Says(IF k = 6 THEN 1 ELSE 0, IF s = 6 THEN 1 ELSE 0)
    BY <1>5 DEF Enabling
  <2>2. PICK s \in 0..k :
          /\ ToWrite(k) /\ ToServe(s, k) /\ Written(k) /\ Configured(s)
          /\ Says(IF k = 6 THEN 1 ELSE 0, IF s = 6 THEN 1 ELSE 0)
    BY <2>1
  <2>3. ToWrite(k)'
    BY <2>2 DEF ToWrite
  <2>4. ToServe(s, k)' /\ Written(k)'
    BY <2>2, PartsKept
  <2>5. s \in 0..6
    OBVIOUS
  <2>6. Configured(s)'
    BY <2>2, <2>5, PartsKept
  <2>7. Says(IF k = 6 THEN 1 ELSE 0, IF s = 6 THEN 1 ELSE 0)'
    BY <1>3, <2>2
  <2>8. host'.pc = "enabling"
    BY <1>5 DEF Enabling
  <2>9. Enabling'
    BY <2>3, <2>4, <2>6, <2>7, <2>8 DEF Enabling
  <2> QED
    BY <2>9 DEF IInv
<1>6. CASE Live
  <2>1. Configured(6)'
    BY <1>6, PartsKept DEF Live
  <2> QED
    BY <1>1, <1>3, <1>6, <2>1 DEF IInv, Live
<1>7. CASE Stopping
  BY <1>1, <1>2, <1>3, <1>7 DEF IInv, Stopping
<1>8. CASE Down
  BY <1>1, <1>3, <1>8 DEF IInv, Down
<1>9. CASE Disabling
  BY <1>1, <1>2, <1>3, <1>9 DEF IInv, Disabling
<1> QED
  BY <1>4, <1>5, <1>6, <1>7, <1>8, <1>9 DEF IInv

\* The queue arrays, from what a step does to them.
LEMMA ShapesKept ==
  ASSUME Shapes, UNCHANGED <<reg, irq>>, DOMAIN csts' = DOMAIN csts,
         DOMAIN host' = HostFields, host'.todo = host.todo,
         DOMAIN sq' = Queue, DOMAIN sq'[Adm] = SqFields,
         DOMAIN cq' = Queue, DOMAIN cq'[Adm] = CqFields
  PROVE  Shapes'
BY DEF Shapes

\* A field of a queue is set, other than its base and its size.
LEMMA QueueFields ==
  ASSUME NEW D, {"base", "size"} \subseteq D,
         NEW qs, DOMAIN qs = Queue, DOMAIN qs[Adm] = D, NEW q, NEW x
  PROVE  /\ LET f == [qs EXCEPT ![q].tail = x]
            IN  /\ DOMAIN f = Queue /\ DOMAIN f[Adm] = D
                /\ f[Adm].base = qs[Adm].base /\ f[Adm].size = qs[Adm].size
         /\ LET f == [qs EXCEPT ![q].head = x]
            IN  /\ DOMAIN f = Queue /\ DOMAIN f[Adm] = D
                /\ f[Adm].base = qs[Adm].base /\ f[Adm].size = qs[Adm].size
         /\ LET f == [qs EXCEPT ![q].phase = x]
            IN  /\ DOMAIN f = Queue /\ DOMAIN f[Adm] = D
                /\ f[Adm].base = qs[Adm].base /\ f[Adm].size = qs[Adm].size
<1>1. CASE q = Adm
  BY <1>1
<1>2. CASE q # Adm
  BY <1>2
<1> QED
  BY <1>1, <1>2

\* nvme_cmd_return moves the tail of a queue, not the queue.
LEMMA Returned ==
  ASSUME NEW c, NEW q, NEW qs, NEW res, NEW t, DOMAIN qs = Queue, DOMAIN qs[Adm] = CqFields,
         Return(c, q, qs, res, t)
  PROVE  /\ DOMAIN cq' = Queue /\ DOMAIN cq'[Adm] = CqFields
         /\ cq'[Adm].base = qs[Adm].base /\ cq'[Adm].size = qs[Adm].size
<1>1. CASE cq' = qs
  BY <1>1
<1>2. ASSUME NEW x, NEW y, cq' = [qs EXCEPT ![q].tail = x, ![q].phase = y]
      PROVE  /\ DOMAIN cq' = Queue /\ DOMAIN cq'[Adm] = CqFields
             /\ cq'[Adm].base = qs[Adm].base /\ cq'[Adm].size = qs[Adm].size
  <2> DEFINE qt == [qs EXCEPT ![q].tail = x]
  <2>1. cq' = [qt EXCEPT ![q].phase = y]
    BY <1>2
  <2>2. /\ DOMAIN qt = Queue /\ DOMAIN qt[Adm] = CqFields
        /\ qt[Adm].base = qs[Adm].base /\ qt[Adm].size = qs[Adm].size
    BY QueueFields
  <2> HIDE DEF qt
  <2> QED
    BY <2>1, <2>2, QueueFields
<1>3. cq' = qs \/ \E x, y : cq' = [qs EXCEPT ![q].tail = x, ![q].phase = y]
  BY DEF Return
<1> QED
  BY <1>1, <1>2, <1>3

\* The commands, their callbacks and the engine.
LEMMA CommandSteps ==
  ASSUME IInv, \/ HandleCommand \/ ClearResponse \/ DataCallback
               \/ FillResponse \/ DataMove \/ CqMove \/ UNCHANGED vars
  PROVE  IInv'
<1>0. Shapes
  BY DEF IInv
<1>s. ASSUME UNCHANGED irq, NEW k \in 0..6, NEW s \in 0..k, ToServe(s, k) PROVE ToServe(s, k)'
  BY <1>s DEF ToServe
<1>1. ASSUME UNCHANGED <<reg, irq, csts, enabled>>, DOMAIN host' = HostFields,
             host'.pc = host.pc, host'.todo = host.todo, AdmKept,
             DOMAIN sq' = Queue, DOMAIN sq'[Adm] = SqFields,
             DOMAIN cq' = Queue, DOMAIN cq'[Adm] = CqFields
      PROVE  IInv'
  <2>1. Shapes'
    BY <1>0, <1>1, ShapesKept
  <2>2. RegKept
    BY <1>1 DEF RegKept
  <2> QED
    BY <1>1, <1>s, <2>1, <2>2, Keep
<1>2. ASSUME UNCHANGED <<reg, irq, csts, enabled, host>>, AdmKept,
             DOMAIN sq' = Queue, DOMAIN sq'[Adm] = SqFields,
             DOMAIN cq' = Queue, DOMAIN cq'[Adm] = CqFields
      PROVE  IInv'
  BY <1>0, <1>1, <1>2 DEF Shapes
<1>3. ASSUME UNCHANGED <<reg, irq, csts, enabled, host, sq, cq>> PROVE IInv'
  <2>1. AdmKept
    BY <1>3 DEF AdmKept
  <2> QED
    BY <1>0, <1>2, <1>3, <2>1 DEF Shapes
<1>4. CASE HandleCommand
  <2> DEFINE q == Head(rx).qid
             c == Entry(Head(rx))
             inside == c.op \in QueueOp /\ ~Refused(c) /\ c.qid < QUEUES
             qs == IF inside /\ c.op = "create_cq" THEN CreateCq(c) ELSE cq
  <2>1. /\ sq' = IF inside /\ c.op = "create_sq" THEN CreateSq(c) ELSE sq
        /\ Return(c, q, qs, Result(c), tx)
    BY <1>4 DEF HandleCommand
  <2>2. inside => c.qid # Adm
    BY DEF Refused, Adm
  <2>3. DOMAIN sq' = Queue /\ sq'[Adm] = sq[Adm]
    BY <1>0, <2>1, <2>2 DEF Shapes, CreateSq
  <2>4. DOMAIN qs = Queue /\ qs[Adm] = cq[Adm]
    BY <1>0, <2>2 DEF Shapes, CreateCq
  <2>5. /\ DOMAIN cq' = Queue /\ DOMAIN cq'[Adm] = CqFields
        /\ cq'[Adm].base = cq[Adm].base /\ cq'[Adm].size = cq[Adm].size
    <3> HIDE DEF q, c, qs
    <3>1. DOMAIN qs[Adm] = CqFields
      BY <1>0, <2>4 DEF Shapes
    <3> QED
      BY <2>1, <2>4, <3>1, Returned
  <2>6. AdmKept
    BY <2>3, <2>5 DEF AdmKept
  <2>7. UNCHANGED <<reg, irq, csts, enabled, host>>
    BY <1>4 DEF HandleCommand
  <2> HIDE DEF q, c, inside, qs
  <2> QED
    BY <1>0, <1>2, <2>3, <2>5, <2>6, <2>7 DEF Shapes
<1>5. CASE ClearResponse
  BY <1>3, <1>5 DEF ClearResponse
<1>6. CASE DataCallback
  <2>1. /\ Return([cid |-> Head(tx).cid, op |-> Head(tx).op], Adm, cq, 0, Tail(tx))
        /\ UNCHANGED <<reg, irq, csts, enabled, host, sq>>
    BY <1>6 DEF DataCallback
  <2>2. /\ DOMAIN cq' = Queue /\ DOMAIN cq'[Adm] = CqFields
        /\ cq'[Adm].base = cq[Adm].base /\ cq'[Adm].size = cq[Adm].size
    BY <1>0, <2>1, Returned DEF Shapes
  <2>3. AdmKept
    BY <2>1, <2>2 DEF AdmKept
  <2> QED
    BY <1>0, <1>2, <2>1, <2>2, <2>3 DEF Shapes
<1>7. CASE FillResponse
  BY <1>3, <1>7 DEF FillResponse
<1>8. CASE DataMove
  <2>1. UNCHANGED <<reg, irq, csts, enabled, sq, cq>>
    BY <1>8 DEF DataMove
  <2>2. PICK g : host' = [host EXCEPT !.got = g]
    BY <1>8 DEF DataMove
  <2>3. DOMAIN host' = HostFields /\ host'.pc = host.pc /\ host'.todo = host.todo
    BY <1>0, <2>2 DEF Shapes, HostFields
  <2>4. AdmKept
    BY <2>1 DEF AdmKept
  <2> QED
    BY <1>0, <1>1, <2>1, <2>3, <2>4 DEF Shapes
<1>9. CASE CqMove
  BY <1>3, <1>9 DEF CqMove
<1>10. CASE UNCHANGED vars
  BY <1>3, <1>10 DEF vars
<1> QED
  BY <1>4, <1>5, <1>6, <1>7, <1>8, <1>9, <1>10

-----------------------------------------------------------------------------
(* The controller handles a write                                          *)

\* What each handler does to the parts that the invariant is about.
LEMMA ServeEffect ==
  ASSUME Shapes, Serve
  PROVE  /\ irq # <<>> /\ irq' = Tail(irq) /\ UNCHANGED <<reg, host>> /\ Shapes'
         /\ Head(irq) \in Doorbells => AdmKept /\ UNCHANGED <<csts, enabled>>
         /\ Head(irq) = "CC" =>
              /\ AdmKept /\ enabled' = (reg["CC"].en = 1)
              /\ csts'.rdy = IF reg["CC"].en = 1 THEN 1 ELSE IF enabled THEN 0 ELSE csts.rdy
         /\ Head(irq) \in {"AQA", "ASQ_0", "ASQ_1", "ACQ_0", "ACQ_1"} =>
              /\ UNCHANGED <<csts, enabled>>
              /\ Head(irq) # "AQA" => sq'[Adm].size = sq[Adm].size /\ cq'[Adm].size = cq[Adm].size
              /\ Head(irq) # "ASQ_1" => sq'[Adm].base = sq[Adm].base
              /\ Head(irq) # "ACQ_1" => cq'[Adm].base = cq[Adm].base
         /\ Head(irq) = "AQA" => sq'[Adm].size = reg["AQA"] + 1 /\ cq'[Adm].size = reg["AQA"] + 1
         /\ Head(irq) = "ASQ_1" => sq'[Adm].base = <<reg["ASQ_0"], reg["ASQ_1"]>>
         /\ Head(irq) = "ACQ_1" => cq'[Adm].base = <<reg["ACQ_0"], reg["ACQ_1"]>>
<1>1. irq # <<>> /\ irq' = Tail(irq) /\ UNCHANGED <<reg, host>>
  BY DEF Serve
<1>2. irq' \in Seq(Register)
  BY <1>1, HeadTail DEF Shapes
<1>3. ASSUME DOMAIN csts' = {"rdy", "shst"}, DOMAIN sq' = Queue, DOMAIN sq'[Adm] = SqFields,
             DOMAIN cq' = Queue, DOMAIN cq'[Adm] = CqFields
      PROVE  Shapes'
  BY <1>1, <1>2, <1>3 DEF Shapes
<1>4. Adm \in Queue /\ DOMAIN sq = Queue /\ DOMAIN sq[Adm] = SqFields
      /\ DOMAIN cq = Queue /\ DOMAIN cq[Adm] = CqFields /\ DOMAIN csts = {"rdy", "shst"}
  BY DEF Shapes, Adm, Queue, QUEUES
<1>5. CASE Head(irq) = "CC" /\ CcHandler
  <2>1. /\ enabled' = (reg["CC"].en = 1) /\ UNCHANGED <<sq, cq>> /\ DOMAIN csts' = {"rdy", "shst"}
        /\ csts'.rdy = IF reg["CC"].en = 1 THEN 1 ELSE IF enabled THEN 0 ELSE csts.rdy
    BY <1>5 DEF CcHandler
  <2>2. AdmKept
    BY <2>1 DEF AdmKept
  <2>3. Shapes'
    BY <1>3, <1>4, <2>1
  <2> QED
    BY <1>1, <1>5, <2>1, <2>2, <2>3 DEF Doorbells
<1>6. CASE Head(irq) = "AQA" /\ AqaHandler
  <2>1. /\ DOMAIN sq' = Queue /\ DOMAIN sq'[Adm] = SqFields
        /\ sq'[Adm].size = reg["AQA"] + 1 /\ sq'[Adm].base = sq[Adm].base
    BY <1>4, <1>6 DEF AqaHandler, SqFields
  <2>2. /\ DOMAIN cq' = Queue /\ DOMAIN cq'[Adm] = CqFields
        /\ cq'[Adm].size = reg["AQA"] + 1 /\ cq'[Adm].base = cq[Adm].base
    BY <1>4, <1>6 DEF AqaHandler, CqFields, SqFields
  <2>3. UNCHANGED <<csts, enabled>>
    BY <1>6 DEF AqaHandler
  <2>4. Shapes'
    BY <1>3, <1>4, <2>1, <2>2, <2>3
  <2> QED
    BY <1>1, <1>6, <2>1, <2>2, <2>3, <2>4 DEF Doorbells
<1>7. CASE Head(irq) \in {"ASQ_0", "ASQ_1"} /\ AsqHandler(Head(irq))
  <2>1. /\ DOMAIN sq' = Queue /\ DOMAIN sq'[Adm] = SqFields
        /\ sq'[Adm].size = sq[Adm].size
        /\ sq'[Adm].base = IF Head(irq) = "ASQ_1" THEN <<reg["ASQ_0"], reg["ASQ_1"]>>
                           ELSE sq[Adm].base
    BY <1>4, <1>7 DEF AsqHandler, SqFields
  <2>2. UNCHANGED <<csts, enabled, cq>>
    BY <1>7 DEF AsqHandler
  <2>3. Shapes'
    BY <1>3, <1>4, <2>1, <2>2
  <2> QED
    BY <1>1, <1>7, <2>1, <2>2, <2>3 DEF Doorbells
<1>8. CASE Head(irq) \in {"ACQ_0", "ACQ_1"} /\ AcqHandler(Head(irq))
  <2>1. /\ DOMAIN cq' = Queue /\ DOMAIN cq'[Adm] = CqFields
        /\ cq'[Adm].size = cq[Adm].size
        /\ cq'[Adm].base = IF Head(irq) = "ACQ_1" THEN <<reg["ACQ_0"], reg["ACQ_1"]>>
                           ELSE cq[Adm].base
    BY <1>4, <1>8 DEF AcqHandler, CqFields, SqFields
  <2>2. UNCHANGED <<csts, enabled, sq>>
    BY <1>8 DEF AcqHandler
  <2>3. Shapes'
    BY <1>3, <1>4, <2>1, <2>2
  <2> QED
    BY <1>1, <1>8, <2>1, <2>2, <2>3 DEF Doorbells
<1>9. ASSUME NEW q \in Queue, \/ Head(irq) = DOORBELL_TAIL(q) /\ TailHandler(q)
                              \/ Head(irq) = DOORBELL_HEAD(q) /\ HeadHandler(q)
      PROVE  Head(irq) \in Doorbells /\ AdmKept /\ UNCHANGED <<csts, enabled>> /\ Shapes'
  <2>1. Head(irq) \in Doorbells
    BY <1>9, DoorbellsAre
  <2>2. {"base", "size"} \subseteq SqFields /\ {"base", "size"} \subseteq CqFields
    BY DEF SqFields, CqFields
  <2>3. CASE TailHandler(q)
    <3>1. UNCHANGED <<csts, enabled, cq>>
      BY <2>3 DEF TailHandler
    <3>2. PICK x : sq' = [sq EXCEPT ![q].tail = x, ![q].head = x]
      BY <2>3 DEF TailHandler
    <3> DEFINE st == [sq EXCEPT ![q].tail = x]
    <3>3. sq' = [st EXCEPT ![q].head = x]
      BY <3>2
    <3>4. /\ DOMAIN st = Queue /\ DOMAIN st[Adm] = SqFields
          /\ st[Adm].base = sq[Adm].base /\ st[Adm].size = sq[Adm].size
      BY <1>4, <2>2, QueueFields
    <3> HIDE DEF st
    <3>5. /\ DOMAIN sq' = Queue /\ DOMAIN sq'[Adm] = SqFields
          /\ sq'[Adm].base = sq[Adm].base /\ sq'[Adm].size = sq[Adm].size
      BY <2>2, <3>3, <3>4, QueueFields
    <3>6. AdmKept
      BY <3>1, <3>5 DEF AdmKept
    <3> QED
      BY <1>3, <1>4, <2>1, <3>1, <3>5, <3>6
  <2>4. CASE HeadHandler(q)
    <3>1. UNCHANGED <<csts, enabled, sq>>
      BY <2>4 DEF HeadHandler
    <3>2. PICK x : cq' = [cq EXCEPT ![q].head = x]
      BY <2>4 DEF HeadHandler
    <3>3. /\ DOMAIN cq' = Queue /\ DOMAIN cq'[Adm] = CqFields
          /\ cq'[Adm].base = cq[Adm].base /\ cq'[Adm].size = cq[Adm].size
      BY <1>4, <2>2, <3>2, QueueFields
    <3>4. AdmKept
      BY <3>1, <3>3 DEF AdmKept
    <3> QED
      BY <1>3, <1>4, <2>1, <3>1, <3>3, <3>4
  <2> QED
    BY <1>9, <2>3, <2>4
<1>10. CASE \E q \in Queue : \/ Head(irq) = DOORBELL_TAIL(q) /\ TailHandler(q)
                             \/ Head(irq) = DOORBELL_HEAD(q) /\ HeadHandler(q)
  BY <1>1, <1>9, <1>10 DEF Doorbells
<1> QED
  BY <1>5, <1>6, <1>7, <1>8, <1>10 DEF Serve

\* A write of the set-up takes effect: its register holds what the driver wrote.
LEMMA SetupTakesEffect ==
  ASSUME Shapes, Serve, NEW k \in 0..6, NEW s \in 0..k, s < k, Head(irq) = Setup[s + 1].r,
         Written(k), Configured(s), Says(IF k = 6 THEN 1 ELSE 0, 0)
  PROVE  /\ Written(k)' /\ Configured(s + 1)'
         /\ Says(IF k = 6 THEN 1 ELSE 0, IF s + 1 = 6 THEN 1 ELSE 0)'
<1>1. UNCHANGED reg
  BY ServeEffect
<1>2. Written(k)'
  BY <1>1 DEF Written
<1>3. ASSUME s < 5, UNCHANGED <<csts, enabled>>
      PROVE  Says(IF k = 6 THEN 1 ELSE 0, IF s + 1 = 6 THEN 1 ELSE 0)'
  BY <1>1, <1>3 DEF Says
<1>4. CASE s = 0
  <2>1. Head(irq) = "AQA" /\ reg["AQA"] = AdmSize - 1
    BY <1>4, SetupIs DEF Written
  <2>2. reg["AQA"] + 1 = AdmSize
    BY <2>1, SizesAssumption
  <2>3. /\ UNCHANGED <<csts, enabled>> /\ sq'[Adm].size = AdmSize /\ cq'[Adm].size = AdmSize
    BY <2>1, <2>2, ServeEffect
  <2>4. Configured(s + 1)'
    BY <1>4, <2>3 DEF Configured
  <2> QED
    BY <1>2, <1>3, <1>4, <2>3, <2>4
<1>5. CASE s = 1
  <2>1. Head(irq) = "ASQ_0"
    BY <1>5, SetupIs
  <2>2. UNCHANGED <<csts, enabled>> /\ AdmKept
    BY <2>1, ServeEffect DEF AdmKept
  <2>3. Configured(s + 1)'
    BY <1>5, <2>2 DEF Configured, AdmKept
  <2> QED
    BY <1>2, <1>3, <1>5, <2>2, <2>3
<1>6. CASE s = 2
  <2>1. Head(irq) = "ASQ_1" /\ reg["ASQ_0"] = 1 /\ reg["ASQ_1"] = 1
    BY <1>6, SetupIs DEF Written
  <2>2. /\ UNCHANGED <<csts, enabled>> /\ sq'[Adm].base = Base
        /\ sq'[Adm].size = sq[Adm].size /\ cq'[Adm].size = cq[Adm].size
    BY <2>1, ServeEffect DEF Base
  <2>3. Configured(s + 1)'
    BY <1>6, <2>2 DEF Configured
  <2> QED
    BY <1>2, <1>3, <1>6, <2>2, <2>3
<1>7. CASE s = 3
  <2>1. Head(irq) = "ACQ_0"
    BY <1>7, SetupIs
  <2>2. UNCHANGED <<csts, enabled>> /\ AdmKept
    BY <2>1, ServeEffect DEF AdmKept
  <2>3. Configured(s + 1)'
    BY <1>7, <2>2 DEF Configured, AdmKept
  <2> QED
    BY <1>2, <1>3, <1>7, <2>2, <2>3
<1>8. CASE s = 4
  <2>1. Head(irq) = "ACQ_1" /\ reg["ACQ_0"] = 1 /\ reg["ACQ_1"] = 1
    BY <1>8, SetupIs DEF Written
  <2>2. /\ UNCHANGED <<csts, enabled>> /\ cq'[Adm].base = Base /\ sq'[Adm].base = sq[Adm].base
        /\ sq'[Adm].size = sq[Adm].size /\ cq'[Adm].size = cq[Adm].size
    BY <2>1, ServeEffect DEF Base
  <2>3. Configured(s + 1)'
    BY <1>8, <2>2 DEF Configured
  <2> QED
    BY <1>2, <1>3, <1>8, <2>2, <2>3
<1>9. CASE s = 5
  <2>1. Head(irq) = "CC" /\ k = 6 /\ reg["CC"].en = 1
    BY <1>9, SetupIs DEF Says
  <2>2. AdmKept /\ csts'.rdy = 1 /\ enabled' = TRUE
    BY <2>1, ServeEffect
  <2>3. Configured(s + 1)'
    BY <1>9, <2>2 DEF Configured, AdmKept
  <2>4. Says(1, 1)'
    BY <1>1, <2>1, <2>2 DEF Says
  <2> QED
    BY <1>2, <1>9, <2>1, <2>3, <2>4
<1> QED
  BY <1>4, <1>5, <1>6, <1>7, <1>8, <1>9

LEMMA ServeStep ==
  ASSUME IInv, Serve
  PROVE  IInv'
<1>1. /\ Shapes /\ Shapes' /\ irq \in Seq(Register) /\ irq # <<>> /\ irq' = Tail(irq)
      /\ UNCHANGED <<reg, host>>
  BY ServeEffect DEF IInv, Shapes
<1>2. CASE Head(irq) \in Doorbells
  <2>1. ASSUME NEW k \in 0..6, NEW s \in 0..k, ToServe(s, k) PROVE ToServe(s, k)'
    <3>1. s < k => Head(irq) # Setup[s + 1].r
      BY <1>2, DoorbellsAre
    <3> QED
      BY <1>1, <2>1, <3>1, Served
  <2>2. AdmKept /\ UNCHANGED <<csts, enabled>> /\ RegKept
    BY <1>1, <1>2, ServeEffect DEF RegKept
  <2> QED
    BY <1>1, <2>1, <2>2, Keep
<1>3. CASE Head(irq) \notin Doorbells
  <2>1. ~ToServe(6, 6)
    BY <1>1, <1>3, Served
  <2>2. ToServe(5, 6) => Head(irq) = "CC" /\ ToServe(6, 6)'
    <3> SUFFICES ASSUME ToServe(5, 6) PROVE Head(irq) = "CC" /\ ToServe(6, 6)'
      OBVIOUS
    <3>1. Head(irq) = Setup[5 + 1].r /\ ToServe(5 + 1, 6)'
      BY <1>1, <1>3, Served
    <3> QED
      BY <3>1, SetupIs
  <2>3. CASE Enabling
    <3>1. PICK k \in 0..6 : \E s \in 0..k :
            /\ ToWrite(k) /\ ToServe(s, k) /\ Written(k) /\ Configured(s)
            /\ Says(IF k = 6 THEN 1 ELSE 0, IF s = 6 THEN 1 ELSE 0)
      BY <2>3 DEF Enabling
    <3>2. PICK s \in 0..k :
            /\ ToWrite(k) /\ ToServe(s, k) /\ Written(k) /\ Configured(s)
            /\ Says(IF k = 6 THEN 1 ELSE 0, IF s = 6 THEN 1 ELSE 0)
      BY <3>1
    <3>3. s < k /\ Head(irq) = Setup[s + 1].r /\ ToServe(s + 1, k)'
      BY <1>1, <1>3, <3>2, Served
    <3>4. s # 6 /\ s + 1 \in 0..k
      BY <3>3
    <3>5. /\ Written(k)' /\ Configured(s + 1)'
          /\ Says(IF k = 6 THEN 1 ELSE 0, IF s + 1 = 6 THEN 1 ELSE 0)'
      BY <1>1, <3>2, <3>3, <3>4, SetupTakesEffect
    <3>6. ToWrite(k)'
      BY <1>1, <3>2 DEF ToWrite
    <3>7. host'.pc = "enabling"
      BY <1>1, <2>3 DEF Enabling
    <3>8. Enabling'
      BY <3>3, <3>4, <3>5, <3>6, <3>7 DEF Enabling
    <3> QED
      BY <1>1, <3>8 DEF IInv
  <2>4. CASE Stopping
    <3>1. ToServe(5, 6) /\ Says(1, 1) /\ host.todo = <<>> /\ host.pc = "stopping"
      BY <2>1, <2>4 DEF Stopping
    <3>2. csts'.rdy = 1 /\ enabled' = TRUE /\ reg'["CC"].en = 1
      BY <1>1, <2>2, <3>1, ServeEffect DEF Says
    <3>3. Stopping'
      BY <1>1, <2>2, <3>1, <3>2 DEF Stopping, Says
    <3> QED
      BY <1>1, <3>3 DEF IInv
  <2>5. CASE Disabling
    <3>1. ToServe(5, 6) /\ Says(0, 1) /\ host.todo = <<>> /\ host.pc = "disabling"
      BY <2>1, <2>5 DEF Disabling
    <3>2. reg["CC"].en = 0 /\ csts.rdy = 1 /\ enabled
      BY <3>1 DEF Says
    <3>3. /\ enabled' = (reg["CC"].en = 1)
          /\ csts'.rdy = IF reg["CC"].en = 1 THEN 1 ELSE IF enabled THEN 0 ELSE csts.rdy
      BY <1>1, <2>2, <3>1, ServeEffect
    <3>4. csts'.rdy = 0 /\ reg'["CC"].en = 0 /\ reg["CC"].en # 1
      BY <1>1, <3>2, <3>3
    <3>5. enabled' = (0 = 1)
      BY <3>2, <3>3
    <3>6. Says(0, 0)'
      BY <3>4, <3>5 DEF Says
    <3>7. Disabling'
      BY <1>1, <2>2, <3>1, <3>6 DEF Disabling
    <3> QED
      BY <1>1, <3>7 DEF IInv
  <2> QED
    BY <2>1, <2>3, <2>4, <2>5 DEF IInv, Off, Live, Down
<1> QED
  BY <1>2, <1>3

-----------------------------------------------------------------------------
(* The driver's steps                                                      *)

\* The driver rings a doorbell, which it does only when the controller is ready.
LEMMA Rings ==
  ASSUME IInv, host.pc = "live", NEW r \in Doorbells, NEW v,
         reg' = [reg EXCEPT ![r] = v], irq' = Append(irq, r),
         DOMAIN host' = HostFields, host'.pc = host.pc, host'.todo = host.todo,
         UNCHANGED <<csts, enabled, sq, cq>>
  PROVE  IInv'
<1>1. Shapes /\ Live
  BY DEF IInv, Off, Enabling, Stopping, Down, Disabling
<1>2. r \in Register
  BY DoorbellsAre
<1>3. ToServe(6, 6)' /\ irq' \in Seq(Register)
  BY <1>1, <1>2, Noted DEF Live, Shapes
<1>4. Shapes'
  BY <1>1, <1>3 DEF Shapes
<1>5. RegKept
  BY <1>1 DEF RegKept, Shapes
<1>6. AdmKept
  BY DEF AdmKept
<1>7. Configured(6)' /\ Says(1, 1)'
  BY <1>1, <1>5, <1>6, PartsKept DEF Live
<1>8. Live'
  BY <1>1, <1>3, <1>7 DEF Live
<1> QED
  BY <1>4, <1>8 DEF IInv

\* What the driver learns from a completion is not where it is in a handshake.
LEMMA Learned ==
  ASSUME NEW h, DOMAIN h = HostFields, NEW c, NEW e
  PROVE  /\ DOMAIN Learn(h, c, e) = HostFields
         /\ Learn(h, c, e).pc = h.pc /\ Learn(h, c, e).todo = h.todo
<1>1. \A x, y, z : LET g == [h EXCEPT !.has = x, !.head[1] = y, !.phase[1] = z]
                   IN  DOMAIN g = HostFields /\ g.pc = h.pc /\ g.todo = h.todo
  BY DEF HostFields
<1>2. \A x, y : LET g == [h EXCEPT !.has = x, !.tail[1] = y]
                IN  DOMAIN g = HostFields /\ g.pc = h.pc /\ g.todo = h.todo
  BY DEF HostFields
<1>3. \A x : LET g == [h EXCEPT !.has = x]
             IN  DOMAIN g = HostFields /\ g.pc = h.pc /\ g.todo = h.todo
  BY DEF HostFields
<1>4. \A x : LET g == [h EXCEPT !.granted = x]
             IN  DOMAIN g = HostFields /\ g.pc = h.pc /\ g.todo = h.todo
  BY DEF HostFields
<1> QED
  BY <1>1, <1>2, <1>3, <1>4 DEF Learn

LEMMA DoorbellSteps ==
  ASSUME IInv, HostSubmits \/ \E q \in Queue : Consume(q)
  PROVE  IInv'
<1>0. DOMAIN host = HostFields
  BY DEF IInv, Shapes
<1>1. ASSUME NEW q \in Queue, NEW c, Submit(q, c) PROVE IInv'
  <2>1. PICK v : reg' = [reg EXCEPT ![DOORBELL_TAIL(q)] = v]
    BY <1>1, ZenonT(60) DEF Submit
  <2>2. /\ host.pc = "live" /\ irq' = Append(irq, DOORBELL_TAIL(q))
        /\ UNCHANGED <<csts, enabled, sq, cq>>
    BY <1>1 DEF Submit, device
  <2>3. PICK x1, x2, x3, x4, x5 :
          host' = [host EXCEPT !.script = x1, !.out[q] = x2, !.tail[q] = x3,
                               !.got[c.cid] = x4, !.has = x5]
    BY <1>1, ZenonT(60) DEF Submit
  <2>4. DOMAIN host' = HostFields /\ host'.pc = host.pc /\ host'.todo = host.todo
    BY <1>0, <2>3 DEF HostFields
  <2>5. DOORBELL_TAIL(q) \in Doorbells
    BY DoorbellsAre
  <2> QED
    BY <2>1, <2>2, <2>4, <2>5, Rings
<1>2. ASSUME NEW q \in Queue, Consume(q) PROVE IInv'
  <2>1. PICK v : reg' = [reg EXCEPT ![DOORBELL_HEAD(q)] = v]
    BY <1>2, ZenonT(60) DEF Consume
  <2>2. /\ host.pc = "live" /\ irq' = Append(irq, DOORBELL_HEAD(q))
        /\ UNCHANGED <<csts, enabled, sq, cq>>
    BY <1>2, ZenonT(60) DEF Consume, device
  <2>3. PICK x1, x2, x3, x4 :
          LET h == [host EXCEPT !.out[q] = x1, !.head[q] = x2, !.phase[q] = x3, !.got = x4]
          IN  host' = h \/ \E c, e : host' = Learn(h, c, e)
    BY <1>2, ZenonT(60) DEF Consume
  <2> DEFINE h == [host EXCEPT !.out[q] = x1, !.head[q] = x2, !.phase[q] = x3, !.got = x4]
  <2>4. DOMAIN h = HostFields /\ h.pc = host.pc /\ h.todo = host.todo
    BY <1>0 DEF HostFields
  <2>5. host' = h \/ \E c, e : host' = Learn(h, c, e)
    BY <2>3
  <2> HIDE DEF h
  <2>6. DOMAIN host' = HostFields /\ host'.pc = host.pc /\ host'.todo = host.todo
    BY <2>4, <2>5, Learned
  <2>7. DOORBELL_HEAD(q) \in Doorbells
    BY DoorbellsAre
  <2> QED
    BY <2>1, <2>2, <2>6, <2>7, Rings
<1>3. Adm \in Queue /\ 1 \in Queue
  BY DEF Adm, Queue, QUEUES
<1> QED
  BY <1>1, <1>2, <1>3 DEF HostSubmits, SubmitIo, SubmitAdm

\* The driver makes a write of its list.
LEMMA WriteStep ==
  ASSUME IInv, HostWrites
  PROVE  IInv'
<1>1. Shapes /\ host.todo \in Seq(AllWrites) /\ irq \in Seq(Register) /\ host.todo # <<>>
  BY DEF IInv, Shapes, HostWrites
<1>2. PICK w \in AllWrites : w = Head(host.todo)
  BY <1>1, HeadTail
<1>3. w.r \in Register
  BY WritesName
<1>4. /\ reg' = [reg EXCEPT ![w.r] = w.v] /\ irq' = Append(irq, w.r)
      /\ host' = [host EXCEPT !.todo = Tail(host.todo)] /\ UNCHANGED <<csts, enabled, sq, cq>>
  BY <1>2 DEF HostWrites, device
<1>5. /\ DOMAIN host' = HostFields /\ host'.pc = host.pc /\ host'.todo = Tail(host.todo)
      /\ Tail(host.todo) \in Seq(AllWrites)
  BY <1>1, <1>4, HeadTail DEF Shapes, HostFields
<1>6. irq' \in Seq(Register)
  BY <1>1, <1>3, <1>4
<1>7. Shapes'
  BY <1>1, <1>4, <1>5, <1>6 DEF Shapes
<1>8. reg'[w.r] = w.v /\ \A r \in Register : r # w.r => reg'[r] = reg[r]
  BY <1>1, <1>3, <1>4 DEF Shapes
<1>9. \A s \in 0..6 : Configured(s) => Configured(s)'
  BY <1>4 DEF Configured
<1>10. CASE Enabling
  <2>1. PICK k \in 0..6 : \E s \in 0..k :
          /\ ToWrite(k) /\ ToServe(s, k) /\ Written(k) /\ Configured(s)
          /\ Says(IF k = 6 THEN 1 ELSE 0, IF s = 6 THEN 1 ELSE 0)
    BY <1>10 DEF Enabling
  <2>2. PICK s \in 0..k :
          /\ ToWrite(k) /\ ToServe(s, k) /\ Written(k) /\ Configured(s)
          /\ Says(IF k = 6 THEN 1 ELSE 0, IF s = 6 THEN 1 ELSE 0)
    BY <2>1
  <2>3. /\ Len(host.todo) = 6 - k /\ \A i \in 1..(6 - k) : host.todo[i] = Setup[k + i]
    BY <2>2 DEF ToWrite
  <2>4. /\ Len(host.todo) \in Nat \ {0} /\ w = host.todo[1]
        /\ Len(host'.todo) = Len(host.todo) - 1
        /\ \A j \in 1..(Len(host.todo) - 1) : host'.todo[j] = host.todo[j + 1]
    BY <1>1, <1>2, <1>5, HeadTail
  <2>5. k < 6 /\ w = Setup[k + 1]
    BY <2>3, <2>4
  <2>6. ToWrite(k + 1)'
    <3>1. Len(host'.todo) = 6 - (k + 1)
      BY <2>3, <2>4
    <3>2. ASSUME NEW i \in 1..(6 - (k + 1)) PROVE host'.todo[i] = Setup[(k + 1) + i]
      <4>1. i \in 1..(Len(host.todo) - 1) /\ i + 1 \in 1..(6 - k) /\ k + (i + 1) = (k + 1) + i
        BY <2>3, <2>5
      <4>2. host.todo[i + 1] = Setup[k + (i + 1)]
        BY <2>3, <4>1
      <4> QED
        BY <2>4, <4>1, <4>2
    <3> QED
      BY <3>1, <3>2 DEF ToWrite
  <2>7. ToServe(s, k + 1)'
    BY <1>1, <1>3, <1>4, <2>2, <2>5, Noted
  <2>8. Written(k + 1)'
    <3> SUFFICES ASSUME NEW i \in 1..5, i <= k + 1 PROVE reg'[Setup[i].r] = Setup[i].v
      BY DEF Written
    <3>1. CASE i = k + 1
      BY <1>8, <2>5, <3>1
    <3>2. CASE i <= k
      <4>1. reg[Setup[i].r] = Setup[i].v
        BY <2>2, <3>2 DEF Written
      <4>2. Setup[i].r \in Register /\ Setup[i].r # Setup[k + 1].r
        <5>1. i \in {1, 2, 3, 4, 5} /\ k + 1 \in {2, 3, 4, 5, 6} /\ i # k + 1
          BY <2>5, <3>2
        <5> QED
          BY <5>1, SetupIs, DoorbellsAre
      <4> QED
        BY <1>8, <2>5, <4>1, <4>2
    <3> QED
      BY <3>1, <3>2
  <2>9. s # 6 /\ s \in 0..(k + 1) /\ k + 1 \in 0..6 /\ s \in 0..6
    BY <2>5
  <2>10. Configured(s)'
    BY <1>9, <2>2, <2>9
  <2>11. Says(IF k + 1 = 6 THEN 1 ELSE 0, IF s = 6 THEN 1 ELSE 0)'
    <3>1. reg'["CC"].en = IF k + 1 = 6 THEN 1 ELSE 0
      <4>1. CASE k = 5
        BY <1>8, <2>5, <4>1, SetupIs
      <4>2. CASE k # 5
        <5>1. k + 1 \in {1, 2, 3, 4, 5} /\ k # 6
          BY <2>5, <4>2
        <5>2. w.r # "CC" /\ "CC" \in Register
          BY <2>5, <5>1, SetupIs DEF Register
        <5>3. reg["CC"].en = 0
          BY <2>2, <5>1 DEF Says
        <5> QED
          BY <1>8, <5>1, <5>2, <5>3
      <4> QED
        BY <4>1, <4>2
    <3>2. csts.rdy = 0 /\ enabled = (0 = 1)
      BY <2>2, <2>9 DEF Says
    <3> QED
      BY <1>4, <2>9, <3>1, <3>2 DEF Says
  <2>12. host'.pc = "enabling"
    BY <1>5, <1>10 DEF Enabling
  <2>13. Enabling'
    BY <2>6, <2>7, <2>8, <2>9, <2>10, <2>11, <2>12 DEF Enabling
  <2> QED
    BY <1>7, <2>13 DEF IInv
<1>11. ASSUME NEW x \in AllWrites, host.todo = <<x>>, x.r = "CC", ToServe(6, 6)
       PROVE  w = x /\ host'.todo = <<>> /\ ToServe(5, 6)' /\ reg'["CC"] = x.v
  <2>1. w = x /\ host'.todo = <<>>
    BY <1>2, <1>5, <1>11
  <2>2. ToServe(5, 5)
    BY <1>1, <1>11, NoneToServe
  <2>3. w.r = Setup[5 + 1].r
    BY <1>11, <2>1, SetupIs
  <2>4. ToServe(5, 5 + 1)'
    BY <1>1, <1>3, <1>4, <2>2, <2>3, Noted
  <2> QED
    BY <1>8, <1>11, <2>1, <2>4
<1>12. Shutdown \in AllWrites /\ Disable \in AllWrites
  BY DEF AllWrites
<1>13. CASE Stopping
  <2>1. host.todo = <<Shutdown>> /\ ToServe(6, 6) /\ csts.shst = 0 /\ Says(1, 1)
    BY <1>1, <1>13 DEF Stopping
  <2>2. host'.todo = <<>> /\ ToServe(5, 6)' /\ reg'["CC"].en = 1
    BY <1>11, <1>12, <2>1, SetupIs
  <2>3. Says(1, 1)'
    BY <1>4, <2>1, <2>2 DEF Says
  <2>4. Stopping'
    BY <1>4, <1>5, <1>13, <2>1, <2>2, <2>3 DEF Stopping
  <2> QED
    BY <1>7, <2>4 DEF IInv
<1>14. CASE Disabling
  <2>1. host.todo = <<Disable>> /\ ToServe(6, 6) /\ Says(1, 1)
    BY <1>1, <1>14 DEF Disabling
  <2>2. host'.todo = <<>> /\ ToServe(5, 6)' /\ reg'["CC"].en = 0
    BY <1>11, <1>12, <2>1, SetupIs
  <2>3. Says(0, 1)'
    BY <1>4, <2>1, <2>2 DEF Says
  <2>4. Disabling'
    BY <1>5, <1>14, <2>2, <2>3 DEF Disabling
  <2> QED
    BY <1>7, <2>4 DEF IInv
<1> QED
  BY <1>1, <1>10, <1>13, <1>14 DEF IInv, Off, Live, Down

\* The driver begins and ends a handshake.
LEMMA ControlSteps ==
  ASSUME IInv, HostEnables \/ HostSees \/ HostResets \/ HostShutsDown
  PROVE  IInv'
<1>1. Shapes /\ UNCHANGED <<reg, irq, csts, enabled, sq, cq>>
  BY DEF IInv, HostEnables, HostSees, HostResets, HostShutsDown, device
<1>2. \A k \in 0..6 : \A s \in 0..k : ToServe(s, k) => ToServe(s, k)'
  BY <1>1 DEF ToServe
<1>3. \A en, rdy \in {0, 1} : Says(en, rdy) => Says(en, rdy)'
  BY <1>1 DEF Says
<1>4. ASSUME DOMAIN host' = HostFields, host'.todo \in Seq(AllWrites) PROVE Shapes'
  BY <1>1, <1>4 DEF Shapes
<1>5. /\ Shutdown \in AllWrites /\ Disable \in AllWrites
      /\ <<>> \in Seq(AllWrites) /\ <<Shutdown>> \in Seq(AllWrites)
      /\ <<Disable>> \in Seq(AllWrites)
  BY DEF AllWrites
<1>6. CASE HostEnables
  <2>1. Off
    BY <1>6 DEF HostEnables, IInv, Off, Enabling, Live, Stopping, Down, Disabling
  <2>2. host' = [host EXCEPT !.pc = "enabling", !.todo = Setup]
    BY <1>6 DEF HostEnables, Setup
  <2>3. DOMAIN host' = HostFields /\ host'.pc = "enabling" /\ host'.todo = Setup
    BY <1>1, <2>2 DEF Shapes, HostFields
  <2>4. Len(Setup) = 6 /\ Setup \in Seq(AllWrites)
    <3>1. Len(Setup) = 6 /\ DOMAIN Setup = 1..6 /\ Setup = [i \in 1..6 |-> Setup[i]]
      BY DEF Setup
    <3>2. \A i \in 1..6 : Setup[i] \in AllWrites
      BY DEF AllWrites
    <3>3. [i \in 1..6 |-> Setup[i]] \in Seq(AllWrites)
      BY <3>2
    <3> QED
      BY <3>1, <3>3
  <2>5. Shapes'
    BY <1>4, <2>3, <2>4
  <2>6. ToWrite(0)'
    BY <2>3, <2>4 DEF ToWrite
  <2>7. ToServe(0, 0)'
    <3>1. irq \in Seq(Register) /\ ToServe(6, 6)
      BY <1>1, <2>1 DEF Off, Shapes
    <3>2. ToServe(0, 0)
      BY <3>1, NoneToServe
    <3> QED
      BY <1>2, <3>2
  <2>8. Written(0)' /\ Configured(0)'
    BY DEF Written, Configured
  <2>9. Says(0, 0)'
    BY <1>3, <2>1 DEF Off
  <2>10. Enabling'
    <3>1. /\ 0 \in 0..6 /\ 0 \in 0..0
          /\ (IF 0 = 6 THEN 1 ELSE 0) = 0
      OBVIOUS
    <3>2. Says(IF 0 = 6 THEN 1 ELSE 0, IF 0 = 6 THEN 1 ELSE 0)'
      BY <2>9, <3>1
    <3> QED
      BY <2>3, <2>6, <2>7, <2>8, <3>1, <3>2 DEF Enabling
  <2> QED
    BY <2>5, <2>10 DEF IInv
<1>7. CASE HostSees
  <2>0. host.todo = <<>> /\ Awaits
    BY <1>7 DEF HostSees
  <2>1. CASE host.pc = "enabling"  /\ csts.rdy = 1  /\ host' = [host EXCEPT !.pc = "live"]
    <3>1. Enabling
      BY <2>1 DEF IInv, Off, Enabling, Live, Stopping, Down, Disabling
    <3>2. PICK k \in 0..6 : \E s \in 0..k :
            /\ ToWrite(k) /\ ToServe(s, k) /\ Written(k) /\ Configured(s)
            /\ Says(IF k = 6 THEN 1 ELSE 0, IF s = 6 THEN 1 ELSE 0)
      BY <3>1 DEF Enabling
    <3>3. PICK s \in 0..k :
            /\ ToWrite(k) /\ ToServe(s, k) /\ Written(k) /\ Configured(s)
            /\ Says(IF k = 6 THEN 1 ELSE 0, IF s = 6 THEN 1 ELSE 0)
      BY <3>2
    <3>4. k = 6
      BY <2>0, <3>3 DEF ToWrite
    <3>5. s = 6
      BY <2>1, <3>3 DEF Says
    <3>6. ToServe(6, 6) /\ Configured(6) /\ Says(1, 1)
      BY <3>3, <3>4, <3>5
    <3>7. ToServe(6, 6)' /\ Says(1, 1)' /\ Configured(6)'
      BY <1>1, <1>2, <1>3, <3>6 DEF Configured
    <3>8. DOMAIN host' = HostFields /\ host'.pc = "live" /\ host'.todo = <<>>
      BY <1>1, <2>0, <2>1 DEF Shapes, HostFields
    <3>9. Shapes'
      BY <1>4, <1>5, <3>8
    <3>10. Live'
      BY <3>7, <3>8 DEF Live
    <3> QED
      BY <3>9, <3>10 DEF IInv
  <2>2. CASE host.pc = "stopping"  /\ csts.shst = 2 /\ host' = [host EXCEPT !.pc = "down"]
    <3>1. Stopping
      BY <2>2 DEF IInv, Off, Enabling, Live, Stopping, Down, Disabling
    <3>2. ToServe(6, 6) /\ Says(1, 1)
      BY <2>2, <3>1 DEF Stopping
    <3>3. ToServe(6, 6)' /\ Says(1, 1)'
      BY <1>2, <1>3, <3>2
    <3>4. DOMAIN host' = HostFields /\ host'.pc = "down" /\ host'.todo = <<>>
      BY <1>1, <2>0, <2>2 DEF Shapes, HostFields
    <3>5. Shapes'
      BY <1>4, <1>5, <3>4
    <3>6. Down'
      BY <3>3, <3>4 DEF Down
    <3> QED
      BY <3>5, <3>6 DEF IInv
  <2>3. CASE host.pc = "disabling" /\ csts.rdy = 0  /\ host' = NewHost(host.script, host.resets)
    <3>1. Disabling
      BY <2>3 DEF IInv, Off, Enabling, Live, Stopping, Down, Disabling
    <3>2. ToServe(6, 6) /\ Says(0, 0)
      BY <2>3, <3>1 DEF Disabling, Says
    <3>3. ToServe(6, 6)' /\ Says(0, 0)'
      BY <1>2, <1>3, <3>2
    <3>4. DOMAIN host' = HostFields /\ host'.pc = "off" /\ host'.todo = <<>>
      BY <2>3 DEF NewHost, HostFields
    <3>5. Shapes'
      BY <1>4, <1>5, <3>4
    <3>6. Off'
      BY <3>3, <3>4 DEF Off
    <3> QED
      BY <3>5, <3>6 DEF IInv
  <2> QED
    BY <2>0, <2>1, <2>2, <2>3 DEF Awaits
<1>8. CASE HostResets
  <2>1. Live \/ Down
    BY <1>8 DEF HostResets, IInv, Off, Enabling, Stopping, Disabling
  <2>2. ToServe(6, 6)' /\ Says(1, 1)'
    BY <1>2, <1>3, <2>1 DEF Live, Down
  <2>3. PICK x : host' = [host EXCEPT !.pc = "disabling", !.resets = x, !.todo = <<Disable>>]
    BY <1>8 DEF HostResets, Disable
  <2>4. DOMAIN host' = HostFields /\ host'.pc = "disabling" /\ host'.todo = <<Disable>>
    BY <1>1, <2>3 DEF Shapes, HostFields
  <2>5. Shapes'
    BY <1>4, <1>5, <2>4
  <2>6. Disabling'
    BY <2>2, <2>4 DEF Disabling
  <2> QED
    BY <2>5, <2>6 DEF IInv
<1>9. CASE HostShutsDown
  <2>1. Live /\ csts.shst = 0
    BY <1>9 DEF HostShutsDown, IInv, Off, Enabling, Stopping, Down, Disabling
  <2>2. ToServe(6, 6)' /\ Says(1, 1)'
    BY <1>2, <1>3, <2>1 DEF Live
  <2>3. host' = [host EXCEPT !.pc = "stopping", !.todo = <<Shutdown>>]
    BY <1>9 DEF HostShutsDown, Shutdown
  <2>4. DOMAIN host' = HostFields /\ host'.pc = "stopping" /\ host'.todo = <<Shutdown>>
    BY <1>1, <2>3 DEF Shapes, HostFields
  <2>5. Shapes'
    BY <1>4, <1>5, <2>4
  <2>6. Stopping'
    BY <1>1, <2>1, <2>2, <2>4 DEF Stopping
  <2> QED
    BY <2>5, <2>6 DEF IInv
<1> QED
  BY <1>6, <1>7, <1>8, <1>9

-----------------------------------------------------------------------------
(* The theorem                                                             *)

LEMMA Initial == Init => IInv
<1> SUFFICES ASSUME Init PROVE IInv
  OBVIOUS
<1>1. PICK w \in Workload : host = NewHost(w, 0)
  BY DEF Init
<1>2. DOMAIN host = HostFields /\ host.pc = "off" /\ host.todo = <<>>
  BY <1>1 DEF NewHost, HostFields
<1>3. Adm \in Queue
  BY DEF Adm, Queue, QUEUES
<1>4. /\ DOMAIN sq = Queue /\ DOMAIN sq[Adm] = SqFields
      /\ DOMAIN cq = Queue /\ DOMAIN cq[Adm] = CqFields
  BY <1>3 DEF Init, NewSq, NewCq, SqFields, CqFields
<1>5. DOMAIN reg = Register /\ DOMAIN csts = {"rdy", "shst"} /\ irq \in Seq(Register)
  BY DEF Init
<1>6. Shapes
  BY <1>2, <1>4, <1>5 DEF Shapes
<1>7. ToServe(6, 6)
  <2>1. Len(irq) = 0
    BY DEF Init
  <2> QED
    BY <2>1 DEF ToServe
<1>8. Says(0, 0)
  <2>1. reg["CC"].en = 0 /\ csts.rdy = 0 /\ enabled = FALSE
    BY DEF Init, Register
  <2>2. 0 # 1
    OBVIOUS
  <2>3. enabled = (0 = 1)
    BY <2>1, <2>2, ZenonT(30)
  <2> QED
    BY <2>1, <2>3 DEF Says
<1>9. Off
  BY <1>2, <1>7, <1>8 DEF Off
<1> QED
  BY <1>6, <1>9 DEF IInv

LEMMA Inductive == IInv /\ [Next]_vars => IInv'
<1> SUFFICES ASSUME IInv, [Next]_vars PROVE IInv'
  OBVIOUS
<1>1. CASE HostControl
  BY <1>1, ControlSteps, WriteStep DEF HostControl
<1>2. CASE HostSubmits \/ \E q \in Queue : Consume(q)
  BY <1>2, DoorbellSteps
<1>3. CASE Serve
  BY <1>3, ServeStep
<1>4. CASE Callback \/ FillResponse \/ DataMove \/ CqMove \/ UNCHANGED vars
  BY <1>4, CommandSteps DEF Callback
<1> QED
  BY <1>1, <1>2, <1>3, <1>4 DEF Next

\* A driver that has seen CSTS.RDY set has a controller that works on the queues it
\* wrote to AQA, ASQ and ACQ, whole, after every reset and shutdown; though
\* nvme_tc_irq_handler handles the writes one by one, later, from what the registers
\* then hold.
THEOREM ReadyConfiguredHolds == Spec => []ReadyMeansConfigured
<1>1. Init => IInv
  BY Initial
<1>2. IInv /\ [Next]_vars => IInv'
  BY Inductive
<1>3. IInv => ReadyMeansConfigured
  BY DEF IInv, Off, Enabling, Live, Stopping, Down, Disabling, Configured,
         ReadyMeansConfigured
<1> QED
  BY <1>1, <1>2, <1>3, PTL DEF Spec

-----------------------------------------------------------------------------
(* The queues: the inductive invariant                                     *)

Slots(q) == 0..(Size[q] - 1)

\* How far it is from a on to b, round a queue of n slots.
Dist(n, a, b) == IF b >= a THEN b - a ELSE (b - a) + n

\* A write to register r is yet to be handled.
InIrq(r) == \E n \in 1..Len(irq) : irq[n] = r

\* The driver uses the submission, the completion queue.
SqOn(q) == IF q = Adm THEN host.pc # "off" ELSE "sq" \in host.has
CqOn(q) == IF q = Adm THEN host.pc # "off" ELSE "cq" \in host.has

\* The controller works on the queue that the driver set up.
SqUp(q) == sq[q].base = Base /\ sq[q].size = Size[q]
CqUp(q) == cq[q].base = Base /\ cq[q].size = Size[q]

\* No driver names the queue that is beyond the arrays and not refused.
Commands  == [cid : Cid, op : Op, qid : {0, 1, QUEUES + 1}]
Words     == Nat \X Nat
Fetches   == [qid : Queue, base : Words, slot : Nat]
Transfers == [kind : {"cq", "data"}, qid : Queue, base : Words, slot : Nat, cid : Cid,
              res : {0}, p : {0, 1}, op : Op]
Entries   == [cid : 0..MaxAdm, res : {0}, p : {0, 1}]

RegTypes ==
  /\ \A q \in Queue : reg[DOORBELL_TAIL(q)] \in Slots(q) /\ reg[DOORBELL_HEAD(q)] \in Slots(q)
  /\ \A r \in {"ASQ_0", "ASQ_1", "ACQ_0", "ACQ_1"} : reg[r] \in Nat
  /\ csts \in [rdy : {0, 1}, shst : {0, 2}] /\ enabled \in BOOLEAN

SqTypes ==
  /\ DOMAIN sq = Queue
  /\ \A q \in Queue : sq[q] \in [base : Words, size : {0, Size[q]}, head : Slots(q), tail : Slots(q)]

OkCqs(qs) ==
  /\ DOMAIN qs = Queue
  /\ \A q \in Queue : qs[q] \in [base : Words, size : {0, Size[q]}, head : Slots(q),
                                 tail : Slots(q), phase : {0, 1}]
CqTypes == OkCqs(cq)

HostTypes ==
  /\ DOMAIN host = HostFields
  /\ host.pc \in {"off", "enabling", "live", "stopping", "down", "disabling"}
  /\ host.script \in Seq(Op) /\ host.granted \in {0, 1}
  /\ host.has \in {{}, {"cq"}, {"cq", "sq"}}
  /\ host.out \in [Queue -> SUBSET Commands]
  /\ host.got \in [Cid -> DataOp \cup {"none", "zero"}]
  /\ host.tail \in [Queue -> Nat] /\ host.head \in [Queue -> Nat]
  /\ host.phase \in [Queue -> {0, 1}]
  /\ \A q \in Queue : host.tail[q] \in Slots(q) /\ host.head[q] \in Slots(q)

MemTypes ==
  /\ DOMAIN sqMem = Queue /\ \A q \in Queue : sqMem[q] \in [Slots(q) -> Commands]
  /\ DOMAIN cqMem = Queue /\ \A q \in Queue : cqMem[q] \in [Slots(q) -> Entries]

RxTypes == rx \in Seq(Fetches) /\ \A m \in 1..Len(rx) : rx[m].slot \in Slots(rx[m].qid)

OkTransfer(t) ==
  /\ t \in Transfers /\ t.slot \in Slots(t.qid)
  /\ t.kind = "data" => t.qid = Adm /\ t.op \in DataOp
TxTypes ==
  /\ tx \in Seq(Transfers) /\ \A m \in 1..Len(tx) : OkTransfer(tx[m])
  /\ txDone \in {0, 1} /\ (txDone = 1 => tx # <<>> /\ tx[1].kind = "data")

CpuTypes ==
  /\ beyond = FALSE /\ cpu \in {"idle", "tc", "fill"} /\ filling \in Commands
  /\ cpu = "fill" => filling.op \in DataOp
  /\ resp \in [DataOp -> DataOp \cup {"zero"}] /\ \A o \in DataOp : resp[o] \in {"zero", o}

Types == RegTypes /\ SqTypes /\ CqTypes /\ HostTypes /\ MemTypes /\ RxTypes /\ TxTypes /\ CpuTypes

\* A new life begins with nothing left of the old one.
Clean ==
  /\ host.pc = "off" => irq = <<>>
  /\ host.pc = "enabling" =>
       /\ \A n \in 1..Len(irq) : irq[n] \notin Doorbells
       /\ rx = <<>> /\ tx = <<>> /\ cpu # "fill"
  /\ host.pc = "disabling" /\ host.todo = <<>> /\ csts.rdy = 0 => irq = <<>>

\* Whatever is handled belongs to a queue that the controller knows.
Sized ==
  /\ host.pc \in {"live", "stopping", "down", "disabling"} => SqUp(Adm) /\ CqUp(Adm)
  /\ "sq" \in host.has => SqUp(1)
  /\ "cq" \in host.has => CqUp(1)
  /\ \A q \in Queue : InIrq(DOORBELL_TAIL(q)) =>
       sq[q].size = Size[q] /\ cq[q].size = Size[q] /\ cq[Adm].size = AdmSize
  /\ \A m \in 1..Len(rx) : cq[rx[m].qid].size = Size[rx[m].qid] /\ cq[Adm].size = AdmSize
  /\ cpu = "fill" => cq[Adm].size = AdmSize
  /\ \A m \in 1..Len(tx) : tx[m].kind = "data" => cq[Adm].size = AdmSize

-----------------------------------------------------------------------------
(* The queues: sizes and distances                                         *)

LEMMA Sizes ==
  /\ Queue = {0, 1} /\ Adm = 0 /\ Adm \in Queue /\ 1 \in Queue /\ Adm # 1
  /\ Size[Adm] = AdmSize /\ Size[1] = IoSize
  /\ \A q \in Queue : Size[q] \in Nat /\ Size[q] >= 2
  /\ MaxAdm \in Nat /\ MaxAdm >= 1 /\ MaxAdm <= AdmSize - 1 /\ AdmSize \in Nat /\ IoSize \in Nat
<1>1. Queue = {0, 1}
  BY DEF Queue, QUEUES
<1> QED
  BY <1>1, SizesAssumption DEF Adm, Size

\* Indices modulo the size of a queue, and distances.
LEMMA NextIs ==
  ASSUME NEW n \in Nat, n >= 2, NEW a \in 0..(n - 1)
  PROVE  (a + 1) % n = (IF a = n - 1 THEN 0 ELSE a + 1) /\ (a + 1) % n \in 0..(n - 1)
<1>1. CASE a = n - 1
  BY <1>1
<1>2. CASE a # n - 1
  BY <1>2
<1> QED
  BY <1>1, <1>2

LEMMA SumIs ==
  ASSUME NEW n \in Nat, n >= 2, NEW a \in 0..(n - 1), NEW k \in 0..(n - 1)
  PROVE  (a + k) % n = (IF a + k < n THEN a + k ELSE (a + k) - n) /\ (a + k) % n \in 0..(n - 1)
<1>1. CASE a + k < n
  BY <1>1
<1>2. CASE a + k >= n
  <2>1. PICK x \in 0..(n - 1) : a + k = x + n
    BY <1>2
  <2>2. (x + n) % n = x
    BY <2>1
  <2> QED
    BY <1>2, <2>1, <2>2
<1> QED
  BY <1>1, <1>2

LEMMA DistIs ==
  ASSUME NEW n \in Nat, n >= 2, NEW a \in 0..(n - 1), NEW b \in 0..(n - 1)
  PROVE  (b - a) % n = Dist(n, a, b) /\ Dist(n, a, b) \in 0..(n - 1)
<1>1. CASE b >= a
  BY <1>1 DEF Dist
<1>2. CASE b < a
  <2>1. PICK x \in 0..(n - 1) : x = (b - a) + n
    BY <1>2
  <2>2. (x - n) % n = x
    BY <2>1
  <2> QED
    BY <1>2, <2>1, <2>2 DEF Dist
<1> QED
  BY <1>1, <1>2

LEMMA DistFacts ==
  ASSUME NEW n \in Nat, n >= 2, NEW a \in 0..(n - 1), NEW b \in 0..(n - 1)
  PROVE  /\ Dist(n, a, b) \in 0..(n - 1)
         /\ Dist(n, a, b) = 0 <=> a = b
         /\ \A c \in 0..(n - 1) : Dist(n, a, c) = Dist(n, a, b) => b = c
         /\ \A c \in 0..(n - 1) : Dist(n, c, a) = Dist(n, b, a) => b = c
BY DEF Dist

\* One end moves on.
LEMMA DistNext ==
  ASSUME NEW n \in Nat, n >= 2, NEW a \in 0..(n - 1), NEW b \in 0..(n - 1)
  PROVE  /\ Dist(n, a, (b + 1) % n) = IF Dist(n, a, b) = n - 1 THEN 0 ELSE Dist(n, a, b) + 1
         /\ Dist(n, (a + 1) % n, b) = IF a = b THEN n - 1 ELSE Dist(n, a, b) - 1
<1>1. (a + 1) % n = (IF a = n - 1 THEN 0 ELSE a + 1) /\ (b + 1) % n = (IF b = n - 1 THEN 0 ELSE b + 1)
  BY NextIs
<1> QED
  BY <1>1 DEF Dist

\* The slots of the entries that the doorbell's handler takes.
LEMMA DistSum ==
  ASSUME NEW n \in Nat, n >= 2, NEW a \in 0..(n - 1), NEW b \in 0..(n - 1),
         NEW k \in 1..Dist(n, a, b)
  PROVE  /\ (a + (k - 1)) % n \in 0..(n - 1)
         /\ Dist(n, (a + (k - 1)) % n, b) = (Dist(n, a, b) - k) + 1
<1>1. Dist(n, a, b) \in 0..(n - 1)
  BY DistFacts
<1>2. PICK j \in 0..(n - 1) : j = k - 1
  BY <1>1
<1>3. a + (k - 1) = a + j
  BY <1>2
<1>4. (a + j) % n = (IF a + j < n THEN a + j ELSE (a + j) - n) /\ (a + j) % n \in 0..(n - 1)
  BY SumIs
<1>5. Dist(n, (a + j) % n, b) = Dist(n, a, b) - j
  BY <1>1, <1>2, <1>4 DEF Dist
<1>6. Dist(n, a, b) - j = (Dist(n, a, b) - k) + 1
  BY <1>1, <1>2
<1>7. (a + (k - 1)) % n = (a + j) % n
  BY <1>3
<1> QED
  BY <1>4, <1>5, <1>6, <1>7

\* A sequence with one more element.
LEMMA Appended ==
  ASSUME NEW S, NEW s \in Seq(S), NEW x \in S
  PROVE  /\ Append(s, x) \in Seq(S) /\ Len(Append(s, x)) = Len(s) + 1 /\ Len(s) \in Nat
         /\ \A j \in 1..Len(s) : Append(s, x)[j] = s[j]
         /\ Append(s, x)[Len(s) + 1] = x
BY AppendProperties

\* An element is one of the set.
LEMMA ElementIn ==
  ASSUME NEW S, NEW s \in Seq(S)
  PROVE  Len(s) \in Nat /\ \A j \in 1..Len(s) : s[j] \in S
OBVIOUS

-----------------------------------------------------------------------------
(* The queues: what the steps do                                           *)

\* What the driver knows of its commands and queues.
Work == <<host.out, host.tail, host.head, host.phase, host.has, host.granted, host.got, host.script>>

\* A command that the driver may submit to queue q.
Asked(q, c) ==
  \/ q = Adm /\ c.op # "io" /\ MayAsk(c.op) /\ c.qid = Qid(c.op)
  \/ q = 1 /\ c.op = "io" /\ c.qid = 0 /\ host.has = {"cq", "sq"}
     /\ Cardinality(host.out[1]) < IoSize - 1

LEMMA SubmitsOne ==
  ASSUME HostTypes, HostSubmits
  PROVE  \E q \in Queue, c \in Commands : Submit(q, c) /\ Asked(q, c)
<1>1. CASE SubmitIo
  <2>1. PICK i \in Cid : Submit(1, [cid |-> i, op |-> "io", qid |-> 0])
    BY <1>1 DEF SubmitIo
  <2>2. PICK c : c = [cid |-> i, op |-> "io", qid |-> 0]
    OBVIOUS
  <2>3. c \in Commands /\ c.op = "io" /\ c.qid = 0
    BY <2>2 DEF Commands, Op
  <2>4. Asked(1, c)
    BY <1>1, <2>3 DEF SubmitIo, Asked
  <2>5. Submit(1, c)
    BY <2>1, <2>2
  <2> QED
    BY <2>3, <2>4, <2>5, Sizes
<1>2. ASSUME NEW i \in Cid, NEW op \in Op \ {"io"}, SubmitAdm(i, op)
      PROVE  \E q \in Queue, c \in Commands : Submit(q, c) /\ Asked(q, c)
  <2>1. Qid(op) \in {0, 1, QUEUES + 1}
    BY DEF HostTypes, Qid
  <2>2. PICK c : c = [cid |-> i, op |-> op, qid |-> Qid(op)]
    OBVIOUS
  <2>3. c \in Commands /\ c.op = op /\ c.qid = Qid(op)
    BY <2>1, <2>2 DEF Commands
  <2>4. MayAsk(op) /\ Submit(Adm, c)
    BY <1>2, <2>2 DEF SubmitAdm
  <2>5. Asked(Adm, c)
    BY <2>3, <2>4 DEF Asked
  <2> QED
    BY <2>3, <2>4, <2>5, Sizes
<1> QED
  BY <1>1, <1>2 DEF HostSubmits

\* A submission, field by field.
LEMMA SubmitIs ==
  ASSUME Types, NEW q \in Queue, NEW c \in Commands, Submit(q, c)
  PROVE  /\ host.pc = "live" /\ host.todo = <<>> /\ Cardinality(host.out[q]) < MaxAdm
         /\ host.script # <<>> /\ c.op = Head(host.script)
         /\ c.cid = CHOOSE i \in Cid : Unused(q, i) /\ \A j \in 1..(i - 1) : ~Unused(q, j)
         /\ DOMAIN host' = HostFields /\ host'.pc = host.pc /\ host'.todo = host.todo
         /\ host'.script = Tail(host.script) /\ host'.granted = host.granted
         /\ host'.out = [host.out EXCEPT ![q] = host.out[q] \cup {c}]
         /\ host'.tail = [host.tail EXCEPT ![q] = (host.tail[q] + 1) % Size[q]]
         /\ host'.head = host.head /\ host'.phase = host.phase
         /\ host'.got = [host.got EXCEPT ![c.cid] = IF q = Adm THEN "none" ELSE host.got[c.cid]]
         /\ host'.has = IF c.op = "delete_sq" /\ c.qid = 1 THEN host.has \ {"sq"} ELSE host.has
         /\ sqMem' = [sqMem EXCEPT ![q] = [sqMem[q] EXCEPT ![host.tail[q]] = c]]
         /\ reg' = [reg EXCEPT ![DOORBELL_TAIL(q)] = (host.tail[q] + 1) % Size[q]]
         /\ irq' = Append(irq, DOORBELL_TAIL(q))
         /\ cqMem' = IF c.op = "create_cq" /\ c.qid = 1
                       THEN [cqMem EXCEPT ![1] = EmptyCq(1)] ELSE cqMem
         /\ UNCHANGED device
<1>0. PICK tail : tail = (host.tail[q] + 1) % Size[q]
  OBVIOUS
<1>1. /\ host.pc = "live" /\ host.todo = <<>> /\ Cardinality(host.out[q]) < MaxAdm
      /\ host.script # <<>> /\ c.op = Head(host.script)
      /\ c.cid = CHOOSE i \in Cid : Unused(q, i) /\ \A j \in 1..(i - 1) : ~Unused(q, j)
      /\ cqMem' = IF c.op = "create_cq" /\ c.qid = 1
                    THEN [cqMem EXCEPT ![1] = EmptyCq(1)] ELSE cqMem
      /\ UNCHANGED device
  BY DEF Submit
<1>2. /\ sqMem' = [sqMem EXCEPT ![q][host.tail[q]] = c]
      /\ reg' = [reg EXCEPT ![DOORBELL_TAIL(q)] = tail] /\ irq' = Append(irq, DOORBELL_TAIL(q))
  BY <1>0 DEF Submit
<1>3. host' = [host EXCEPT !.script = Tail(@), !.out[q] = @ \cup {c},
                       !.tail[q] = tail,
                       !.got[c.cid] = IF q = Adm THEN "none" ELSE @,
                       !.has = IF c.op = "delete_sq" /\ c.qid = 1 THEN @ \ {"sq"} ELSE @]
  BY <1>0 DEF Submit
<1>4. DOMAIN host = HostFields
  BY DEF Types, HostTypes
<1>5. /\ DOMAIN host' = HostFields /\ host'.pc = host.pc /\ host'.todo = host.todo
      /\ host'.script = Tail(host.script) /\ host'.granted = host.granted
      /\ host'.out = [host.out EXCEPT ![q] = host.out[q] \cup {c}]
      /\ host'.tail = [host.tail EXCEPT ![q] = tail]
      /\ host'.head = host.head /\ host'.phase = host.phase
      /\ host'.got = [host.got EXCEPT ![c.cid] = IF q = Adm THEN "none" ELSE host.got[c.cid]]
      /\ host'.has = IF c.op = "delete_sq" /\ c.qid = 1 THEN host.has \ {"sq"} ELSE host.has
  BY <1>3, <1>4, SMTT(30) DEF HostFields
<1> QED
  BY <1>0, <1>1, <1>2, <1>5

\* Command c is one for a queue that exists.
Makes(c, o) == c.op = o /\ c.qid < QUEUES

\* The completion of command c is taken: the step, field by field.
Consumed(q, c) ==
  /\ host.pc = "live" /\ host.todo = <<>> /\ Visible(q) /\ (q = Adm \/ "cq" \in host.has)
  /\ DOMAIN host' = HostFields /\ host'.pc = host.pc /\ host'.todo = host.todo
  /\ host'.script = host.script
  /\ host'.granted = IF c.op = "set_features" THEN 1 ELSE host.granted
  /\ host'.out = [host.out EXCEPT ![q] = host.out[q] \ {c}]
  /\ host'.got = [i \in Cid |-> IF q = Adm /\ i = c.cid THEN "none" ELSE host.got[i]]
  /\ host'.has = IF Makes(c, "create_cq") THEN host.has \cup {"cq"}
                 ELSE IF Makes(c, "create_sq") THEN host.has \cup {"sq"}
                 ELSE IF Makes(c, "delete_cq") THEN {} ELSE host.has
  /\ \A p \in Queue :
       /\ host'.tail[p] = IF Makes(c, "create_sq") /\ p = 1 THEN 0 ELSE host.tail[p]
       /\ host'.head[p] = IF Makes(c, "create_cq") /\ p = 1 THEN 0
                          ELSE IF p = q THEN (host.head[q] + 1) % Size[q] ELSE host.head[p]
       /\ host'.phase[p] = IF Makes(c, "create_cq") /\ p = 1 THEN 1
                           ELSE IF p = q /\ (host.head[q] + 1) % Size[q] = 0
                                THEN 1 - host.phase[p] ELSE host.phase[p]
  /\ DOMAIN host'.tail = Queue /\ DOMAIN host'.head = Queue /\ DOMAIN host'.phase = Queue
  /\ host'.tail = [p \in Queue |-> host'.tail[p]]
  /\ host'.head = [p \in Queue |-> host'.head[p]]
  /\ host'.phase = [p \in Queue |-> host'.phase[p]]
  /\ reg' = [reg EXCEPT ![DOORBELL_HEAD(q)] = (host.head[q] + 1) % Size[q]]
  /\ irq' = Append(irq, DOORBELL_HEAD(q))
  /\ cqMem' = [cqMem EXCEPT ![q] = [cqMem[q] EXCEPT ![host.head[q]] =
                 [cid |-> 0, res |-> 0, p |-> cqMem[q][host.head[q]].p]]]
  /\ sqMem' = [sqMem EXCEPT ![q] =
                 [i \in Slots(q) |-> IF sqMem[q][i] = c THEN Junk ELSE sqMem[q][i]]]
  /\ UNCHANGED device

LEMMA ConsumeIs ==
  ASSUME Types, NEW q \in Queue, Consume(q), NEW c \in host.out[q],
         c.cid = cqMem[q][host.head[q]].cid, \A d \in host.out[q] : d.cid = c.cid => d = c
  PROVE  Consumed(q, c)
<1>0. PICK head : head = (host.head[q] + 1) % Size[q]
  OBVIOUS
<1>1. PICK e : e = cqMem[q][host.head[q]]
  OBVIOUS
<1>2. e \in Entries
  BY <1>1 DEF Types, HostTypes, MemTypes
<1>3. {d \in host.out[q] : d.cid = e.cid} = {c}
  BY <1>1
<1>4. (CHOOSE d \in {c} : TRUE) = c
  BY SMTT(30)
<1>5. PICK h : h = [host EXCEPT !.out[q] = @ \ {c}, !.head[q] = head,
                              !.phase[q] = IF head = 0 THEN 1 - @ ELSE @,
                              !.got = [i \in Cid |-> IF q = Adm /\ i = e.cid THEN "none"
                                                     ELSE @[i]]]
  OBVIOUS
<1>6. /\ host.pc = "live" /\ host.todo = <<>> /\ Visible(q) /\ (q = Adm \/ "cq" \in host.has)
      /\ UNCHANGED device
  BY SMTT(30) DEF Consume
<1>7. /\ host' = Learn(h, c, e)
      /\ reg' = [reg EXCEPT ![DOORBELL_HEAD(q)] = head] /\ irq' = Append(irq, DOORBELL_HEAD(q))
      /\ cqMem' = [cqMem EXCEPT ![q][host.head[q]] = [cid |-> 0, res |-> 0, p |-> e.p]]
      /\ sqMem' = [sqMem EXCEPT ![q] = [i \in DOMAIN @ |-> IF @[i] \in {c} THEN Junk ELSE @[i]]]
  BY <1>0, <1>1, <1>3, <1>4, <1>5, ZenonT(60) DEF Consume
<1>8. /\ sqMem' = [sqMem EXCEPT ![q] =
                     [i \in Slots(q) |-> IF sqMem[q][i] = c THEN Junk ELSE sqMem[q][i]]]
      /\ cqMem' = [cqMem EXCEPT ![q] = [cqMem[q] EXCEPT ![host.head[q]] =
                        [cid |-> 0, res |-> 0, p |-> cqMem[q][host.head[q]].p]]]
  BY <1>1, <1>7 DEF Types, MemTypes
<1>9. DOMAIN host = HostFields
  BY DEF Types, HostTypes
<1>10. /\ DOMAIN h = HostFields /\ h.pc = host.pc /\ h.todo = host.todo /\ h.script = host.script
       /\ h.granted = host.granted /\ h.has = host.has /\ h.tail = host.tail
       /\ h.out = [host.out EXCEPT ![q] = host.out[q] \ {c}]
       /\ h.head = [host.head EXCEPT ![q] = head]
       /\ h.phase = [host.phase EXCEPT ![q] = IF head = 0 THEN 1 - host.phase[q] ELSE host.phase[q]]
       /\ h.got = [i \in Cid |-> IF q = Adm /\ i = c.cid THEN "none" ELSE host.got[i]]
  BY <1>1, <1>5, <1>9 DEF HostFields
<1>11. /\ DOMAIN h.tail = Queue /\ DOMAIN h.head = Queue /\ DOMAIN h.phase = Queue
       /\ h.tail = [p \in Queue |-> h.tail[p]]
       /\ h.head = [p \in Queue |-> h.head[p]] /\ h.phase = [p \in Queue |-> h.phase[p]]
       /\ \A p \in Queue : /\ h.head[p] = IF p = q THEN head ELSE host.head[p]
                           /\ h.phase[p] = IF p = q /\ head = 0 THEN 1 - host.phase[p] ELSE host.phase[p]
  <2>1. /\ host.tail \in [Queue -> Nat] /\ host.head \in [Queue -> Nat]
        /\ host.phase \in [Queue -> {0, 1}]
    BY DEF Types, HostTypes
  <2>2. DOMAIN h.tail = Queue /\ h.tail = [p \in Queue |-> h.tail[p]]
    BY <1>10, <2>1
  <2>3. /\ DOMAIN h.head = Queue /\ h.head = [p \in Queue |-> h.head[p]]
        /\ \A p \in Queue : h.head[p] = IF p = q THEN head ELSE host.head[p]
    BY <1>10, <2>1
  <2>4. /\ DOMAIN h.phase = Queue /\ h.phase = [p \in Queue |-> h.phase[p]]
        /\ \A p \in Queue : h.phase[p] =
             IF p = q /\ head = 0 THEN 1 - host.phase[p] ELSE host.phase[p]
    BY <1>10, <2>1
  <2> QED
    BY <2>2, <2>3, <2>4
<1>12. e.res + 1 = 1 /\ 1 \in Queue
  BY <1>2, Sizes DEF Entries
<1> DEFINE Fields ==
         /\ DOMAIN host' = HostFields /\ host'.pc = host.pc /\ host'.todo = host.todo
         /\ host'.script = host.script
         /\ host'.granted = IF c.op = "set_features" THEN 1 ELSE host.granted
         /\ host'.out = [host.out EXCEPT ![q] = host.out[q] \ {c}]
         /\ host'.got = [i \in Cid |-> IF q = Adm /\ i = c.cid THEN "none" ELSE host.got[i]]
         /\ host'.has = IF Makes(c, "create_cq") THEN host.has \cup {"cq"}
                        ELSE IF Makes(c, "create_sq") THEN host.has \cup {"sq"}
                        ELSE IF Makes(c, "delete_cq") THEN {} ELSE host.has
       Ends ==
         /\ \A p \in Queue :
              /\ host'.tail[p] = IF Makes(c, "create_sq") /\ p = 1 THEN 0 ELSE host.tail[p]
              /\ host'.head[p] = IF Makes(c, "create_cq") /\ p = 1 THEN 0
                                 ELSE IF p = q THEN head ELSE host.head[p]
              /\ host'.phase[p] = IF Makes(c, "create_cq") /\ p = 1 THEN 1
                                  ELSE IF p = q /\ head = 0
                                       THEN 1 - host.phase[p] ELSE host.phase[p]
       Domains ==
         /\ DOMAIN host'.tail = Queue /\ DOMAIN host'.head = Queue /\ DOMAIN host'.phase = Queue
         /\ host'.tail = [p \in Queue |-> host'.tail[p]]
         /\ host'.head = [p \in Queue |-> host'.head[p]]
         /\ host'.phase = [p \in Queue |-> host'.phase[p]]
<1>13. ASSUME c.op = "set_features"
       PROVE  Fields /\ Ends /\ Domains
  <2>1. host' = [h EXCEPT !.granted = e.res + 1]
    BY <1>7, <1>13 DEF Learn
  <2>2. /\ DOMAIN host' = HostFields /\ host'.pc = h.pc /\ host'.todo = h.todo
        /\ host'.script = h.script /\ host'.granted = 1 /\ host'.has = h.has
        /\ host'.tail = h.tail /\ host'.out = h.out /\ host'.head = h.head
        /\ host'.phase = h.phase /\ host'.got = h.got
    BY <1>10, <1>12, <2>1 DEF HostFields
  <2>5. ~Makes(c, "create_cq") /\ ~Makes(c, "create_sq") /\ ~Makes(c, "delete_cq")
    BY <1>13 DEF Makes
  <2>6. Fields
    BY <1>10, <1>11, <1>13, <2>2, <2>5
  <2>7. Ends
    BY <1>10, <1>11, <1>13, <2>2, <2>5
  <2>8. Domains
    BY <1>10, <1>11, <1>13, <2>2, <2>5
  <2> QED
    BY <2>6, <2>7, <2>8
<1>14. ASSUME Makes(c, "create_cq")
       PROVE  Fields /\ Ends /\ Domains
  <2>1. host' = [h EXCEPT !.has = @ \cup {"cq"}, !.head[1] = 0, !.phase[1] = 1]
    BY <1>7, <1>14 DEF Learn, Makes
  <2>2. /\ DOMAIN host' = HostFields /\ host'.pc = h.pc /\ host'.todo = h.todo
        /\ host'.script = h.script /\ host'.granted = h.granted /\ host'.has = h.has \cup {"cq"}
        /\ host'.tail = h.tail /\ host'.out = h.out /\ host'.head = [h.head EXCEPT ![1] = 0]
        /\ host'.phase = [h.phase EXCEPT ![1] = 1] /\ host'.got = h.got
    BY <1>10, <2>1 DEF HostFields
  <2>3. c.op = "create_cq"
    BY <1>14 DEF Makes
  <2>4. /\ DOMAIN host'.head = Queue /\ DOMAIN host'.phase = Queue
        /\ host'.head = [p \in Queue |-> host'.head[p]] /\ host'.phase = [p \in Queue |-> host'.phase[p]]
        /\ \A p \in Queue : /\ host'.head[p] = IF p = 1 THEN 0 ELSE IF p = q THEN head ELSE host.head[p]
                            /\ host'.phase[p] = IF p = 1 THEN 1 ELSE
                                 IF p = q /\ head = 0 THEN 1 - host.phase[p] ELSE host.phase[p]
    BY <1>11, <1>12, <2>2, ZenonT(60)
  <2>6. Fields
    BY <1>10, <1>11, <1>14, <2>2, <2>3, <2>4 DEF Makes
  <2>7. Ends
    BY <1>10, <1>11, <1>14, <2>2, <2>3, <2>4, SMTT(30) DEF Makes
  <2>8. Domains
    BY <1>10, <1>11, <1>14, <2>2, <2>3, <2>4 DEF Makes
  <2> QED
    BY <2>6, <2>7, <2>8
<1>15. ASSUME Makes(c, "create_sq")
       PROVE  Fields /\ Ends /\ Domains
  <2>1. host' = [h EXCEPT !.has = @ \cup {"sq"}, !.tail[1] = 0]
    BY <1>7, <1>15 DEF Learn, Makes
  <2>2. /\ DOMAIN host' = HostFields /\ host'.pc = h.pc /\ host'.todo = h.todo
        /\ host'.script = h.script /\ host'.granted = h.granted /\ host'.has = h.has \cup {"sq"}
        /\ host'.tail = [h.tail EXCEPT ![1] = 0] /\ host'.out = h.out /\ host'.head = h.head
        /\ host'.phase = h.phase /\ host'.got = h.got
    BY <1>10, <2>1 DEF HostFields
  <2>3. c.op = "create_sq"
    BY <1>15 DEF Makes
  <2>4. /\ DOMAIN host'.tail = Queue /\ host'.tail = [p \in Queue |-> host'.tail[p]]
        /\ \A p \in Queue : host'.tail[p] = IF p = 1 THEN 0 ELSE host.tail[p]
    BY <1>10, <1>11, <1>12, <2>2
  <2>5. ~Makes(c, "create_cq") /\ c.op # "set_features"
    BY <2>3 DEF Makes
  <2>6. Fields
    BY <1>10, <1>11, <1>15, <2>2, <2>3, <2>4, <2>5
  <2>7. Ends
    BY <1>10, <1>11, <1>15, <2>2, <2>3, <2>4, <2>5
  <2>8. Domains
    BY <1>10, <1>11, <1>15, <2>2, <2>3, <2>4, <2>5
  <2> QED
    BY <2>6, <2>7, <2>8
<1>16. ASSUME Makes(c, "delete_cq")
       PROVE  Fields /\ Ends /\ Domains
  <2>1. host' = [h EXCEPT !.has = {}]
    BY <1>7, <1>16 DEF Learn, Makes
  <2>2. /\ DOMAIN host' = HostFields /\ host'.pc = h.pc /\ host'.todo = h.todo
        /\ host'.script = h.script /\ host'.granted = h.granted /\ host'.has = {}
        /\ host'.tail = h.tail /\ host'.out = h.out /\ host'.head = h.head
        /\ host'.phase = h.phase /\ host'.got = h.got
    BY <1>10, <2>1 DEF HostFields
  <2>3. c.op = "delete_cq"
    BY <1>16 DEF Makes
  <2>5. ~Makes(c, "create_cq") /\ ~Makes(c, "create_sq") /\ c.op # "set_features"
    BY <2>3 DEF Makes
  <2>6. Fields
    BY <1>10, <1>11, <1>16, <2>2, <2>3, <2>5
  <2>7. Ends
    BY <1>10, <1>11, <1>16, <2>2, <2>3, <2>5
  <2>8. Domains
    BY <1>10, <1>11, <1>16, <2>2, <2>3, <2>5
  <2> QED
    BY <2>6, <2>7, <2>8
<1>17. ASSUME ~(\/ c.op = "set_features" \/ Makes(c, "create_cq") \/ Makes(c, "create_sq")
              \/ Makes(c, "delete_cq"))
       PROVE  Fields /\ Ends /\ Domains
  <2>1. host' = h
    BY <1>7, <1>17 DEF Learn, Makes
  <2>6. Fields
    BY <1>10, <1>11, <1>17, <2>1
  <2>7. Ends
    BY <1>10, <1>11, <1>17, <2>1
  <2>8. Domains
    BY <1>10, <1>11, <1>17, <2>1
  <2> QED
    BY <2>6, <2>7, <2>8
<1>18. Fields /\ Ends /\ Domains
  BY <1>13, <1>14, <1>15, <1>16, <1>17
<1> QED
  BY <1>0, <1>6, <1>7, <1>8, <1>18 DEF Consumed

\* The phase of the next completion; nvme_cmd_return when there is room, and when not.
Stamp(r) == IF r.tail = 0 THEN 1 - r.phase ELSE r.phase

Completion(c, q, r) ==
  [kind |-> "cq", qid |-> q, base |-> r.base, slot |-> r.tail, cid |-> c.cid, res |-> 0,
   p |-> Stamp(r), op |-> c.op]

Posts(c, q, qs, t) ==
  /\ qs[q].head # (qs[q].tail + 1) % Size[q]
  /\ cq' = [qs EXCEPT ![q] = [qs[q] EXCEPT !.tail = (qs[q].tail + 1) % Size[q],
                                           !.phase = Stamp(qs[q])]]
  /\ tx' = Append(t, Completion(c, q, qs[q]))

Drops(q, qs, t) == qs[q].head = (qs[q].tail + 1) % Size[q] /\ cq' = qs /\ tx' = t

LEMMA ReturnIs ==
  ASSUME NEW qs, NEW q \in Queue, qs[q].size = Size[q], NEW c, NEW t, Return(c, q, qs, 0, t)
  PROVE  Posts(c, q, qs, t) \/ Drops(q, qs, t)
<1>1. CASE Drops(q, qs, t)
  BY <1>1
<1>2. CASE ~Drops(q, qs, t)
  <2>1. /\ qs[q].head # (qs[q].tail + 1) % Size[q]
        /\ cq' = [qs EXCEPT ![q].tail = (qs[q].tail + 1) % Size[q], ![q].phase = Stamp(qs[q])]
        /\ tx' = Append(t, Completion(c, q, qs[q]))
    BY <1>2 DEF Return, Drops, Next1, Stamp, Completion
  <2>2. [qs EXCEPT ![q].tail = (qs[q].tail + 1) % Size[q], ![q].phase = Stamp(qs[q])]
          = [qs EXCEPT ![q] = [qs[q] EXCEPT !.tail = (qs[q].tail + 1) % Size[q],
                                            !.phase = Stamp(qs[q])]]
    OBVIOUS
  <2> QED
    BY <2>1, <2>2 DEF Posts
<1> QED
  BY <1>1, <1>2

\* What is left after it of the queues and of the channel.
OkTxs(t) == t \in Seq(Transfers) /\ \A m \in 1..Len(t) : OkTransfer(t[m])

LEMMA PostsTypes ==
  ASSUME NEW qs, OkCqs(qs), NEW q \in Queue, NEW c, c.cid \in Cid, c.op \in Op, NEW t, OkTxs(t),
         Posts(c, q, qs, t) \/ Drops(q, qs, t)
  PROVE  /\ OkCqs(cq') /\ OkTxs(tx')
         /\ \A p \in Queue : /\ cq'[p].base = qs[p].base /\ cq'[p].size = qs[p].size
                             /\ cq'[p].head = qs[p].head
                             /\ p # q => cq'[p] = qs[p]
<1>1. CASE Drops(q, qs, t)
  BY <1>1 DEF Drops
<1>2. CASE Posts(c, q, qs, t)
  <2>1. PICK r : r = qs[q]
    OBVIOUS
  <2>2. r \in [base : Words, size : {0, Size[q]}, head : Slots(q), tail : Slots(q), phase : {0, 1}]
    BY <2>1 DEF OkCqs
  <2>3. Stamp(r) \in {0, 1}
    BY <2>2 DEF Stamp
  <2>4. PICK next : next = (r.tail + 1) % Size[q]
    OBVIOUS
  <2>5. next \in Slots(q)
    BY <2>2, <2>4, Sizes, NextIs DEF Slots
  <2>6. PICK r2 : r2 = [r EXCEPT !.tail = next, !.phase = Stamp(r)]
    OBVIOUS
  <2>7. /\ r2 \in [base : Words, size : {0, Size[q]}, head : Slots(q), tail : Slots(q), phase : {0, 1}]
        /\ r2.base = r.base /\ r2.size = r.size /\ r2.head = r.head
    BY <2>2, <2>3, <2>5, <2>6
  <2>8. cq' = [qs EXCEPT ![q] = r2]
    BY <1>2, <2>1, <2>4, <2>6 DEF Posts
  <2>9. DOMAIN qs = Queue
    BY DEF OkCqs
  <2>10. DOMAIN cq' = Queue /\ cq'[q] = r2 /\ \A p \in Queue : p # q => cq'[p] = qs[p]
    BY <2>8, <2>9
  <2>11. OkCqs(cq')
    BY <2>7, <2>10 DEF OkCqs
  <2>12. PICK e : e = Completion(c, q, r)
    OBVIOUS
  <2>13. e \in Transfers /\ e.kind = "cq" /\ e.slot = r.tail /\ e.qid = q
    <3>1. r.tail \in Nat
      BY <2>2, Sizes DEF Slots
    <3> QED
      BY <2>2, <2>3, <2>12, <3>1 DEF Completion, Transfers
  <2>14. OkTransfer(e)
    BY <2>2, <2>13 DEF OkTransfer
  <2>15. tx' = Append(t, e)
    BY <1>2, <2>1, <2>12 DEF Posts
  <2>16. OkTxs(tx')
    <3>1. /\ tx' \in Seq(Transfers) /\ Len(tx') = Len(t) + 1 /\ Len(t) \in Nat
          /\ \A j \in 1..Len(t) : tx'[j] = t[j]
          /\ tx'[Len(t) + 1] = e
      BY <2>13, <2>15, Appended DEF OkTxs
    <3>2. ASSUME NEW m \in 1..Len(tx') PROVE OkTransfer(tx'[m])
      <4>1. CASE m = Len(t) + 1
        BY <2>14, <3>1, <4>1
      <4>2. CASE m # Len(t) + 1
        <5>1. m \in 1..Len(t)
          BY <3>1, <4>2
        <5> QED
          BY <3>1, <5>1 DEF OkTxs
      <4> QED
        BY <4>1, <4>2
    <3> QED
      BY <3>1, <3>2 DEF OkTxs
  <2> QED
    BY <2>1, <2>7, <2>10, <2>11, <2>16
<1> QED
  BY <1>1, <1>2

\* The queues after the effect of a command, before its completion is queued.
SqsAfter(c) == IF c.op = "create_sq" /\ c.qid = 1 THEN CreateSq(c) ELSE sq
CqsAfter(c) == IF c.op = "create_cq" /\ c.qid = 1 THEN CreateCq(c) ELSE cq

LEMMA EntryIn ==
  ASSUME Types, rx # <<>>
  PROVE  rx[1].qid \in Queue /\ rx[1] \in Fetches /\ Entry(rx[1]) \in Commands /\ Head(rx) = rx[1]
<1>1. rx \in Seq(Fetches) /\ Len(rx) \in Nat \ {0} /\ Head(rx) = rx[1]
  BY HeadTail DEF Types, RxTypes
<1>2. rx[1] \in Fetches /\ rx[1].slot \in Slots(rx[1].qid)
  BY <1>1 DEF Types, RxTypes
<1>3. rx[1].qid \in Queue
  BY <1>2 DEF Fetches
<1>4. sqMem[rx[1].qid][rx[1].slot] \in Commands
  BY <1>2, <1>3 DEF Types, MemTypes
<1>5. Junk \in Commands
  BY Sizes DEF Junk, Commands, Cid, Op
<1> QED
  BY <1>1, <1>2, <1>3, <1>4, <1>5 DEF Entry

LEMMA HandleIs ==
  ASSUME Types, Sized, HandleCommand
  PROVE  \E q \in Queue, c \in Commands :
           /\ rx # <<>> /\ q = rx[1].qid /\ c = Entry(rx[1]) /\ rx' = Tail(rx) /\ cpu = "idle"
           /\ c.op \notin DataOp /\ sq' = SqsAfter(c)
           /\ CqsAfter(c)[q].size = Size[q] /\ OkCqs(CqsAfter(c))
           /\ Posts(c, q, CqsAfter(c), tx) \/ Drops(q, CqsAfter(c), tx)
           /\ UNCHANGED <<reg, csts, irq, enabled, beyond, cpu, filling, resp, txDone, host, memory>>
<1>1. rx # <<>> /\ cpu = "idle" /\ rx' = Tail(rx)
  BY DEF HandleCommand
<1>2. PICK q \in Queue, c \in Commands : q = rx[1].qid /\ c = Entry(rx[1]) /\ Head(rx) = rx[1]
  BY <1>1, EntryIn
<1>3. c.qid \in {0, 1, 3}
  BY DEF Commands, QUEUES
<1>4. (~Refused(c) <=> c.qid = 1) /\ (c.qid < QUEUES <=> c.qid \in {0, 1})
  BY <1>3 DEF Refused, QUEUES
<1>5. Result(c) = 0
  BY DEF Result, queues
<1>6. /\ c.op \notin DataOp
      /\ beyond' = (beyond \/ (c.op \in QueueOp /\ ~Refused(c) /\ ~(c.op \in QueueOp /\ ~Refused(c) /\ c.qid < QUEUES)))
      /\ sq' = IF (c.op \in QueueOp /\ ~Refused(c) /\ c.qid < QUEUES) /\ c.op = "create_sq" THEN CreateSq(c) ELSE sq
      /\ Return(c, q, IF (c.op \in QueueOp /\ ~Refused(c) /\ c.qid < QUEUES) /\ c.op = "create_cq" THEN CreateCq(c) ELSE cq,
                Result(c), tx)
      /\ UNCHANGED <<reg, csts, irq, enabled, cpu, filling, resp, txDone, host, memory>>
  BY <1>2 DEF HandleCommand
<1>7. beyond \in BOOLEAN
  BY DEF Types, CpuTypes
<1>8. beyond' = beyond
  BY <1>4, <1>6, <1>7
<1>9. sq' = SqsAfter(c) /\ Return(c, q, CqsAfter(c), 0, tx)
  BY <1>4, <1>5, <1>6 DEF SqsAfter, CqsAfter, QueueOp
<1>10. OkCqs(CqsAfter(c)) /\ CqsAfter(c)[q].size = Size[q]
  <2>1. OkCqs(cq) /\ cq[q].size = Size[q]
    <3>1. 1 \in 1..Len(rx)
      BY <1>1, HeadTail DEF Types, RxTypes
    <3> QED
      BY <1>2, <3>1 DEF Types, CqTypes, Sized
  <2>2. CASE ~(c.op = "create_cq" /\ c.qid = 1)
    BY <2>1, <2>2 DEF CqsAfter
  <2>3. CASE c.op = "create_cq" /\ c.qid = 1
    <3>1. PICK r : r = [base |-> Base, size |-> IoSize, head |-> 0, tail |-> 0, phase |-> 0]
      OBVIOUS
    <3>2. /\ r \in [base : Words, size : {0, Size[1]}, head : Slots(1), tail : Slots(1), phase : {0, 1}]
          /\ r.size = Size[1]
      BY <3>1, Sizes DEF Base, Words, Slots
    <3>3. CqsAfter(c) = [cq EXCEPT ![1] = r]
      BY <2>3, <3>1 DEF CqsAfter, CreateCq
    <3>4. /\ DOMAIN CqsAfter(c) = Queue /\ CqsAfter(c)[1] = r
          /\ \A p \in Queue : p # 1 => CqsAfter(c)[p] = cq[p]
      BY <2>1, <3>3, Sizes DEF OkCqs
    <3> QED
      BY <2>1, <3>2, <3>4 DEF OkCqs
  <2> QED
    BY <2>2, <2>3
<1>11. Posts(c, q, CqsAfter(c), tx) \/ Drops(q, CqsAfter(c), tx)
  BY <1>9, <1>10, ReturnIs
<1> QED
  BY <1>1, <1>2, <1>6, <1>8, <1>9, <1>10, <1>11

\* The registers of the set-up are handled only while the driver waits for that.
LEMMA SetupServed ==
  ASSUME IInv, Serve, Head(irq) \in {"AQA", "ASQ_0", "ASQ_1", "ACQ_0", "ACQ_1"}
  PROVE  host.pc = "enabling" /\ (Head(irq) = "AQA" => reg["AQA"] = AdmSize - 1)
<1>1. irq \in Seq(Register) /\ irq # <<>> /\ irq' = Tail(irq)
  BY ServeEffect DEF IInv, Shapes
<1>2. Head(irq) \notin Doorbells /\ Head(irq) # "CC"
  BY DEF Doorbells
<1>3. ~ToServe(6, 6)
  BY <1>1, <1>2, Served
<1>4. ~ToServe(5, 6)
  <2>1. ToServe(5, 6) => Head(irq) = Setup[5 + 1].r
    BY <1>1, <1>2, Served
  <2> QED
    BY <1>2, <2>1, SetupIs
<1>5. Enabling
  BY <1>3, <1>4 DEF IInv, Off, Live, Stopping, Down, Disabling
<1>6. PICK k \in 0..6 : \E s \in 0..k : ToServe(s, k) /\ Written(k)
  BY <1>5 DEF Enabling
<1>7. PICK s \in 0..k : ToServe(s, k) /\ Written(k)
  BY <1>6
<1>8. s < k /\ Head(irq) = Setup[s + 1].r
  BY <1>1, <1>2, <1>7, Served
<1>9. Head(irq) = "AQA" => reg["AQA"] = AdmSize - 1
  <2> SUFFICES ASSUME Head(irq) = "AQA" PROVE reg["AQA"] = AdmSize - 1
    OBVIOUS
  <2>1. k >= 1 /\ 1 \in 1..5
    BY <1>8
  <2>2. reg[Setup[1].r] = Setup[1].v
    BY <1>7, <2>1 DEF Written
  <2> QED
    BY <2>2, SetupIs
<1> QED
  BY <1>5, <1>9 DEF Enabling

\* When the controller has handled the write that disables it, nothing is behind that.
LEMMA LastServed ==
  ASSUME IInv, Clean, Serve, host.pc = "disabling", host.todo = <<>>, csts'.rdy = 0
  PROVE  irq' = <<>>
<1>1. /\ irq \in Seq(Register) /\ irq # <<>> /\ irq' = Tail(irq) /\ Shapes
      /\ (Head(irq) \in Doorbells => UNCHANGED csts)
  BY ServeEffect DEF IInv, Shapes
<1>2. csts.rdy # 0
  BY <1>1 DEF Clean
<1>3. ToServe(5, 6)
  BY <1>2 DEF IInv, Off, Enabling, Live, Stopping, Down, Disabling, Says
<1>4. Head(irq) \notin Doorbells
  BY <1>1, <1>2
<1>5. Len(irq) \in Nat \ {0} /\ Head(irq) = irq[1] /\ Len(Tail(irq)) = Len(irq) - 1
      /\ Tail(irq) \in Seq(Register)
  BY <1>1, HeadTail
<1>6. \A i \in 1..Len(irq) : i <= Len(irq) - 1 => irq[i] \in Doorbells
  BY <1>3, <1>5 DEF ToServe
<1>7. Len(irq) = 1
  BY <1>4, <1>5, <1>6
<1> QED
  BY <1>1, <1>5, <1>7, EmptySeq

LEMMA BellNames ==
  /\ DOORBELL_TAIL(Adm) = "ADM_TAIL" /\ DOORBELL_TAIL(1) = "IO_TAIL"
  /\ DOORBELL_HEAD(Adm) = "ADM_HEAD" /\ DOORBELL_HEAD(1) = "IO_HEAD"
  /\ \A p, q \in Queue : /\ DOORBELL_TAIL(p) = DOORBELL_TAIL(q) => p = q
                         /\ DOORBELL_HEAD(p) = DOORBELL_HEAD(q) => p = q
                         /\ DOORBELL_TAIL(p) # DOORBELL_HEAD(q)
BY Sizes DEF DOORBELL_TAIL, DOORBELL_HEAD, Adm

\* The handler of a tail doorbell, field by field: it takes the P entries up to t.
TailServed(q, t, P) ==
  /\ t = reg[DOORBELL_TAIL(q)] /\ P = Dist(Size[q], sq[q].head, t)
  /\ rx' \in Seq(Fetches) /\ Len(rx') = Len(rx) + P
  /\ \A m \in 1..Len(rx) : rx'[m] = rx[m]
  /\ \A k \in 1..P : /\ rx'[Len(rx) + k].qid = q /\ rx'[Len(rx) + k].base = sq[q].base
                     /\ rx'[Len(rx) + k].slot = (sq[q].head + (k - 1)) % Size[q]
                     /\ (sq[q].head + (k - 1)) % Size[q] \in Slots(q)
  /\ sq' = [sq EXCEPT ![q] = [sq[q] EXCEPT !.tail = t, !.head = t]]
  /\ sq[q].size = Size[q] /\ cq[q].size = Size[q]
  /\ UNCHANGED <<csts, enabled, cq>>

LEMMA TailIs ==
  ASSUME Types, Sized, irq \in Seq(Register), irq # <<>>, NEW q \in Queue,
         Head(irq) = DOORBELL_TAIL(q), TailHandler(q)
  PROVE  \E t \in Slots(q), P \in Nat : TailServed(q, t, P)
<1>1. PICK t \in Slots(q) : t = reg[DOORBELL_TAIL(q)]
  BY DEF Types, RegTypes
<1>2. InIrq(DOORBELL_TAIL(q))
  BY HeadTail DEF InIrq
<1>3. sq[q].size = Size[q] /\ cq[q].size = Size[q]
  BY <1>2 DEF Sized
<1>4. PICK n \in Nat : n = Size[q] /\ n >= 2
  BY Sizes
<1>5. PICK h \in 0..(n - 1) : h = sq[q].head
  BY <1>4 DEF Types, SqTypes, Slots
<1>6. t \in 0..(n - 1)
  BY <1>4 DEF Slots
<1>7. (t - h) % n = Dist(n, h, t) /\ Dist(n, h, t) \in 0..(n - 1)
  BY <1>4, <1>6, DistIs
<1>8. PICK P \in Nat : P = Dist(n, h, t)
  BY <1>7
<1>9. Pending(q) = P
  BY <1>1, <1>3, <1>4, <1>5, <1>7, <1>8 DEF Pending
<1>10. PICK F : F = [k \in 1..P |-> Fetch(q, k)]
  OBVIOUS
<1>11. rx' = rx \o F /\ UNCHANGED <<csts, enabled, cq>>
  BY <1>9, <1>10 DEF TailHandler
<1>12. sq[q].base \in Words
  BY DEF Types, SqTypes
<1>13. ASSUME NEW k \in 1..P
       PROVE  /\ F[k].qid = q /\ F[k].base = sq[q].base /\ F[k].slot = (h + (k - 1)) % n
              /\ (h + (k - 1)) % n \in 0..(n - 1) /\ F[k] \in Fetches
  <2>1. F[k] = Fetch(q, k)
    BY <1>10
  <2>2. F[k] = [qid |-> q, base |-> sq[q].base, slot |-> (h + (k - 1)) % n]
    <3>1. F[k] = [qid |-> q, base |-> sq[q].base, slot |-> (sq[q].head + (k - 1)) % sq[q].size]
      BY <2>1 DEF Fetch
    <3>2. sq[q].head = h /\ sq[q].size = n
      BY <1>3, <1>4, <1>5
    <3> QED
      BY <3>1, <3>2, Zenon
  <2>3. (h + (k - 1)) % n \in 0..(n - 1)
    BY <1>4, <1>6, <1>8, DistSum
  <2> QED
    BY <1>4, <1>12, <2>2, <2>3 DEF Fetches
<1>14. F \in Seq(Fetches) /\ Len(F) = P
  <2>1. F \in [1..P -> Fetches]
    BY <1>10, <1>13
  <2> QED
    BY <2>1
<1>15. rx \in Seq(Fetches) /\ Len(rx) \in Nat
  BY DEF Types, RxTypes
<1>16. /\ rx' \in Seq(Fetches) /\ Len(rx') = Len(rx) + P
       /\ \A m \in 1..Len(rx) : rx'[m] = rx[m]
       /\ \A k \in 1..P : rx'[Len(rx) + k] = F[k]
  <2>1. /\ rx' \in Seq(Fetches) /\ Len(rx') = Len(rx) + P
        /\ \A i \in 1..(Len(rx) + P) : rx'[i] = IF i <= Len(rx) THEN rx[i] ELSE F[i - Len(rx)]
    BY <1>11, <1>14, <1>15, ConcatProperties
  <2>2. ASSUME NEW k \in 1..P PROVE rx'[Len(rx) + k] = F[k]
    <3>1. Len(rx) + k \in 1..(Len(rx) + P) /\ ~(Len(rx) + k <= Len(rx)) /\ (Len(rx) + k) - Len(rx) = k
      BY <1>15
    <3> QED
      BY <2>1, <3>1
  <2> QED
    BY <1>15, <2>1, <2>2
<1>17. sq' = [sq EXCEPT ![q] = [sq[q] EXCEPT !.tail = t, !.head = t]]
  <2>1. sq' = [sq EXCEPT ![q].tail = t, ![q].head = t]
    BY <1>1 DEF TailHandler
  <2> QED
    BY <2>1
<1>18. \A k \in 1..P : /\ rx'[Len(rx) + k].qid = q /\ rx'[Len(rx) + k].base = sq[q].base
                       /\ rx'[Len(rx) + k].slot = (sq[q].head + (k - 1)) % Size[q]
                       /\ (sq[q].head + (k - 1)) % Size[q] \in Slots(q)
  BY <1>4, <1>5, <1>13, <1>16 DEF Slots
<1> QED
  <2>1. TailServed(q, t, P)
    BY <1>1, <1>3, <1>4, <1>5, <1>8, <1>11, <1>16, <1>17, <1>18 DEF TailServed
  <2> QED
    BY <2>1

-----------------------------------------------------------------------------
(* The queues: types                                                       *)

LEMMA RegNames ==
  \A w \in AllWrites : /\ w.r \in Register \ Doorbells
                       /\ w.r \in {"ASQ_0", "ASQ_1", "ACQ_0", "ACQ_1"} => w.v \in Nat
<1>1. ASSUME NEW i \in 1..6
      PROVE  /\ Setup[i].r \in Register \ Doorbells
             /\ Setup[i].r \in {"ASQ_0", "ASQ_1", "ACQ_0", "ACQ_1"} => Setup[i].v \in Nat
  <2>1. i \in {1, 2, 3, 4, 5, 6}
    OBVIOUS
  <2> QED
    BY <2>1, SetupIs DEF Register, Doorbells
<1> QED
  BY <1>1, SetupIs DEF AllWrites, Register, Doorbells

\* Steps of the driver that leave its queues alone.
Controls == HostEnables \/ HostWrites \/ HostResets \/ HostShutsDown \/ (HostSees /\ host'.pc # "off")

LEMMA ControlIs ==
  ASSUME IInv, HostTypes, Controls
  PROVE  /\ UNCHANGED <<device, memory, Work>> /\ DOMAIN host' = HostFields
         /\ host'.pc \in {"off", "enabling", "live", "stopping", "down", "disabling"}
         /\ \A r \in Doorbells : reg'[r] = reg[r] /\ (InIrq(r)' <=> InIrq(r))
         /\ \A r \in {"ASQ_0", "ASQ_1", "ACQ_0", "ACQ_1"} : reg[r] \in Nat => reg'[r] \in Nat
<1>0. DOMAIN host = HostFields /\ Shapes
  BY DEF HostTypes, IInv
<1>1. ASSUME UNCHANGED <<reg, irq>>
      PROVE  /\ \A r \in Doorbells : reg'[r] = reg[r] /\ (InIrq(r)' <=> InIrq(r))
             /\ \A r \in {"ASQ_0", "ASQ_1", "ACQ_0", "ACQ_1"} : reg[r] \in Nat => reg'[r] \in Nat
  BY <1>1 DEF InIrq
<1>2. CASE HostEnables
  <2>1. PICK x : host' = [host EXCEPT !.pc = "enabling", !.todo = x]
    BY <1>2 DEF HostEnables
  <2>2. DOMAIN host' = HostFields /\ host'.pc = "enabling" /\ UNCHANGED Work
    BY <1>0, <2>1 DEF HostFields, Work
  <2>3. UNCHANGED <<reg, irq, device, memory>>
    BY <1>2 DEF HostEnables
  <2> QED
    BY <1>1, <2>2, <2>3
<1>3. CASE HostResets
  <2>1. PICK x, y : host' = [host EXCEPT !.pc = "disabling", !.resets = x, !.todo = y]
    BY <1>3 DEF HostResets
  <2>2. DOMAIN host' = HostFields /\ host'.pc = "disabling" /\ UNCHANGED Work
    BY <1>0, <2>1 DEF HostFields, Work
  <2>3. UNCHANGED <<reg, irq, device, memory>>
    BY <1>3 DEF HostResets
  <2> QED
    BY <1>1, <2>2, <2>3
<1>4. CASE HostShutsDown
  <2>1. PICK x : host' = [host EXCEPT !.pc = "stopping", !.todo = x]
    BY <1>4 DEF HostShutsDown
  <2>2. DOMAIN host' = HostFields /\ host'.pc = "stopping" /\ UNCHANGED Work
    BY <1>0, <2>1 DEF HostFields, Work
  <2>3. UNCHANGED <<reg, irq, device, memory>>
    BY <1>4 DEF HostShutsDown
  <2> QED
    BY <1>1, <2>2, <2>3
<1>5. CASE HostSees /\ host'.pc # "off"
  <2>1. \/ host' = [host EXCEPT !.pc = "live"]
        \/ host' = [host EXCEPT !.pc = "down"]
        \/ host' = NewHost(host.script, host.resets)
    BY <1>5 DEF HostSees, Awaits
  <2>2. NewHost(host.script, host.resets).pc = "off"
    BY DEF NewHost
  <2>3. DOMAIN host' = HostFields /\ host'.pc \in {"live", "down"} /\ UNCHANGED Work
    <3>1. CASE host' = [host EXCEPT !.pc = "live"]
      BY <1>0, <3>1 DEF HostFields, Work
    <3>2. CASE host' = [host EXCEPT !.pc = "down"]
      BY <1>0, <3>2 DEF HostFields, Work
    <3> QED
      BY <1>5, <2>1, <2>2, <3>1, <3>2
  <2>4. UNCHANGED <<reg, irq, device, sqMem>> /\ cqMem' = cqMem
    BY <1>5 DEF HostSees
  <2> QED
    BY <1>1, <2>3, <2>4 DEF memory
<1>6. CASE HostWrites
  <2>1. PICK w \in AllWrites : w = Head(host.todo) /\ host.todo # <<>>
    BY <1>0, <1>6, HeadTail DEF HostWrites, Shapes
  <2>2. /\ reg' = [reg EXCEPT ![w.r] = w.v] /\ irq' = Append(irq, w.r)
        /\ host' = [host EXCEPT !.todo = Tail(host.todo)] /\ UNCHANGED <<device, memory>>
    BY <1>6, <2>1 DEF HostWrites
  <2>3. DOMAIN host' = HostFields /\ host'.pc = host.pc /\ UNCHANGED Work
    BY <1>0, <2>2 DEF HostFields, Work
  <2>4. /\ w.r \in Register \ Doorbells
        /\ w.r \in {"ASQ_0", "ASQ_1", "ACQ_0", "ACQ_1"} => w.v \in Nat
    BY RegNames
  <2>5. \A r \in Doorbells : reg'[r] = reg[r]
    BY <1>0, <2>2, <2>4, DoorbellsAre DEF Shapes
  <2>6. \A r \in {"ASQ_0", "ASQ_1", "ACQ_0", "ACQ_1"} : reg[r] \in Nat => reg'[r] \in Nat
    BY <1>0, <2>2, <2>4 DEF Shapes, Register
  <2>7. /\ Len(irq) \in Nat /\ Len(irq') = Len(irq) + 1 /\ irq'[Len(irq) + 1] = w.r
        /\ \A j \in 1..Len(irq) : irq'[j] = irq[j]
    BY <1>0, <2>2, <2>4, Appended DEF Shapes
  <2>8. ASSUME NEW r \in Doorbells PROVE InIrq(r)' <=> InIrq(r)
    <3>1. ASSUME InIrq(r) PROVE InIrq(r)'
      <4>1. PICK n \in 1..Len(irq) : irq[n] = r
        BY <3>1 DEF InIrq
      <4>2. n \in 1..Len(irq') /\ irq'[n] = r
        BY <2>7, <4>1
      <4> QED
        BY <4>2 DEF InIrq
    <3>2. ASSUME InIrq(r)' PROVE InIrq(r)
      <4>1. PICK n \in 1..Len(irq') : irq'[n] = r
        BY <3>2 DEF InIrq
      <4>2. n # Len(irq) + 1
        BY <2>4, <2>7, <4>1
      <4>3. n \in 1..Len(irq) /\ irq[n] = r
        BY <2>7, <4>1, <4>2
      <4> QED
        BY <4>3 DEF InIrq
    <3> QED
      BY <3>1, <3>2
  <2>9. host'.pc \in {"off", "enabling", "live", "stopping", "down", "disabling"}
    BY <2>3 DEF HostTypes
  <2> QED
    BY <2>2, <2>3, <2>5, <2>6, <2>8, <2>9
<1> QED
  BY <1>2, <1>3, <1>4, <1>5, <1>6 DEF Controls

LEMMA TypesControl ==
  ASSUME IInv, Types, Controls
  PROVE  Types'
<1>0. HostTypes
  BY DEF Types
<1>1. /\ UNCHANGED <<device, memory, Work>> /\ DOMAIN host' = HostFields
      /\ host'.pc \in {"off", "enabling", "live", "stopping", "down", "disabling"}
      /\ \A r \in Doorbells : reg'[r] = reg[r]
      /\ \A r \in {"ASQ_0", "ASQ_1", "ACQ_0", "ACQ_1"} : reg[r] \in Nat => reg'[r] \in Nat
  BY <1>0, ControlIs
<1>2. RegTypes'
  BY <1>1, DoorbellsAre DEF Types, RegTypes, device
<1>3. HostTypes'
  BY <1>0, <1>1 DEF HostTypes, Work
<1>4. SqTypes' /\ CqTypes' /\ MemTypes' /\ RxTypes' /\ TxTypes' /\ CpuTypes'
  BY <1>1 DEF Types, SqTypes, CqTypes, OkCqs, MemTypes, RxTypes, TxTypes, OkTransfer, CpuTypes,
              device, memory
<1> QED
  BY <1>2, <1>3, <1>4 DEF Types

\* The driver is without queues again.
LEMMA OffIs ==
  ASSUME HostSees, host'.pc = "off", HostTypes
  PROVE  /\ host.pc = "disabling" /\ csts.rdy = 0 /\ host.todo = <<>>
         /\ UNCHANGED <<reg, irq, device, sqMem>>
         /\ cqMem' = [q \in Queue |-> EmptyCq(q)]
         /\ DOMAIN host' = HostFields /\ host'.todo = <<>> /\ host'.script = host.script
         /\ host'.granted = 0 /\ host'.has = {} /\ host'.out = [q \in Queue |-> {}]
         /\ host'.got = [c \in Cid |-> "none"] /\ host'.tail = [q \in Queue |-> 0]
         /\ host'.head = [q \in Queue |-> 0] /\ host'.phase = [q \in Queue |-> 1]
<1>0. DOMAIN host = HostFields
  BY DEF HostTypes
<1>1. /\ host.todo = <<>> /\ Awaits /\ UNCHANGED <<reg, irq, device, sqMem>>
      /\ cqMem' = [q \in Queue |-> EmptyCq(q)]
  BY DEF HostSees
<1>2. host' # [host EXCEPT !.pc = "live"] /\ host' # [host EXCEPT !.pc = "down"]
  BY <1>0 DEF HostFields
<1>3. host.pc = "disabling" /\ csts.rdy = 0 /\ host' = NewHost(host.script, host.resets)
  BY <1>1, <1>2 DEF Awaits
<1> QED
  BY <1>1, <1>3 DEF NewHost, HostFields

LEMMA TypesOff ==
  ASSUME Types, HostSees, host'.pc = "off"
  PROVE  Types'
<1>0. HostTypes
  BY DEF Types
<1>1. /\ UNCHANGED <<reg, irq, device, sqMem>> /\ cqMem' = [q \in Queue |-> EmptyCq(q)]
      /\ DOMAIN host' = HostFields /\ host'.script = host.script
      /\ host'.granted = 0 /\ host'.has = {} /\ host'.out = [q \in Queue |-> {}]
      /\ host'.got = [c \in Cid |-> "none"] /\ host'.tail = [q \in Queue |-> 0]
      /\ host'.head = [q \in Queue |-> 0] /\ host'.phase = [q \in Queue |-> 1]
  BY <1>0, OffIs
<1>2. \A q \in Queue : 0 \in Slots(q)
  BY Sizes DEF Slots
<1>3. HostTypes'
  BY <1>0, <1>1, <1>2 DEF HostTypes
<1>4. ASSUME NEW q \in Queue PROVE EmptyCq(q) \in [Slots(q) -> Entries]
  <2>1. [cid |-> 0, res |-> 0, p |-> 0] \in Entries
    BY Sizes DEF Entries
  <2> QED
    BY <2>1 DEF EmptyCq, Slots
<1>5. MemTypes'
  BY <1>1, <1>4 DEF Types, MemTypes
<1>6. RegTypes' /\ SqTypes' /\ CqTypes' /\ RxTypes' /\ TxTypes' /\ CpuTypes'
  BY <1>1 DEF Types, RegTypes, SqTypes, CqTypes, OkCqs, RxTypes, TxTypes, OkTransfer, CpuTypes, device
<1> QED
  BY <1>3, <1>5, <1>6 DEF Types

\* A function on a queue's slots, or on queues, with one value changed.
LEMMA Patched ==
  ASSUME NEW S, NEW T, NEW f \in [S -> T], NEW s \in S, NEW x \in T
  PROVE  /\ [f EXCEPT ![s] = x] \in [S -> T] /\ [f EXCEPT ![s] = x][s] = x
         /\ \A r \in S : r # s => [f EXCEPT ![s] = x][r] = f[r]
OBVIOUS

LEMMA TypesSubmit ==
  ASSUME Shapes, Types, NEW q \in Queue, NEW c \in Commands, Submit(q, c)
  PROVE  Types'
<1>0. HostTypes /\ MemTypes
  BY DEF Types
<1>1. PICK n \in Nat : n = Size[q] /\ n >= 2
  BY Sizes
<1>2. PICK t \in 0..(n - 1) : t = host.tail[q]
  BY <1>0, <1>1 DEF HostTypes, Slots
<1>3. PICK u \in 0..(n - 1) : u = (t + 1) % n
  BY <1>1, NextIs
<1>4. /\ host.script # <<>>
      /\ DOMAIN host' = HostFields /\ host'.pc = host.pc /\ host'.todo = host.todo
      /\ host'.script = Tail(host.script) /\ host'.granted = host.granted
      /\ host'.out = [host.out EXCEPT ![q] = host.out[q] \cup {c}]
      /\ host'.tail = [host.tail EXCEPT ![q] = u]
      /\ host'.head = host.head /\ host'.phase = host.phase
      /\ host'.got = [host.got EXCEPT ![c.cid] = IF q = Adm THEN "none" ELSE host.got[c.cid]]
      /\ host'.has = IF c.op = "delete_sq" /\ c.qid = 1 THEN host.has \ {"sq"} ELSE host.has
  BY <1>1, <1>2, <1>3, SubmitIs
<1>5. /\ sqMem' = [sqMem EXCEPT ![q] = [sqMem[q] EXCEPT ![t] = c]]
      /\ reg' = [reg EXCEPT ![DOORBELL_TAIL(q)] = u]
      /\ cqMem' = IF c.op = "create_cq" /\ c.qid = 1
                       THEN [cqMem EXCEPT ![1] = EmptyCq(1)] ELSE cqMem
      /\ UNCHANGED device
  BY <1>1, <1>2, <1>3, SubmitIs
<1>6. c.cid \in Cid
  BY DEF Commands
<1>7. HostTypes'
  <2>1. host'.script \in Seq(Op)
    BY <1>0, <1>4, HeadTail DEF HostTypes
  <2>2. host'.has \in {{}, {"cq"}, {"cq", "sq"}}
    BY <1>0, <1>4 DEF HostTypes
  <2>3. host'.out \in [Queue -> SUBSET Commands]
    BY <1>0, <1>4 DEF HostTypes
  <2>4. host'.got \in [Cid -> DataOp \cup {"none", "zero"}]
    BY <1>0, <1>4, <1>6 DEF HostTypes
  <2>5. /\ host'.tail \in [Queue -> Nat] /\ \A p \in Queue : host'.tail[p] \in Slots(p)
    BY <1>0, <1>1, <1>4 DEF HostTypes, Slots
  <2> QED
    BY <1>0, <1>4, <2>1, <2>2, <2>3, <2>4, <2>5 DEF HostTypes
<1>8. MemTypes'
  <2>1. [sqMem[q] EXCEPT ![t] = c] \in [Slots(q) -> Commands]
    BY <1>0, <1>1 DEF MemTypes, Slots
  <2>2. DOMAIN sqMem' = Queue /\ \A p \in Queue : sqMem'[p] \in [Slots(p) -> Commands]
    BY <1>0, <1>5, <2>1 DEF MemTypes
  <2>3. EmptyCq(1) \in [Slots(1) -> Entries]
    <3>1. [cid |-> 0, res |-> 0, p |-> 0] \in Entries
      BY Sizes DEF Entries
    <3> QED
      BY <3>1 DEF EmptyCq, Slots
  <2>4. DOMAIN cqMem' = Queue /\ \A p \in Queue : cqMem'[p] \in [Slots(p) -> Entries]
    BY <1>0, <1>5, <2>3, Sizes DEF MemTypes
  <2> QED
    BY <2>2, <2>4 DEF MemTypes
<1>9. RegTypes'
  <2>1. DOMAIN reg = Register /\ DOORBELL_TAIL(q) \in Doorbells /\ Doorbells \subseteq Register
    BY DoorbellsAre DEF Shapes
  <2>2. /\ reg'[DOORBELL_TAIL(q)] = u
        /\ \A r \in Register : r # DOORBELL_TAIL(q) => reg'[r] = reg[r]
    BY <1>5, <2>1
  <2>3. \A p \in Queue : reg'[DOORBELL_TAIL(p)] \in Slots(p) /\ reg'[DOORBELL_HEAD(p)] \in Slots(p)
    <3> SUFFICES ASSUME NEW p \in Queue
                 PROVE  reg'[DOORBELL_TAIL(p)] \in Slots(p) /\ reg'[DOORBELL_HEAD(p)] \in Slots(p)
      OBVIOUS
    <3>1. /\ DOORBELL_TAIL(p) \in Register /\ DOORBELL_HEAD(p) \in Register
          /\ DOORBELL_HEAD(p) # DOORBELL_TAIL(q) /\ (DOORBELL_TAIL(p) = DOORBELL_TAIL(q) => p = q)
      BY BellNames, DoorbellsAre
    <3>2. reg[DOORBELL_TAIL(p)] \in Slots(p) /\ reg[DOORBELL_HEAD(p)] \in Slots(p)
      BY DEF Types, RegTypes
    <3>3. u \in Slots(q)
      BY <1>1 DEF Slots
    <3> QED
      BY <2>2, <3>1, <3>2, <3>3
  <2>4. \A r \in {"ASQ_0", "ASQ_1", "ACQ_0", "ACQ_1"} : reg'[r] \in Nat
    BY <2>1, <2>2 DEF Types, RegTypes, Register, Doorbells
  <2> QED
    BY <1>5, <2>3, <2>4 DEF Types, RegTypes, device
<1>10. SqTypes' /\ CqTypes' /\ RxTypes' /\ TxTypes' /\ CpuTypes'
  BY <1>5 DEF Types, SqTypes, CqTypes, OkCqs, RxTypes, TxTypes, OkTransfer, CpuTypes, device
<1> QED
  BY <1>7, <1>8, <1>9, <1>10 DEF Types

LEMMA TypesConsume ==
  ASSUME Shapes, Types, NEW q \in Queue, Consume(q), NEW c \in host.out[q],
         c.cid = cqMem[q][host.head[q]].cid, \A d \in host.out[q] : d.cid = c.cid => d = c,
         Makes(c, "create_sq") => host.has = {"cq"}
  PROVE  Types'
<1>0. HostTypes /\ MemTypes
  BY DEF Types
<1>a. Consumed(q, c)
  BY ConsumeIs
<1>1. PICK n \in Nat : n = Size[q] /\ n >= 2
  BY Sizes
<1>2. PICK h \in 0..(n - 1) : h = host.head[q]
  BY <1>0, <1>1 DEF HostTypes, Slots
<1>3. PICK u \in 0..(n - 1) : u = (h + 1) % n
  BY <1>1, NextIs
<1>4. /\ DOMAIN host' = HostFields /\ host'.pc = host.pc /\ host'.todo = host.todo
      /\ host'.script = host.script
      /\ host'.granted = IF c.op = "set_features" THEN 1 ELSE host.granted
      /\ host'.out = [host.out EXCEPT ![q] = host.out[q] \ {c}]
      /\ host'.got = [i \in Cid |-> IF q = Adm /\ i = c.cid THEN "none" ELSE host.got[i]]
      /\ host'.has = IF Makes(c, "create_cq") THEN host.has \cup {"cq"}
                        ELSE IF Makes(c, "create_sq") THEN host.has \cup {"sq"}
                        ELSE IF Makes(c, "delete_cq") THEN {} ELSE host.has
  BY <1>a DEF Consumed
<1>5. /\ \A p \in Queue :
              /\ host'.tail[p] = IF Makes(c, "create_sq") /\ p = 1 THEN 0 ELSE host.tail[p]
              /\ host'.head[p] = IF Makes(c, "create_cq") /\ p = 1 THEN 0
                                 ELSE IF p = q THEN u ELSE host.head[p]
              /\ host'.phase[p] = IF Makes(c, "create_cq") /\ p = 1 THEN 1
                                  ELSE IF p = q /\ u = 0
                                       THEN 1 - host.phase[p] ELSE host.phase[p]
      /\ DOMAIN host'.tail = Queue /\ DOMAIN host'.head = Queue /\ DOMAIN host'.phase = Queue
      /\ host'.tail = [p \in Queue |-> host'.tail[p]]
      /\ host'.head = [p \in Queue |-> host'.head[p]]
      /\ host'.phase = [p \in Queue |-> host'.phase[p]]
  BY <1>1, <1>2, <1>3, <1>a DEF Consumed
<1>6. /\ reg' = [reg EXCEPT ![DOORBELL_HEAD(q)] = u]
      /\ cqMem' = [cqMem EXCEPT ![q] = [cqMem[q] EXCEPT ![h] =
                        [cid |-> 0, res |-> 0, p |-> cqMem[q][h].p]]]
      /\ sqMem' = [sqMem EXCEPT ![q] =
                        [i \in Slots(q) |-> IF sqMem[q][i] = c THEN Junk ELSE sqMem[q][i]]]
      /\ UNCHANGED device
  BY <1>1, <1>2, <1>3, <1>a DEF Consumed
<1>7. HostTypes'
  <2>1. host'.has \in {{}, {"cq"}, {"cq", "sq"}}
    <3>1. host.has \in {{}, {"cq"}, {"cq", "sq"}}
      BY <1>0 DEF HostTypes
    <3>2. host.has \cup {"cq"} \in {{}, {"cq"}, {"cq", "sq"}}
      BY <3>1
    <3>3. host.has = {"cq"} => host.has \cup {"sq"} = {"cq", "sq"}
      OBVIOUS
    <3> QED
      BY <1>4, <3>1, <3>2, <3>3
  <2>2. host'.granted \in {0, 1}
    BY <1>0, <1>4 DEF HostTypes
  <2>3. host'.out \in [Queue -> SUBSET Commands]
    BY <1>0, <1>4 DEF HostTypes
  <2>4. host'.got \in [Cid -> DataOp \cup {"none", "zero"}]
    BY <1>0, <1>4 DEF HostTypes
  <2>5. \A p \in Queue : 0 \in Slots(p) /\ Slots(p) \subseteq Nat
    BY Sizes DEF Slots
  <2>6. u \in Slots(q)
    BY <1>1 DEF Slots
  <2>7. \A p \in Queue : host'.tail[p] \in Slots(p)
    BY <1>0, <1>5, <2>5 DEF HostTypes
  <2>8. \A p \in Queue : host'.head[p] \in Slots(p)
    BY <1>0, <1>5, <2>5, <2>6 DEF HostTypes
  <2>9. ASSUME NEW p \in Queue PROVE host'.phase[p] \in {0, 1}
    <3>1. host.phase[p] \in {0, 1}
      BY <1>0 DEF HostTypes
    <3> QED
      BY <1>5, <3>1
  <2>10. /\ host'.tail \in [Queue -> Nat] /\ host'.head \in [Queue -> Nat]
         /\ host'.phase \in [Queue -> {0, 1}]
    BY <1>5, <2>5, <2>7, <2>8, <2>9
  <2> QED
    BY <1>0, <1>4, <2>1, <2>2, <2>3, <2>4, <2>7, <2>8, <2>10 DEF HostTypes
<1>8. MemTypes'
  <2>1. Junk \in Commands
    BY Sizes DEF Junk, Commands, Cid, Op
  <2>2. [i \in Slots(q) |-> IF sqMem[q][i] = c THEN Junk ELSE sqMem[q][i]] \in [Slots(q) -> Commands]
    BY <1>0, <2>1 DEF MemTypes
  <2>3. DOMAIN sqMem' = Queue /\ \A p \in Queue : sqMem'[p] \in [Slots(p) -> Commands]
    BY <1>0, <1>6, <2>2 DEF MemTypes
  <2>4. h \in Slots(q) /\ cqMem[q] \in [Slots(q) -> Entries]
    BY <1>0, <1>1 DEF MemTypes, Slots
  <2>5. PICK e : e = [cid |-> 0, res |-> 0, p |-> cqMem[q][h].p]
    OBVIOUS
  <2>6. e \in Entries
    BY <2>4, <2>5, Sizes DEF Entries
  <2>7. [cqMem[q] EXCEPT ![h] = e] \in [Slots(q) -> Entries]
    BY <2>4, <2>6
  <2>8. DOMAIN cqMem' = Queue /\ \A p \in Queue : cqMem'[p] \in [Slots(p) -> Entries]
    BY <1>0, <1>6, <2>5, <2>7 DEF MemTypes
  <2> QED
    BY <2>3, <2>8 DEF MemTypes
<1>9. RegTypes'
  <2>1. DOMAIN reg = Register /\ DOORBELL_HEAD(q) \in Doorbells /\ Doorbells \subseteq Register
    BY DoorbellsAre DEF Shapes
  <2>2. /\ reg'[DOORBELL_HEAD(q)] = u
        /\ \A r \in Register : r # DOORBELL_HEAD(q) => reg'[r] = reg[r]
    BY <1>6, <2>1
  <2>3. \A p \in Queue : reg'[DOORBELL_TAIL(p)] \in Slots(p) /\ reg'[DOORBELL_HEAD(p)] \in Slots(p)
    <3> SUFFICES ASSUME NEW p \in Queue
                 PROVE  reg'[DOORBELL_TAIL(p)] \in Slots(p) /\ reg'[DOORBELL_HEAD(p)] \in Slots(p)
      OBVIOUS
    <3>1. /\ DOORBELL_TAIL(p) \in Register /\ DOORBELL_HEAD(p) \in Register
          /\ DOORBELL_TAIL(p) # DOORBELL_HEAD(q) /\ (DOORBELL_HEAD(p) = DOORBELL_HEAD(q) => p = q)
      BY BellNames, DoorbellsAre
    <3>2. reg[DOORBELL_TAIL(p)] \in Slots(p) /\ reg[DOORBELL_HEAD(p)] \in Slots(p)
      BY DEF Types, RegTypes
    <3>3. u \in Slots(q)
      BY <1>1 DEF Slots
    <3> QED
      BY <2>2, <3>1, <3>2, <3>3
  <2>4. \A r \in {"ASQ_0", "ASQ_1", "ACQ_0", "ACQ_1"} : reg'[r] \in Nat
    BY <2>1, <2>2 DEF Types, RegTypes, Register, Doorbells
  <2> QED
    BY <1>6, <2>3, <2>4 DEF Types, RegTypes, device
<1>10. SqTypes' /\ CqTypes' /\ RxTypes' /\ TxTypes' /\ CpuTypes'
  BY <1>6 DEF Types, SqTypes, CqTypes, OkCqs, RxTypes, TxTypes, OkTransfer, CpuTypes, device
<1> QED
  BY <1>7, <1>8, <1>9, <1>10 DEF Types

LEMMA TypesServe ==
  ASSUME IInv, Types, Sized, Serve
  PROVE  Types'
<1>0. Shapes /\ SqTypes /\ CqTypes /\ RegTypes /\ RxTypes /\ CpuTypes
  BY DEF IInv, Types
<1>1. /\ irq # <<>> /\ irq \in Seq(Register) /\ UNCHANGED <<reg, beyond, filling, resp, tx, txDone, host, memory>>
      /\ cpu \in {"idle", "tc"} /\ cpu' \in {"idle", "tc"}
  BY <1>0 DEF Serve, Shapes
<1>2. HostTypes' /\ MemTypes' /\ TxTypes' /\ CpuTypes'
  BY <1>1 DEF Types, HostTypes, MemTypes, TxTypes, OkTransfer, CpuTypes, memory
<1>3. ASSUME UNCHANGED rx PROVE RxTypes'
  BY <1>0, <1>3 DEF RxTypes
<1>4. ASSUME UNCHANGED <<csts, enabled>> PROVE RegTypes'
  BY <1>0, <1>1, <1>4 DEF RegTypes
<1>5. ASSUME UNCHANGED sq PROVE SqTypes'
  BY <1>0, <1>5 DEF SqTypes
<1>6. ASSUME UNCHANGED cq PROVE CqTypes'
  BY <1>0, <1>6 DEF CqTypes, OkCqs
<1>7. CASE Head(irq) = "CC" /\ CcHandler
  <2>1. UNCHANGED <<sq, cq, rx>>
    BY <1>7 DEF CcHandler
  <2>2. csts' \in [rdy : {0, 1}, shst : {0, 2}] /\ enabled' \in BOOLEAN
    BY <1>0, <1>7 DEF CcHandler, RegTypes
  <2>3. RegTypes'
    BY <1>0, <1>1, <2>2 DEF RegTypes
  <2> QED
    BY <1>2, <1>3, <1>5, <1>6, <2>1, <2>3 DEF Types
<1>8. CASE Head(irq) = "AQA" /\ AqaHandler
  <2>1. UNCHANGED <<csts, enabled, rx>>
    BY <1>8 DEF AqaHandler
  <2>2. reg["AQA"] + 1 = AdmSize
    BY <1>8, SetupServed, SizesAssumption
  <2>3. sq' = [sq EXCEPT ![Adm] = [sq[Adm] EXCEPT !.size = AdmSize]]
        /\ cq' = [cq EXCEPT ![Adm] = [cq[Adm] EXCEPT !.size = AdmSize]]
    BY <1>8, <2>2 DEF AqaHandler
  <2>4. SqTypes'
    <3>1. sq[Adm] \in [base : Words, size : {0, Size[Adm]}, head : Slots(Adm), tail : Slots(Adm)]
      BY <1>0, Sizes DEF SqTypes
    <3>2. [sq[Adm] EXCEPT !.size = AdmSize] \in [base : Words, size : {0, Size[Adm]}, head : Slots(Adm), tail : Slots(Adm)]
      BY <3>1, Sizes
    <3> QED
      BY <1>0, <2>3, <3>2, Sizes DEF SqTypes
  <2>5. CqTypes'
    <3>1. cq[Adm] \in [base : Words, size : {0, Size[Adm]}, head : Slots(Adm), tail : Slots(Adm), phase : {0, 1}]
      BY <1>0, Sizes DEF CqTypes, OkCqs
    <3>2. [cq[Adm] EXCEPT !.size = AdmSize] \in [base : Words, size : {0, Size[Adm]}, head : Slots(Adm), tail : Slots(Adm), phase : {0, 1}]
      BY <3>1, Sizes
    <3> QED
      BY <1>0, <2>3, <3>2, Sizes DEF CqTypes, OkCqs
  <2> QED
    BY <1>2, <1>3, <1>4, <2>1, <2>4, <2>5 DEF Types
<1>9. CASE Head(irq) \in {"ASQ_0", "ASQ_1"} /\ AsqHandler(Head(irq))
  <2>1. UNCHANGED <<csts, enabled, cq, rx>>
    BY <1>9 DEF AsqHandler
  <2>2. PICK b : sq' = [sq EXCEPT ![Adm].base = b] /\ b \in {<<reg["ASQ_0"], reg["ASQ_1"]>>, sq[Adm].base}
    BY <1>9 DEF AsqHandler
  <2>3. sq[Adm] \in [base : Words, size : {0, Size[Adm]}, head : Slots(Adm), tail : Slots(Adm)]
    BY <1>0, Sizes DEF SqTypes
  <2>4. b \in Words
    BY <1>0, <2>2, <2>3 DEF RegTypes, Words
  <2>5. [sq[Adm] EXCEPT !.base = b] \in [base : Words, size : {0, Size[Adm]}, head : Slots(Adm), tail : Slots(Adm)]
    BY <2>3, <2>4
  <2>6. SqTypes'
    BY <1>0, <2>2, <2>5, Sizes DEF SqTypes
  <2> QED
    BY <1>2, <1>3, <1>4, <1>6, <2>1, <2>6 DEF Types
<1>10. CASE Head(irq) \in {"ACQ_0", "ACQ_1"} /\ AcqHandler(Head(irq))
  <2>1. UNCHANGED <<csts, enabled, sq, rx>>
    BY <1>10 DEF AcqHandler
  <2>2. PICK b : cq' = [cq EXCEPT ![Adm].base = b] /\ b \in {<<reg["ACQ_0"], reg["ACQ_1"]>>, cq[Adm].base}
    BY <1>10 DEF AcqHandler
  <2>3. cq[Adm] \in [base : Words, size : {0, Size[Adm]}, head : Slots(Adm), tail : Slots(Adm), phase : {0, 1}]
    BY <1>0, Sizes DEF CqTypes, OkCqs
  <2>4. b \in Words
    BY <1>0, <2>2, <2>3 DEF RegTypes, Words
  <2>5. [cq[Adm] EXCEPT !.base = b] \in [base : Words, size : {0, Size[Adm]}, head : Slots(Adm), tail : Slots(Adm), phase : {0, 1}]
    BY <2>3, <2>4
  <2>6. CqTypes'
    BY <1>0, <2>2, <2>5, Sizes DEF CqTypes, OkCqs
  <2> QED
    BY <1>2, <1>3, <1>4, <1>5, <2>1, <2>6 DEF Types
<1>11. ASSUME NEW q \in Queue, Head(irq) = DOORBELL_TAIL(q), TailHandler(q) PROVE Types'
  <2>0. PICK t \in Slots(q), P \in Nat : TailServed(q, t, P)
    BY <1>1, <1>11, TailIs
  <2>1. /\ rx' \in Seq(Fetches) /\ Len(rx') = Len(rx) + P
        /\ \A m \in 1..Len(rx) : rx'[m] = rx[m]
        /\ \A k \in 1..P : rx'[Len(rx) + k].qid = q /\ rx'[Len(rx) + k].slot \in Slots(q)
        /\ sq' = [sq EXCEPT ![q] = [sq[q] EXCEPT !.tail = t, !.head = t]]
        /\ UNCHANGED <<csts, enabled, cq>>
    BY <2>0 DEF TailServed
  <2>2. RxTypes'
    <3>1. Len(rx) \in Nat /\ \A m \in 1..Len(rx) : rx[m].slot \in Slots(rx[m].qid)
      BY <1>0 DEF RxTypes
    <3>2. ASSUME NEW m \in 1..Len(rx') PROVE rx'[m].slot \in Slots(rx'[m].qid)
      <4>1. CASE m <= Len(rx)
        BY <2>1, <3>1, <4>1
      <4>2. CASE m > Len(rx)
        <5>1. PICK k \in 1..P : m = Len(rx) + k
          <6>1. Len(rx') = Len(rx) + P /\ Len(rx) \in Nat
            BY <2>1, <3>1
          <6>2. m - Len(rx) \in 1..P /\ m = Len(rx) + (m - Len(rx))
            BY <4>2, <6>1
          <6> QED
            BY <6>2
        <5> QED
          BY <2>1, <5>1
      <4> QED
        BY <3>1, <4>1, <4>2
    <3> QED
      BY <2>1, <3>2 DEF RxTypes
  <2>3. SqTypes'
    <3>1. sq[q] \in [base : Words, size : {0, Size[q]}, head : Slots(q), tail : Slots(q)]
      BY <1>0 DEF SqTypes
    <3>2. [sq[q] EXCEPT !.tail = t, !.head = t] \in [base : Words, size : {0, Size[q]}, head : Slots(q), tail : Slots(q)]
      BY <3>1
    <3> QED
      BY <1>0, <2>1, <3>2 DEF SqTypes
  <2> QED
    BY <1>2, <1>4, <1>6, <2>1, <2>2, <2>3 DEF Types
<1>12. ASSUME NEW q \in Queue, Head(irq) = DOORBELL_HEAD(q), HeadHandler(q) PROVE Types'
  <2>1. PICK t : t = reg[DOORBELL_HEAD(q)]
    OBVIOUS
  <2>2. t \in Slots(q)
    BY <1>0, <2>1 DEF RegTypes
  <2>3. UNCHANGED <<csts, enabled, sq, rx>> /\ cq' = [cq EXCEPT ![q] = [cq[q] EXCEPT !.head = t]]
    BY <1>12, <2>1 DEF HeadHandler
  <2>4. CqTypes'
    <3>1. cq[q] \in [base : Words, size : {0, Size[q]}, head : Slots(q), tail : Slots(q), phase : {0, 1}]
      BY <1>0 DEF CqTypes, OkCqs
    <3>2. [cq[q] EXCEPT !.head = t] \in [base : Words, size : {0, Size[q]}, head : Slots(q), tail : Slots(q), phase : {0, 1}]
      BY <2>2, <3>1
    <3> QED
      BY <1>0, <2>3, <3>2 DEF CqTypes, OkCqs
  <2> QED
    BY <1>2, <1>3, <1>4, <1>5, <2>3, <2>4 DEF Types
<1> QED
  BY <1>7, <1>8, <1>9, <1>10, <1>11, <1>12 DEF Serve

\* The commands and the engine.
LEMMA TypesHandle ==
  ASSUME Types, Sized, HandleCommand
  PROVE  Types'
<1>1. PICK q \in Queue, c \in Commands :
           /\ rx # <<>> /\ rx' = Tail(rx) /\ sq' = SqsAfter(c)
           /\ OkCqs(CqsAfter(c))
           /\ Posts(c, q, CqsAfter(c), tx) \/ Drops(q, CqsAfter(c), tx)
           /\ UNCHANGED <<reg, csts, irq, enabled, beyond, cpu, filling, resp, txDone, host, memory>>
  BY HandleIs
<1>2. RegTypes' /\ HostTypes' /\ MemTypes' /\ CpuTypes'
  BY <1>1 DEF Types, RegTypes, HostTypes, MemTypes, CpuTypes, memory
<1>3. RxTypes'
  <2>1. rx \in Seq(Fetches) /\ \A m \in 1..Len(rx) : rx[m].slot \in Slots(rx[m].qid)
    BY DEF Types, RxTypes
  <2>2. /\ Len(rx) \in Nat \ {0} /\ rx' \in Seq(Fetches) /\ Len(rx') = Len(rx) - 1
        /\ \A j \in 1..(Len(rx) - 1) : rx'[j] = rx[j + 1]
    BY <1>1, <2>1, HeadTail
  <2> QED
    BY <2>1, <2>2 DEF RxTypes
<1>4. SqTypes'
  <2>1. SqTypes
    BY DEF Types
  <2>2. CASE c.op = "create_sq" /\ c.qid = 1
    <3>1. PICK r : r = [base |-> Base, size |-> IoSize, head |-> 0, tail |-> 0]
      OBVIOUS
    <3>2. r \in [base : Words, size : {0, Size[1]}, head : Slots(1), tail : Slots(1)]
      BY <3>1, Sizes DEF Base, Words, Slots
    <3>3. sq' = [sq EXCEPT ![1] = r]
      BY <1>1, <2>2, <3>1 DEF SqsAfter, CreateSq
    <3> QED
      BY <2>1, <3>2, <3>3, Sizes DEF SqTypes
  <2>3. CASE ~(c.op = "create_sq" /\ c.qid = 1)
    BY <1>1, <2>1, <2>3 DEF SqsAfter, SqTypes
  <2> QED
    BY <2>2, <2>3
<1>5. OkTxs(tx) /\ c.cid \in Cid /\ c.op \in Op
  BY DEF Types, TxTypes, OkTxs, Commands
<1>6. OkCqs(cq') /\ OkTxs(tx')
  BY <1>1, <1>5, PostsTypes
<1>7. txDone' = 1 => tx' # <<>> /\ tx'[1].kind = "data"
  <2> SUFFICES ASSUME txDone = 1 PROVE tx' # <<>> /\ tx'[1].kind = "data"
    BY <1>1
  <2>1. tx \in Seq(Transfers) /\ tx # <<>> /\ tx[1].kind = "data"
    BY DEF Types, TxTypes
  <2>2. Len(tx) \in Nat \ {0}
    BY <2>1, HeadTail
  <2>3. CASE tx' = tx
    BY <2>1, <2>3
  <2>4. ASSUME NEW e, tx' = Append(tx, e) PROVE tx' # <<>> /\ tx'[1].kind = "data"
    BY <2>1, <2>2, <2>4
  <2> QED
    BY <1>1, <2>3, <2>4 DEF Posts, Drops
<1>8. CqTypes' /\ TxTypes'
  <2>1. txDone' \in {0, 1}
    BY <1>1 DEF Types, TxTypes
  <2> QED
    BY <1>6, <1>7, <2>1 DEF CqTypes, TxTypes, OkTxs
<1> QED
  BY <1>2, <1>3, <1>4, <1>8 DEF Types

\* The channel without its first transfer, or with another.
LEMMA TxTail ==
  ASSUME Types, tx # <<>>
  PROVE  /\ Len(tx) \in Nat \ {0} /\ Head(tx) = tx[1] /\ OkTransfer(tx[1]) /\ tx[1] \in Transfers
         /\ OkTxs(Tail(tx)) /\ Len(Tail(tx)) = Len(tx) - 1
         /\ \A m \in 1..(Len(tx) - 1) : Tail(tx)[m] = tx[m + 1]
<1>1. tx \in Seq(Transfers) /\ \A m \in 1..Len(tx) : OkTransfer(tx[m])
  BY DEF Types, TxTypes
<1>2. /\ Len(tx) \in Nat \ {0} /\ Head(tx) = tx[1] /\ Tail(tx) \in Seq(Transfers)
      /\ Len(Tail(tx)) = Len(tx) - 1 /\ \A m \in 1..(Len(tx) - 1) : Tail(tx)[m] = tx[m + 1]
  BY <1>1, HeadTail
<1>3. OkTransfer(tx[1]) /\ tx[1] \in Transfers
  BY <1>1, <1>2 DEF OkTransfer
<1>4. \A m \in 1..Len(Tail(tx)) : OkTransfer(Tail(tx)[m])
  BY <1>1, <1>2
<1> QED
  BY <1>2, <1>3, <1>4 DEF OkTxs

LEMMA TxMore ==
  ASSUME OkTxs(tx), NEW e, OkTransfer(e), tx' = Append(tx, e)
  PROVE  /\ OkTxs(tx') /\ Len(tx) \in Nat /\ Len(tx') = Len(tx) + 1 /\ tx'[Len(tx) + 1] = e
         /\ \A m \in 1..Len(tx) : tx'[m] = tx[m]
<1>1. tx \in Seq(Transfers) /\ e \in Transfers /\ \A m \in 1..Len(tx) : OkTransfer(tx[m])
  BY DEF OkTxs, OkTransfer
<1>2. /\ tx' \in Seq(Transfers) /\ Len(tx') = Len(tx) + 1 /\ Len(tx) \in Nat
      /\ \A m \in 1..Len(tx) : tx'[m] = tx[m]
      /\ tx'[Len(tx) + 1] = e
  BY <1>1, Appended
<1>3. ASSUME NEW m \in 1..Len(tx') PROVE OkTransfer(tx'[m])
  <2>1. CASE m = Len(tx) + 1
    BY <1>2, <2>1
  <2>2. CASE m # Len(tx) + 1
    <3>1. m \in 1..Len(tx)
      BY <1>2, <2>2
    <3> QED
      BY <1>1, <1>2, <3>1
  <2> QED
    BY <2>1, <2>2
<1> QED
  BY <1>2, <1>3 DEF OkTxs

\* The command whose data the first transfer of the channel moved.
Called == [cid |-> tx[1].cid, op |-> tx[1].op]

LEMMA CallbackIs ==
  ASSUME Types, Sized, DataCallback
  PROVE  /\ cpu = "idle" /\ txDone = 1 /\ tx # <<>> /\ tx[1].kind = "data" /\ txDone' = 0
         /\ cq[Adm].size = AdmSize
         /\ Posts(Called, Adm, cq, Tail(tx)) \/ Drops(Adm, cq, Tail(tx))
         /\ UNCHANGED <<reg, csts, irq, enabled, sq, beyond, cpu, filling, resp, rx, host, memory>>
<1>1. /\ cpu = "idle" /\ txDone = 1 /\ txDone' = 0
      /\ UNCHANGED <<reg, csts, irq, enabled, sq, beyond, cpu, filling, resp, rx, host, memory>>
  BY DEF DataCallback
<1>2. tx # <<>> /\ tx[1].kind = "data"
  BY <1>1 DEF Types, TxTypes
<1>3. Head(tx) = tx[1] /\ 1 \in 1..Len(tx)
  BY <1>2, TxTail
<1>4. cq[Adm].size = AdmSize /\ AdmSize = Size[Adm] /\ Adm \in Queue
  BY <1>2, <1>3, Sizes DEF Sized
<1>5. Return(Called, Adm, cq, 0, Tail(tx))
  BY <1>3 DEF DataCallback, Called
<1>6. Posts(Called, Adm, cq, Tail(tx)) \/ Drops(Adm, cq, Tail(tx))
  BY <1>4, <1>5, ReturnIs
<1> QED
  BY <1>1, <1>2, <1>4, <1>6

LEMMA TypesCallback ==
  ASSUME Types, Sized, DataCallback
  PROVE  Types'
<1>1. /\ tx # <<>> /\ tx[1].kind = "data" /\ txDone' = 0
      /\ Posts(Called, Adm, cq, Tail(tx)) \/ Drops(Adm, cq, Tail(tx))
      /\ UNCHANGED <<reg, csts, irq, enabled, sq, beyond, cpu, filling, resp, rx, host, memory>>
  BY CallbackIs
<1>2. RegTypes' /\ SqTypes' /\ HostTypes' /\ MemTypes' /\ RxTypes' /\ CpuTypes'
  BY <1>1 DEF Types, RegTypes, SqTypes, HostTypes, MemTypes, RxTypes, CpuTypes, memory
<1>3. OkTxs(Tail(tx)) /\ tx[1] \in Transfers
  BY <1>1, TxTail
<1>4. PICK c : c = Called
  OBVIOUS
<1>5. c.cid \in Cid /\ c.op \in Op
  BY <1>3, <1>4 DEF Transfers, Called
<1>6. OkCqs(cq') /\ OkTxs(tx')
  <2>1. Posts(c, Adm, cq, Tail(tx)) \/ Drops(Adm, cq, Tail(tx))
    BY <1>1, <1>4
  <2>2. OkCqs(cq) /\ Adm \in Queue
    BY Sizes DEF Types, CqTypes
  <2> QED
    BY <1>3, <1>5, <2>1, <2>2, PostsTypes
<1> QED
  BY <1>1, <1>2, <1>6 DEF Types, CqTypes, TxTypes, OkTxs

LEMMA TypesClear ==
  ASSUME Types, ClearResponse
  PROVE  Types'
<1>1. /\ rx # <<>> /\ rx' = Tail(rx) /\ cpu' = "fill"
      /\ UNCHANGED <<reg, csts, irq, enabled, sq, cq, beyond, tx, txDone, host, memory>>
  BY DEF ClearResponse
<1>2. PICK c \in Commands : c = Entry(Head(rx))
  BY <1>1, EntryIn
<1>3. c.op \in DataOp /\ resp' = [resp EXCEPT ![c.op] = "zero"] /\ filling' = c
  BY <1>2 DEF ClearResponse, RespBuf
<1>4. RegTypes' /\ SqTypes' /\ CqTypes' /\ HostTypes' /\ MemTypes' /\ TxTypes'
  BY <1>1 DEF Types, RegTypes, SqTypes, CqTypes, OkCqs, HostTypes, MemTypes, TxTypes, OkTransfer,
              memory
<1>5. RxTypes'
  <2>1. rx \in Seq(Fetches) /\ \A m \in 1..Len(rx) : rx[m].slot \in Slots(rx[m].qid)
    BY DEF Types, RxTypes
  <2>2. /\ Len(rx) \in Nat \ {0} /\ rx' \in Seq(Fetches) /\ Len(rx') = Len(rx) - 1
        /\ \A j \in 1..(Len(rx) - 1) : rx'[j] = rx[j + 1]
    BY <1>1, <2>1, HeadTail
  <2> QED
    BY <2>1, <2>2 DEF RxTypes
<1>6. CpuTypes'
  BY <1>1, <1>3 DEF Types, CpuTypes
<1> QED
  BY <1>4, <1>5, <1>6 DEF Types

\* The transfer of a response.
Response(c) == [kind |-> "data", qid |-> Adm, base |-> Base, slot |-> 0, cid |-> c.cid,
                res |-> 0, p |-> 0, op |-> c.op]

LEMMA FillIs ==
  ASSUME Types, FillResponse
  PROVE  /\ cpu = "fill" /\ cpu' = "idle" /\ filling' = Junk /\ filling.op \in DataOp
         /\ resp' = [resp EXCEPT ![filling.op] = filling.op]
         /\ tx' = Append(tx, Response(filling)) /\ OkTransfer(Response(filling))
         /\ Response(filling).kind = "data" /\ Response(filling).cid = filling.cid
         /\ Response(filling).op = filling.op
         /\ UNCHANGED <<reg, csts, irq, enabled, sq, cq, beyond, rx, txDone, host, memory>>
<1>1. /\ cpu = "fill" /\ cpu' = "idle" /\ filling' = Junk
      /\ resp' = [resp EXCEPT ![filling.op] = filling.op]
      /\ tx' = Append(tx, Response(filling))
      /\ UNCHANGED <<reg, csts, irq, enabled, sq, cq, beyond, rx, txDone, host, memory>>
  BY DEF FillResponse, Response, RespBuf
<1>2. filling \in Commands /\ filling.op \in DataOp
  BY <1>1 DEF Types, CpuTypes
<1>3. PICK e : e = Response(filling)
  OBVIOUS
<1>4. filling.cid \in Cid /\ filling.op \in Op /\ Base \in Words /\ 0 \in Slots(Adm) /\ Adm \in Queue
  BY <1>2, Sizes DEF Commands, Base, Words, Slots
<1>5. /\ e \in Transfers /\ e.kind = "data" /\ e.qid = Adm /\ e.slot = 0 /\ e.op = filling.op
      /\ e.cid = filling.cid
  BY <1>3, <1>4 DEF Response, Transfers
<1>6. OkTransfer(e)
  BY <1>2, <1>4, <1>5 DEF OkTransfer
<1> QED
  BY <1>1, <1>2, <1>3, <1>5, <1>6

LEMMA TypesFill ==
  ASSUME Types, FillResponse
  PROVE  Types'
<1>1. /\ cpu' = "idle" /\ filling' = Junk /\ filling.op \in DataOp
      /\ resp' = [resp EXCEPT ![filling.op] = filling.op]
      /\ tx' = Append(tx, Response(filling)) /\ OkTransfer(Response(filling))
      /\ UNCHANGED <<reg, csts, irq, enabled, sq, cq, beyond, rx, txDone, host, memory>>
  BY FillIs
<1>2. RegTypes' /\ SqTypes' /\ CqTypes' /\ HostTypes' /\ MemTypes' /\ RxTypes'
  BY <1>1 DEF Types, RegTypes, SqTypes, CqTypes, OkCqs, HostTypes, MemTypes, RxTypes, memory
<1>3. Junk \in Commands
  BY Sizes DEF Junk, Commands, Cid, Op
<1>4. CpuTypes'
  BY <1>1, <1>3 DEF Types, CpuTypes
<1>5. OkTxs(tx) /\ (txDone = 1 => tx # <<>> /\ tx[1].kind = "data") /\ txDone \in {0, 1}
  BY DEF Types, TxTypes, OkTxs
<1>6. /\ OkTxs(tx') /\ Len(tx) \in Nat /\ Len(tx') = Len(tx) + 1
      /\ \A m \in 1..Len(tx) : tx'[m] = tx[m]
  BY <1>1, <1>5, TxMore
<1>7. ASSUME txDone = 1 PROVE tx' # <<>> /\ tx'[1].kind = "data"
  <2>1. Len(tx) \in Nat \ {0}
    BY <1>5, <1>7, TxTail
  <2>2. tx'[1] = tx[1] /\ Len(tx') # 0
    BY <1>6, <2>1
  <2> QED
    BY <1>5, <1>7, <2>2
<1> QED
  BY <1>1, <1>2, <1>4, <1>5, <1>6, <1>7 DEF Types, TxTypes, OkTxs

\* The engine moved the data of a response.
LEMMA MoveIs ==
  ASSUME Types, DataMove
  PROVE  /\ tx # <<>> /\ tx[1].kind = "data" /\ txDone = 0 /\ txDone' = 1
         /\ tx[1].cid \in Cid /\ tx[1].op \in DataOp
         /\ DOMAIN host' = HostFields /\ host'.pc = host.pc /\ host'.todo = host.todo
         /\ host'.script = host.script /\ host'.granted = host.granted /\ host'.out = host.out
         /\ host'.tail = host.tail /\ host'.head = host.head /\ host'.phase = host.phase
         /\ host'.has = host.has /\ host'.got = [host.got EXCEPT ![tx[1].cid] = resp[tx[1].op]]
         /\ UNCHANGED <<reg, csts, irq, enabled, sq, cq, beyond, cpu, filling, resp, rx, tx, memory>>
<1>1. tx # <<>> /\ Head(tx).kind = "data" /\ txDone = 0 /\ txDone' = 1
      /\ UNCHANGED <<reg, csts, irq, enabled, sq, cq, beyond, cpu, filling, resp, rx, tx, memory>>
  BY DEF DataMove
<1>2. Head(tx) = tx[1] /\ OkTransfer(tx[1]) /\ tx[1] \in Transfers
  BY <1>1, TxTail
<1>3. tx[1].cid \in Cid /\ tx[1].op \in DataOp
  BY <1>1, <1>2 DEF OkTransfer, Transfers
<1>4. host' = [host EXCEPT !.got[tx[1].cid] = resp[tx[1].op]]
  BY <1>2 DEF DataMove, RespBuf
<1>5. DOMAIN host = HostFields
  BY DEF Types, HostTypes
<1>6. /\ DOMAIN host' = HostFields /\ host'.pc = host.pc /\ host'.todo = host.todo
      /\ host'.script = host.script /\ host'.granted = host.granted /\ host'.out = host.out
      /\ host'.tail = host.tail /\ host'.head = host.head /\ host'.phase = host.phase
      /\ host'.has = host.has /\ host'.got = [host.got EXCEPT ![tx[1].cid] = resp[tx[1].op]]
  BY <1>4, <1>5 DEF HostFields
<1> QED
  BY <1>1, <1>2, <1>3, <1>6

LEMMA TypesMove ==
  ASSUME Types, DataMove
  PROVE  Types'
<1>1. /\ tx # <<>> /\ tx[1].kind = "data" /\ txDone' = 1
      /\ tx[1].cid \in Cid /\ tx[1].op \in DataOp
      /\ DOMAIN host' = HostFields /\ host'.pc = host.pc
      /\ host'.script = host.script /\ host'.granted = host.granted /\ host'.out = host.out
      /\ host'.tail = host.tail /\ host'.head = host.head /\ host'.phase = host.phase
      /\ host'.has = host.has /\ host'.got = [host.got EXCEPT ![tx[1].cid] = resp[tx[1].op]]
      /\ UNCHANGED <<reg, csts, irq, enabled, sq, cq, beyond, cpu, filling, resp, rx, tx, memory>>
  BY MoveIs
<1>2. RegTypes' /\ SqTypes' /\ CqTypes' /\ MemTypes' /\ RxTypes' /\ CpuTypes' /\ TxTypes'
  BY <1>1 DEF Types, RegTypes, SqTypes, CqTypes, OkCqs, MemTypes, RxTypes, CpuTypes, TxTypes,
              OkTransfer, memory
<1>3. resp[tx[1].op] \in DataOp \cup {"none", "zero"}
  BY <1>1 DEF Types, CpuTypes
<1>4. host'.got \in [Cid -> DataOp \cup {"none", "zero"}]
  BY <1>1, <1>3 DEF Types, HostTypes
<1>5. HostTypes'
  BY <1>1, <1>4 DEF Types, HostTypes
<1> QED
  BY <1>2, <1>5 DEF Types

\* The engine wrote a completion entry.
Landed(t) == [cid |-> t.cid, res |-> t.res, p |-> t.p]

LEMMA CqMoveIs ==
  ASSUME Types, CqMove
  PROVE  /\ tx # <<>> /\ tx[1].kind = "cq" /\ tx' = Tail(tx) /\ txDone = 0
         /\ tx[1].qid \in Queue /\ tx[1].slot \in Slots(tx[1].qid) /\ Landed(tx[1]) \in Entries
         /\ cqMem' = IF tx[1].base = Base
                       THEN [cqMem EXCEPT ![tx[1].qid] =
                               [cqMem[tx[1].qid] EXCEPT ![tx[1].slot] = Landed(tx[1])]]
                       ELSE cqMem
         /\ UNCHANGED <<reg, csts, irq, enabled, sq, cq, beyond, cpu, filling, resp, rx, txDone,
                        host, sqMem>>
<1>1. /\ tx # <<>> /\ Head(tx).kind = "cq" /\ tx' = Tail(tx)
      /\ UNCHANGED <<reg, csts, irq, enabled, sq, cq, beyond, cpu, filling, resp, rx, txDone,
                     host, sqMem>>
  BY DEF CqMove
<1>2. Head(tx) = tx[1] /\ OkTransfer(tx[1]) /\ tx[1] \in Transfers
  BY <1>1, TxTail
<1>3. txDone = 0
  BY <1>1, <1>2 DEF Types, TxTypes
<1>4. tx[1].qid \in Queue /\ tx[1].slot \in Slots(tx[1].qid)
  BY <1>2 DEF OkTransfer, Transfers
<1>5. Landed(tx[1]) \in Entries
  <2>1. Cid \subseteq 0..MaxAdm
    BY Sizes DEF Cid
  <2> QED
    BY <1>2, <2>1 DEF Landed, Entries, Transfers
<1>6. cqMem' = IF tx[1].base = Base
                 THEN [cqMem EXCEPT ![tx[1].qid][tx[1].slot] = Landed(tx[1])] ELSE cqMem
  BY <1>2 DEF CqMove, Landed
<1> QED
  BY <1>1, <1>2, <1>3, <1>4, <1>5, <1>6

LEMMA TypesCqMove ==
  ASSUME Types, CqMove
  PROVE  Types'
<1>1. /\ tx # <<>> /\ tx' = Tail(tx) /\ txDone = 0
      /\ tx[1].qid \in Queue /\ tx[1].slot \in Slots(tx[1].qid) /\ Landed(tx[1]) \in Entries
      /\ cqMem' = IF tx[1].base = Base
                    THEN [cqMem EXCEPT ![tx[1].qid] =
                            [cqMem[tx[1].qid] EXCEPT ![tx[1].slot] = Landed(tx[1])]]
                    ELSE cqMem
      /\ UNCHANGED <<reg, csts, irq, enabled, sq, cq, beyond, cpu, filling, resp, rx, txDone,
                     host, sqMem>>
  BY CqMoveIs
<1>2. RegTypes' /\ SqTypes' /\ CqTypes' /\ HostTypes' /\ RxTypes' /\ CpuTypes'
  BY <1>1 DEF Types, RegTypes, SqTypes, CqTypes, OkCqs, HostTypes, RxTypes, CpuTypes
<1>3. TxTypes'
  BY <1>1, TxTail DEF TxTypes, OkTxs
<1>4. MemTypes'
  <2>1. MemTypes
    BY DEF Types
  <2>2. PICK q \in Queue, e \in Entries : q = tx[1].qid /\ e = Landed(tx[1])
    BY <1>1
  <2>3. PICK s \in Slots(q) : s = tx[1].slot
    BY <1>1, <2>2
  <2>4. [cqMem[q] EXCEPT ![s] = e] \in [Slots(q) -> Entries]
    BY <2>1, <2>3 DEF MemTypes
  <2>5. cqMem' = cqMem \/ cqMem' = [cqMem EXCEPT ![q] = [cqMem[q] EXCEPT ![s] = e]]
    BY <1>1, <2>2, <2>3
  <2> QED
    BY <1>1, <2>1, <2>4, <2>5 DEF MemTypes
<1> QED
  BY <1>2, <1>3, <1>4 DEF Types

-----------------------------------------------------------------------------
(* The queues: between one life and the next                               *)

\* The handlers of commands and the engine.
Engine == Callback \/ FillResponse \/ DataMove \/ CqMove

LEMMA EngineIs ==
  ASSUME Types, Engine
  PROVE  /\ host'.pc = host.pc /\ host'.todo = host.todo /\ UNCHANGED <<irq, csts, enabled, reg, sqMem>>
         /\ rx # <<>> \/ tx # <<>> \/ cpu = "fill"
         /\ cpu # "tc" \/ UNCHANGED cpu
         /\ cpu' # "tc" \/ UNCHANGED cpu
         /\ host'.has = host.has /\ host'.out = host.out /\ host'.tail = host.tail
         /\ host'.head = host.head /\ host'.phase = host.phase
<1>1. CASE HandleCommand
  BY <1>1 DEF HandleCommand, memory
<1>2. CASE ClearResponse
  BY <1>2 DEF ClearResponse, memory
<1>3. CASE DataCallback
  <2>1. tx # <<>>
    BY <1>3 DEF DataCallback, Types, TxTypes
  <2> QED
    BY <1>3, <2>1 DEF DataCallback, memory
<1>4. CASE FillResponse
  BY <1>4 DEF FillResponse, memory
<1>5. CASE DataMove
  BY <1>5, MoveIs DEF memory
<1>6. CASE CqMove
  BY <1>6 DEF CqMove
<1> QED
  BY <1>1, <1>2, <1>3, <1>4, <1>5, <1>6 DEF Engine, Callback

LEMMA CleanEngine ==
  ASSUME Types, Clean, Engine
  PROVE  Clean'
<1>1. host.pc # "enabling"
  BY EngineIs DEF Clean
<1> QED
  BY <1>1, EngineIs DEF Clean

LEMMA CleanServe ==
  ASSUME IInv, Clean, Serve
  PROVE  Clean'
<1>1. /\ irq \in Seq(Register) /\ irq # <<>> /\ irq' = Tail(irq) /\ UNCHANGED host
  BY ServeEffect DEF IInv, Shapes
<1>2. host.pc # "off"
  BY <1>1 DEF Clean
<1>3. ASSUME host.pc = "enabling"
      PROVE  /\ \A n \in 1..Len(irq') : irq'[n] \notin Doorbells
             /\ rx' = <<>> /\ tx' = <<>> /\ cpu' # "fill"
  <2>1. /\ \A n \in 1..Len(irq) : irq[n] \notin Doorbells
        /\ rx = <<>> /\ tx = <<>>
    BY <1>3 DEF Clean
  <2>2. /\ Len(irq) \in Nat \ {0} /\ Head(irq) = irq[1] /\ Len(irq') = Len(irq) - 1
        /\ \A j \in 1..(Len(irq) - 1) : irq'[j] = irq[j + 1]
    BY <1>1, HeadTail
  <2>3. \A n \in 1..Len(irq') : irq'[n] \notin Doorbells
    BY <2>1, <2>2
  <2>4. Head(irq) \notin Doorbells
    BY <2>1, <2>2
  <2>5. \A q \in Queue : Head(irq) # DOORBELL_TAIL(q) /\ Head(irq) # DOORBELL_HEAD(q)
    BY <2>4, DoorbellsAre
  <2>6. rx' = rx /\ tx' = tx /\ cpu' \in {"idle", "tc"}
    BY <2>5 DEF Serve, CcHandler, AqaHandler, AsqHandler, AcqHandler
  <2> QED
    BY <2>1, <2>3, <2>6
<1>4. ASSUME host'.pc = "disabling", host'.todo = <<>>, csts'.rdy = 0 PROVE irq' = <<>>
  BY <1>1, <1>4, LastServed
<1> QED
  BY <1>1, <1>2, <1>3, <1>4 DEF Clean

LEMMA CleanControl ==
  ASSUME IInv, Types, Clean, HostControl
  PROVE  Clean'
<1>0. DOMAIN host = HostFields /\ Shapes /\ HostTypes
  BY DEF Types, HostTypes, IInv
<1>1. CASE HostEnables
  <2>1. host.pc = "off" /\ rx = <<>> /\ tx = <<>> /\ cpu # "fill" /\ UNCHANGED <<irq, device>>
    BY <1>1 DEF HostEnables, Fresh
  <2>2. irq = <<>>
    BY <2>1 DEF Clean
  <2>3. host'.pc = "enabling"
    BY <1>0, <1>1 DEF HostEnables, HostFields
  <2> QED
    BY <2>1, <2>2, <2>3 DEF Clean, device
<1>2. CASE HostResets
  <2>1. host' = [host EXCEPT !.pc = "disabling", !.resets = @ + 1, !.todo = <<Disable>>]
    BY <1>2 DEF HostResets, Disable
  <2>2. host'.pc = "disabling" /\ host'.todo = <<Disable>>
    BY <1>0, <2>1 DEF HostFields
  <2>3. host'.todo # <<>>
    BY <2>2
  <2> QED
    BY <2>2, <2>3 DEF Clean
<1>3. CASE HostShutsDown
  <2>1. host'.pc = "stopping"
    BY <1>0, <1>3 DEF HostShutsDown, HostFields
  <2> QED
    BY <2>1 DEF Clean
<1>4. CASE HostSees
  <2>1. CASE host'.pc = "off"
    <3>1. host.pc = "disabling" /\ csts.rdy = 0 /\ host.todo = <<>> /\ UNCHANGED irq
      BY <1>0, <1>4, <2>1, OffIs
    <3>2. irq' = <<>>
      BY <3>1 DEF Clean
    <3> QED
      BY <2>1, <3>2 DEF Clean
  <2>2. CASE host'.pc # "off"
    <3>1. \/ host' = [host EXCEPT !.pc = "live"]
          \/ host' = [host EXCEPT !.pc = "down"]
          \/ host' = NewHost(host.script, host.resets)
      BY <1>4 DEF HostSees, Awaits
    <3>2. NewHost(host.script, host.resets).pc = "off"
      BY DEF NewHost
    <3>3. host'.pc \in {"live", "down"}
      BY <1>0, <2>2, <3>1, <3>2 DEF HostFields
    <3> QED
      BY <3>3 DEF Clean
  <2> QED
    BY <2>1, <2>2
<1>5. CASE HostWrites
  <2>1. PICK w \in AllWrites : w = Head(host.todo) /\ host.todo # <<>>
    BY <1>0, <1>5, HeadTail DEF HostWrites, Shapes
  <2>2. /\ irq' = Append(irq, w.r)
        /\ host' = [host EXCEPT !.todo = Tail(host.todo)] /\ UNCHANGED device
    BY <1>5, <2>1 DEF HostWrites
  <2>3. host'.pc = host.pc
    BY <1>0, <2>2 DEF HostFields
  <2>4. w.r \in Register \ Doorbells
    BY RegNames
  <2>5. /\ Len(irq) \in Nat /\ Len(irq') = Len(irq) + 1 /\ irq'[Len(irq) + 1] = w.r
        /\ \A j \in 1..Len(irq) : irq'[j] = irq[j]
    BY <1>0, <2>2, <2>4, Appended DEF Shapes
  <2>6. host.pc # "off"
    BY <2>1 DEF IInv, Off, Enabling, Live, Stopping, Down, Disabling
  <2>7. ASSUME host.pc = "enabling"
        PROVE  /\ \A n \in 1..Len(irq') : irq'[n] \notin Doorbells
               /\ rx' = <<>> /\ tx' = <<>> /\ cpu' # "fill"
    <3>1. \A n \in 1..Len(irq) : irq[n] \notin Doorbells
      BY <2>7 DEF Clean
    <3>2. ASSUME NEW n \in 1..Len(irq') PROVE irq'[n] \notin Doorbells
      <4>1. CASE n = Len(irq) + 1
        BY <2>4, <2>5, <4>1
      <4>2. CASE n # Len(irq) + 1
        BY <2>5, <3>1, <4>2
      <4> QED
        BY <4>1, <4>2
    <3> QED
      BY <2>2, <2>7, <3>2 DEF Clean, device
  <2>8. ASSUME host.pc = "disabling" PROVE csts'.rdy # 0
    <3>1. csts.rdy = 1
      BY <2>1, <2>8 DEF IInv, Off, Enabling, Live, Stopping, Down, Disabling, Says
    <3> QED
      BY <2>2, <3>1 DEF device
  <2> QED
    BY <2>3, <2>6, <2>7, <2>8 DEF Clean
<1> QED
  BY <1>1, <1>2, <1>3, <1>4, <1>5 DEF HostControl

\* A doorbell is rung by a driver that is live.
LEMMA CleanLive ==
  ASSUME host'.pc = "live"
  PROVE  Clean'
BY DEF Clean

-----------------------------------------------------------------------------
(* The queues: whether the controller knows them                           *)

\* A register is in the FIFO after a step only if it was, or has just been written.
LEMMA InIrqMore ==
  ASSUME Shapes, NEW r \in Register, irq' = Append(irq, r)
  PROVE  InIrq(r)' /\ \A x \in Register : InIrq(x)' => x = r \/ InIrq(x)
<1>1. /\ Len(irq) \in Nat /\ Len(irq') = Len(irq) + 1 /\ irq'[Len(irq) + 1] = r
      /\ \A j \in 1..Len(irq) : irq'[j] = irq[j]
  BY Appended DEF Shapes
<1>2. InIrq(r)'
  <2>1. Len(irq) + 1 \in 1..Len(irq')
    BY <1>1
  <2> QED
    BY <1>1, <2>1 DEF InIrq
<1>3. ASSUME NEW x \in Register, InIrq(x)', x # r PROVE InIrq(x)
  <2>1. PICK n \in 1..Len(irq') : irq'[n] = x
    BY <1>3 DEF InIrq
  <2>2. n # Len(irq) + 1
    BY <1>1, <1>3, <2>1
  <2>3. n \in 1..Len(irq)
    BY <1>1, <2>1, <2>2
  <2>4. irq[n] = x
    BY <1>1, <2>1, <2>3
  <2> QED
    BY <2>3, <2>4 DEF InIrq
<1> QED
  BY <1>2, <1>3

LEMMA InIrqKept ==
  ASSUME Shapes, NEW r \in Register, irq' = Append(irq, r)
  PROVE  \A x : InIrq(x) => InIrq(x)'
<1>1. /\ Len(irq) \in Nat /\ Len(irq') = Len(irq) + 1
      /\ \A j \in 1..Len(irq) : irq'[j] = irq[j]
  BY Appended DEF Shapes
<1> SUFFICES ASSUME NEW x, InIrq(x) PROVE InIrq(x)'
  OBVIOUS
<1>2. PICK n \in 1..Len(irq) : irq[n] = x
  BY DEF InIrq
<1>3. n \in 1..Len(irq') /\ irq'[n] = x
  BY <1>1, <1>2
<1> QED
  BY <1>3 DEF InIrq

LEMMA InIrqLess ==
  ASSUME Shapes, irq # <<>>, irq' = Tail(irq)
  PROVE  /\ \A x : InIrq(x)' => InIrq(x) /\ irq' # <<>>
         /\ \A x : InIrq(x) /\ x # Head(irq) => InIrq(x)'
         /\ InIrq(Head(irq)) /\ irq' \in Seq(Register)
<1>1. /\ Len(irq) \in Nat \ {0} /\ Head(irq) = irq[1] /\ Len(irq') = Len(irq) - 1
      /\ \A j \in 1..(Len(irq) - 1) : irq'[j] = irq[j + 1]
      /\ irq' \in Seq(Register)
  BY HeadTail DEF Shapes
<1>2. ASSUME NEW x, InIrq(x)' PROVE InIrq(x) /\ irq' # <<>>
  <2>1. PICK n \in 1..Len(irq') : irq'[n] = x
    BY <1>2 DEF InIrq
  <2>2. n + 1 \in 1..Len(irq) /\ irq[n + 1] = x
    BY <1>1, <2>1
  <2>3. irq' # <<>>
    BY <1>1, <2>1
  <2> QED
    BY <2>2, <2>3 DEF InIrq
<1>3. ASSUME NEW x, InIrq(x), x # Head(irq) PROVE InIrq(x)'
  <2>1. PICK n \in 1..Len(irq) : irq[n] = x
    BY <1>3 DEF InIrq
  <2>2. n # 1
    BY <1>1, <1>3, <2>1
  <2>3. n - 1 \in 1..Len(irq') /\ irq'[n - 1] = x
    BY <1>1, <2>1, <2>2
  <2> QED
    BY <2>3 DEF InIrq
<1>4. InIrq(Head(irq))
  <2>1. 1 \in 1..Len(irq)
    BY <1>1
  <2> QED
    BY <1>1, <2>1 DEF InIrq
<1> QED
  BY <1>1, <1>2, <1>3, <1>4

\* A step that changes no queue's place or size, and leaves less to handle.
SizesKept ==
  /\ \A q \in Queue : sq'[q].base = sq[q].base /\ sq'[q].size = sq[q].size
  /\ \A q \in Queue : cq'[q].base = cq[q].base /\ cq'[q].size = cq[q].size

LessData == \A m \in 1..Len(tx') : tx'[m].kind = "data" =>
              \E l \in 1..Len(tx) : tx[l].kind = "data"
LessRx == \A m \in 1..Len(rx') : \E l \in 1..Len(rx) : rx'[m] = rx[l]

LEMMA SizedKept ==
  ASSUME Sized, SizesKept, LessData, LessRx, host'.pc = host.pc, host'.has = host.has,
         \A q \in Queue : InIrq(DOORBELL_TAIL(q))' => InIrq(DOORBELL_TAIL(q)),
         cpu' = "fill" => cpu = "fill" \/ rx # <<>>, rx \in Seq(Fetches)
  PROVE  Sized'
<1>0. Adm \in Queue /\ 1 \in Queue
  BY Sizes
<1>1. \A q \in Queue : SqUp(q) => SqUp(q)'
  BY DEF SizesKept, SqUp
<1>2. \A q \in Queue : CqUp(q) => CqUp(q)'
  BY DEF SizesKept, CqUp
<1>3. \A q \in Queue : InIrq(DOORBELL_TAIL(q))' =>
        sq'[q].size = Size[q] /\ cq'[q].size = Size[q] /\ cq'[Adm].size = AdmSize
  BY <1>0 DEF Sized, SizesKept
<1>4. ASSUME NEW m \in 1..Len(rx')
      PROVE  cq'[rx'[m].qid].size = Size[rx'[m].qid] /\ cq'[Adm].size = AdmSize
  <2>1. PICK l \in 1..Len(rx) : rx'[m] = rx[l]
    BY DEF LessRx
  <2>2. rx[l] \in Fetches
    BY ElementIn
  <2>3. rx[l].qid \in Queue
    BY <2>2 DEF Fetches
  <2> QED
    BY <1>0, <2>1, <2>3 DEF Sized, SizesKept
<1>5. ASSUME cpu' = "fill" PROVE cq'[Adm].size = AdmSize
  <2>1. CASE cpu = "fill"
    BY <1>0, <2>1 DEF Sized, SizesKept
  <2>2. CASE rx # <<>>
    <3>1. 1 \in 1..Len(rx)
      BY <2>2, HeadTail
    <3> QED
      BY <1>0, <3>1 DEF Sized, SizesKept
  <2> QED
    BY <1>5, <2>1, <2>2
<1>6. ASSUME NEW m \in 1..Len(tx'), tx'[m].kind = "data" PROVE cq'[Adm].size = AdmSize
  <2>1. PICK l \in 1..Len(tx) : tx[l].kind = "data"
    BY <1>6 DEF LessData
  <2> QED
    BY <1>0, <2>1 DEF Sized, SizesKept
<1>7. /\ host.pc \in {"live", "stopping", "down", "disabling"} => SqUp(Adm)' /\ CqUp(Adm)'
      /\ "sq" \in host.has => SqUp(1)'
      /\ "cq" \in host.has => CqUp(1)'
  BY <1>0, <1>1, <1>2 DEF Sized
<1> QED
  BY <1>3, <1>4, <1>5, <1>6, <1>7 DEF Sized

LEMMA SizedControl ==
  ASSUME IInv, IInv', Types, Sized, Controls
  PROVE  Sized'
<1>0. HostTypes
  BY DEF Types
<1>1. /\ UNCHANGED <<device, memory, Work>>
      /\ \A r \in Doorbells : InIrq(r)' <=> InIrq(r)
  BY <1>0, ControlIs
<1>2. \A q \in Queue : SqUp(q)' = SqUp(q) /\ CqUp(q)' = CqUp(q)
  BY <1>1 DEF SqUp, CqUp, device
<1>3. ASSUME host'.pc \in {"live", "stopping", "down", "disabling"} PROVE SqUp(Adm)' /\ CqUp(Adm)'
  <2>1. CASE host.pc \in {"live", "stopping", "down", "disabling"}
    BY <1>2, <2>1, Sizes DEF Sized
  <2>2. CASE host.pc \notin {"live", "stopping", "down", "disabling"}
    <3>1. host.pc \in {"off", "enabling"}
      BY <1>0, <2>2 DEF HostTypes
    <3>2. host'.pc = "live"
      <4>1. DOMAIN host = HostFields
        BY <1>0 DEF HostTypes
      <4>2. CASE HostEnables
        <5>1. host'.pc = "enabling"
          BY <4>1, <4>2 DEF HostEnables, HostFields
        <5> QED
          BY <1>3, <5>1
      <4>3. CASE HostWrites
        <5>1. host'.pc = host.pc
          BY <4>1, <4>3 DEF HostWrites, HostFields
        <5> QED
          BY <1>3, <2>2, <5>1
      <4>4. CASE HostResets
        BY <3>1, <4>4 DEF HostResets
      <4>5. CASE HostShutsDown
        BY <3>1, <4>5 DEF HostShutsDown
      <4>6. CASE HostSees /\ host'.pc # "off"
        <5>1. host' = [host EXCEPT !.pc = "live"]
          BY <3>1, <4>6 DEF HostSees, Awaits
        <5> QED
          BY <4>1, <5>1 DEF HostFields
      <4> QED
        BY <4>2, <4>3, <4>4, <4>5, <4>6 DEF Controls
    <3>3. Configured(6)'
      BY <3>2 DEF IInv, Off, Enabling, Live, Stopping, Down, Disabling
    <3> QED
      BY <3>3, Sizes DEF Configured, SqUp, CqUp
  <2> QED
    BY <2>1, <2>2
<1>4. \A q \in Queue : InIrq(DOORBELL_TAIL(q))' => InIrq(DOORBELL_TAIL(q))
  BY <1>1, DoorbellsAre
<1>5. /\ "sq" \in host'.has => SqUp(1)'
      /\ "cq" \in host'.has => CqUp(1)'
  BY <1>1, <1>2, Sizes DEF Sized, Work
<1>6. /\ \A q \in Queue : InIrq(DOORBELL_TAIL(q))' =>
           sq'[q].size = Size[q] /\ cq'[q].size = Size[q] /\ cq'[Adm].size = AdmSize
      /\ \A m \in 1..Len(rx') : cq'[rx'[m].qid].size = Size[rx'[m].qid] /\ cq'[Adm].size = AdmSize
      /\ cpu' = "fill" => cq'[Adm].size = AdmSize
      /\ \A m \in 1..Len(tx') : tx'[m].kind = "data" => cq'[Adm].size = AdmSize
  BY <1>1, <1>4 DEF Sized, device
<1> QED
  BY <1>3, <1>5, <1>6 DEF Sized

LEMMA SizedOff ==
  ASSUME Types, Sized, HostSees, host'.pc = "off"
  PROVE  Sized'
<1>1. UNCHANGED <<irq, device>> /\ host'.has = {}
  BY OffIs DEF Types
<1> QED
  BY <1>1 DEF Sized, device, InIrq

LEMMA SizedSubmit ==
  ASSUME IInv, Types, Sized, NEW q \in Queue, NEW c \in Commands, Submit(q, c), Asked(q, c)
  PROVE  Sized'
<1>1. /\ host.pc = "live" /\ host'.pc = host.pc /\ irq' = Append(irq, DOORBELL_TAIL(q))
      /\ host'.has = (IF c.op = "delete_sq" /\ c.qid = 1 THEN host.has \ {"sq"} ELSE host.has)
      /\ UNCHANGED device
  BY SubmitIs
<1>2. \A x \in Register : InIrq(x)' => x = DOORBELL_TAIL(q) \/ InIrq(x)
  BY <1>1, InIrqMore, DoorbellsAre DEF IInv
<1>3. SqUp(Adm) /\ CqUp(Adm) /\ (q = 1 => SqUp(1) /\ CqUp(1))
  BY <1>1, Sizes DEF Sized, Asked
<1>4. \A p \in Queue : InIrq(DOORBELL_TAIL(p))' =>
        sq'[p].size = Size[p] /\ cq'[p].size = Size[p] /\ cq'[Adm].size = AdmSize
  <2> SUFFICES ASSUME NEW p \in Queue, InIrq(DOORBELL_TAIL(p))'
               PROVE  sq[p].size = Size[p] /\ cq[p].size = Size[p] /\ cq[Adm].size = AdmSize
    BY <1>1 DEF device
  <2>1. CASE InIrq(DOORBELL_TAIL(p))
    BY <2>1 DEF Sized
  <2>2. CASE ~InIrq(DOORBELL_TAIL(p))
    <3>1. DOORBELL_TAIL(p) = DOORBELL_TAIL(q)
      BY <1>2, <2>2, DoorbellsAre
    <3>2. p = q
      BY <3>1, BellNames
    <3> QED
      BY <1>3, <3>2, Sizes DEF SqUp, CqUp
  <2> QED
    BY <2>1, <2>2
<1>5. /\ "sq" \in host'.has => SqUp(1)'
      /\ "cq" \in host'.has => CqUp(1)'
      /\ SqUp(Adm)' /\ CqUp(Adm)'
  BY <1>1, <1>3 DEF Sized, SqUp, CqUp, device
<1>6. /\ \A m \in 1..Len(rx') : cq'[rx'[m].qid].size = Size[rx'[m].qid] /\ cq'[Adm].size = AdmSize
      /\ cpu' = "fill" => cq'[Adm].size = AdmSize
      /\ \A m \in 1..Len(tx') : tx'[m].kind = "data" => cq'[Adm].size = AdmSize
  BY <1>1 DEF Sized, device
<1> QED
  BY <1>1, <1>4, <1>5, <1>6 DEF Sized

LEMMA SizedConsume ==
  ASSUME IInv, Types, Sized, NEW q \in Queue, NEW c, Consumed(q, c),
         Makes(c, "create_cq") => CqUp(1), Makes(c, "create_sq") => SqUp(1)
  PROVE  Sized'
<1>1. /\ host'.pc = host.pc /\ irq' = Append(irq, DOORBELL_HEAD(q))
      /\ host'.has \subseteq (host.has \cup (IF Makes(c, "create_cq") THEN {"cq"} ELSE {}))
                       \cup (IF Makes(c, "create_sq") THEN {"sq"} ELSE {})
      /\ UNCHANGED device
  BY DEF Consumed
<1>2. \A x \in Register : InIrq(x)' => x = DOORBELL_HEAD(q) \/ InIrq(x)
  BY <1>1, InIrqMore, DoorbellsAre DEF IInv
<1>3. \A p \in Queue : InIrq(DOORBELL_TAIL(p))' => InIrq(DOORBELL_TAIL(p))
  BY <1>2, BellNames, DoorbellsAre
<1>4. /\ "sq" \in host'.has => SqUp(1)
      /\ "cq" \in host'.has => CqUp(1)
  BY <1>1 DEF Sized
<1>5. /\ "sq" \in host'.has => SqUp(1)'
      /\ "cq" \in host'.has => CqUp(1)'
      /\ host'.pc \in {"live", "stopping", "down", "disabling"} => SqUp(Adm)' /\ CqUp(Adm)'
  BY <1>1, <1>4 DEF Sized, SqUp, CqUp, device
<1>6. /\ \A p \in Queue : InIrq(DOORBELL_TAIL(p))' =>
           sq'[p].size = Size[p] /\ cq'[p].size = Size[p] /\ cq'[Adm].size = AdmSize
      /\ \A m \in 1..Len(rx') : cq'[rx'[m].qid].size = Size[rx'[m].qid] /\ cq'[Adm].size = AdmSize
      /\ cpu' = "fill" => cq'[Adm].size = AdmSize
      /\ \A m \in 1..Len(tx') : tx'[m].kind = "data" => cq'[Adm].size = AdmSize
  BY <1>1, <1>3 DEF Sized, device
<1> QED
  BY <1>5, <1>6 DEF Sized

LEMMA SizedServe ==
  ASSUME IInv, Types, Sized, Serve
  PROVE  Sized'
<1>0. /\ irq \in Seq(Register) /\ irq # <<>> /\ irq' = Tail(irq) /\ Shapes
      /\ UNCHANGED <<reg, tx, host>> /\ cpu' # "fill"
  <2>1. cpu' # "fill" /\ UNCHANGED tx
    BY DEF Serve
  <2> QED
    BY <2>1, ServeEffect DEF IInv, Shapes
<1>1. \A x : InIrq(x)' => InIrq(x)
  BY <1>0, InIrqLess
<1>2. SqTypes /\ CqTypes /\ rx \in Seq(Fetches) /\ Len(rx) \in Nat /\ Adm \in Queue
  BY Sizes DEF Types, RxTypes
<1>3. DOMAIN sq = Queue /\ DOMAIN cq = Queue
  BY <1>2 DEF SqTypes, CqTypes, OkCqs
<1>4. ASSUME SizesKept, LessRx PROVE Sized'
  <2>1. LessData
    BY <1>0 DEF LessData
  <2> QED
    BY <1>0, <1>1, <1>2, <1>4, <2>1, SizedKept
<1>5. UNCHANGED rx => LessRx
  BY DEF LessRx
<1>6. CASE Head(irq) = "CC" /\ CcHandler
  BY <1>4, <1>5, <1>6 DEF CcHandler, SizesKept
<1>7. CASE Head(irq) \in {"AQA", "ASQ_0", "ASQ_1", "ACQ_0", "ACQ_1"}
           /\ (AqaHandler \/ AsqHandler(Head(irq)) \/ AcqHandler(Head(irq)))
  <2>1. host.pc = "enabling" /\ (Head(irq) = "AQA" => reg["AQA"] = AdmSize - 1)
    BY <1>7, SetupServed
  <2>2. /\ sq'[1] = sq[1] /\ cq'[1] = cq[1]
        /\ UNCHANGED rx
    BY <1>3, <1>7, Sizes DEF AqaHandler, AsqHandler, AcqHandler
  <2>3. /\ sq'[Adm].size = sq[Adm].size \/ sq'[Adm].size = reg["AQA"] + 1
        /\ cq'[Adm].size = cq[Adm].size \/ cq'[Adm].size = reg["AQA"] + 1
        /\ Head(irq) # "AQA" => sq'[Adm].size = sq[Adm].size /\ cq'[Adm].size = cq[Adm].size
    BY <1>0, <1>7, ServeEffect
  <2>4. AdmSize - 1 + 1 = AdmSize /\ AdmSize = Size[Adm]
    BY Sizes
  <2>5. /\ sq[Adm].size = AdmSize => sq'[Adm].size = AdmSize
        /\ cq[Adm].size = AdmSize => cq'[Adm].size = AdmSize
    <3>1. CASE Head(irq) = "AQA"
      BY <2>1, <2>3, <2>4, <3>1
    <3>2. CASE Head(irq) # "AQA"
      BY <2>3, <3>2
    <3> QED
      BY <3>1, <3>2
  <2>6. \A q \in Queue : q = Adm \/ q = 1
    BY Sizes
  <2>7. \A q \in Queue : /\ sq[q].size = Size[q] => sq'[q].size = Size[q]
                         /\ cq[q].size = Size[q] => cq'[q].size = Size[q]
    BY <2>2, <2>4, <2>5, <2>6
  <2>8. \A q \in Queue : InIrq(DOORBELL_TAIL(q))' =>
          sq'[q].size = Size[q] /\ cq'[q].size = Size[q] /\ cq'[Adm].size = AdmSize
    BY <1>1, <2>5, <2>7 DEF Sized
  <2>9. \A m \in 1..Len(rx') : cq'[rx'[m].qid].size = Size[rx'[m].qid] /\ cq'[Adm].size = AdmSize
    <3> SUFFICES ASSUME NEW m \in 1..Len(rx)
                 PROVE  cq'[rx[m].qid].size = Size[rx[m].qid] /\ cq'[Adm].size = AdmSize
      BY <2>2
    <3>1. rx[m] \in Fetches
      BY <1>2, ElementIn
    <3>2. rx[m].qid \in Queue
      BY <3>1 DEF Fetches
    <3> QED
      BY <2>5, <2>7, <3>2 DEF Sized
  <2>10. \A m \in 1..Len(tx') : tx'[m].kind = "data" => cq'[Adm].size = AdmSize
    BY <1>0, <2>5 DEF Sized
  <2>11. /\ "sq" \in host'.has => SqUp(1)'
         /\ "cq" \in host'.has => CqUp(1)'
    BY <1>0, <2>2 DEF Sized, SqUp, CqUp
  <2> QED
    BY <1>0, <2>1, <2>8, <2>9, <2>10, <2>11 DEF Sized
<1>8. ASSUME NEW q \in Queue, Head(irq) = DOORBELL_TAIL(q), TailHandler(q) PROVE Sized'
  <2>1. PICK t \in Slots(q), P \in Nat : TailServed(q, t, P)
    BY <1>0, <1>8, TailIs
  <2>2. /\ sq' = [sq EXCEPT ![q] = [sq[q] EXCEPT !.tail = t, !.head = t]] /\ UNCHANGED cq
        /\ Len(rx') = Len(rx) + P /\ \A m \in 1..Len(rx) : rx'[m] = rx[m]
        /\ \A k \in 1..P : rx'[Len(rx) + k].qid = q
    BY <2>1 DEF TailServed
  <2>3. PICK r : r = [sq[q] EXCEPT !.tail = t, !.head = t]
    OBVIOUS
  <2>4. sq[q] \in [base : Words, size : {0, Size[q]}, head : Slots(q), tail : Slots(q)]
    BY <1>2 DEF SqTypes
  <2>5. r.base = sq[q].base /\ r.size = sq[q].size
    BY <2>3, <2>4
  <2>6. \A p \in Queue : sq'[p].base = sq[p].base /\ sq'[p].size = sq[p].size
    BY <1>3, <2>2, <2>3, <2>5
  <2>7. \A p \in Queue : (SqUp(p)' <=> SqUp(p)) /\ (CqUp(p)' <=> CqUp(p))
    BY <2>2, <2>6 DEF SqUp, CqUp
  <2>8. cq[q].size = Size[q] /\ cq[Adm].size = AdmSize
    <3>1. InIrq(DOORBELL_TAIL(q))
      BY <1>0, <1>8, InIrqLess
    <3> QED
      BY <3>1 DEF Sized
  <2>9. ASSUME NEW m \in 1..Len(rx')
        PROVE  cq'[rx'[m].qid].size = Size[rx'[m].qid] /\ cq'[Adm].size = AdmSize
    <3>1. CASE m \in 1..Len(rx)
      BY <2>2, <3>1 DEF Sized
    <3>2. CASE m \notin 1..Len(rx)
      <4>1. Len(rx') = Len(rx) + P
        BY <2>2
      <4>2. m - Len(rx) \in 1..P /\ m = Len(rx) + (m - Len(rx))
        BY <1>2, <3>2, <4>1
      <4>3. rx'[m].qid = q
        BY <2>2, <4>2
      <4> QED
        BY <2>2, <2>8, <4>3
    <3> QED
      BY <3>1, <3>2
  <2>10. \A p \in Queue : InIrq(DOORBELL_TAIL(p))' =>
          sq'[p].size = Size[p] /\ cq'[p].size = Size[p] /\ cq'[Adm].size = AdmSize
    BY <1>1, <2>2, <2>6 DEF Sized
  <2>11. \A m \in 1..Len(tx') : tx'[m].kind = "data" => cq'[Adm].size = AdmSize
    BY <1>0, <2>8, <2>2
  <2>12. /\ host'.pc \in {"live", "stopping", "down", "disabling"} => SqUp(Adm)' /\ CqUp(Adm)'
         /\ "sq" \in host'.has => SqUp(1)'
         /\ "cq" \in host'.has => CqUp(1)'
    BY <1>0, <2>7, Sizes DEF Sized
  <2> QED
    BY <1>0, <2>9, <2>10, <2>11, <2>12 DEF Sized
<1>9. ASSUME NEW q \in Queue, Head(irq) = DOORBELL_HEAD(q), HeadHandler(q) PROVE Sized'
  <2>1. PICK t : t = reg[DOORBELL_HEAD(q)]
    OBVIOUS
  <2>2. UNCHANGED <<sq, rx>> /\ cq' = [cq EXCEPT ![q] = [cq[q] EXCEPT !.head = t]]
    BY <1>9, <2>1 DEF HeadHandler
  <2>3. PICK r : r = [cq[q] EXCEPT !.head = t]
    OBVIOUS
  <2>4. cq[q] \in [base : Words, size : {0, Size[q]}, head : Slots(q), tail : Slots(q), phase : {0, 1}]
    BY <1>2 DEF CqTypes, OkCqs
  <2>5. r.base = cq[q].base /\ r.size = cq[q].size
    BY <2>3, <2>4
  <2>6. SizesKept
    BY <1>3, <2>2, <2>3, <2>5 DEF SizesKept
  <2> QED
    BY <1>4, <1>5, <2>2, <2>6
<1> QED
  BY <1>6, <1>7, <1>8, <1>9 DEF Serve

\* A completion leaves the queues' places and adds no data.
LEMMA PostsLessData ==
  ASSUME NEW q \in Queue, NEW c, c.cid \in Cid, c.op \in Op, NEW qs, OkCqs(qs), NEW t, OkTxs(t),
         Posts(c, q, qs, t) \/ Drops(q, qs, t),
         NEW m \in 1..Len(tx'), tx'[m].kind = "data"
  PROVE  m \in 1..Len(t) /\ tx'[m] = t[m]
<1>1. CASE Drops(q, qs, t)
  BY <1>1 DEF Drops
<1>2. CASE Posts(c, q, qs, t)
  <2>1. PICK e : e = Completion(c, q, qs[q])
    OBVIOUS
  <2>2. tx' = Append(t, e) /\ e.kind = "cq"
    BY <1>2, <2>1 DEF Posts, Completion
  <2>3. t \in Seq(Transfers)
    BY DEF OkTxs
  <2>4. Len(tx') = Len(t) + 1 /\ tx'[Len(t) + 1] = e /\ Len(t) \in Nat
        /\ \A j \in 1..Len(t) : tx'[j] = t[j]
    BY <2>2, <2>3, AppendProperties
  <2>5. m # Len(t) + 1
    BY <2>2, <2>4
  <2>6. m \in 1..Len(t)
    BY <2>4, <2>5
  <2> QED
    BY <2>4, <2>6
<1> QED
  BY <1>1, <1>2

LEMMA SizedEngine ==
  ASSUME Types, Sized, Engine
  PROVE  Sized'
<1>0. /\ host'.pc = host.pc /\ host'.has = host.has /\ UNCHANGED irq
      /\ rx \in Seq(Fetches) /\ Len(rx) \in Nat /\ OkTxs(tx)
      /\ \A q \in Queue : InIrq(DOORBELL_TAIL(q))' => InIrq(DOORBELL_TAIL(q))
  BY EngineIs DEF Types, RxTypes, TxTypes, OkTxs, InIrq
<1>1. ASSUME rx # <<>>, rx' = Tail(rx) PROVE LessRx
  <2>1. Len(rx') = Len(rx) - 1 /\ \A j \in 1..(Len(rx) - 1) : rx'[j] = rx[j + 1]
    BY <1>0, <1>1, HeadTail
  <2>2. ASSUME NEW m \in 1..Len(rx') PROVE \E l \in 1..Len(rx) : rx'[m] = rx[l]
    <3>1. m + 1 \in 1..Len(rx) /\ rx'[m] = rx[m + 1]
      BY <1>0, <2>1
    <3> QED
      BY <3>1
  <2> QED
    BY <2>2 DEF LessRx
<1>2. UNCHANGED rx => LessRx
  BY DEF LessRx
<1>3. UNCHANGED tx => LessData
  BY DEF LessData
<1>4. UNCHANGED <<sq, cq>> => SizesKept
  BY DEF SizesKept
<1>5. ASSUME tx # <<>>, tx' = Tail(tx) PROVE LessData
  <2>1. Len(tx') = Len(tx) - 1 /\ Len(tx) \in Nat /\ \A j \in 1..(Len(tx) - 1) : tx'[j] = tx[j + 1]
    BY <1>5, TxTail
  <2>2. ASSUME NEW m \in 1..Len(tx') PROVE m + 1 \in 1..Len(tx) /\ tx'[m] = tx[m + 1]
    BY <2>1
  <2> QED
    BY <2>2 DEF LessData
<1>6. CASE HandleCommand
  <2>1. PICK q \in Queue, c \in Commands :
           /\ rx # <<>> /\ rx' = Tail(rx) /\ sq' = SqsAfter(c)
           /\ OkCqs(CqsAfter(c))
           /\ Posts(c, q, CqsAfter(c), tx) \/ Drops(q, CqsAfter(c), tx)
           /\ cpu' = cpu
    BY <1>6, HandleIs
  <2>2. c.cid \in Cid /\ c.op \in Op
    BY DEF Commands
  <2>3. \A p \in Queue : cq'[p].base = CqsAfter(c)[p].base /\ cq'[p].size = CqsAfter(c)[p].size
    BY <1>0, <2>1, <2>2, PostsTypes
  <2>4. LessData
    BY <1>0, <2>1, <2>2, PostsLessData DEF LessData
  <2>5. LessRx
    BY <1>1, <2>1
  <2>6. SqTypes /\ CqTypes
    BY DEF Types
  <2>7. /\ CqsAfter(c)[Adm] = cq[Adm]
        /\ CqsAfter(c)[1] = cq[1] \/ (CqsAfter(c)[1].base = Base /\ CqsAfter(c)[1].size = Size[1])
    <3>1. CASE c.op = "create_cq" /\ c.qid = 1
      <4>1. PICK r : r = [base |-> Base, size |-> IoSize, head |-> 0, tail |-> 0, phase |-> 0]
        OBVIOUS
      <4>2. CqsAfter(c) = [cq EXCEPT ![1] = r]
        BY <3>1, <4>1 DEF CqsAfter, CreateCq
      <4>3. DOMAIN cq = Queue /\ r.base = Base /\ r.size = Size[1]
        BY <2>6, <4>1, Sizes DEF CqTypes, OkCqs
      <4>4. CqsAfter(c)[1] = r /\ CqsAfter(c)[Adm] = cq[Adm]
        BY <4>2, <4>3, Sizes
      <4> QED
        BY <4>3, <4>4
    <3>2. CASE ~(c.op = "create_cq" /\ c.qid = 1)
      <4>1. CqsAfter(c) = cq
        BY <3>2, Zenon DEF CqsAfter
      <4> QED
        BY <4>1, Zenon
    <3> QED
      BY <3>1, <3>2
  <2>8. /\ sq'[Adm] = sq[Adm]
        /\ sq'[1] = sq[1] \/ (sq'[1].base = Base /\ sq'[1].size = Size[1])
    <3>1. CASE c.op = "create_sq" /\ c.qid = 1
      <4>1. PICK r : r = [base |-> Base, size |-> IoSize, head |-> 0, tail |-> 0]
        OBVIOUS
      <4>2. sq' = [sq EXCEPT ![1] = r]
        BY <2>1, <3>1, <4>1 DEF SqsAfter, CreateSq
      <4>3. DOMAIN sq = Queue /\ r.base = Base /\ r.size = Size[1]
        BY <2>6, <4>1, Sizes DEF SqTypes
      <4>4. sq'[1] = r /\ sq'[Adm] = sq[Adm]
        BY <4>2, <4>3, Sizes
      <4> QED
        BY <4>3, <4>4
    <3>2. CASE ~(c.op = "create_sq" /\ c.qid = 1)
      <4>1. sq' = sq
        BY <2>1, <3>2, Zenon DEF SqsAfter
      <4> QED
        BY <4>1, Zenon
    <3> QED
      BY <3>1, <3>2
  <2>9. /\ cq'[Adm].base = cq[Adm].base /\ cq'[Adm].size = cq[Adm].size
        /\ \/ cq'[1].base = cq[1].base /\ cq'[1].size = cq[1].size
           \/ cq'[1].base = Base /\ cq'[1].size = Size[1]
    BY <2>3, <2>7, Sizes
  <2>10. /\ SqUp(Adm) => SqUp(Adm)'
         /\ CqUp(Adm) => CqUp(Adm)'
         /\ SqUp(1) => SqUp(1)'
         /\ CqUp(1) => CqUp(1)'
         /\ \A p \in Queue : cq[p].size = Size[p] => cq'[p].size = Size[p]
         /\ \A p \in Queue : sq[p].size = Size[p] => sq'[p].size = Size[p]
    BY <2>8, <2>9, Sizes DEF SqUp, CqUp
  <2>11. cq[Adm].size = AdmSize => cq'[Adm].size = AdmSize
    BY <2>9
  <2>12. ASSUME NEW m \in 1..Len(rx')
         PROVE  cq'[rx'[m].qid].size = Size[rx'[m].qid] /\ cq'[Adm].size = AdmSize
    <3>1. PICK l \in 1..Len(rx) : rx'[m] = rx[l]
      BY <2>5 DEF LessRx
    <3>2. rx[l] \in Fetches
      BY <1>0, ElementIn
    <3>3. rx[l].qid \in Queue
      BY <3>2 DEF Fetches
    <3> QED
      BY <2>10, <2>11, <3>1, <3>3 DEF Sized
  <2>13. \A p \in Queue : InIrq(DOORBELL_TAIL(p))' =>
          sq'[p].size = Size[p] /\ cq'[p].size = Size[p] /\ cq'[Adm].size = AdmSize
    BY <1>0, <2>10, <2>11 DEF Sized
  <2>14. /\ \A m \in 1..Len(tx') : tx'[m].kind = "data" => cq'[Adm].size = AdmSize
         /\ cpu' = "fill" => cq'[Adm].size = AdmSize
    BY <2>1, <2>4, <2>11 DEF Sized, LessData
  <2>15. /\ host'.pc \in {"live", "stopping", "down", "disabling"} => SqUp(Adm)' /\ CqUp(Adm)'
         /\ "sq" \in host'.has => SqUp(1)'
         /\ "cq" \in host'.has => CqUp(1)'
    BY <1>0, <2>10 DEF Sized
  <2> QED
    BY <2>12, <2>13, <2>14, <2>15 DEF Sized
<1>7. CASE ClearResponse
  <2>1. rx # <<>> /\ rx' = Tail(rx) /\ UNCHANGED <<sq, cq, tx>>
    BY <1>7 DEF ClearResponse
  <2> QED
    BY <1>0, <1>1, <1>3, <1>4, <2>1, SizedKept
<1>8. CASE DataCallback
  <2>1. /\ tx # <<>> /\ UNCHANGED <<sq, cpu, rx>>
        /\ Posts(Called, Adm, cq, Tail(tx)) \/ Drops(Adm, cq, Tail(tx))
    BY <1>8, CallbackIs
  <2>2. /\ OkTxs(Tail(tx)) /\ tx[1] \in Transfers /\ Len(Tail(tx)) = Len(tx) - 1
        /\ Len(tx) \in Nat \ {0} /\ \A m \in 1..(Len(tx) - 1) : Tail(tx)[m] = tx[m + 1]
    BY <2>1, TxTail
  <2>3. PICK c : c = Called
    OBVIOUS
  <2>4. c.cid \in Cid /\ c.op \in Op
    BY <2>2, <2>3 DEF Transfers, Called
  <2>5. OkCqs(cq) /\ Adm \in Queue /\ (Posts(c, Adm, cq, Tail(tx)) \/ Drops(Adm, cq, Tail(tx)))
    BY <2>1, <2>3, Sizes DEF Types, CqTypes
  <2>6. SizesKept
    BY <2>1, <2>2, <2>4, <2>5, PostsTypes DEF SizesKept
  <2>7. LessData
    <3> SUFFICES ASSUME NEW m \in 1..Len(tx'), tx'[m].kind = "data"
                 PROVE  \E l \in 1..Len(tx) : tx[l].kind = "data"
      BY DEF LessData
    <3>0. PICK t : t = Tail(tx)
      OBVIOUS
    <3>a. OkTxs(t) /\ OkCqs(cq) /\ Adm \in Queue /\ (Posts(c, Adm, cq, t) \/ Drops(Adm, cq, t))
      BY <2>2, <2>5, <3>0
    <3>b. m \in 1..Len(t) /\ tx'[m] = t[m]
      BY <2>4, <3>a, PostsLessData
    <3>1. m \in 1..Len(Tail(tx)) /\ tx'[m] = Tail(tx)[m]
      BY <3>0, <3>b
    <3>2. m + 1 \in 1..Len(tx) /\ tx'[m] = tx[m + 1]
      BY <2>2, <3>1
    <3> QED
      BY <3>2
  <2> QED
    BY <1>0, <1>2, <2>1, <2>6, <2>7, SizedKept
<1>9. CASE FillResponse
  <2>1. UNCHANGED <<sq, cq, rx>> /\ cpu = "fill" /\ cpu' = "idle"
    BY <1>9 DEF FillResponse
  <2>2. cq[Adm].size = AdmSize
    BY <2>1 DEF Sized
  <2> QED
    BY <1>0, <2>1, <2>2 DEF Sized, SqUp, CqUp, InIrq
<1>10. CASE DataMove
  <2>1. UNCHANGED <<sq, cq, rx, tx, cpu>>
    BY <1>10 DEF DataMove
  <2> QED
    BY <1>0, <1>2, <1>3, <1>4, <2>1, SizedKept
<1>11. CASE CqMove
  <2>1. UNCHANGED <<sq, cq, rx, cpu>> /\ tx' = Tail(tx) /\ tx # <<>>
    BY <1>11 DEF CqMove
  <2> QED
    BY <1>0, <1>2, <1>4, <1>5, <2>1, SizedKept
<1> QED
  BY <1>6, <1>7, <1>8, <1>9, <1>10, <1>11 DEF Engine, Callback

-----------------------------------------------------------------------------
(* The completion queues: each as a ring                                   *)

\* From the entry that the driver expects next on: where a slot is, how many entries
\* are posted that it has not read, and how many it has read that the controller does
\* not know of.
Offset(q, s) == Dist(Size[q], host.head[q], s)
Owing(q) == Offset(q, cq[q].tail)
Lag(q) == Dist(Size[q], cq[q].head, host.head[q])

\* The phase of a new entry in slot s, and whether there is one.
Expect(q, s) == IF s >= host.head[q] THEN host.phase[q] ELSE 1 - host.phase[q]
Arrived(q, s) == cqMem[q][s].p = Expect(q, s)

\* Transfer m is a completion for queue q.
Going(q, m) == tx[m].kind = "cq" /\ tx[m].qid = q

\* The completion of command i has been posted, in slot s.
PostedAt(q, i, s) ==
  \/ \E m \in 1..Len(tx) : Going(q, m) /\ tx[m].cid = i /\ tx[m].slot = s
  \/ Arrived(q, s) /\ cqMem[q][s].cid = i
Posted(q, i) == \E s \in Slots(q) : PostedAt(q, i, s)

RingEnds(q) == Stamp(cq[q]) = Expect(q, cq[q].tail) /\ Lag(q) + Owing(q) <= Size[q] - 1
RingGoing(q) ==
  \A m \in 1..Len(tx) : Going(q, m) =>
    /\ tx[m].base = Base /\ Offset(q, tx[m].slot) < Owing(q)
    /\ tx[m].p = Expect(q, tx[m].slot) /\ ~Arrived(q, tx[m].slot)
RingApart(q) ==
  \A m, l \in 1..Len(tx) : Going(q, m) /\ Going(q, l) /\ tx[m].slot = tx[l].slot => m = l
RingRead(q) == \A s \in Slots(q) : Arrived(q, s) => Offset(q, s) < Owing(q)
RingFull(q) ==
  \A s \in Slots(q) : Offset(q, s) < Owing(q) =>
    Arrived(q, s) \/ \E m \in 1..Len(tx) : Going(q, m) /\ tx[m].slot = s

\* The completions that are owed, and only they, are under way or in memory.
Ring(q) == RingEnds(q) /\ RingGoing(q) /\ RingApart(q) /\ RingRead(q) /\ RingFull(q)

\* The ring's numbers.
LEMMA RingTypes ==
  ASSUME Types, NEW q \in Queue
  PROVE  /\ Size[q] \in Nat /\ Size[q] >= 2 /\ Slots(q) = 0..(Size[q] - 1)
         /\ host.head[q] \in 0..(Size[q] - 1) /\ host.phase[q] \in {0, 1}
         /\ cq[q].head \in 0..(Size[q] - 1) /\ cq[q].tail \in 0..(Size[q] - 1)
         /\ cq[q].phase \in {0, 1} /\ cqMem[q] \in [Slots(q) -> Entries]
         /\ \A s \in Slots(q) : cqMem[q][s] \in Entries /\ cqMem[q][s].p \in {0, 1}
         /\ Owing(q) \in 0..(Size[q] - 1) /\ Lag(q) \in 0..(Size[q] - 1)
         /\ \A s \in Slots(q) : Offset(q, s) \in 0..(Size[q] - 1)
<1>1. Size[q] \in Nat /\ Size[q] >= 2 /\ Slots(q) = 0..(Size[q] - 1)
  BY Sizes DEF Slots
<1>2. host.head[q] \in 0..(Size[q] - 1) /\ host.phase[q] \in {0, 1}
  BY <1>1 DEF Types, HostTypes
<1>3. PICK r : r = cq[q]
  OBVIOUS
<1>4. r \in [base : Words, size : {0, Size[q]}, head : Slots(q), tail : Slots(q), phase : {0, 1}]
  BY <1>3 DEF Types, CqTypes, OkCqs
<1>5. r.head \in 0..(Size[q] - 1) /\ r.tail \in 0..(Size[q] - 1) /\ r.phase \in {0, 1}
  BY <1>1, <1>4
<1>6. cqMem[q] \in [Slots(q) -> Entries]
  BY DEF Types, MemTypes
<1>7. \A s \in Slots(q) : cqMem[q][s] \in Entries /\ cqMem[q][s].p \in {0, 1}
  BY <1>6 DEF Entries
<1>8. \A s \in Slots(q) : Offset(q, s) \in 0..(Size[q] - 1)
  BY <1>1, <1>2, DistFacts DEF Offset
<1>9. Owing(q) \in 0..(Size[q] - 1) /\ Lag(q) \in 0..(Size[q] - 1)
  <2>1. Owing(q) \in 0..(Size[q] - 1)
    BY <1>1, <1>3, <1>5, <1>8 DEF Owing
  <2>2. PICK n \in Nat : n = Size[q] /\ n >= 2
    BY <1>1
  <2>3. PICK h \in 0..(n - 1) : h = host.head[q]
    BY <1>2, <2>2
  <2>4. PICK k \in 0..(n - 1) : k = cq[q].head
    BY <1>3, <1>5, <2>2
  <2>5. Dist(n, k, h) \in 0..(n - 1)
    BY <2>2, DistFacts
  <2> QED
    BY <2>1, <2>2, <2>3, <2>4, <2>5 DEF Lag
<1> QED
  BY <1>1, <1>2, <1>3, <1>5, <1>6, <1>7, <1>8, <1>9

LEMMA GoingTypes ==
  ASSUME Types
  PROVE  /\ Len(tx) \in Nat
         /\ \A m \in 1..Len(tx) : /\ tx[m] \in Transfers /\ OkTransfer(tx[m])
                                  /\ tx[m].slot \in Slots(tx[m].qid) /\ tx[m].cid \in Cid
                                  /\ tx[m].p \in {0, 1}
<1>1. tx \in Seq(Transfers) /\ \A m \in 1..Len(tx) : OkTransfer(tx[m])
  BY DEF Types, TxTypes
<1>2. ASSUME NEW m \in 1..Len(tx)
      PROVE  /\ tx[m] \in Transfers /\ OkTransfer(tx[m])
             /\ tx[m].slot \in Slots(tx[m].qid) /\ tx[m].cid \in Cid /\ tx[m].p \in {0, 1}
  <2>1. OkTransfer(tx[m])
    BY <1>1
  <2>2. tx[m] \in Transfers /\ tx[m].slot \in Slots(tx[m].qid)
    BY <2>1 DEF OkTransfer
  <2>3. tx[m].cid \in Cid /\ tx[m].p \in {0, 1}
    BY <2>2 DEF Transfers
  <2> QED
    BY <2>1, <2>2, <2>3
<1> QED
  BY <1>1, <1>2

\* The channel holds the same completions of queue q, perhaps moved up by d.
ChanShift(q, d) ==
  /\ \A m \in 1..Len(tx') : Going(q, m)' => m + d \in 1..Len(tx) /\ tx'[m] = tx[m + d]
  /\ \A l \in 1..Len(tx) : Going(q, l) => l - d \in 1..Len(tx') /\ tx'[l - d] = tx[l]
ChanKeeps(q) == \E d \in 0..1 : ChanShift(q, d)

\* The two ends and the memory of queue q stay; the controller may learn what was read.
EndsKept(q) ==
  /\ cq'[q].tail = cq[q].tail /\ cq'[q].phase = cq[q].phase
  /\ cq'[q].head \in {cq[q].head, host.head[q]} /\ cqMem'[q] = cqMem[q]
  /\ host'.head[q] = host.head[q] /\ host'.phase[q] = host.phase[q]

PostKeeps(q) == \A i : \A s \in Slots(q) : PostedAt(q, i, s)' <=> PostedAt(q, i, s)

LEMMA RingKept ==
  ASSUME Types, NEW q \in Queue, Ring(q), ChanKeeps(q), EndsKept(q), Len(tx') \in Nat
  PROVE  Ring(q)' /\ PostKeeps(q) /\ (Lag(q)' = Lag(q) \/ Lag(q)' = 0)
<1>0. /\ Len(tx) \in Nat /\ Size[q] \in Nat /\ Size[q] >= 2 /\ host.head[q] \in 0..(Size[q] - 1)
      /\ Owing(q) \in 0..(Size[q] - 1) /\ Lag(q) \in 0..(Size[q] - 1)
  BY RingTypes, GoingTypes
<1>1. PICK d \in 0..1 : ChanShift(q, d)
  BY DEF ChanKeeps
<1>2. /\ \A m \in 1..Len(tx') : Going(q, m)' =>
           m + d \in 1..Len(tx) /\ tx'[m] = tx[m + d] /\ Going(q, m + d)
      /\ \A l \in 1..Len(tx) : Going(q, l) =>
           l - d \in 1..Len(tx') /\ tx'[l - d] = tx[l] /\ Going(q, l - d)'
  BY <1>1 DEF ChanShift, Going
<1>3. /\ \A s : Offset(q, s)' = Offset(q, s) /\ Expect(q, s)' = Expect(q, s)
      /\ \A s : Arrived(q, s)' <=> Arrived(q, s)
      /\ Owing(q)' = Owing(q)
  BY DEF EndsKept, Offset, Expect, Arrived, Owing
<1>10. Lag(q)' = Lag(q) \/ Lag(q)' = 0
  <2>1. Dist(Size[q], host.head[q], host.head[q]) = 0
    BY <1>0 DEF Dist
  <2> QED
    BY <2>1 DEF EndsKept, Lag
<1>4. RingEnds(q)'
  <2>1. Stamp(cq[q])' = Stamp(cq[q])
    BY DEF EndsKept, Stamp
  <2>2. Lag(q)' + Owing(q)' <= Size[q] - 1
    BY <1>0, <1>3, <1>10 DEF Ring, RingEnds
  <2> QED
    BY <1>3, <2>1, <2>2 DEF Ring, RingEnds, EndsKept
<1>5. RingGoing(q)'
  <2> SUFFICES ASSUME NEW m \in 1..Len(tx'), Going(q, m)'
               PROVE  /\ tx'[m].base = Base /\ Offset(q, tx[m].slot)' < Owing(q)'
                      /\ tx'[m].p = Expect(q, tx[m].slot)' /\ ~Arrived(q, tx[m].slot)'
    BY DEF RingGoing
  <2>1. PICK l \in 1..Len(tx) : tx'[m] = tx[l] /\ Going(q, l)
    BY <1>2
  <2>2. PICK e : e = tx[l] /\ e = tx'[m]
    BY <2>1
  <2>3. /\ e.base = Base /\ Offset(q, e.slot) < Owing(q)
        /\ e.p = Expect(q, e.slot) /\ ~Arrived(q, e.slot)
    BY <2>1, <2>2 DEF Ring, RingGoing
  <2>4. /\ e.base = Base /\ Offset(q, e.slot)' < Owing(q)'
        /\ e.p = Expect(q, e.slot)' /\ ~Arrived(q, e.slot)'
    BY <1>3, <2>3
  <2> QED
    BY <2>2, <2>4
<1>6. RingApart(q)'
  <2> SUFFICES ASSUME NEW m \in 1..Len(tx'), NEW l \in 1..Len(tx'), Going(q, m)', Going(q, l)',
                      tx'[m].slot = tx'[l].slot
               PROVE  m = l
    BY DEF RingApart
  <2>1. m + d = l + d
    BY <1>2 DEF Ring, RingApart
  <2> QED
    BY <2>1
<1>7. RingRead(q)'
  BY <1>3 DEF Ring, RingRead
<1>8. RingFull(q)'
  <2> SUFFICES ASSUME NEW s \in Slots(q), Offset(q, s) < Owing(q)
               PROVE  Arrived(q, s) \/ \E m \in 1..Len(tx') : Going(q, m)' /\ tx'[m].slot = s
    BY <1>3 DEF RingFull
  <2>1. CASE Arrived(q, s)
    BY <2>1
  <2>2. ASSUME NEW l \in 1..Len(tx), Going(q, l), tx[l].slot = s
        PROVE  \E m \in 1..Len(tx') : Going(q, m)' /\ tx'[m].slot = s
    BY <1>2, <2>2
  <2> QED
    BY <2>1, <2>2 DEF Ring, RingFull
<1>9. PostKeeps(q)
  <2> SUFFICES ASSUME NEW i, NEW s \in Slots(q) PROVE PostedAt(q, i, s)' <=> PostedAt(q, i, s)
    BY DEF PostKeeps
  <2>1. (Arrived(q, s) /\ cqMem[q][s].cid = i)' <=> Arrived(q, s) /\ cqMem[q][s].cid = i
    BY <1>3 DEF EndsKept
  <2>2. ASSUME NEW m \in 1..Len(tx'), Going(q, m)', tx'[m].cid = i, tx'[m].slot = s
        PROVE  \E l \in 1..Len(tx) : Going(q, l) /\ tx[l].cid = i /\ tx[l].slot = s
    BY <1>2, <2>2
  <2>3. ASSUME NEW l \in 1..Len(tx), Going(q, l), tx[l].cid = i, tx[l].slot = s
        PROVE  \E m \in 1..Len(tx') : Going(q, m)' /\ tx'[m].cid = i /\ tx'[m].slot = s
    BY <1>2, <2>3
  <2> QED
    BY <2>1, <2>2, <2>3 DEF PostedAt
<1> QED
  BY <1>4, <1>5, <1>6, <1>7, <1>8, <1>9, <1>10 DEF Ring

\* Phases: how the two ends of the ring see a slot.
LEMMA DistAdd ==
  ASSUME NEW n \in Nat, n >= 2, NEW a \in 0..(n - 1), NEW b \in 0..(n - 1), NEW c \in 0..(n - 1),
         Dist(n, a, b) + Dist(n, b, c) <= n - 1
  PROVE  Dist(n, a, c) = Dist(n, a, b) + Dist(n, b, c)
BY DEF Dist

-----------------------------------------------------------------------------
(* The completion queues: what the steps do to the channel                 *)

\* The channel without the transfer of data that ended, if that is what the step is about.
Rest(t) == t = tx \/ (tx # <<>> /\ tx[1].kind = "data" /\ t = Tail(tx))

\* As ChanShift, with e for queue q behind.
ChanMore(q, d, e) ==
  /\ tx'[Len(tx')] = e /\ Len(tx') \in Nat \ {0}
  /\ \A m \in 1..(Len(tx') - 1) : m + d \in 1..Len(tx) /\ tx'[m] = tx[m + d]
  /\ \A l \in 1..Len(tx) : Going(q, l) => l - d \in 1..(Len(tx') - 1) /\ tx'[l - d] = tx[l]

LEMMA RestIs ==
  ASSUME Types, NEW t, Rest(t)
  PROVE  \E d \in 0..1 : /\ Len(t) \in Nat /\ t \in Seq(Transfers) /\ Len(tx) = Len(t) + d
                         /\ \A m \in 1..Len(t) : m + d \in 1..Len(tx) /\ t[m] = tx[m + d]
                         /\ \A l \in 1..Len(tx) : tx[l].kind = "cq" =>
                              l - d \in 1..Len(t) /\ t[l - d] = tx[l]
<1>0. Len(tx) \in Nat /\ tx \in Seq(Transfers)
  BY DEF Types, TxTypes
<1>1. CASE t = tx
  BY <1>0, <1>1
<1>2. CASE tx # <<>> /\ tx[1].kind = "data" /\ t = Tail(tx)
  <2>1. /\ Len(t) = Len(tx) - 1 /\ Len(tx) \in Nat \ {0} /\ t \in Seq(Transfers)
        /\ \A m \in 1..(Len(tx) - 1) : t[m] = tx[m + 1]
    BY <1>0, <1>2, HeadTail
  <2>2. ASSUME NEW l \in 1..Len(tx), tx[l].kind = "cq" PROVE l - 1 \in 1..Len(t) /\ t[l - 1] = tx[l]
    <3>1. l # 1
      BY <1>2, <2>2
    <3>2. l - 1 \in 1..(Len(tx) - 1) /\ (l - 1) + 1 = l
      BY <1>0, <3>1
    <3> QED
      BY <2>1, <3>2
  <2>3. Len(t) \in Nat /\ Len(tx) = Len(t) + 1 /\ \A m \in 1..Len(t) : m + 1 \in 1..Len(tx)
    BY <2>1
  <2>4. 1 \in 0..1
    OBVIOUS
  <2> QED
    BY <2>1, <2>2, <2>3, <2>4
<1> QED
  BY <1>1, <1>2 DEF Rest

LEMMA ChanDrop ==
  ASSUME Types, Rest(tx')
  PROVE  \A p \in Queue : ChanKeeps(p)
<1>1. PICK t : t = tx'
  OBVIOUS
<1>2. PICK d \in 0..1 : /\ Len(t) \in Nat
                        /\ \A m \in 1..Len(t) : m + d \in 1..Len(tx) /\ t[m] = tx[m + d]
                        /\ \A l \in 1..Len(tx) : tx[l].kind = "cq" =>
                              l - d \in 1..Len(t) /\ t[l - d] = tx[l]
  BY <1>1, RestIs
<1>3. ASSUME NEW p \in Queue PROVE ChanShift(p, d)
  BY <1>1, <1>2 DEF ChanShift, Going
<1> QED
  BY <1>3 DEF ChanKeeps

LEMMA ChanPost ==
  ASSUME Types, NEW q \in Queue, NEW t, Rest(t), NEW e \in Transfers, e.kind = "cq", e.qid = q,
         tx' = Append(t, e)
  PROVE  \E d \in 0..1 : ChanMore(q, d, e) /\ \A p \in Queue : p # q => ChanShift(p, d)
<1>2. PICK d \in 0..1 : /\ Len(t) \in Nat /\ t \in Seq(Transfers)
                        /\ \A m \in 1..Len(t) : m + d \in 1..Len(tx) /\ t[m] = tx[m + d]
                        /\ \A l \in 1..Len(tx) : tx[l].kind = "cq" =>
                              l - d \in 1..Len(t) /\ t[l - d] = tx[l]
  BY RestIs
<1>3. /\ Len(tx') = Len(t) + 1 /\ tx'[Len(t) + 1] = e
      /\ \A m \in 1..Len(t) : tx'[m] = t[m]
  BY <1>2, Appended
<1>4. ChanMore(q, d, e)
  BY <1>2, <1>3 DEF ChanMore, Going
<1>5. ASSUME NEW p \in Queue, p # q PROVE ChanShift(p, d)
  <2>1. ASSUME NEW m \in 1..Len(tx'), Going(p, m)' PROVE m + d \in 1..Len(tx) /\ tx'[m] = tx[m + d]
    <3>1. m # Len(t) + 1
      BY <1>3, <1>5, <2>1 DEF Going
    <3>2. m \in 1..Len(t)
      BY <1>2, <1>3, <3>1
    <3> QED
      BY <1>2, <1>3, <3>2
  <2>2. ASSUME NEW l \in 1..Len(tx), Going(p, l) PROVE l - d \in 1..Len(tx') /\ tx'[l - d] = tx[l]
    <3>1. l - d \in 1..Len(t) /\ t[l - d] = tx[l]
      BY <1>2, <2>2 DEF Going
    <3>2. l - d \in 1..Len(tx')
      BY <1>2, <1>3, <3>1
    <3> QED
      BY <1>3, <3>1, <3>2
  <2> QED
    BY <2>1, <2>2 DEF ChanShift
<1> QED
  BY <1>4, <1>5

\* A transfer of data is added.
LEMMA ChanData ==
  ASSUME Types, NEW e \in Transfers, e.kind = "data", tx' = Append(tx, e)
  PROVE  \A p \in Queue : ChanKeeps(p)
<1>1. tx \in Seq(Transfers)
  BY DEF Types, TxTypes
<1>2. /\ Len(tx') = Len(tx) + 1 /\ tx'[Len(tx) + 1] = e /\ Len(tx) \in Nat
      /\ \A m \in 1..Len(tx) : tx'[m] = tx[m]
  BY <1>1, Appended
<1>3. ASSUME NEW p \in Queue PROVE ChanShift(p, 0)
  <2>1. ASSUME NEW m \in 1..Len(tx'), Going(p, m)' PROVE m + 0 \in 1..Len(tx) /\ tx'[m] = tx[m + 0]
    <3>1. m # Len(tx) + 1
      BY <1>2, <2>1 DEF Going
    <3>2. m \in 1..Len(tx) /\ m + 0 = m
      BY <1>2, <3>1
    <3> QED
      BY <1>2, <3>2
  <2>2. ASSUME NEW l \in 1..Len(tx), Going(p, l) PROVE l - 0 \in 1..Len(tx') /\ tx'[l - 0] = tx[l]
    <3>1. l - 0 = l /\ l \in 1..Len(tx')
      BY <1>2
    <3> QED
      BY <1>2, <3>1
  <2> QED
    BY <2>1, <2>2 DEF ChanShift
<1>4. 0 \in 0..1
  OBVIOUS
<1> QED
  BY <1>3, <1>4 DEF ChanKeeps

\* The first transfer has been moved, and was not for queue p.
LEMMA ChanTail ==
  ASSUME Types, tx # <<>>, tx' = Tail(tx), NEW p \in Queue, ~Going(p, 1)
  PROVE  ChanKeeps(p)
<1>1. /\ Len(tx) \in Nat \ {0} /\ Len(tx') = Len(tx) - 1
      /\ \A m \in 1..(Len(tx) - 1) : tx'[m] = tx[m + 1]
  BY TxTail
<1>2. ASSUME NEW l \in 1..Len(tx), Going(p, l) PROVE l - 1 \in 1..Len(tx') /\ tx'[l - 1] = tx[l]
  <2>1. l # 1
    BY <1>2
  <2>2. l - 1 \in 1..(Len(tx) - 1) /\ (l - 1) + 1 = l
    BY <1>1, <2>1
  <2> QED
    BY <1>1, <2>2
<1>3. \A m \in 1..Len(tx') : m + 1 \in 1..Len(tx) /\ tx'[m] = tx[m + 1]
  BY <1>1
<1>4. ChanShift(p, 1) /\ 1 \in 0..1
  BY <1>2, <1>3 DEF ChanShift
<1> QED
  BY <1>4 DEF ChanKeeps

-----------------------------------------------------------------------------
(* The completion queues: a completion is posted, moved, and taken         *)

\* Completion e is put at the end of queue q, which is not full.
EndPosts(q, e) ==
  /\ e.kind = "cq" /\ e.qid = q /\ e.base = Base /\ e.slot = cq[q].tail /\ e.p = Stamp(cq[q])
  /\ cq[q].head # (cq[q].tail + 1) % Size[q]
  /\ cq'[q].tail = (cq[q].tail + 1) % Size[q] /\ cq'[q].phase = Stamp(cq[q])
  /\ cq'[q].head = cq[q].head /\ cqMem'[q] = cqMem[q]
  /\ host'.head[q] = host.head[q] /\ host'.phase[q] = host.phase[q]

PostMore(q, e) ==
  \A i : \A s \in Slots(q) : PostedAt(q, i, s)' <=> PostedAt(q, i, s) \/ (i = e.cid /\ s = e.slot)

\* The numbers of a ring when one more entry is put into it.
LEMMA RingRoom ==
  ASSUME NEW n \in Nat, n >= 2, NEW h \in 0..(n - 1), NEW k \in 0..(n - 1), NEW t \in 0..(n - 1),
         Dist(n, k, h) + Dist(n, h, t) <= n - 1, k # (t + 1) % n
  PROVE  /\ Dist(n, h, (t + 1) % n) = Dist(n, h, t) + 1
         /\ Dist(n, k, h) + Dist(n, h, t) + 1 <= n - 1
         /\ (t + 1) % n # h
         /\ IF t = n - 1 THEN (t + 1) % n = 0 /\ h # 0 ELSE (t + 1) % n = t + 1 /\ t + 1 # h
<1>1. (t + 1) % n = (IF t = n - 1 THEN 0 ELSE t + 1)
  BY NextIs
<1>2. CASE t = n - 1
  BY <1>1, <1>2 DEF Dist
<1>3. CASE t # n - 1
  BY <1>1, <1>3 DEF Dist
<1> QED
  BY <1>2, <1>3

LEMMA RingPost ==
  ASSUME Types, NEW q \in Queue, Ring(q), NEW e, NEW d \in 0..1, ChanMore(q, d, e), EndPosts(q, e)
  PROVE  Ring(q)' /\ PostMore(q, e) /\ Lag(q)' = Lag(q)
<1>1. PICK n \in Nat : n = Size[q] /\ n >= 2 /\ Slots(q) = 0..(n - 1)
  BY RingTypes
<1>2. PICK h \in 0..(n - 1) : h = host.head[q] /\ h = host'.head[q]
  BY <1>1, RingTypes DEF EndPosts
<1>3. PICK k \in 0..(n - 1) : k = cq[q].head /\ k = cq'[q].head
  BY <1>1, RingTypes DEF EndPosts
<1>4. PICK t \in 0..(n - 1) : t = cq[q].tail /\ t = e.slot
  BY <1>1, RingTypes DEF EndPosts
<1>5. PICK f : f = host.phase[q] /\ f = host'.phase[q] /\ f \in {0, 1}
  BY RingTypes DEF EndPosts
<1>6. PICK u : u = (t + 1) % n /\ u = cq'[q].tail /\ u \in 0..(n - 1)
  BY <1>1, <1>4, NextIs, SMTT(30) DEF EndPosts
<1>7. Lag(q) = Dist(n, k, h) /\ Lag(q)' = Dist(n, k, h) /\ Owing(q) = Dist(n, h, t)
      /\ Owing(q)' = Dist(n, h, u)
  BY <1>1, <1>2, <1>3, <1>4, <1>6 DEF Lag, Owing, Offset
<1>8. Dist(n, k, h) + Dist(n, h, t) <= n - 1 /\ k # (t + 1) % n
  BY <1>1, <1>3, <1>4, <1>7 DEF Ring, RingEnds, EndPosts
<1>9. /\ Dist(n, h, u) = Dist(n, h, t) + 1 /\ Dist(n, k, h) + Dist(n, h, t) + 1 <= n - 1
      /\ IF t = n - 1 THEN u = 0 /\ h # 0 ELSE u = t + 1 /\ t + 1 # h
  BY <1>1, <1>6, <1>8, RingRoom
<1>10. Dist(n, k, h) \in 0..(n - 1) /\ Dist(n, h, t) \in 0..(n - 1)
  BY <1>1, DistFacts
<1>11. PICK O \in Nat : O = Owing(q) /\ O = Dist(n, h, t) /\ Owing(q)' = O + 1
  BY <1>7, <1>9, <1>10
<1>12. /\ \A s : Offset(q, s)' = Offset(q, s) /\ Expect(q, s)' = Expect(q, s)
       /\ \A s : Arrived(q, s)' <=> Arrived(q, s)
  BY DEF EndPosts, Offset, Expect, Arrived
<1>13. \A s \in Slots(q) : Offset(q, s) \in 0..(n - 1) /\ (Offset(q, s) = O => s = t)
  <2> SUFFICES ASSUME NEW s \in Slots(q)
               PROVE  Offset(q, s) \in 0..(n - 1) /\ (Offset(q, s) = O => s = t)
    OBVIOUS
  <2>1. Offset(q, s) = Dist(n, h, s) /\ s \in 0..(n - 1)
    BY <1>1, <1>2 DEF Offset
  <2> QED
    BY <1>1, <1>11, <2>1, DistFacts
<1>14. PICK L \in Nat : L = Len(tx') /\ L >= 1
  BY DEF ChanMore
<1>15. /\ \A m \in 1..(L - 1) : m + d \in 1..Len(tx) /\ tx'[m] = tx[m + d]
       /\ \A l \in 1..Len(tx) : Going(q, l) => l - d \in 1..(L - 1) /\ tx'[l - d] = tx[l]
       /\ tx'[L] = e /\ Len(tx) \in Nat
  BY <1>14, GoingTypes DEF ChanMore
<1>16. \A m \in 1..(L - 1) : Going(q, m)' <=> Going(q, m + d)
  BY <1>15 DEF Going
<1>17. Offset(q, t) = O /\ ~Arrived(q, t) /\ t \in Slots(q)
  <2>1. Offset(q, t) = O
    BY <1>1, <1>2, <1>11 DEF Offset
  <2> QED
    BY <1>1, <1>11, <2>1 DEF Ring, RingRead
<1>18. Stamp(cq[q]) = Expect(q, t) /\ e.p = Stamp(cq[q]) /\ Stamp(cq[q]) \in {0, 1}
  <2>1. Expect(q, t) \in {0, 1}
    BY <1>5 DEF Expect
  <2> QED
    BY <1>4, <2>1 DEF Ring, RingEnds, EndPosts
<1>19. RingEnds(q)'
  <2>1. Stamp(cq[q])' = IF u = 0 THEN 1 - Stamp(cq[q]) ELSE Stamp(cq[q])
    BY <1>6 DEF Stamp, EndPosts
  <2>2. Expect(q, t) = IF t >= h THEN f ELSE 1 - f
    BY <1>2, <1>5 DEF Expect
  <2>3. Expect(q, u)' = IF u >= h THEN f ELSE 1 - f
    BY <1>2, <1>5 DEF Expect
  <2>4. Stamp(cq[q])' = Expect(q, u)'
    BY <1>1, <1>5, <1>9, <1>18, <2>1, <2>2, <2>3
  <2>5. Lag(q)' + Owing(q)' <= n - 1
    BY <1>7, <1>9, <1>10
  <2>6. Expect(q, u)' = Expect(q, cq[q].tail)'
    BY <1>6
  <2> QED
    BY <1>1, <2>4, <2>5, <2>6 DEF RingEnds
<1>20. RingGoing(q)'
  <2> SUFFICES ASSUME NEW m \in 1..L, Going(q, m)'
               PROVE  /\ tx'[m].base = Base /\ Offset(q, tx'[m].slot) < O + 1
                      /\ tx'[m].p = Expect(q, tx'[m].slot) /\ ~Arrived(q, tx'[m].slot)
    BY <1>11, <1>12, <1>14 DEF RingGoing
  <2>1. CASE m = L
    BY <1>4, <1>15, <1>17, <1>18, <2>1 DEF EndPosts
  <2>2. CASE m # L
    <3>1. m \in 1..(L - 1) /\ m + d \in 1..Len(tx)
      BY <1>15, <2>2
    <3>2. tx'[m] = tx[m + d] /\ Going(q, m + d)
      BY <1>15, <1>16, <3>1
    <3>3. /\ tx[m + d].base = Base /\ Offset(q, tx[m + d].slot) < O
          /\ tx[m + d].p = Expect(q, tx[m + d].slot) /\ ~Arrived(q, tx[m + d].slot)
      BY <1>11, <3>1, <3>2 DEF Ring, RingGoing
    <3>4. tx[m + d].slot \in Slots(q)
      BY <3>1, <3>2, GoingTypes DEF Going
    <3>5. Offset(q, tx[m + d].slot) < O + 1
      BY <1>13, <3>3, <3>4
    <3> QED
      BY <3>2, <3>3, <3>5
  <2> QED
    BY <2>1, <2>2
<1>21. RingApart(q)'
  <2> SUFFICES ASSUME NEW m \in 1..L, NEW l \in 1..L, Going(q, m)', Going(q, l)',
                      tx'[m].slot = tx'[l].slot
               PROVE  m = l
    BY <1>14 DEF RingApart
  <2>1. ASSUME NEW x \in 1..(L - 1), Going(q, x)' PROVE tx'[x].slot # e.slot
    <3>1. x + d \in 1..Len(tx) /\ tx'[x] = tx[x + d] /\ Going(q, x + d)
      BY <1>15, <1>16, <2>1
    <3>2. Offset(q, tx[x + d].slot) < O
      BY <1>11, <3>1 DEF Ring, RingGoing
    <3> QED
      BY <1>4, <1>11, <1>17, <3>1, <3>2
  <2>2. CASE m = L \/ l = L
    <3>1. m # L => m \in 1..(L - 1)
      OBVIOUS
    <3>2. l # L => l \in 1..(L - 1)
      OBVIOUS
    <3> QED
      BY <1>15, <2>1, <2>2, <3>1, <3>2
  <2>3. CASE m # L /\ l # L
    <3>1. m \in 1..(L - 1) /\ l \in 1..(L - 1)
      BY <2>3
    <3>2. /\ m + d \in 1..Len(tx) /\ tx'[m] = tx[m + d] /\ Going(q, m + d)
          /\ l + d \in 1..Len(tx) /\ tx'[l] = tx[l + d] /\ Going(q, l + d)
      BY <1>15, <1>16, <3>1
    <3>3. m + d = l + d
      BY <3>2 DEF Ring, RingApart
    <3> QED
      BY <3>3
  <2> QED
    BY <2>2, <2>3
<1>22. RingRead(q)'
  <2> SUFFICES ASSUME NEW s \in Slots(q), Arrived(q, s) PROVE Offset(q, s) < O + 1
    BY <1>11, <1>12 DEF RingRead
  <2>1. Offset(q, s) < O
    BY <1>11 DEF Ring, RingRead
  <2> QED
    BY <1>13, <2>1
<1>23. RingFull(q)'
  <2> SUFFICES ASSUME NEW s \in Slots(q), Offset(q, s) < O + 1, ~Arrived(q, s)
               PROVE  \E m \in 1..L : Going(q, m)' /\ tx'[m].slot = s
    BY <1>11, <1>12, <1>14 DEF RingFull
  <2>1. CASE Offset(q, s) = O
    <3>1. s = t /\ L \in 1..L
      BY <1>13, <1>14, <2>1
    <3>2. Going(q, L)'
      BY <1>15 DEF Going, EndPosts
    <3> QED
      BY <1>4, <1>15, <3>1, <3>2
  <2>2. CASE Offset(q, s) # O
    <3>1. Offset(q, s) < O
      BY <1>13, <2>2
    <3>2. PICK l \in 1..Len(tx) : Going(q, l) /\ tx[l].slot = s
      BY <1>11, <3>1 DEF Ring, RingFull
    <3>3. l - d \in 1..(L - 1) /\ tx'[l - d] = tx[l]
      BY <1>15, <3>2
    <3>4. Going(q, l - d)'
      BY <3>2, <3>3 DEF Going
    <3>5. l - d \in 1..L
      BY <1>14, <3>3
    <3> QED
      BY <3>2, <3>3, <3>4, <3>5
  <2> QED
    BY <2>1, <2>2
<1>24. PostMore(q, e)
  <2> SUFFICES ASSUME NEW i, NEW s \in Slots(q)
               PROVE  PostedAt(q, i, s)' <=> PostedAt(q, i, s) \/ (i = e.cid /\ s = e.slot)
    BY DEF PostMore
  <2>1. (Arrived(q, s) /\ cqMem[q][s].cid = i)' <=> Arrived(q, s) /\ cqMem[q][s].cid = i
    BY <1>12 DEF EndPosts
  <2>2. ASSUME NEW m \in 1..L, Going(q, m)', tx'[m].cid = i, tx'[m].slot = s,
               ~(i = e.cid /\ s = e.slot)
        PROVE  \E l \in 1..Len(tx) : Going(q, l) /\ tx[l].cid = i /\ tx[l].slot = s
    <3>1. m # L
      BY <1>15, <2>2
    <3>2. m \in 1..(L - 1)
      BY <3>1
    <3> QED
      BY <1>15, <1>16, <2>2, <3>2
  <2>3. ASSUME NEW l \in 1..Len(tx), Going(q, l), tx[l].cid = i, tx[l].slot = s
        PROVE  \E m \in 1..L : Going(q, m)' /\ tx'[m].cid = i /\ tx'[m].slot = s
    <3>1. l - d \in 1..(L - 1) /\ tx'[l - d] = tx[l]
      BY <1>15, <2>3
    <3>2. Going(q, l - d)' /\ l - d \in 1..L
      BY <1>14, <2>3, <3>1 DEF Going
    <3> QED
      BY <2>3, <3>1, <3>2
  <2>4. ASSUME i = e.cid, s = e.slot
        PROVE  \E m \in 1..L : Going(q, m)' /\ tx'[m].cid = i /\ tx'[m].slot = s
    <3>1. L \in 1..L /\ Going(q, L)'
      BY <1>14, <1>15 DEF Going, EndPosts
    <3> QED
      BY <1>15, <2>4, <3>1
  <2> QED
    BY <1>14, <2>1, <2>2, <2>3, <2>4 DEF PostedAt
<1> QED
  BY <1>7, <1>19, <1>20, <1>21, <1>22, <1>23, <1>24 DEF Ring

\* The first transfer arrives in the memory of its queue.
LEMMA RingMove ==
  ASSUME Types, NEW q \in Queue, Ring(q), CqMove, Going(q, 1)
  PROVE  Ring(q)' /\ PostKeeps(q) /\ Lag(q)' = Lag(q)
<1>1. /\ tx # <<>> /\ tx' = Tail(tx) /\ tx[1].qid = q /\ tx[1].slot \in Slots(q)
      /\ cqMem' = IF tx[1].base = Base
                    THEN [cqMem EXCEPT ![q] = [cqMem[q] EXCEPT ![tx[1].slot] = Landed(tx[1])]]
                    ELSE cqMem
      /\ UNCHANGED <<cq, host>>
  BY CqMoveIs DEF Going
<1>2. /\ Len(tx) \in Nat \ {0} /\ Len(tx') = Len(tx) - 1
      /\ \A m \in 1..(Len(tx) - 1) : tx'[m] = tx[m + 1]
  BY <1>1, TxTail
<1>3. PICK z \in Slots(q) : z = tx[1].slot
  BY <1>1
<1>4. PICK L \in Nat : Len(tx) = L + 1 /\ Len(tx') = L
  BY <1>2
<1>5. \A m \in 1..L : m + 1 \in 1..Len(tx) /\ tx'[m] = tx[m + 1] /\ (Going(q, m)' <=> Going(q, m + 1))
  BY <1>2, <1>4 DEF Going
<1>6. 1 \in 1..Len(tx)
  BY <1>2
<1>7. /\ tx[1].base = Base /\ Offset(q, z) < Owing(q) /\ tx[1].p = Expect(q, z) /\ ~Arrived(q, z)
  BY <1>3, <1>6 DEF Ring, RingGoing
<1>8. cqMem'[q] = [cqMem[q] EXCEPT ![z] = Landed(tx[1])]
  BY <1>1, <1>3, <1>7 DEF Types, MemTypes
<1>9. /\ cqMem'[q][z] = Landed(tx[1])
      /\ \A s \in Slots(q) : s # z => cqMem'[q][s] = cqMem[q][s]
  BY <1>8, RingTypes
<1>10. /\ \A s : Offset(q, s)' = Offset(q, s) /\ Expect(q, s)' = Expect(q, s)
       /\ Owing(q)' = Owing(q) /\ Lag(q)' = Lag(q)
  BY <1>1 DEF Offset, Expect, Owing, Lag
<1>11. /\ Arrived(q, z)' /\ cqMem'[q][z].cid = tx[1].cid
       /\ \A s \in Slots(q) : s # z => (Arrived(q, s)' <=> Arrived(q, s))
  BY <1>7, <1>9, <1>10 DEF Arrived, Landed
<1>12. \A m \in 1..Len(tx) : Going(q, m) /\ m # 1 => tx[m].slot # z
  BY <1>3, <1>6 DEF Ring, RingApart
<1>13. \A m \in 1..Len(tx) : Going(q, m) => tx[m].slot \in Slots(q)
  BY GoingTypes DEF Going
<1>14. RingEnds(q)'
  BY <1>1, <1>10 DEF Ring, RingEnds, Stamp
<1>15. RingGoing(q)'
  <2> SUFFICES ASSUME NEW m \in 1..L, Going(q, m)'
               PROVE  (/\ tx[m].base = Base /\ Offset(q, tx[m].slot) < Owing(q)
                       /\ tx[m].p = Expect(q, tx[m].slot) /\ ~Arrived(q, tx[m].slot))'
    BY <1>4 DEF RingGoing
  <2>1. m + 1 \in 1..Len(tx) /\ tx'[m] = tx[m + 1] /\ Going(q, m + 1) /\ m + 1 # 1
    BY <1>5
  <2>2. /\ tx[m + 1].base = Base /\ Offset(q, tx[m + 1].slot) < Owing(q)
        /\ tx[m + 1].p = Expect(q, tx[m + 1].slot) /\ ~Arrived(q, tx[m + 1].slot)
    BY <2>1 DEF Ring, RingGoing
  <2>3. PICK s \in Slots(q) : s = tx[m + 1].slot /\ s = tx'[m].slot /\ s # z
    BY <1>12, <1>13, <2>1
  <2>4. ~Arrived(q, s)' /\ Offset(q, s)' < Owing(q)' /\ Expect(q, s)' = Expect(q, s)
    BY <1>10, <1>11, <2>2, <2>3
  <2> QED
    BY <2>1, <2>2, <2>3, <2>4
<1>16. RingApart(q)'
  <2> SUFFICES ASSUME NEW m \in 1..L, NEW l \in 1..L, Going(q, m)', Going(q, l)',
                      tx'[m].slot = tx'[l].slot
               PROVE  m = l
    BY <1>4 DEF RingApart
  <2>1. m + 1 = l + 1
    BY <1>5 DEF Ring, RingApart
  <2> QED
    BY <2>1
<1>17. RingRead(q)'
  BY <1>7, <1>10, <1>11 DEF Ring, RingRead
<1>18. RingFull(q)'
  <2> SUFFICES ASSUME NEW s \in Slots(q), Offset(q, s) < Owing(q), ~Arrived(q, s)'
               PROVE  \E m \in 1..L : Going(q, m)' /\ tx'[m].slot = s
    BY <1>4, <1>10 DEF RingFull
  <2>1. s # z /\ ~Arrived(q, s)
    BY <1>11
  <2>2. PICK l \in 1..Len(tx) : Going(q, l) /\ tx[l].slot = s
    BY <2>1 DEF Ring, RingFull
  <2>3. l # 1
    BY <1>3, <2>1, <2>2
  <2>4. l - 1 \in 1..L /\ (l - 1) + 1 = l
    BY <1>4, <2>3
  <2>5. tx'[l - 1] = tx[l] /\ Going(q, l - 1)'
    BY <1>5, <2>2, <2>4
  <2> QED
    BY <2>2, <2>4, <2>5
<1>19. PostKeeps(q)
  <2> SUFFICES ASSUME NEW i, NEW s \in Slots(q) PROVE PostedAt(q, i, s)' <=> PostedAt(q, i, s)
    BY DEF PostKeeps
  <2>1. CASE s = z
    <3>1. PostedAt(q, i, s)' <=> i = tx[1].cid
      <4>1. ~\E m \in 1..L : Going(q, m)' /\ tx'[m].cid = i /\ tx'[m].slot = s
        <5> SUFFICES ASSUME NEW m \in 1..L, Going(q, m)', tx'[m].slot = s PROVE FALSE
          OBVIOUS
        <5>1. m + 1 \in 1..Len(tx) /\ tx[m + 1].slot = s /\ Going(q, m + 1) /\ m + 1 # 1
          BY <1>5
        <5> QED
          BY <1>12, <2>1, <5>1
      <4> QED
        BY <1>4, <1>11, <2>1, <4>1 DEF PostedAt
    <3>2. PostedAt(q, i, s) <=> i = tx[1].cid
      <4>1. ASSUME NEW m \in 1..Len(tx), Going(q, m), tx[m].cid = i, tx[m].slot = s
            PROVE  i = tx[1].cid
        BY <1>12, <2>1, <4>1
      <4> QED
        BY <1>3, <1>6, <1>7, <2>1, <4>1 DEF PostedAt
    <3> QED
      BY <3>1, <3>2
  <2>2. CASE s # z
    <3>1. (Arrived(q, s) /\ cqMem[q][s].cid = i)' <=> Arrived(q, s) /\ cqMem[q][s].cid = i
      BY <1>9, <1>11, <2>2
    <3>2. ASSUME NEW m \in 1..L, Going(q, m)', tx'[m].cid = i, tx'[m].slot = s
          PROVE  \E l \in 1..Len(tx) : Going(q, l) /\ tx[l].cid = i /\ tx[l].slot = s
      BY <1>5, <3>2
    <3>3. ASSUME NEW l \in 1..Len(tx), Going(q, l), tx[l].cid = i, tx[l].slot = s
          PROVE  \E m \in 1..L : Going(q, m)' /\ tx'[m].cid = i /\ tx'[m].slot = s
      <4>1. l # 1
        BY <1>3, <2>2, <3>3
      <4>2. l - 1 \in 1..L /\ (l - 1) + 1 = l
        BY <1>4, <4>1
      <4>3. tx'[l - 1] = tx[l] /\ Going(q, l - 1)'
        BY <1>5, <3>3, <4>2
      <4> QED
        BY <3>3, <4>2, <4>3
    <3> QED
      BY <1>4, <3>1, <3>2, <3>3 DEF PostedAt
  <2> QED
    BY <2>1, <2>2
<1> QED
  BY <1>10, <1>14, <1>15, <1>16, <1>17, <1>18, <1>19 DEF Ring

\* The numbers of a ring when the driver reads its first entry.
LEMMA RingLess ==
  ASSUME NEW n \in Nat, n >= 2, NEW h \in 0..(n - 1), NEW s \in 0..(n - 1)
  PROVE  /\ Dist(n, (h + 1) % n, s) = IF s = h THEN n - 1 ELSE Dist(n, h, s) - 1
         /\ (h + 1) % n = IF h = n - 1 THEN 0 ELSE h + 1
         /\ Dist(n, h, s) \in 0..(n - 1) /\ (Dist(n, h, s) = 0 <=> s = h)
<1>1. Dist(n, h, s) \in 0..(n - 1) /\ (Dist(n, h, s) = 0 <=> s = h)
  BY DEF Dist
<1> QED
  BY <1>1, NextIs, DistNext

\* The driver takes the first completion of queue q.
EndTakes(q) ==
  /\ Arrived(q, host.head[q]) /\ cq'[q] = cq[q] /\ tx' = tx
  /\ host'.head[q] = (host.head[q] + 1) % Size[q]
  /\ host'.phase[q] = IF host'.head[q] = 0 THEN 1 - host.phase[q] ELSE host.phase[q]
  /\ cqMem'[q] = [cqMem[q] EXCEPT ![host.head[q]] =
                    [cid |-> 0, res |-> 0, p |-> cqMem[q][host.head[q]].p]]

PostLess(q) ==
  \A i : \A s \in Slots(q) : PostedAt(q, i, s)' <=> PostedAt(q, i, s) /\ s # host.head[q]

LEMMA RingTake ==
  ASSUME Types, NEW q \in Queue, Ring(q), EndTakes(q)
  PROVE  /\ Ring(q)' /\ PostLess(q) /\ Lag(q)' = Lag(q) + 1 /\ host.head[q] \in Slots(q)
         /\ PostedAt(q, cqMem[q][host.head[q]].cid, host.head[q])
         /\ \A i : PostedAt(q, i, host.head[q]) => i = cqMem[q][host.head[q]].cid
         /\ \A s \in Slots(q) : /\ s # host.head[q] => Offset(q, s)' = Offset(q, s) - 1
                                /\ Offset(q, s) = 0 <=> s = host.head[q]
<1>1. PICK n \in Nat : n = Size[q] /\ n >= 2 /\ Slots(q) = 0..(n - 1)
  BY RingTypes
<1>2. PICK h \in 0..(n - 1) : h = host.head[q]
  BY <1>1, RingTypes
<1>3. PICK u \in 0..(n - 1) : u = host'.head[q] /\ u = (h + 1) % n
  BY <1>1, <1>2, NextIs DEF EndTakes
<1>4. PICK k \in 0..(n - 1) : k = cq[q].head /\ k = cq'[q].head
  BY <1>1, RingTypes DEF EndTakes
<1>5. PICK t \in 0..(n - 1) : t = cq[q].tail /\ t = cq'[q].tail
  BY <1>1, RingTypes DEF EndTakes
<1>6. PICK f : f = host.phase[q] /\ f \in {0, 1}
  BY RingTypes
<1>7. host'.phase[q] = IF u = 0 THEN 1 - f ELSE f
  BY <1>3, <1>6 DEF EndTakes
<1>8. Lag(q) = Dist(n, k, h) /\ Lag(q)' = Dist(n, k, u) /\ Owing(q) = Dist(n, h, t)
      /\ Owing(q)' = Dist(n, u, t)
  BY <1>1, <1>2, <1>3, <1>4, <1>5 DEF Lag, Owing, Offset
<1>9. PICK O \in 0..(n - 1) : O = Owing(q)
  BY <1>1, RingTypes
<1>10. Arrived(q, h) /\ h \in Slots(q)
  BY <1>1, <1>2 DEF EndTakes
<1>11. \A s \in Slots(q) : Offset(q, s) = Dist(n, h, s) /\ Offset(q, s)' = Dist(n, u, s)
  BY <1>1, <1>2, <1>3 DEF Offset
<1>12. \A s \in Slots(q) : /\ Offset(q, s) \in 0..(n - 1) /\ (Offset(q, s) = 0 <=> s = h)
                           /\ Offset(q, s)' = IF s = h THEN n - 1 ELSE Offset(q, s) - 1
  <2> SUFFICES ASSUME NEW s \in 0..(n - 1)
               PROVE  /\ Dist(n, h, s) \in 0..(n - 1) /\ (Dist(n, h, s) = 0 <=> s = h)
                      /\ Dist(n, u, s) = IF s = h THEN n - 1 ELSE Dist(n, h, s) - 1
    BY <1>1, <1>11
  <2>1. n \in Nat /\ n >= 2
    BY <1>1
  <2>2. /\ Dist(n, h, s) \in 0..(n - 1) /\ (Dist(n, h, s) = 0 <=> s = h)
        /\ Dist(n, (h + 1) % n, s) = IF s = h THEN n - 1 ELSE Dist(n, h, s) - 1
    BY <2>1, RingLess
  <2> QED
    BY <1>3, <2>2, Zenon
<1>13. O >= 1 /\ t # h
  <2>1. Offset(q, h) < O /\ Offset(q, h) = 0
    BY <1>9, <1>10, <1>12 DEF Ring, RingRead
  <2>2. O >= 1
    BY <2>1
  <2>3. Dist(n, h, t) = O
    BY <1>8, <1>9
  <2> QED
    BY <1>1, <2>2, <2>3, RingLess
<1>14. Owing(q)' = O - 1
  <2>1. n \in Nat /\ n >= 2
    BY <1>1
  <2>2. Dist(n, (h + 1) % n, t) = IF t = h THEN n - 1 ELSE Dist(n, h, t) - 1
    BY <2>1, RingLess
  <2>3. Dist(n, u, t) = Dist(n, h, t) - 1
    BY <1>3, <1>13, <2>2, Zenon
  <2> QED
    BY <1>8, <1>9, <2>3, Zenon
<1>15. PICK l \in 0..(n - 1) : l = Lag(q) /\ l + O <= n - 1
  BY <1>1, <1>9, RingTypes DEF Ring, RingEnds
<1>16. Lag(q)' = l + 1
  <2>1. n \in Nat /\ n >= 2
    BY <1>1
  <2>2. Dist(n, k, (h + 1) % n) = IF Dist(n, k, h) = n - 1 THEN 0 ELSE Dist(n, k, h) + 1
    BY <2>1, DistNext
  <2>3. Dist(n, k, u) = IF l = n - 1 THEN 0 ELSE l + 1
    BY <1>3, <1>8, <1>15, <2>2, Zenon
  <2>4. l # n - 1
    BY <1>13, <1>15
  <2> QED
    BY <1>8, <2>3, <2>4
<1>17. \A s \in 0..(n - 1) : Expect(q, s)' = IF s = h THEN 1 - Expect(q, s) ELSE Expect(q, s)
  <2> SUFFICES ASSUME NEW s \in 0..(n - 1)
               PROVE  Expect(q, s)' = IF s = h THEN 1 - Expect(q, s) ELSE Expect(q, s)
    OBVIOUS
  <2>1. Expect(q, s) = IF s >= h THEN f ELSE 1 - f
    BY <1>2, <1>6 DEF Expect
  <2>2. Expect(q, s)' = IF s >= u THEN (IF u = 0 THEN 1 - f ELSE f)
                        ELSE 1 - (IF u = 0 THEN 1 - f ELSE f)
    BY <1>3, <1>7 DEF Expect
  <2>3. u = IF h = n - 1 THEN 0 ELSE h + 1
    BY <1>1, <1>3, RingLess
  <2> QED
    BY <1>6, <2>1, <2>2, <2>3
<1>18. \A s \in Slots(q) : Expect(q, s) \in {0, 1} /\ cqMem[q][s].p \in {0, 1}
  BY <1>6, RingTypes DEF Expect
<1>19. /\ cqMem'[q][h] = [cid |-> 0, res |-> 0, p |-> cqMem[q][h].p]
       /\ \A s \in Slots(q) : s # h => cqMem'[q][s] = cqMem[q][s]
  BY <1>2, <1>10, RingTypes DEF EndTakes
<1>20. /\ ~Arrived(q, h)'
       /\ \A s \in Slots(q) : s # h => (Arrived(q, s)' <=> Arrived(q, s))
  <2>1. cqMem'[q][h].p = Expect(q, h)
    BY <1>10, <1>19 DEF Arrived
  <2>2. Expect(q, h)' = 1 - Expect(q, h) /\ Expect(q, h) \in {0, 1}
    BY <1>10, <1>17, <1>18
  <2>3. ~Arrived(q, h)'
    BY <2>1, <2>2 DEF Arrived
  <2>4. ASSUME NEW s \in Slots(q), s # h PROVE Arrived(q, s)' <=> Arrived(q, s)
    BY <1>1, <1>17, <1>19, <2>4 DEF Arrived
  <2> QED
    BY <2>3, <2>4
<1>21. tx' = tx /\ \A m : Going(q, m)' <=> Going(q, m)
  BY DEF EndTakes, Going
<1>22. \A m \in 1..Len(tx) : Going(q, m) => tx[m].slot \in Slots(q) /\ tx[m].slot # h
  BY <1>10, GoingTypes DEF Going, Ring, RingGoing
<1>23. RingEnds(q)'
  <2>1. Stamp(cq[q])' = Stamp(cq[q])
    BY DEF EndTakes, Stamp
  <2>2. Stamp(cq[q]) = Expect(q, t)
    BY <1>5 DEF Ring, RingEnds
  <2>3. Expect(q, t)' = Expect(q, t)
    BY <1>13, <1>17
  <2>4. Expect(q, cq[q].tail)' = Expect(q, t)'
    BY <1>5
  <2>5. Lag(q)' + Owing(q)' <= Size[q] - 1
    BY <1>1, <1>14, <1>15, <1>16
  <2> QED
    BY <2>1, <2>2, <2>3, <2>4, <2>5 DEF RingEnds
<1>24. RingGoing(q)'
  <2> SUFFICES ASSUME NEW m \in 1..Len(tx), Going(q, m)
               PROVE  (/\ tx[m].base = Base /\ Offset(q, tx[m].slot) < Owing(q)
                       /\ tx[m].p = Expect(q, tx[m].slot) /\ ~Arrived(q, tx[m].slot))'
    BY <1>21 DEF RingGoing
  <2>1. PICK s \in Slots(q) : s = tx[m].slot /\ s = tx'[m].slot /\ s # h
    BY <1>21, <1>22
  <2>2. /\ tx[m].base = Base /\ Offset(q, s) < O /\ tx[m].p = Expect(q, s) /\ ~Arrived(q, s)
    BY <1>9, <2>1 DEF Ring, RingGoing
  <2>3. Offset(q, s)' < Owing(q)'
    BY <1>12, <1>14, <2>1, <2>2, SMTT(30)
  <2>4. Expect(q, s)' = Expect(q, s) /\ ~Arrived(q, s)'
    BY <1>1, <1>17, <1>20, <2>1, <2>2
  <2> QED
    BY <1>21, <2>1, <2>2, <2>3, <2>4
<1>25. RingApart(q)'
  BY <1>21 DEF Ring, RingApart
<1>26. RingRead(q)'
  <2> SUFFICES ASSUME NEW s \in Slots(q), Arrived(q, s)' PROVE Offset(q, s)' < Owing(q)'
    BY DEF RingRead
  <2>1. s # h /\ Arrived(q, s)
    BY <1>20
  <2>2. Offset(q, s) < O
    BY <1>9, <2>1 DEF Ring, RingRead
  <2> QED
    BY <1>12, <1>14, <2>1, <2>2
<1>27. RingFull(q)'
  <2> SUFFICES ASSUME NEW s \in Slots(q), Offset(q, s)' < Owing(q)'
               PROVE  Arrived(q, s)' \/ \E m \in 1..Len(tx) : Going(q, m) /\ tx[m].slot = s
    BY <1>21 DEF RingFull
  <2>1. s # h /\ Offset(q, s) < O
    BY <1>12, <1>14
  <2>2. Arrived(q, s) \/ \E m \in 1..Len(tx) : Going(q, m) /\ tx[m].slot = s
    BY <1>9, <2>1 DEF Ring, RingFull
  <2> QED
    BY <1>20, <2>1, <2>2
<1>28. PostLess(q)
  <2> SUFFICES ASSUME NEW i, NEW s \in Slots(q)
               PROVE  PostedAt(q, i, s)' <=> PostedAt(q, i, s) /\ s # h
    BY <1>2 DEF PostLess
  <2>1. CASE s = h
    <3>1. ~PostedAt(q, i, s)'
      BY <1>20, <1>21, <1>22, <2>1 DEF PostedAt
    <3> QED
      BY <2>1, <3>1
  <2>2. CASE s # h
    BY <1>19, <1>20, <1>21, <2>2 DEF PostedAt
  <2> QED
    BY <2>1, <2>2
<1>29. /\ PostedAt(q, cqMem[q][h].cid, h)
       /\ \A i : PostedAt(q, i, h) => i = cqMem[q][h].cid
  BY <1>10, <1>22 DEF PostedAt
<1> QED
  BY <1>1, <1>2, <1>12, <1>15, <1>16, <1>23, <1>24, <1>25, <1>26, <1>27, <1>28, <1>29 DEF Ring

\* A completion queue as it is when it is new.
EndFresh(q) ==
  /\ cq'[q].head = 0 /\ cq'[q].tail = 0 /\ cq'[q].phase = 0
  /\ host'.head[q] = 0 /\ host'.phase[q] = 1
  /\ \A s \in Slots(q) : cqMem'[q][s].p = 0
  /\ \A m \in 1..Len(tx') : ~Going(q, m)'

LEMMA RingFresh ==
  ASSUME NEW q \in Queue, EndFresh(q)
  PROVE  Ring(q)' /\ Lag(q)' = 0 /\ \A i : \A s \in Slots(q) : ~PostedAt(q, i, s)'
<1>1. PICK n \in Nat : n = Size[q] /\ n >= 2 /\ Slots(q) = 0..(n - 1)
  BY Sizes DEF Slots
<1>2. \A s \in Slots(q) : Expect(q, s)' = 1
  BY <1>1 DEF Expect, EndFresh
<1>3. \A s \in Slots(q) : ~Arrived(q, s)'
  BY <1>2 DEF Arrived, EndFresh
<1>4. Lag(q)' = 0 /\ Owing(q)' = 0
  BY DEF Lag, Owing, Offset, Dist, EndFresh
<1>5. \A s \in Slots(q) : Offset(q, s)' = s
  BY <1>1 DEF Offset, Dist, EndFresh
<1>6. RingEnds(q)'
  <2>1. Stamp(cq[q])' = 1 /\ Expect(q, cq[q].tail)' = 1
    BY DEF Stamp, Expect, EndFresh
  <2> QED
    BY <1>1, <1>4, <2>1 DEF RingEnds
<1>7. RingGoing(q)' /\ RingApart(q)' /\ RingRead(q)'
  BY <1>3 DEF EndFresh, RingGoing, RingApart, RingRead
<1>8. RingFull(q)'
  BY <1>1, <1>4, <1>5 DEF RingFull
<1> QED
  BY <1>3, <1>4, <1>6, <1>7, <1>8 DEF Ring, PostedAt, EndFresh

-----------------------------------------------------------------------------
(* The submission queues                                                   *)

\* Where command i of queue q is: its response is being filled, or waits to be moved; its
\* completion is posted; or it has not been run.
Filling(q, i) == q = Adm /\ cpu = "fill" /\ filling.cid = i
Moving(q, i) == q = Adm /\ \E m \in 1..Len(tx) : tx[m].kind = "data" /\ tx[m].cid = i
Waits(q, i) == ~Posted(q, i) /\ ~Filling(q, i) /\ ~Moving(q, i)

\* How many commands have been written since slot s, and how many are not fetched.
Age(q, s) == Dist(Size[q], s, host.tail[q])
Unfetched(q) == Age(q, sq[q].head)

\* The last w commands that were written wait to be run, and whatever is fetched is one of
\* them, the oldest first.
WinCmds(q, w) ==
  \A s \in Slots(q) : Age(q, s) \in 1..w =>
    sqMem[q][s] \in host.out[q] /\ Waits(q, sqMem[q][s].cid)
WinApart(q, w) ==
  \A s, r \in Slots(q) :
    Age(q, s) \in 1..w /\ Age(q, r) \in 1..w /\ sqMem[q][s].cid = sqMem[q][r].cid => s = r
WinRx(q, w) ==
  \A m \in 1..Len(rx) : rx[m].qid = q =>
    /\ rx[m].base = Base /\ Unfetched(q) < Age(q, rx[m].slot) /\ Age(q, rx[m].slot) <= w
WinOrder(q) ==
  \A m, l \in 1..Len(rx) :
    m < l /\ rx[m].qid = q /\ rx[l].qid = q => Age(q, rx[l].slot) < Age(q, rx[m].slot)
Win(q, w) == Unfetched(q) <= w /\ WinCmds(q, w) /\ WinApart(q, w) /\ WinRx(q, w) /\ WinOrder(q)
Sub(q) == \E w \in 0..(Size[q] - 1) : Win(q, w)

LEMMA AgeTypes ==
  ASSUME Types, NEW q \in Queue
  PROVE  /\ host.tail[q] \in 0..(Size[q] - 1) /\ sq[q].head \in Slots(q)
         /\ \A s \in Slots(q) : Age(q, s) \in 0..(Size[q] - 1)
         /\ \A s, r \in Slots(q) : Age(q, s) = Age(q, r) => s = r
         /\ Unfetched(q) \in 0..(Size[q] - 1) /\ sqMem[q] \in [Slots(q) -> Commands]
<1>1. PICK n \in Nat : n = Size[q] /\ n >= 2 /\ Slots(q) = 0..(n - 1)
  BY Sizes DEF Slots
<1>2. PICK t \in 0..(n - 1) : t = host.tail[q]
  BY <1>1 DEF Types, HostTypes
<1>3. PICK r : r = sq[q]
  OBVIOUS
<1>4. r.head \in Slots(q)
  BY <1>3 DEF Types, SqTypes
<1>5. \A s \in Slots(q) : Age(q, s) = Dist(n, s, t)
  BY <1>1, <1>2, Zenon DEF Age
<1>6. ASSUME NEW s \in 0..(n - 1), NEW x \in 0..(n - 1)
      PROVE  Dist(n, s, t) \in 0..(n - 1) /\ (Dist(n, s, t) = Dist(n, x, t) => s = x)
  BY <1>1, SMTT(30) DEF Dist
<1>7. \A s \in Slots(q) : Age(q, s) \in 0..(Size[q] - 1)
  BY <1>1, <1>5, <1>6
<1>8. \A s, x \in Slots(q) : Age(q, s) = Age(q, x) => s = x
  BY <1>1, <1>5, <1>6
<1>9. Unfetched(q) \in 0..(Size[q] - 1)
  BY <1>3, <1>4, <1>7 DEF Unfetched
<1> QED
  BY <1>1, <1>2, <1>3, <1>4, <1>7, <1>8, <1>9 DEF Types, MemTypes

LEMMA FetchTypes ==
  ASSUME Types
  PROVE  /\ Len(rx) \in Nat /\ rx \in Seq(Fetches)
         /\ \A m \in 1..Len(rx) : rx[m].qid \in Queue /\ rx[m].slot \in Slots(rx[m].qid)
<1>1. rx \in Seq(Fetches) /\ \A m \in 1..Len(rx) : rx[m].slot \in Slots(rx[m].qid)
  BY DEF Types, RxTypes
<1>2. \A m \in 1..Len(rx) : rx[m] \in Fetches
  BY <1>1, ElementIn
<1> QED
  BY <1>1, <1>2 DEF Fetches

\* The oldest fetch is of a command that waits to be run.
LEMMA FirstFetch ==
  ASSUME Types, rx # <<>>, NEW q \in Queue, q = rx[1].qid, Sub(q), NEW c, c = Entry(rx[1])
  PROVE  /\ c \in host.out[q] /\ Waits(q, c.cid) /\ rx[1].slot \in Slots(q)
         /\ c = sqMem[q][rx[1].slot] /\ rx[1].base = Base /\ Unfetched(q) < Age(q, rx[1].slot)
         /\ \A s \in Slots(q) : Age(q, s) \in 1..Unfetched(q) => sqMem[q][s].cid # c.cid
<1>1. PICK w \in 0..(Size[q] - 1) : Win(q, w)
  BY DEF Sub
<1>2. 1 \in 1..Len(rx)
  <2>1. rx \in Seq(Fetches)
    BY FetchTypes
  <2> QED
    BY <2>1, HeadTail
<1>3. PICK s \in Slots(q) : s = rx[1].slot
  BY <1>2, FetchTypes
<1>4. rx[1].base = Base /\ Unfetched(q) < Age(q, s) /\ Age(q, s) <= w
  BY <1>1, <1>2, <1>3 DEF Win, WinRx
<1>5. c = sqMem[q][s]
  BY <1>3, <1>4 DEF Entry
<1>11. Size[q] \in Nat /\ Age(q, s) \in 0..(Size[q] - 1) /\ Unfetched(q) \in 0..(Size[q] - 1)
  BY AgeTypes, Sizes
<1>6. PICK a \in Nat : a = Age(q, s)
  BY <1>11
<1>7. PICK u \in Nat : u = Unfetched(q)
  BY <1>11
<1>8. w \in Nat /\ a \in 1..w /\ \A r \in 1..u : r \in 1..w /\ r # a
  BY <1>4, <1>6, <1>7, Sizes
<1>9. c \in host.out[q] /\ Waits(q, c.cid)
  BY <1>1, <1>5, <1>6, <1>8 DEF Win, WinCmds
<1>10. ASSUME NEW r \in Slots(q), Age(q, r) \in 1..Unfetched(q) PROVE sqMem[q][r].cid # c.cid
  <2>1. Age(q, r) \in 1..w /\ Age(q, r) # a
    BY <1>7, <1>8, <1>10
  <2>2. sqMem[q][r].cid = sqMem[q][s].cid => r = s
    BY <1>1, <1>6, <1>8, <2>1 DEF Win, WinApart
  <2> QED
    BY <1>5, <1>6, <2>1, <2>2
<1> QED
  BY <1>3, <1>4, <1>5, <1>9, <1>10

\* d of the fetched commands are run by the step: one, the first, or none.
Ran(d) == (d = 0 /\ rx' = rx) \/ (d = 1 /\ rx # <<>> /\ rx' = Tail(rx))

\* The fetches for queue q stay, but for the first if d is 1.
RanOf(q, d) ==
  /\ Len(rx') \in Nat /\ (d = 1 => 1 \in 1..Len(rx))
  /\ \A m \in 1..Len(rx') : rx'[m].qid = q => m + d \in 1..Len(rx) /\ rx'[m] = rx[m + d]

LEMMA RanIs ==
  ASSUME Types, NEW d \in 0..1, Ran(d)
  PROVE  \A q \in Queue : RanOf(q, d)
<1> SUFFICES /\ Len(rx') \in Nat /\ (d = 1 => 1 \in 1..Len(rx))
             /\ \A m \in 1..Len(rx') : m + d \in 1..Len(rx) /\ rx'[m] = rx[m + d]
  BY DEF RanOf
<1>1. rx \in Seq(Fetches) /\ Len(rx) \in Nat
  BY FetchTypes
<1>2. CASE d = 0 /\ rx' = rx
  BY <1>1, <1>2
<1>3. CASE d = 1 /\ rx # <<>> /\ rx' = Tail(rx)
  <2>1. /\ Len(rx') = Len(rx) - 1 /\ Len(rx) \in Nat \ {0}
        /\ \A m \in 1..(Len(rx) - 1) : rx'[m] = rx[m + 1]
    BY <1>1, <1>3, HeadTail
  <2> QED
    BY <1>3, <2>1
<1> QED
  BY <1>2, <1>3 DEF Ran

\* A step of the controller that may run a command, and leaves the others waiting.
LEMMA SubEngine ==
  ASSUME Types, NEW q \in Queue, Sub(q), NEW d \in 0..1, RanOf(q, d),
         host'.tail[q] = host.tail[q], host'.out[q] = host.out[q], sqMem'[q] = sqMem[q],
         sq'[q].head = sq[q].head,
         \A i : Waits(q, i) /\ ~(d = 1 /\ rx[1].qid = q /\ i = Entry(rx[1]).cid) => Waits(q, i)'
  PROVE  Sub(q)'
<1>1. PICK w \in 0..(Size[q] - 1) : Win(q, w)
  BY DEF Sub
<1>2. PICK n \in Nat : n = Size[q] /\ w \in 0..(n - 1)
  BY Sizes
<1>3. /\ Len(rx') \in Nat /\ (d = 1 => 1 \in 1..Len(rx)) /\ Len(rx) \in Nat
      /\ \A m \in 1..Len(rx') : rx'[m].qid = q => m + d \in 1..Len(rx) /\ rx'[m] = rx[m + d]
  BY FetchTypes DEF RanOf
<1>4. /\ \A s : Age(q, s)' = Age(q, s)
      /\ Unfetched(q)' = Unfetched(q)
  BY DEF Age, Unfetched
<1>5. \A s \in Slots(q) : Age(q, s) \in 0..(n - 1)
  BY <1>2, AgeTypes
<1>6. Unfetched(q) \in 0..(n - 1)
  BY <1>2, AgeTypes
<1>7. PICK v \in 0..w :
        /\ Unfetched(q) <= v
        /\ \A m \in 1..Len(rx') : rx'[m].qid = q => Age(q, rx'[m].slot) <= v
        /\ \A s \in Slots(q) : Age(q, s) \in 1..v =>
             ~(d = 1 /\ rx[1].qid = q /\ sqMem[q][s].cid = Entry(rx[1]).cid)
  <2>1. CASE ~(d = 1 /\ rx[1].qid = q)
    <3>1. \A m \in 1..Len(rx') : rx'[m].qid = q => Age(q, rx'[m].slot) <= w
      BY <1>1, <1>3 DEF Win, WinRx
    <3>2. Unfetched(q) <= w
      BY <1>1 DEF Win
    <3>3. w \in 0..w
      BY <1>2
    <3> QED
      BY <2>1, <3>1, <3>2, <3>3
  <2>2. CASE d = 1 /\ rx[1].qid = q
    <3>1. 1 \in 1..Len(rx) /\ rx # <<>>
      BY <1>3, <2>2
    <3>2. PICK z \in Slots(q) : z = rx[1].slot
      BY <2>2, <3>1, FirstFetch
    <3>3. Unfetched(q) < Age(q, z) /\ Age(q, z) <= w /\ Entry(rx[1]) = sqMem[q][z]
      <4>1. rx[1].base = Base /\ Unfetched(q) < Age(q, z) /\ Age(q, z) <= w
        BY <1>1, <2>2, <3>1, <3>2 DEF Win, WinRx
      <4> QED
        BY <2>2, <3>2, <4>1 DEF Entry
    <3>4. PICK a \in 1..w : a = Age(q, z)
      BY <1>2, <1>5, <1>6, <3>3
    <3>5. a - 1 \in 0..w /\ Unfetched(q) <= a - 1
      BY <1>2, <1>6, <3>3, <3>4
    <3>6. ASSUME NEW m \in 1..Len(rx'), rx'[m].qid = q PROVE Age(q, rx'[m].slot) <= a - 1
      <4>1. m + 1 \in 1..Len(rx) /\ rx'[m] = rx[m + 1] /\ 1 < m + 1
        BY <1>3, <2>2, <3>6
      <4>2. Age(q, rx[m + 1].slot) < Age(q, rx[1].slot)
        BY <1>1, <2>2, <3>1, <3>6, <4>1 DEF Win, WinOrder
      <4>3. rx[m + 1].slot \in Slots(q)
        BY <3>6, <4>1, FetchTypes
      <4>4. Age(q, rx[m + 1].slot) \in Nat
        BY <1>5, <4>3
      <4> QED
        BY <3>2, <3>4, <4>1, <4>2, <4>4
    <3>7. ASSUME NEW s \in Slots(q), Age(q, s) \in 1..(a - 1)
          PROVE  sqMem[q][s].cid # Entry(rx[1]).cid
      <4>1. Age(q, s) \in 1..w /\ Age(q, s) # a
        BY <1>2, <3>4, <3>7
      <4>2. sqMem[q][s].cid = sqMem[q][z].cid => s = z
        BY <1>1, <3>4, <4>1 DEF Win, WinApart
      <4> QED
        BY <3>3, <3>4, <4>1, <4>2
    <3> QED
      BY <3>5, <3>6, <3>7
  <2> QED
    BY <2>1, <2>2
<1>8. v \in 0..(n - 1) /\ \A a \in Int : a \in 1..v => a \in 1..w
  BY <1>2
<1>9. \A s \in Slots(q) : Age(q, s) \in 1..v => Age(q, s) \in 1..w
  BY <1>5, <1>8
<1>10. WinCmds(q, v)'
  <2> SUFFICES ASSUME NEW s \in Slots(q), Age(q, s) \in 1..v
               PROVE  sqMem[q][s] \in host.out[q] /\ Waits(q, sqMem[q][s].cid)'
    BY <1>4 DEF WinCmds
  <2>1. sqMem[q][s] \in host.out[q] /\ Waits(q, sqMem[q][s].cid)
    BY <1>1, <1>9 DEF Win, WinCmds
  <2>2. PICK i : i = sqMem[q][s].cid /\ i = sqMem'[q][s].cid
    OBVIOUS
  <2>3. Waits(q, i)'
    BY <1>7, <2>1, <2>2
  <2> QED
    BY <2>1, <2>2, <2>3
<1>11. WinApart(q, v)'
  BY <1>1, <1>4, <1>9 DEF Win, WinApart
<1>12. WinRx(q, v)'
  BY <1>1, <1>3, <1>4, <1>7 DEF Win, WinRx
<1>13. WinOrder(q)'
  <2> SUFFICES ASSUME NEW m \in 1..Len(rx'), NEW l \in 1..Len(rx'), m < l,
                      rx'[m].qid = q, rx'[l].qid = q
               PROVE  Age(q, rx'[l].slot) < Age(q, rx'[m].slot)
    BY <1>4 DEF WinOrder
  <2>1. /\ m + d \in 1..Len(rx) /\ rx'[m] = rx[m + d]
        /\ l + d \in 1..Len(rx) /\ rx'[l] = rx[l + d] /\ m + d < l + d
    BY <1>3
  <2> QED
    BY <1>1, <2>1 DEF Win, WinOrder
<1>14. Win(q, v)'
  BY <1>4, <1>7, <1>10, <1>11, <1>12, <1>13 DEF Win
<1> QED
  BY <1>2, <1>8, <1>14 DEF Sub

\* A submission queue with nothing in it.
LEMMA SubFresh ==
  ASSUME NEW q \in Queue, host'.tail[q] = 0, sq'[q].head = 0,
         \A m \in 1..Len(rx') : rx'[m].qid # q
  PROVE  Sub(q)'
<1>1. PICK n \in Nat : n = Size[q] /\ n >= 2
  BY Sizes
<1>2. Unfetched(q)' = 0
  BY DEF Unfetched, Age, Dist
<1>3. WinRx(q, 0)' /\ WinOrder(q)'
  BY DEF WinRx, WinOrder
<1>4. WinCmds(q, 0)' /\ WinApart(q, 0)'
  <2>1. \A a : a \notin 1..0
    OBVIOUS
  <2> QED
    BY <2>1 DEF WinCmds, WinApart
<1>5. Win(q, 0)'
  BY <1>2, <1>3, <1>4 DEF Win
<1>6. 0 \in 0..(Size[q] - 1)
  BY <1>1
<1> QED
  BY <1>5, <1>6 DEF Sub

\* The commands up to the doorbell are fetched.
LEMMA SubTail ==
  ASSUME Types, NEW q \in Queue, Sub(q), NEW t \in Slots(q), NEW P \in Nat, TailServed(q, t, P),
         t = host.tail[q], sq[q].base = Base, UNCHANGED <<host, sqMem>>,
         \A i : Waits(q, i) => Waits(q, i)'
  PROVE  Sub(q)' /\ Unfetched(q)' = 0
<1>1. PICK w \in 0..(Size[q] - 1) : Win(q, w)
  BY DEF Sub
<1>2. PICK n \in Nat : n = Size[q] /\ n >= 2 /\ w \in 0..(n - 1) /\ Slots(q) = 0..(n - 1)
  BY Sizes DEF Slots
<1>3. PICK h \in 0..(n - 1) : h = sq[q].head
  BY <1>2, AgeTypes
<1>4. t \in 0..(n - 1)
  BY <1>2
<1>5. \A s \in Slots(q) : Age(q, s)' = Age(q, s) /\ Age(q, s) = Dist(n, s, t)
  BY <1>2 DEF Age
<1>6. Unfetched(q) = Dist(n, h, t) /\ Unfetched(q) = P /\ P <= w
  BY <1>1, <1>2, <1>3, <1>5 DEF Unfetched, TailServed, Win
<1>7. Unfetched(q)' = 0
  <2>1. sq'[q].head = t
    BY DEF TailServed, Types, SqTypes
  <2>2. Dist(n, t, t) = 0
    BY <1>2, <1>4 DEF Dist
  <2> QED
    BY <1>2, <2>1, <2>2 DEF Unfetched, Age
<1>8. PICK L \in Nat : L = Len(rx) /\ Len(rx') = L + P
  BY FetchTypes DEF TailServed
<1>9. \A m \in 1..L : rx'[m] = rx[m]
  BY <1>8 DEF TailServed
<1>10. ASSUME NEW k \in 1..P
       PROVE  /\ rx'[L + k].qid = q /\ rx'[L + k].base = Base /\ rx'[L + k].slot \in Slots(q)
              /\ Age(q, rx'[L + k].slot) = (P - k) + 1
  <2>1. /\ rx'[L + k].qid = q /\ rx'[L + k].base = Base
        /\ rx'[L + k].slot = (h + (k - 1)) % n
    BY <1>2, <1>3, <1>8 DEF TailServed
  <2>2. n \in Nat /\ n >= 2 /\ k \in 1..Dist(n, h, t)
    BY <1>2, <1>6
  <2>3. (h + (k - 1)) % n \in 0..(n - 1) /\ Dist(n, (h + (k - 1)) % n, t) = (Dist(n, h, t) - k) + 1
    BY <1>4, <2>2, DistSum
  <2>4. PICK z \in 0..(n - 1) : z = (h + (k - 1)) % n
    BY <2>3
  <2>5. Dist(n, z, t) = (P - k) + 1
    BY <1>6, <2>3, <2>4, Zenon
  <2> QED
    BY <1>2, <1>5, <2>1, <2>4, <2>5
<1>11. \A s \in Slots(q) : Age(q, s) \in 0..(n - 1)
  BY <1>2, AgeTypes
<1>12. ASSUME NEW m \in 1..L, rx'[m].qid = q
       PROVE  /\ rx'[m] = rx[m] /\ rx'[m].base = Base /\ rx'[m].slot \in Slots(q)
              /\ P < Age(q, rx'[m].slot) /\ Age(q, rx'[m].slot) <= w
  <2>1. rx'[m] = rx[m] /\ m \in 1..Len(rx)
    BY <1>8, <1>9
  <2> QED
    BY <1>1, <1>6, <1>12, <2>1, FetchTypes DEF Win, WinRx
<1>13. ASSUME NEW m \in 1..(L + P), m \notin 1..L PROVE m - L \in 1..P /\ L + (m - L) = m
  BY <1>13
<1>14. WinRx(q, w)'
  <2> SUFFICES ASSUME NEW m \in 1..(L + P), rx'[m].qid = q
               PROVE  /\ rx'[m].base = Base /\ rx'[m].slot \in Slots(q)
                      /\ 0 < Age(q, rx'[m].slot) /\ Age(q, rx'[m].slot) <= w
    BY <1>5, <1>7, <1>8 DEF WinRx
  <2>1. CASE m \in 1..L
    <3>1. PICK a \in Nat : a = Age(q, rx'[m].slot)
      BY <1>11, <1>12, <2>1
    <3> QED
      BY <1>12, <2>1, <3>1
  <2>2. CASE m \notin 1..L
    <3>1. PICK k \in 1..P : m = L + k
      BY <1>13, <2>2
    <3>2. (P - k) + 1 > 0 /\ (P - k) + 1 <= w
      BY <1>2, <1>6
    <3>3. /\ rx'[m].base = Base /\ rx'[m].slot \in Slots(q)
          /\ Age(q, rx'[m].slot) = (P - k) + 1
      BY <1>10, <3>1
    <3> QED
      BY <3>2, <3>3
  <2> QED
    BY <2>1, <2>2
<1>15. WinOrder(q)'
  <2> SUFFICES ASSUME NEW m \in 1..(L + P), NEW l \in 1..(L + P), m < l,
                      rx'[m].qid = q, rx'[l].qid = q
               PROVE  Age(q, rx'[l].slot) < Age(q, rx'[m].slot) /\ rx'[l].slot \in Slots(q)
                      /\ rx'[m].slot \in Slots(q)
    BY <1>5, <1>8 DEF WinOrder
  <2>1. CASE l \in 1..L
    <3>1. m \in 1..L
      BY <2>1
    <3>2. rx'[m] = rx[m] /\ rx'[l] = rx[l] /\ m \in 1..Len(rx) /\ l \in 1..Len(rx)
      BY <1>8, <1>9, <2>1, <3>1
    <3> QED
      BY <1>1, <1>12, <2>1, <3>1, <3>2 DEF Win, WinOrder
  <2>2. CASE l \notin 1..L
    <3>1. PICK k \in 1..P : l = L + k
      BY <1>13, <2>2
    <3>2. Age(q, rx'[l].slot) = (P - k) + 1 /\ rx'[l].slot \in Slots(q)
      BY <1>10, <3>1
    <3>3. CASE m \in 1..L
      <4>1. P < Age(q, rx'[m].slot) /\ rx'[m].slot \in Slots(q)
        BY <1>12, <3>3
      <4>2. PICK a \in Nat : a = Age(q, rx'[m].slot)
        BY <1>11, <4>1
      <4> QED
        BY <3>2, <4>1, <4>2
    <3>4. CASE m \notin 1..L
      <4>1. PICK j \in 1..P : m = L + j
        BY <1>13, <3>4
      <4>2. Age(q, rx'[m].slot) = (P - j) + 1 /\ rx'[m].slot \in Slots(q)
        BY <1>10, <4>1
      <4> QED
        BY <3>1, <3>2, <4>1, <4>2
    <3> QED
      BY <3>3, <3>4
  <2> QED
    BY <2>1, <2>2
<1>16. WinCmds(q, w)'
  <2> SUFFICES ASSUME NEW s \in Slots(q), Age(q, s) \in 1..w
               PROVE  sqMem[q][s] \in host.out[q] /\ Waits(q, sqMem[q][s].cid)'
    BY <1>5 DEF WinCmds
  <2>1. sqMem[q][s] \in host.out[q] /\ Waits(q, sqMem[q][s].cid)
    BY <1>1 DEF Win, WinCmds
  <2>2. PICK i : i = sqMem[q][s].cid /\ i = sqMem'[q][s].cid
    OBVIOUS
  <2> QED
    BY <2>1, <2>2
<1>17. WinApart(q, w)'
  BY <1>1, <1>5 DEF Win, WinApart
<1>18. Win(q, w)'
  BY <1>2, <1>7, <1>14, <1>15, <1>16, <1>17 DEF Win
<1> QED
  BY <1>7, <1>18 DEF Sub

\* The driver takes the completion of command c, which is nowhere in the window.
LEMMA SubConsume ==
  ASSUME Types, NEW q \in Queue, Sub(q), NEW c, Posted(q, c.cid),
         host'.tail[q] = host.tail[q], host'.out[q] = host.out[q] \ {c},
         sqMem'[q] = [i \in Slots(q) |-> IF sqMem[q][i] = c THEN Junk ELSE sqMem[q][i]],
         UNCHANGED <<sq, rx>>, \A i : Waits(q, i) => Waits(q, i)'
  PROVE  Sub(q)'
<1>1. PICK w \in 0..(Size[q] - 1) : Win(q, w)
  BY DEF Sub
<1>2. /\ \A s : Age(q, s)' = Age(q, s)
      /\ Unfetched(q)' = Unfetched(q)
  BY DEF Age, Unfetched
<1>3. ASSUME NEW s \in Slots(q), Age(q, s) \in 1..w
      PROVE  /\ sqMem[q][s] \in host.out[q] /\ Waits(q, sqMem[q][s].cid)
             /\ sqMem'[q][s] = sqMem[q][s] /\ sqMem[q][s] # c
  <2>1. sqMem[q][s] \in host.out[q] /\ Waits(q, sqMem[q][s].cid)
    BY <1>1, <1>3 DEF Win, WinCmds
  <2>2. sqMem[q][s] # c
    BY <2>1 DEF Waits
  <2> QED
    BY <2>1, <2>2
<1>4. WinCmds(q, w)'
  <2> SUFFICES ASSUME NEW s \in Slots(q), Age(q, s) \in 1..w
               PROVE  sqMem'[q][s] \in host'.out[q] /\ Waits(q, sqMem[q][s].cid)'
    BY <1>2 DEF WinCmds
  <2>1. PICK i : i = sqMem[q][s].cid /\ i = sqMem'[q][s].cid
    BY <1>3
  <2>2. Waits(q, i)'
    BY <1>3, <2>1
  <2> QED
    BY <1>3, <2>1, <2>2
<1>5. WinApart(q, w)'
  BY <1>1, <1>2, <1>3 DEF Win, WinApart
<1>6. WinRx(q, w)' /\ WinOrder(q)'
  BY <1>1, <1>2 DEF Win, WinRx, WinOrder
<1>7. Win(q, w)'
  BY <1>1, <1>2, <1>4, <1>5, <1>6 DEF Win
<1> QED
  BY <1>7 DEF Sub

\* There is a slot of every age.
LEMMA AgeExists ==
  ASSUME Types, NEW q \in Queue, NEW a \in 0..(Size[q] - 1)
  PROVE  \E s \in Slots(q) : Age(q, s) = a
<1>1. PICK n \in Nat : n = Size[q] /\ n >= 2 /\ Slots(q) = 0..(n - 1) /\ a \in 0..(n - 1)
  BY Sizes DEF Slots
<1>2. PICK t \in 0..(n - 1) : t = host.tail[q]
  BY <1>1, AgeTypes
<1>3. PICK s \in 0..(n - 1) : Dist(n, s, t) = a
  <2>1. CASE t >= a
    <3>1. t - a \in 0..(n - 1) /\ t >= t - a /\ t - (t - a) = a
      BY <1>1, <2>1
    <3> QED
      BY <3>1 DEF Dist
  <2>2. CASE ~(t >= a)
    <3>1. (t - a) + n \in 0..(n - 1) /\ ~(t >= (t - a) + n) /\ (t - ((t - a) + n)) + n = a
      BY <1>1, <2>2
    <3> QED
      BY <3>1 DEF Dist
  <2> QED
    BY <2>1, <2>2
<1> QED
  BY <1>1, <1>2, <1>3 DEF Age

\* No more commands wait to be run than the driver waits for.
LEMMA WinSize ==
  ASSUME Types, NEW q \in Queue, NEW w \in 0..(Size[q] - 1), Win(q, w), IsFiniteSet(host.out[q])
  PROVE  w <= Cardinality(host.out[q])
<1>1. w \in Nat /\ Size[q] \in Nat /\ \A a \in 1..w : a \in 0..(Size[q] - 1)
  BY Sizes
<1>2. Cardinality(host.out[q]) \in Nat
  BY FS_CardinalityType
<1>3. IsFiniteSet(1..w) /\ Cardinality(1..w) = w
  <2>1. Cardinality(1..w) = IF 1 > w THEN 0 ELSE w - 1 + 1
    BY <1>1, FS_Interval
  <2> QED
    BY <1>1, <2>1, FS_Interval
<1> DEFINE slot(a) == CHOOSE s \in Slots(q) : Age(q, s) = a
           f == [a \in 1..w |-> sqMem[q][slot(a)]]
<1>4. ASSUME NEW a \in 1..w
      PROVE  slot(a) \in Slots(q) /\ Age(q, slot(a)) = a
  <2>1. \E s \in Slots(q) : Age(q, s) = a
    BY <1>1, AgeExists
  <2> QED
    BY <2>1
<1> HIDE DEF slot
<1>5. f \in [1..w -> host.out[q]]
  <2>1. ASSUME NEW a \in 1..w PROVE sqMem[q][slot(a)] \in host.out[q]
    <3>1. PICK s : s = slot(a)
      OBVIOUS
    <3>2. s \in Slots(q) /\ Age(q, s) \in 1..w
      BY <1>4, <3>1
    <3> QED
      BY <3>1, <3>2 DEF Win, WinCmds
  <2> QED
    BY <2>1
<1>6. ASSUME NEW a \in 1..w, NEW b \in 1..w, f[a] = f[b] PROVE a = b
  <2>1. /\ slot(a) \in Slots(q) /\ Age(q, slot(a)) = a
        /\ slot(b) \in Slots(q) /\ Age(q, slot(b)) = b
    BY <1>4
  <2>2. sqMem[q][slot(a)].cid = sqMem[q][slot(b)].cid
    BY <1>6
  <2>3. slot(a) = slot(b)
    BY <2>1, <2>2 DEF Win, WinApart
  <2> QED
    BY <2>1, <2>3
<1>7. ASSUME Cardinality(host.out[q]) < Cardinality(1..w) PROVE FALSE
  <2>1. PICK S, T : S = 1..w /\ T = host.out[q]
    OBVIOUS
  <2> HIDE DEF f
  <2>2. IsFiniteSet(S) /\ IsFiniteSet(T) /\ Cardinality(T) < Cardinality(S) /\ f \in [S -> T]
    BY <1>3, <1>5, <1>7, <2>1
  <2>3. \E x, y \in S : x # y /\ f[x] = f[y]
    BY <2>2, FS_PigeonHole
  <2> QED
    BY <1>6, <2>1, <2>3
<1> QED
  BY <1>1, <1>2, <1>3, <1>7

\* The driver submits command c: the window is one longer.
LEMMA SubSubmit ==
  ASSUME Types, NEW q \in Queue, Sub(q), NEW c, Waits(q, c.cid)', Unused(q, c.cid),
         IsFiniteSet(host.out[q]), Cardinality(host.out[q]) < Size[q] - 1,
         host'.tail[q] = (host.tail[q] + 1) % Size[q], host'.out[q] = host.out[q] \cup {c},
         sqMem'[q] = [sqMem[q] EXCEPT ![host.tail[q]] = c],
         UNCHANGED <<sq, rx>>, \A i : Waits(q, i) => Waits(q, i)'
  PROVE  /\ Sub(q)' /\ Unfetched(q)' = Unfetched(q) + 1
         /\ \E z \in Slots(q) : z = host.tail[q] /\ Age(q, z)' = 1
         /\ \A s \in Slots(q) : Age(q, s) \in 1..Unfetched(q) =>
              Age(q, s)' = Age(q, s) + 1 /\ s # host.tail[q]
<1>1. PICK w \in 0..(Size[q] - 1) : Win(q, w)
  BY DEF Sub
<1>2. PICK n \in Nat : n = Size[q] /\ n >= 2 /\ Slots(q) = 0..(n - 1) /\ w \in 0..(n - 1)
  BY Sizes DEF Slots
<1>3. w + 1 \in 0..(n - 1) /\ w < n - 1
  <2>1. w <= Cardinality(host.out[q]) /\ Cardinality(host.out[q]) \in Nat
    BY <1>1, WinSize, FS_CardinalityType
  <2> QED
    BY <1>2, <2>1
<1>4. PICK t \in 0..(n - 1) : t = host.tail[q]
  BY <1>2, AgeTypes
<1>5. \A s \in Slots(q) : Age(q, s) = Dist(n, s, t) /\ Age(q, s)' = Dist(n, s, (t + 1) % n)
  BY <1>2, <1>4 DEF Age
<1>6. \A s \in Slots(q) : Age(q, s) \in 0..(n - 1)
  BY <1>2, AgeTypes
<1>7. ASSUME NEW s \in Slots(q)
      PROVE  Age(q, s)' = IF Age(q, s) = n - 1 THEN 0 ELSE Age(q, s) + 1
  <2>1. n \in Nat /\ n >= 2 /\ s \in 0..(n - 1)
    BY <1>2
  <2>2. Dist(n, s, (t + 1) % n) = IF Dist(n, s, t) = n - 1 THEN 0 ELSE Dist(n, s, t) + 1
    BY <2>1, DistNext
  <2> QED
    BY <1>5, <2>2, Zenon
<1>8. t \in Slots(q) /\ Age(q, t) = 0 /\ Age(q, t)' = 1
  <2>1. t \in Slots(q) /\ Dist(n, t, t) = 0
    BY <1>2, <1>4 DEF Dist
  <2>2. Age(q, t) = 0
    BY <1>5, <2>1
  <2>3. 0 # n - 1 /\ 0 + 1 = 1
    BY <1>2
  <2> QED
    BY <1>7, <2>1, <2>2, <2>3
<1>9. \A s \in Slots(q) : Age(q, s) \in 1..w => Age(q, s)' = Age(q, s) + 1 /\ s # t
  <2> SUFFICES ASSUME NEW s \in Slots(q), Age(q, s) \in 1..w
               PROVE  Age(q, s)' = Age(q, s) + 1 /\ s # t
    OBVIOUS
  <2>1. Age(q, s) # n - 1 /\ Age(q, s) # 0
    BY <1>2, <1>3
  <2> QED
    BY <1>7, <1>8, <2>1
<1>10. ASSUME NEW s \in Slots(q), Age(q, s)' \in 1..(w + 1), s # t PROVE Age(q, s) \in 1..w
  <2>1. Age(q, s)' = Age(q, s) + 1
    BY <1>7, <1>10
  <2>2. PICK a \in 0..(n - 1) : a = Age(q, s)
    BY <1>6
  <2>3. a # 0
    BY <1>8, <1>10, <2>2, AgeTypes
  <2>4. a + 1 \in 1..(w + 1)
    BY <1>10, <2>1, <2>2
  <2> QED
    BY <1>2, <2>2, <2>3, <2>4
<1>11. sqMem[q] \in [Slots(q) -> Commands]
  BY AgeTypes
<1>12. sqMem'[q][t] = c /\ \A s \in Slots(q) : s # t => sqMem'[q][s] = sqMem[q][s]
  BY <1>4, <1>8, <1>11
<1>13. PICK u \in Nat : u = Unfetched(q) /\ u <= w /\ Unfetched(q)' = u + 1
  <2>1. PICK h \in Slots(q) : h = sq[q].head /\ sq'[q].head = h
    BY AgeTypes
  <2>2. Unfetched(q) = Age(q, h) /\ Unfetched(q)' = Age(q, h)'
    BY <2>1 DEF Unfetched
  <2>3. PICK a \in 0..(n - 1) : a = Age(q, h) /\ a <= w
    BY <1>1, <1>6, <2>1, <2>2 DEF Win
  <2>4. a # n - 1
    BY <1>2, <1>3, <2>3
  <2>5. Age(q, h)' = a + 1
    BY <1>7, <2>1, <2>3, <2>4
  <2> QED
    BY <2>2, <2>3, <2>5
<1>14. ASSUME NEW s \in Slots(q), Age(q, s) \in 1..Unfetched(q) PROVE Age(q, s) \in 1..w
  BY <1>2, <1>13, <1>14
<1>15. ASSUME NEW s \in Slots(q), Age(q, s)' \in 1..(w + 1), s # t
       PROVE  /\ sqMem'[q][s] = sqMem[q][s] /\ sqMem[q][s] \in host.out[q]
              /\ Waits(q, sqMem[q][s].cid) /\ sqMem[q][s].cid # c.cid
  <2>1. Age(q, s) \in 1..w
    BY <1>10, <1>15
  <2>2. sqMem[q][s] \in host.out[q] /\ Waits(q, sqMem[q][s].cid)
    BY <1>1, <2>1 DEF Win, WinCmds
  <2> QED
    BY <1>12, <1>15, <2>2 DEF Unused
<1>16. WinCmds(q, w + 1)'
  <2> SUFFICES ASSUME NEW s \in Slots(q), Age(q, s)' \in 1..(w + 1)
               PROVE  sqMem'[q][s] \in host'.out[q] /\ Waits(q, sqMem[q][s].cid)'
    BY DEF WinCmds
  <2>1. CASE s = t
    <3>1. PICK i : i = c.cid
      OBVIOUS
    <3>2. sqMem'[q][s].cid = i /\ Waits(q, i)'
      BY <1>12, <2>1, <3>1
    <3> QED
      BY <1>12, <2>1, <3>2
  <2>2. CASE s # t
    <3>1. PICK i : i = sqMem[q][s].cid /\ i = sqMem'[q][s].cid
      BY <1>15, <2>2
    <3>2. Waits(q, i)'
      BY <1>15, <2>2, <3>1
    <3> QED
      BY <1>15, <2>2, <3>1, <3>2
  <2> QED
    BY <2>1, <2>2
<1>17. WinApart(q, w + 1)'
  <2> SUFFICES ASSUME NEW s \in Slots(q), NEW r \in Slots(q), Age(q, s)' \in 1..(w + 1),
                      Age(q, r)' \in 1..(w + 1), sqMem'[q][s].cid = sqMem'[q][r].cid
               PROVE  s = r
    BY DEF WinApart
  <2>1. CASE s # t /\ r # t
    <3>1. Age(q, s) \in 1..w /\ Age(q, r) \in 1..w /\ sqMem[q][s].cid = sqMem[q][r].cid
      BY <1>10, <1>15, <2>1
    <3> QED
      BY <1>1, <3>1 DEF Win, WinApart
  <2>2. CASE s = t \/ r = t
    BY <1>12, <1>15, <2>2
  <2> QED
    BY <2>1, <2>2
<1>18. ASSUME NEW m \in 1..Len(rx), rx[m].qid = q
       PROVE  /\ rx[m].slot \in Slots(q) /\ Age(q, rx[m].slot) \in 1..w
              /\ rx[m].base = Base /\ u < Age(q, rx[m].slot)
  <2>1. rx[m].base = Base /\ u < Age(q, rx[m].slot) /\ Age(q, rx[m].slot) <= w
    BY <1>1, <1>13, <1>18 DEF Win, WinRx
  <2>2. PICK s \in Slots(q) : s = rx[m].slot
    BY <1>18, FetchTypes
  <2>3. Age(q, s) \in 0..(n - 1)
    BY <1>6
  <2> QED
    BY <1>2, <1>13, <2>1, <2>2, <2>3
<1>19. WinRx(q, w + 1)'
  <2> SUFFICES ASSUME NEW m \in 1..Len(rx), rx[m].qid = q
               PROVE  /\ rx[m].base = Base
                      /\ u + 1 < Age(q, rx[m].slot)' /\ Age(q, rx[m].slot)' <= w + 1
    BY <1>13 DEF WinRx
  <2>1. PICK s \in Slots(q) : s = rx[m].slot
    BY <1>18
  <2>2. PICK a \in 1..w : a = Age(q, s) /\ u < a /\ Age(q, s)' = a + 1
    BY <1>9, <1>18, <2>1
  <2>3. Age(q, rx[m].slot)' = a + 1
    BY <2>1, <2>2 DEF Age
  <2>4. u + 1 < a + 1 /\ a + 1 <= w + 1
    BY <1>2, <1>13, <2>2
  <2> QED
    BY <1>18, <2>3, <2>4, Zenon
<1>20. WinOrder(q)'
  <2> SUFFICES ASSUME NEW m \in 1..Len(rx), NEW l \in 1..Len(rx), m < l,
                      rx[m].qid = q, rx[l].qid = q
               PROVE  Age(q, rx[l].slot)' < Age(q, rx[m].slot)'
    BY DEF WinOrder
  <2>1. PICK s \in Slots(q), r \in Slots(q) : s = rx[m].slot /\ r = rx[l].slot
    BY <1>18
  <2>2. PICK a \in 1..w : a = Age(q, s) /\ Age(q, s)' = a + 1
    BY <1>9, <1>18, <2>1
  <2>3. PICK b \in 1..w : b = Age(q, r) /\ Age(q, r)' = b + 1
    BY <1>9, <1>18, <2>1
  <2>4. b < a
    BY <1>1, <2>1, <2>2, <2>3 DEF Win, WinOrder
  <2>5. Age(q, rx[m].slot)' = a + 1 /\ Age(q, rx[l].slot)' = b + 1
    BY <2>1, <2>2, <2>3 DEF Age
  <2> QED
    BY <2>4, <2>5
<1>21. Win(q, w + 1)'
  <2>1. u + 1 <= w + 1
    BY <1>2, <1>13
  <2> QED
    BY <1>13, <1>16, <1>17, <1>19, <1>20, <2>1 DEF Win
<1>22. w + 1 \in 0..(Size[q] - 1)
  BY <1>2, <1>3
<1>23. Sub(q)'
  BY <1>21, <1>22, Zenon DEF Sub
<1>24. \A s \in Slots(q) : Age(q, s) \in 1..Unfetched(q) =>
         Age(q, s)' = Age(q, s) + 1 /\ s # host.tail[q]
  BY <1>4, <1>9, <1>14, Zenon
<1>25. \E z \in Slots(q) : z = host.tail[q] /\ Age(q, z)' = 1
  BY <1>4, <1>8
<1> QED
  BY <1>13, <1>23, <1>24, <1>25

-----------------------------------------------------------------------------
(* The commands                                                            *)

\* A posted completion is that of a command which the driver waits for, and the only one.
UnderNames(q) == \A i : Posted(q, i) => \E c \in host.out[q] : c.cid = i
UnderOnce(q) ==
  \A i : \A s, r \in Slots(q) : PostedAt(q, i, s) /\ PostedAt(q, i, r) => s = r
Under(q) == UnderNames(q) /\ UnderOnce(q)

\* A response that is filled, or waits to be moved, is that of a command without completion.
BusyFill ==
  cpu = "fill" =>
    /\ filling \in host.out[Adm] /\ ~Moving(Adm, filling.cid) /\ ~Posted(Adm, filling.cid)
BusyData ==
  \A m \in 1..Len(tx) : tx[m].kind = "data" =>
    /\ ~Posted(Adm, tx[m].cid)
    /\ \E c \in host.out[Adm] : c.cid = tx[m].cid /\ c.op = tx[m].op
BusyOnce ==
  \A m, l \in 1..Len(tx) :
    tx[m].kind = "data" /\ tx[l].kind = "data" /\ tx[m].cid = tx[l].cid => m = l
Busy == BusyFill /\ BusyData /\ BusyOnce

\* What the driver has outstanding.
CmdIds == \A q \in Queue : \A c, d \in host.out[q] : c.cid = d.cid => c = d
CmdCount ==
  \A q \in Queue : /\ IsFiniteSet(host.out[q]) /\ Cardinality(host.out[q]) <= MaxAdm
                   /\ Cardinality(host.out[q]) <= Size[q] - 1
CmdQids ==
  /\ \A c \in host.out[1] : c.op = "io" /\ c.qid = 0
  /\ \A c \in host.out[Adm] : c.op \in QueueOp <=> c.qid \in {1, QUEUES + 1}
CmdOne == \A c, d \in host.out[Adm] : c.op \notin DataOp /\ d.op \notin DataOp => c = d
CmdNew ==
  host.pc \in {"off", "enabling"} =>
    /\ host.has = {}
    /\ \A q \in Queue : /\ host.out[q] = {} /\ host.tail[q] = 0
                        /\ host.head[q] = 0 /\ host.phase[q] = 1
CmdNoSq ==
  "sq" \notin host.has =>
    /\ host.out[1] = {}
    /\ host.pc # "off" => /\ \A m \in 1..Len(rx) : rx[m].qid # 1
                          /\ \A m \in 1..Len(tx) : tx[m].qid # 1
Cmds == CmdIds /\ CmdCount /\ CmdQids /\ CmdOne /\ CmdNew /\ CmdNoSq

\* A command that is not fetched yet.
UnfetchedCmd(c) ==
  \E s \in Slots(Adm) : Age(Adm, s) \in 1..Unfetched(Adm) /\ sqMem[Adm][s] = c

\* A queue that is asked for is new when the driver learns of it; the doorbells of an
\* earlier one have been handled before the command is run.
NewCqMade == CqUp(1) /\ cq[1].head = 0 /\ cq[1].tail = 0 /\ cq[1].phase = 0
NewSqMade == SqUp(1) /\ sq[1].head = 0
IoBells   == InIrq("IO_TAIL") \/ InIrq("IO_HEAD")
Create(c) ==
  /\ c.op = "create_cq" => /\ host.has = {} /\ \A s \in Slots(1) : cqMem[1][s].p = 0
                           /\ Posted(Adm, c.cid) => NewCqMade
  /\ c.op = "create_sq" => host.has = {"cq"} /\ (Posted(Adm, c.cid) => NewSqMade)
  /\ c.op \in {"delete_sq", "delete_cq"} => host.has = {"cq"}
  /\ c.op \in {"create_sq", "create_cq"} /\ IoBells =>
       UnfetchedCmd(c) \/ (cpu = "tc" /\ ~Posted(Adm, c.cid))
Creates == \A c \in host.out[Adm] : c.qid = 1 => Create(c)

\* What the doorbells still say.
TailBell(q) ==
  InIrq(DOORBELL_TAIL(q)) =>
    reg[DOORBELL_TAIL(q)] = IF SqOn(q) THEN host.tail[q] ELSE sq[q].head
HeadBell(q) ==
  CqOn(q) =>
    /\ InIrq(DOORBELL_HEAD(q)) => reg[DOORBELL_HEAD(q)] = host.head[q]
    /\ cq[q].head # host.head[q] => InIrq(DOORBELL_HEAD(q))
Bells == \A q \in Queue : TailBell(q) /\ HeadBell(q)

\* There is room for the completion of every command that has been fetched.
Room ==
  cpu # "tc" => (Cardinality(host.out[Adm]) - Unfetched(Adm)) + Lag(Adm) <= AdmSize - 1

\* The data of command c: whether they were moved, and which; if they are zeros, then
\* another command of the kind is outstanding, and completes later.
Got(c) == host.got[c.cid]
Behind(c, d) ==
  \A s \in Slots(Adm) : PostedAt(Adm, d.cid, s) =>
    \E r \in Slots(Adm) : PostedAt(Adm, c.cid, r) /\ Offset(Adm, r) < Offset(Adm, s)
Moved(i) == txDone = 1 /\ tx[1].cid = i
DataOf(c) ==
  /\ Got(c) \in {"none", "zero", c.op}
  /\ Got(c) # "none" <=> Posted(Adm, c.cid) \/ Moved(c.cid)
  /\ Got(c) = "zero" => \E d \in host.out[Adm] : d # c /\ d.op = c.op /\ Behind(c, d)
DataCmds == \A c \in host.out[Adm] : c.op \in DataOp => DataOf(c)
DataResp ==
  \A m \in 1..Len(tx) : tx[m].kind = "data" /\ resp[tx[m].op] # tx[m].op =>
    cpu = "fill" /\ filling.op = tx[m].op
Data == DataCmds /\ DataResp

\* What a controller that is off and as after power-on has left over.
Stale ==
  host.pc = "off" /\ cq[Adm].head = 0 /\ cq[Adm].tail = 0 /\ cq[Adm].phase = 0 =>
    /\ \A m \in 1..Len(tx) : Going(Adm, m) => tx[m].p = 0
    /\ \A s \in Slots(Adm) : cqMem[Adm][s].p = 0

\* The inductive invariant.
Completing == \A q \in Queue : CqOn(q) => Ring(q) /\ Under(q)
Submitting == \A q \in Queue : SqOn(q) => Sub(q)
Running == host.pc # "off" => Busy /\ Creates /\ Room /\ Data
QInv  == /\ IInv /\ Types /\ Clean /\ Sized
         /\ Cmds /\ Completing /\ Submitting /\ Running /\ Bells /\ Stale

-----------------------------------------------------------------------------
(* The commands: what the driver does with the controller                  *)

\* A step that leaves the queues, the commands and the doorbells as they are.
Unmoved ==
  /\ UNCHANGED <<device, memory, Work>>
  /\ \A r \in Doorbells : reg'[r] = reg[r] /\ (InIrq(r)' <=> InIrq(r))

LEMMA UnmovedParts ==
  ASSUME Unmoved
  PROVE  /\ \A q, s : Offset(q, s)' = Offset(q, s)
         /\ \A q : Owing(q)' = Owing(q) /\ Lag(q)' = Lag(q)
         /\ \A q, s : Expect(q, s)' = Expect(q, s) /\ (Arrived(q, s)' <=> Arrived(q, s))
         /\ \A q, m : Going(q, m)' <=> Going(q, m)
         /\ \A q, i, s : PostedAt(q, i, s)' <=> PostedAt(q, i, s)
         /\ \A q, i : Posted(q, i)' <=> Posted(q, i)
         /\ \A q, i : Waits(q, i)' <=> Waits(q, i)
         /\ \A q, s : Age(q, s)' = Age(q, s)
         /\ \A q : Unfetched(q)' = Unfetched(q)
<1> USE DEF Unmoved, device, memory, Work
<1>1. \A q, s : Offset(q, s)' = Offset(q, s)
  BY DEF Offset
<1>2. \A q : Owing(q)' = Owing(q) /\ Lag(q)' = Lag(q)
  BY DEF Owing, Offset, Lag
<1>3. \A q, s : Expect(q, s)' = Expect(q, s)
  BY DEF Expect
<1>4. \A q, s : Arrived(q, s)' <=> Arrived(q, s)
  BY <1>3 DEF Arrived
<1>5. \A q, m : Going(q, m)' <=> Going(q, m)
  BY DEF Going
<1>6. \A q, i, s : PostedAt(q, i, s)' <=> PostedAt(q, i, s)
  BY <1>4, <1>5 DEF PostedAt
<1>7. \A q, i : Posted(q, i)' <=> Posted(q, i)
  BY <1>6 DEF Posted
<1>8. \A q, i : Waits(q, i)' <=> Waits(q, i)
  BY <1>7 DEF Waits, Filling, Moving
<1>9. \A q, s : Age(q, s)' = Age(q, s)
  BY DEF Age
<1>10. \A q : Unfetched(q)' = Unfetched(q)
  BY DEF Unfetched, Age
<1> QED
  BY <1>1, <1>2, <1>3, <1>4, <1>5, <1>6, <1>7, <1>8, <1>9, <1>10

LEMMA UnmovedRest ==
  ASSUME Unmoved, host.pc # "off", host'.pc # "off"
  PROVE  /\ \A q \in Queue : (Ring(q) => Ring(q)') /\ (Under(q) => Under(q)') /\ (Sub(q) => Sub(q)')
         /\ \A q \in Queue : (CqOn(q)' <=> CqOn(q)) /\ (SqOn(q)' <=> SqOn(q))
         /\ Busy => Busy'
         /\ Creates => Creates'
         /\ Room => Room'
         /\ Data => Data'
         /\ Bells => Bells'
<1> USE UnmovedParts
<1> USE DEF Unmoved, device, memory, Work
<1>1. ASSUME NEW q \in Queue, Ring(q) PROVE Ring(q)'
  <2>1. RingEnds(q)'
    BY <1>1 DEF Ring, RingEnds
  <2>2. RingGoing(q)'
    BY <1>1 DEF Ring, RingGoing
  <2>3. RingApart(q)'
    BY <1>1 DEF Ring, RingApart
  <2>4. RingRead(q)' /\ RingFull(q)'
    BY <1>1 DEF Ring, RingRead, RingFull
  <2> QED
    BY <2>1, <2>2, <2>3, <2>4 DEF Ring
<1>2. ASSUME NEW q \in Queue, Under(q) PROVE Under(q)'
  BY <1>2 DEF Under, UnderNames, UnderOnce
<1>3. ASSUME NEW q \in Queue, Sub(q) PROVE Sub(q)'
  <2>1. PICK w \in 0..(Size[q] - 1) : Win(q, w)
    BY <1>3 DEF Sub
  <2>2. WinCmds(q, w)'
    BY <2>1 DEF Win, WinCmds
  <2>3. WinApart(q, w)' /\ WinOrder(q)'
    BY <2>1 DEF Win, WinApart, WinOrder
  <2>4. WinRx(q, w)'
    BY <2>1 DEF Win, WinRx
  <2>5. Win(q, w)'
    BY <2>1, <2>2, <2>3, <2>4 DEF Win
  <2> QED
    BY <2>5 DEF Sub
<1>4. \A q \in Queue : (CqOn(q)' <=> CqOn(q)) /\ (SqOn(q)' <=> SqOn(q))
  BY DEF CqOn, SqOn
<1>5. Busy => Busy'
  BY DEF Busy, BusyFill, BusyData, BusyOnce, Moving
<1>6. \A c : UnfetchedCmd(c) => UnfetchedCmd(c)'
  BY DEF UnfetchedCmd
<1>7. IoBells' => IoBells
  BY DEF IoBells, Doorbells
<1>8. Creates => Creates'
  <2> SUFFICES ASSUME NEW c, Create(c) PROVE Create(c)'
    BY DEF Creates
  <2> QED
    BY <1>6, <1>7 DEF Create, NewCqMade, NewSqMade, CqUp, SqUp
<1>9. Room => Room'
  BY DEF Room
<1>10. \A c, d : Behind(c, d) => Behind(c, d)'
  BY DEF Behind
<1>11. ASSUME NEW c, DataOf(c) PROVE DataOf(c)'
  BY <1>10, <1>11 DEF DataOf, Got, Moved
<1>12. Data => Data'
  BY <1>11 DEF Data, DataCmds, DataResp
<1>13. Bells => Bells'
  <2> SUFFICES ASSUME NEW q \in Queue, TailBell(q), HeadBell(q) PROVE TailBell(q)' /\ HeadBell(q)'
    BY DEF Bells
  <2>1. DOORBELL_TAIL(q) \in Doorbells /\ DOORBELL_HEAD(q) \in Doorbells
    BY DoorbellsAre
  <2> QED
    BY <1>4, <2>1 DEF TailBell, HeadBell
<1> QED
  BY <1>1, <1>2, <1>3, <1>4, <1>5, <1>8, <1>9, <1>12, <1>13

LEMMA ControlFrom ==
  ASSUME IInv, HostTypes, Controls
  PROVE  /\ host'.pc # "off" /\ (host.pc = "off" => HostEnables)
         /\ host'.pc = "enabling" => host.pc \in {"off", "enabling"}
<1>1. host.pc = "off" => host.todo = <<>>
  BY DEF IInv, Off, Enabling, Live, Stopping, Down, Disabling
<1>2. DOMAIN host = HostFields /\ {"pc", "todo", "resets"} \subseteq HostFields
  BY DEF HostTypes, HostFields
<1>3. CASE HostEnables
  BY <1>2, <1>3 DEF HostEnables
<1>4. CASE HostWrites
  <2>1. host'.pc = host.pc
    BY <1>2, <1>4 DEF HostWrites
  <2>2. host.pc # "off"
    BY <1>1, <1>4 DEF HostWrites
  <2> QED
    BY <2>1, <2>2
<1>5. CASE HostResets
  BY <1>2, <1>5 DEF HostResets
<1>6. CASE HostShutsDown
  BY <1>2, <1>6 DEF HostShutsDown
<1>7. CASE HostSees /\ host'.pc # "off"
  <2>1. host' = NewHost(host.script, host.resets) => host'.pc = "off"
    BY DEF NewHost
  <2>2. \/ host.pc = "enabling"  /\ host' = [host EXCEPT !.pc = "live"]
        \/ host.pc = "stopping"  /\ host' = [host EXCEPT !.pc = "down"]
    BY <1>7, <2>1 DEF HostSees, Awaits
  <2> QED
    BY <1>2, <2>2
<1> QED
  BY <1>3, <1>4, <1>5, <1>6, <1>7 DEF Controls

LEMMA QueuesControl ==
  ASSUME QInv, Controls
  PROVE  Cmds' /\ Completing' /\ Submitting' /\ Running' /\ Bells' /\ Stale'
<1>1. IInv /\ Types /\ Clean /\ Sized /\ HostTypes /\ Cmds
  BY DEF QInv, Types
<1>2. Unmoved
  BY <1>1, ControlIs DEF Unmoved
<1>3. host'.pc # "off" /\ (host'.pc = "enabling" => host.pc \in {"off", "enabling"})
  BY <1>1, ControlFrom
<1>4. Work' = Work /\ UNCHANGED <<rx, tx>>
  BY <1>2 DEF Unmoved, device
<1>5. Stale'
  BY <1>3 DEF Stale
<1>6. CmdIds' /\ CmdCount' /\ CmdQids' /\ CmdOne'
  BY <1>1, <1>4 DEF Cmds, CmdIds, CmdCount, CmdQids, CmdOne, Work
<1>7. CmdNew'
  BY <1>1, <1>3, <1>4 DEF Cmds, CmdNew, Work
<1>8. CASE host.pc # "off"
  <2>1. CmdNoSq'
    BY <1>1, <1>4, <1>8 DEF Cmds, CmdNoSq, Work
  <2>2. Completing' /\ Submitting'
    BY <1>2, <1>3, <1>8, UnmovedRest DEF QInv, Completing, Submitting
  <2>3. Running' /\ Bells'
    BY <1>2, <1>3, <1>8, UnmovedRest DEF QInv, Running
  <2> QED
    BY <1>5, <1>6, <1>7, <2>1, <2>2, <2>3 DEF Cmds
<1>9. CASE host.pc = "off"
  <2>1. HostEnables /\ irq = <<>>
    BY <1>1, <1>9, ControlFrom DEF Clean
  <2>2. Fresh /\ rx = <<>> /\ tx = <<>> /\ cpu # "fill" /\ irq' = <<>>
    BY <2>1 DEF HostEnables, Fresh
  <2>3. /\ host.has = {}
        /\ \A q \in Queue : /\ host.out[q] = {} /\ host.tail[q] = 0
                            /\ host.head[q] = 0 /\ host.phase[q] = 1
    BY <1>1, <1>9 DEF Cmds, CmdNew
  <2>4. /\ host'.has = {}
        /\ \A q \in Queue : /\ host'.out[q] = {} /\ host'.tail[q] = 0
                            /\ host'.head[q] = 0 /\ host'.phase[q] = 1
    BY <1>4, <2>3 DEF Work
  <2>5. UNCHANGED <<sq, cq, cpu, txDone, resp, filling, cqMem>> /\ rx' = <<>> /\ tx' = <<>>
    BY <1>2, <2>2 DEF Unmoved, device, memory
  <2>6. \A m : m \notin 1..Len(rx') /\ m \notin 1..Len(tx')
    BY <2>5
  <2>7. Adm \in Queue /\ \A q \in Queue : q # Adm => ~CqOn(q)' /\ ~SqOn(q)'
    BY <2>4, Sizes DEF CqOn, SqOn
  <2>8. \A s \in Slots(Adm) : cqMem[Adm][s].p = 0
    BY <1>9, <2>2 DEF QInv, Stale, Fresh
  <2>9. EndFresh(Adm)
    BY <2>2, <2>4, <2>5, <2>6, <2>7, <2>8 DEF EndFresh, Fresh
  <2>10. Ring(Adm)' /\ Lag(Adm)' = 0 /\ \A i : \A s \in Slots(Adm) : ~PostedAt(Adm, i, s)'
    BY <2>7, <2>9, RingFresh
  <2>11. Under(Adm)'
    BY <2>10 DEF Under, UnderNames, UnderOnce, Posted
  <2>12. Completing'
    BY <2>7, <2>10, <2>11 DEF Completing
  <2>13. Sub(Adm)'
    BY <2>2, <2>4, <2>5, <2>6, <2>7, SubFresh DEF Fresh
  <2>14. Submitting'
    BY <2>7, <2>13 DEF Submitting
  <2>15. Busy' /\ Creates' /\ Data'
    <3>1. Busy'
      BY <2>2, <2>5, <2>6 DEF Busy, BusyFill, BusyData, BusyOnce
    <3>2. Creates' /\ Data'
      BY <2>4, <2>6, <2>7 DEF Creates, Data, DataCmds, DataResp
    <3> QED
      BY <3>1, <3>2
  <2>16. Room'
    <3>1. Unfetched(Adm)' = 0
      BY <2>2, <2>4, <2>5, <2>7 DEF Unfetched, Age, Dist, Fresh
    <3>2. Cardinality(host'.out[Adm]) = 0
      BY <2>4, <2>7, FS_EmptySet
    <3>3. Lag(Adm)' = 0
      BY <2>10
    <3> QED
      BY <3>1, <3>2, <3>3, Sizes DEF Room
  <2>17. Bells'
    <3>1. \A r : ~InIrq(r)'
      BY <2>2 DEF InIrq
    <3>2. \A q \in Queue : TailBell(q)'
      BY <3>1 DEF TailBell
    <3>3. HeadBell(Adm)'
      BY <2>2, <2>4, <2>5, <2>7, <3>1 DEF HeadBell, Fresh
    <3>4. \A q \in Queue : HeadBell(q)'
      BY <2>7, <3>3 DEF HeadBell
    <3> QED
      BY <3>2, <3>4 DEF Bells
  <2>18. CmdNoSq'
    BY <2>4, <2>6, Sizes DEF CmdNoSq
  <2> QED
    BY <1>5, <1>6, <1>7, <2>12, <2>14, <2>15, <2>16, <2>17, <2>18 DEF Running, Cmds
<1> QED
  BY <1>8, <1>9

LEMMA QueuesOff ==
  ASSUME QInv, HostSees, host'.pc = "off"
  PROVE  Cmds' /\ Completing' /\ Submitting' /\ Running' /\ Bells' /\ Stale'
<1>1. Types /\ HostTypes /\ Clean
  BY DEF QInv, Types
<1>2. /\ host.pc = "disabling" /\ irq' = irq /\ irq = <<>>
      /\ UNCHANGED <<sq, cq, rx, tx>> /\ cqMem' = [q \in Queue |-> EmptyCq(q)]
      /\ host'.has = {} /\ host'.out = [q \in Queue |-> {}]
      /\ host'.tail = [q \in Queue |-> 0] /\ host'.head = [q \in Queue |-> 0]
      /\ host'.phase = [q \in Queue |-> 1]
  BY <1>1, OffIs DEF Clean, device
<1>3. Adm \in Queue /\ 1 \in Queue
  BY Sizes
<1>4. \A q \in Queue : ~CqOn(q)' /\ ~SqOn(q)'
  BY <1>2 DEF CqOn, SqOn
<1>5. Completing' /\ Submitting' /\ Running'
  BY <1>4 DEF Completing, Submitting, Running
<1>6. \A r : ~InIrq(r) /\ ~InIrq(r)'
  BY <1>2 DEF InIrq
<1>7. Bells'
  BY <1>4, <1>6 DEF Bells, TailBell, HeadBell
<1>8. \A q \in Queue : host'.out[q] = {} /\ host'.tail[q] = 0 /\ host'.head[q] = 0 /\ host'.phase[q] = 1
  BY <1>2
<1>9. CmdIds' /\ CmdQids' /\ CmdOne' /\ CmdNew' /\ CmdNoSq'
  BY <1>2, <1>3, <1>8 DEF CmdIds, CmdQids, CmdOne, CmdNew, CmdNoSq
<1>10. CmdCount'
  <2>1. IsFiniteSet({}) /\ Cardinality({}) = 0
    BY FS_EmptySet
  <2>2. \A q \in Queue : 0 <= MaxAdm /\ 0 <= Size[q] - 1
    BY Sizes
  <2> QED
    BY <1>8, <2>1, <2>2 DEF CmdCount
<1>11. Stale'
  <2> SUFFICES ASSUME cq[Adm].head = 0, cq[Adm].tail = 0
               PROVE  /\ \A m \in 1..Len(tx) : ~Going(Adm, m)'
                      /\ \A s \in Slots(Adm) : cqMem'[Adm][s].p = 0
    BY <1>2 DEF Stale
  <2>1. Ring(Adm) /\ HeadBell(Adm)
    BY <1>2, <1>3 DEF QInv, Completing, CqOn, Bells
  <2>2. host.head[Adm] = 0
    BY <1>2, <1>6, <2>1 DEF HeadBell, CqOn
  <2>3. Owing(Adm) = 0
    BY <2>2 DEF Owing, Offset, Dist
  <2>4. ASSUME NEW m \in 1..Len(tx), Going(Adm, m) PROVE FALSE
    <3>1. Offset(Adm, tx[m].slot) < 0
      BY <2>1, <2>3, <2>4 DEF Ring, RingGoing
    <3>2. PICK s \in Slots(Adm) : s = tx[m].slot
      BY <1>1, <2>4, GoingTypes DEF Going
    <3>3. Offset(Adm, s) \in 0..(Size[Adm] - 1) /\ Size[Adm] \in Nat
      BY <1>1, <1>3, RingTypes
    <3> QED
      BY <3>1, <3>2, <3>3
  <2>5. \A m \in 1..Len(tx) : ~Going(Adm, m)'
    BY <1>2, <2>4 DEF Going
  <2>6. \A s \in Slots(Adm) : cqMem'[Adm][s].p = 0
    BY <1>2, <1>3 DEF EmptyCq, Slots
  <2> QED
    BY <2>5, <2>6
<1> QED
  BY <1>5, <1>7, <1>9, <1>10, <1>11 DEF Cmds

\* A set of numbers has a least one.
LEMMA LeastIn ==
  ASSUME NEW T, T \subseteq Nat, T # {}
  PROVE  \E x \in T : \A y \in T : x <= y
<1>1. PICK x \in T : \A y \in T : <<y, x>> \notin OpToRel(<, Nat)
  BY NatLessThanWellFounded, WFMin
<1>2. ASSUME NEW y \in T PROVE x <= y
  <2>1. ~(y < x)
    BY <1>1 DEF OpToRel
  <2> QED
    BY <2>1
<1> QED
  BY <1>2

\* While the driver has fewer commands than it may have, an identifier is unused.
LEMMA SomeUnused ==
  ASSUME NEW q \in Queue, IsFiniteSet(host.out[q]), Cardinality(host.out[q]) < MaxAdm
  PROVE  \E i \in Cid : Unused(q, i)
<1> SUFFICES ASSUME \A i \in Cid : \E d \in host.out[q] : d.cid = i PROVE FALSE
  BY DEF Unused
<1>1. MaxAdm \in Nat /\ MaxAdm >= 1 /\ Cid = 1..MaxAdm
  BY Sizes DEF Cid
<1>2. IsFiniteSet(Cid) /\ Cardinality(Cid) = MaxAdm
  <2>1. IsFiniteSet(1..MaxAdm) /\ Cardinality(1..MaxAdm) = MaxAdm - 1 + 1
    BY <1>1, FS_Interval
  <2> QED
    BY <1>1, <2>1
<1> DEFINE of(i) == CHOOSE d \in host.out[q] : d.cid = i
<1>3. ASSUME NEW i \in Cid PROVE of(i) \in host.out[q] /\ of(i).cid = i
  <2>1. \E d \in host.out[q] : d.cid = i
    OBVIOUS
  <2> QED
    BY <2>1
<1> HIDE DEF of
<1>4. PICK f : f = [i \in Cid |-> of(i)]
  OBVIOUS
<1>5. f \in [Cid -> host.out[q]] /\ \A i \in Cid : f[i].cid = i
  BY <1>3, <1>4
<1>6. PICK T : T = host.out[q]
  OBVIOUS
<1>7. IsFiniteSet(T) /\ Cardinality(T) < Cardinality(Cid) /\ f \in [Cid -> T]
  BY <1>2, <1>5, <1>6
<1>8. \E x, y \in Cid : x # y /\ f[x] = f[y]
  BY <1>2, <1>7, FS_PigeonHole
<1> QED
  BY <1>5, <1>8

LEMMA LeastUnused ==
  ASSUME NEW q \in Queue, IsFiniteSet(host.out[q]), Cardinality(host.out[q]) < MaxAdm,
         NEW c, c.cid = CHOOSE i \in Cid : Unused(q, i) /\ \A j \in 1..(i - 1) : ~Unused(q, j)
  PROVE  Unused(q, c.cid)
<1>1. PICK T : T = {i \in Cid : Unused(q, i)}
  OBVIOUS
<1>2. T \subseteq Nat /\ T # {} /\ MaxAdm \in Nat
  BY <1>1, SomeUnused, Sizes DEF Cid
<1>3. PICK x \in T : \A y \in T : x <= y
  BY <1>2, LeastIn
<1>4. x \in Cid /\ Unused(q, x) /\ \A j \in 1..(x - 1) : ~Unused(q, j)
  <2>1. x \in Cid /\ Unused(q, x)
    BY <1>1, <1>3
  <2>2. ASSUME NEW j \in 1..(x - 1), Unused(q, j) PROVE FALSE
    <3>1. x \in 1..MaxAdm
      BY <2>1 DEF Cid
    <3>2. j \in 1..MaxAdm /\ j < x
      BY <1>2, <3>1
    <3>3. j \in T
      BY <1>1, <2>2, <3>2 DEF Cid
    <3>4. x <= j
      BY <1>3, <3>3
    <3> QED
      BY <3>1, <3>2, <3>4
  <2> QED
    BY <2>1, <2>2
<1> QED
  BY <1>4

\* What is posted, when the ring of queue q is left alone or gets completion e.
LEMMA PostedKept ==
  ASSUME NEW q, PostKeeps(q)
  PROVE  \A i : Posted(q, i)' <=> Posted(q, i)
<1>1. ASSUME NEW i PROVE Posted(q, i)' <=> Posted(q, i)
  BY DEF Posted, PostKeeps
<1> QED
  BY <1>1

LEMMA UnderKept ==
  ASSUME NEW q, Under(q), PostKeeps(q), host.out[q] \subseteq host'.out[q]
  PROVE  Under(q)'
<1>1. UnderNames(q)'
  BY PostedKept DEF Under, UnderNames
<1>2. UnderOnce(q)'
  BY DEF Under, UnderOnce, PostKeeps
<1> QED
  BY <1>1, <1>2 DEF Under

LEMMA BehindKept ==
  ASSUME PostKeeps(Adm), host'.head[Adm] = host.head[Adm]
  PROVE  \A c, d : Behind(c, d) => Behind(c, d)'
<1>1. \A s : Offset(Adm, s)' = Offset(Adm, s)
  BY DEF Offset
<1>2. \A i : \A s \in Slots(Adm) : PostedAt(Adm, i, s)' <=> PostedAt(Adm, i, s)
  BY DEF PostKeeps
<1>3. ASSUME NEW c, NEW d, Behind(c, d) PROVE Behind(c, d)'
  BY <1>1, <1>2, <1>3 DEF Behind
<1> QED
  BY <1>3

LEMMA CreateKept ==
  ASSUME NEW d, Create(d), host'.has = host.has, cqMem'[1] = cqMem[1],
         Posted(Adm, d.cid)' => Posted(Adm, d.cid),
         NewCqMade => NewCqMade', NewSqMade => NewSqMade', IoBells' => IoBells,
         UnfetchedCmd(d) => UnfetchedCmd(d)', cpu = "tc" => cpu' = "tc"
  PROVE  Create(d)'
BY DEF Create

LEMMA DataKept ==
  ASSUME NEW d, DataOf(d), Got(d)' = Got(d),
         Posted(Adm, d.cid)' <=> Posted(Adm, d.cid), Moved(d.cid)' <=> Moved(d.cid),
         \A e \in host.out[Adm] : e.op = d.op /\ Behind(d, e) =>
           e \in host'.out[Adm] /\ Behind(d, e)'
  PROVE  DataOf(d)'
BY DEF DataOf

\* The doorbells that are of queue q, or not.
LEMMA BellsApart ==
  ASSUME Shapes, NEW q \in Queue, NEW r \in {DOORBELL_TAIL(q), DOORBELL_HEAD(q)},
         NEW v, reg' = [reg EXCEPT ![r] = v], irq' = Append(irq, r)
  PROVE  /\ InIrq(r)' /\ reg'[r] = v
         /\ \A x \in Doorbells : x # r => reg'[x] = reg[x] /\ (InIrq(x)' => InIrq(x))
         /\ \A x : InIrq(x) => InIrq(x)'
         /\ r \in Doorbells
<1>1. r \in Doorbells /\ r \in Register /\ Doorbells \subseteq Register /\ DOMAIN reg = Register
  BY DoorbellsAre DEF Shapes
<1>2. InIrq(r)' /\ \A x \in Register : InIrq(x)' => x = r \/ InIrq(x)
  BY <1>1, InIrqMore
<1>3. \A x : InIrq(x) => InIrq(x)'
  BY <1>1, InIrqKept
<1> QED
  BY <1>1, <1>2, <1>3

\* Of queue 1 nothing is under way without its commands.
LEMMA NoneFetched ==
  ASSUME Types, NEW q \in Queue, Sub(q), host.out[q] = {}
  PROVE  Unfetched(q) = 0 /\ \A m \in 1..Len(rx) : rx[m].qid # q
<1>1. PICK w \in 0..(Size[q] - 1) : Win(q, w)
  BY DEF Sub
<1>2. PICK n \in Nat : n = Size[q] /\ w \in 0..(n - 1)
  BY Sizes
<1>3. ASSUME NEW s \in Slots(q) PROVE Age(q, s) \notin 1..w
  BY <1>1, <1>3 DEF Win, WinCmds
<1>4. Unfetched(q) \in 0..(n - 1) /\ Unfetched(q) <= w /\ Unfetched(q) \notin 1..w
  <2>1. sq[q].head \in Slots(q) /\ Unfetched(q) \in 0..(Size[q] - 1)
    BY AgeTypes
  <2>2. PICK h \in Slots(q) : h = sq[q].head
    BY <2>1
  <2>3. Unfetched(q) \notin 1..w
    BY <1>3, <2>2 DEF Unfetched
  <2> QED
    BY <1>1, <1>2, <2>1, <2>3 DEF Win
<1>5. Unfetched(q) = 0
  BY <1>2, <1>4
<1>6. ASSUME NEW m \in 1..Len(rx), rx[m].qid = q PROVE FALSE
  <2>1. PICK s \in Slots(q) : s = rx[m].slot
    BY <1>6, FetchTypes
  <2>2. 0 < Age(q, s) /\ Age(q, s) <= w
    BY <1>1, <1>5, <1>6, <2>1 DEF Win, WinRx
  <2>3. Age(q, s) \in 0..(n - 1)
    BY <1>2, AgeTypes
  <2>4. Age(q, s) \in 1..w
    BY <1>2, <2>2, <2>3
  <2> QED
    BY <1>3, <2>4
<1> QED
  BY <1>5, <1>6

LEMMA NonePosted ==
  ASSUME Types, NEW q \in Queue, Under(q), host.out[q] = {}
  PROVE  \A m \in 1..Len(tx) : ~Going(q, m)
<1> SUFFICES ASSUME NEW m \in 1..Len(tx), Going(q, m) PROVE FALSE
  OBVIOUS
<1>1. tx[m].slot \in Slots(q)
  BY GoingTypes DEF Going
<1>2. Posted(q, tx[m].cid)
  BY <1>1 DEF Posted, PostedAt
<1> QED
  BY <1>2 DEF Under, UnderNames

-----------------------------------------------------------------------------
(* The commands: the driver submits one                                    *)

LEMMA AskedIs ==
  ASSUME HostTypes, NEW q \in Queue, NEW c, Asked(q, c)
  PROVE  /\ q = 1 => c.op = "io" /\ c.qid = 0 /\ host.has = {"cq", "sq"}
                     /\ Cardinality(host.out[1]) < IoSize - 1
         /\ q = Adm => (c.op \in QueueOp <=> c.qid \in {1, QUEUES + 1})
         /\ q = Adm /\ c.op \notin DataOp => \A d \in host.out[Adm] : d.op \in DataOp
         /\ c.qid = 1 => /\ q = Adm /\ c.op \in QueueOp
                         /\ c.op = "create_cq" => host.has = {}
                         /\ c.op = "create_sq" => host.has = {"cq"}
                         /\ c.op = "delete_sq" => host.has = {"cq", "sq"} /\ host.out[1] = {}
                         /\ c.op = "delete_cq" => host.has = {"cq"}
<1>1. Adm # 1
  BY Sizes
<1>2. CASE q = 1
  BY <1>1, <1>2 DEF Asked
<1>3. CASE q = Adm
  <2>1. MayAsk(c.op) /\ c.qid = Qid(c.op) /\ QUEUES + 1 = 3 /\ host.granted \in {0, 1}
    BY <1>1, <1>3 DEF Asked, QUEUES, HostTypes
  <2>2. c.op \in QueueOp <=> c.qid \in {1, QUEUES + 1}
    BY <2>1 DEF Qid
  <2>3. c.qid = 1 => c.op \in QueueOp /\ host.granted # 0
    BY <2>1 DEF Qid
  <2>4. c.op \in DataOp \/ Idle
    BY <2>1 DEF MayAsk
  <2>5. Idle => \A d \in host.out[Adm] : d.op \in DataOp
    BY DEF Idle
  <2>6. c.op \in QueueOp => c.op \notin DataOp \cup {"set_features", "other"}
    BY WorkloadAssumption DEF QueueOp
  <2>7. c.qid = 1 => /\ c.op = "create_cq" => host.has = {}
                     /\ c.op = "create_sq" => host.has = {"cq"}
                     /\ c.op = "delete_sq" => host.has = {"cq", "sq"} /\ host.out[1] = {}
                     /\ c.op = "delete_cq" => host.has = {"cq"}
    BY <2>1, <2>3, <2>6 DEF MayAsk
  <2> QED
    BY <1>1, <1>3, <2>2, <2>3, <2>4, <2>5, <2>7
<1> QED
  BY <1>2, <1>3, Sizes

LEMMA CmdsSubmit ==
  ASSUME Types, Cmds, Completing, Submitting, NEW q \in Queue, NEW c \in Commands, Submit(q, c),
         Asked(q, c), Unused(q, c.cid)
  PROVE  Cmds'
<1>1. /\ host.pc = "live" /\ Cardinality(host.out[q]) < MaxAdm /\ host'.pc = host.pc
      /\ host'.out = [host.out EXCEPT ![q] = host.out[q] \cup {c}]
      /\ host'.has = IF c.op = "delete_sq" /\ c.qid = 1 THEN host.has \ {"sq"} ELSE host.has
      /\ UNCHANGED <<rx, tx>>
  BY SubmitIs DEF device
<1>2. HostTypes /\ host.out \in [Queue -> SUBSET Commands] /\ Adm \in Queue /\ 1 \in Queue
  BY Sizes DEF Types, HostTypes
<1>3. host'.out[q] = host.out[q] \cup {c} /\ \A p \in Queue : p # q => host'.out[p] = host.out[p]
  BY <1>1, <1>2
<1>4. CmdIds'
  BY <1>3 DEF CmdIds, Cmds, Unused
<1>5. CmdCount'
  <2>1. IsFiniteSet(host.out[q]) /\ c \notin host.out[q] /\ Cardinality(host.out[q]) \in Nat
    BY FS_CardinalityType DEF Cmds, CmdCount, Unused
  <2>2. /\ IsFiniteSet(host'.out[q])
        /\ Cardinality(host'.out[q]) = Cardinality(host.out[q]) + 1
    <3>1. PICK T : T = host.out[q] /\ IsFiniteSet(T) /\ c \notin T
      BY <2>1
    <3>2. IsFiniteSet(T \cup {c}) /\ Cardinality(T \cup {c}) = Cardinality(T) + 1
      BY <3>1, FS_AddElement
    <3> QED
      BY <1>3, <3>1, <3>2
  <2>3. Cardinality(host.out[q]) + 1 <= MaxAdm
    BY <1>1, <2>1, Sizes
  <2>4. Cardinality(host.out[q]) + 1 <= Size[q] - 1
    <3>1. CASE q = Adm
      BY <2>1, <2>3, <3>1, Sizes
    <3>2. CASE q = 1
      <4>1. Cardinality(host.out[1]) < IoSize - 1
        BY <1>2, <3>2, AskedIs
      <4> QED
        BY <2>1, <3>2, <4>1, Sizes
    <3> QED
      BY <3>1, <3>2, Sizes
  <2> QED
    BY <1>3, <2>2, <2>3, <2>4 DEF Cmds, CmdCount
<1>6. CmdQids'
  <2>1. \A d \in host'.out[1] : d \in host.out[1] \/ (d = c /\ q = 1)
    BY <1>2, <1>3
  <2>2. \A d \in host'.out[Adm] : d \in host.out[Adm] \/ (d = c /\ q = Adm)
    BY <1>2, <1>3
  <2> QED
    BY <1>2, <2>1, <2>2, AskedIs DEF Cmds, CmdQids
<1>7. CmdOne'
  <2>1. \A d \in host'.out[Adm] : d \in host.out[Adm] \/ (d = c /\ q = Adm)
    BY <1>2, <1>3
  <2>2. q = Adm /\ c.op \notin DataOp => \A d \in host.out[Adm] : d.op \in DataOp
    BY <1>2, AskedIs
  <2> QED
    BY <2>1, <2>2 DEF Cmds, CmdOne
<1>8. CmdNew'
  BY <1>1 DEF CmdNew
<1>9. CmdNoSq'
  <2>1. CASE c.op = "delete_sq" /\ c.qid = 1
    <3>1. q = Adm /\ host.has = {"cq", "sq"} /\ host.out[1] = {}
      BY <1>2, <2>1, AskedIs
    <3>2. host'.out[1] = {}
      BY <1>2, <1>3, <3>1, Sizes
    <3>3. Sub(1) /\ Under(1)
      BY <1>2, <3>1, Sizes DEF Submitting, Completing, SqOn, CqOn
    <3>4. \A m \in 1..Len(rx) : rx[m].qid # 1
      BY <1>2, <3>1, <3>3, NoneFetched
    <3>5. ASSUME NEW m \in 1..Len(tx), tx[m].qid = 1 PROVE FALSE
      <4>1. ~Going(1, m)
        BY <1>2, <3>1, <3>3, NonePosted
      <4>2. tx[m].kind \in {"cq", "data"} /\ tx[m].kind # "data"
        BY <3>5, GoingTypes, Sizes DEF OkTransfer, Transfers
      <4> QED
        BY <3>5, <4>1, <4>2 DEF Going
    <3> QED
      BY <1>1, <3>2, <3>4, <3>5 DEF CmdNoSq
  <2>2. CASE ~(c.op = "delete_sq" /\ c.qid = 1)
    <3>1. host'.has = host.has /\ (q = 1 => "sq" \in host.has)
      BY <1>1, <1>2, <2>2, AskedIs
    <3> QED
      BY <1>1, <1>2, <1>3, <3>1 DEF Cmds, CmdNoSq
  <2> QED
    BY <2>1, <2>2
<1> QED
  BY <1>4, <1>5, <1>6, <1>7, <1>8, <1>9 DEF Cmds

\* Responses under way, when commands that are not posted stay.
LEMMA BusyKept ==
  ASSUME Busy, UNCHANGED <<filling, tx>>, cpu' = "fill" => cpu = "fill",
         \A i : Posted(Adm, i)' => Posted(Adm, i),
         \A d \in host.out[Adm] : ~Posted(Adm, d.cid) => d \in host'.out[Adm]
  PROVE  Busy'
<1>1. \A i : Moving(Adm, i)' <=> Moving(Adm, i)
  BY DEF Moving
<1>2. BusyFill'
  <2> SUFFICES ASSUME cpu = "fill"
               PROVE  /\ filling \in host'.out[Adm] /\ ~Moving(Adm, filling.cid)'
                      /\ ~Posted(Adm, filling.cid)'
    BY DEF BusyFill
  <2>1. PICK f : f = filling /\ f = filling'
    OBVIOUS
  <2>2. f \in host.out[Adm] /\ ~Moving(Adm, f.cid) /\ ~Posted(Adm, f.cid)
    BY <2>1 DEF Busy, BusyFill
  <2>3. f \in host'.out[Adm] /\ ~Moving(Adm, f.cid)' /\ ~Posted(Adm, f.cid)'
    BY <1>1, <2>2
  <2> QED
    BY <2>1, <2>3
<1>3. BusyData'
  <2> SUFFICES ASSUME NEW m \in 1..Len(tx), tx[m].kind = "data"
               PROVE  /\ ~Posted(Adm, tx[m].cid)'
                      /\ \E c \in host'.out[Adm] : c.cid = tx[m].cid /\ c.op = tx[m].op
    BY DEF BusyData
  <2>1. PICK c \in host.out[Adm] : c.cid = tx[m].cid /\ c.op = tx[m].op /\ ~Posted(Adm, c.cid)
    BY DEF Busy, BusyData
  <2>2. c \in host'.out[Adm] /\ ~Posted(Adm, c.cid)'
    BY <2>1
  <2>3. c.cid = tx'[m].cid
    BY <2>1
  <2> QED
    BY <2>1, <2>2, <2>3
<1>4. BusyOnce'
  BY DEF Busy, BusyOnce
<1> QED
  BY <1>2, <1>3, <1>4 DEF Busy

LEMMA QueuesSubmit ==
  ASSUME QInv, NEW q \in Queue, NEW c \in Commands, Submit(q, c), Asked(q, c)
  PROVE  Cmds' /\ Completing' /\ Submitting' /\ Running' /\ Bells' /\ Stale'
<1>1. IInv /\ Types /\ Shapes /\ HostTypes /\ Cmds /\ Completing /\ Submitting /\ Bells
  BY DEF QInv, Types, IInv
<1>2. /\ host.pc = "live" /\ host'.pc = "live" /\ Cardinality(host.out[q]) < MaxAdm
      /\ c.cid = CHOOSE i \in Cid : Unused(q, i) /\ \A j \in 1..(i - 1) : ~Unused(q, j)
      /\ host'.out = [host.out EXCEPT ![q] = host.out[q] \cup {c}]
      /\ host'.tail = [host.tail EXCEPT ![q] = (host.tail[q] + 1) % Size[q]]
      /\ host'.head = host.head /\ host'.phase = host.phase
      /\ host'.got = [host.got EXCEPT ![c.cid] = IF q = Adm THEN "none" ELSE host.got[c.cid]]
      /\ host'.has = IF c.op = "delete_sq" /\ c.qid = 1 THEN host.has \ {"sq"} ELSE host.has
      /\ sqMem' = [sqMem EXCEPT ![q] = [sqMem[q] EXCEPT ![host.tail[q]] = c]]
      /\ reg' = [reg EXCEPT ![DOORBELL_TAIL(q)] = (host.tail[q] + 1) % Size[q]]
      /\ irq' = Append(irq, DOORBELL_TAIL(q))
      /\ cqMem' = IF c.op = "create_cq" /\ c.qid = 1
                    THEN [cqMem EXCEPT ![1] = EmptyCq(1)] ELSE cqMem
      /\ UNCHANGED <<sq, cq, cpu, filling, resp, rx, tx, txDone>>
  BY <1>1, SubmitIs DEF device
<1>3. /\ Adm \in Queue /\ 1 \in Queue /\ Adm # 1 /\ Queue = {Adm, 1}
      /\ host.out \in [Queue -> SUBSET Commands] /\ host.tail \in [Queue -> Nat]
      /\ host.got \in [Cid -> DataOp \cup {"none", "zero"}] /\ c.cid \in Cid
      /\ DOMAIN sqMem = Queue /\ DOMAIN cqMem = Queue
  BY <1>1, Sizes DEF HostTypes, Types, MemTypes, Commands
<1>4. /\ IsFiniteSet(host.out[q]) /\ Unused(q, c.cid) /\ Cmds'
      /\ Cardinality(host.out[q]) \in Nat /\ Cardinality(host.out[q]) < Size[q] - 1
  <2>1. IsFiniteSet(host.out[q]) /\ Unused(q, c.cid)
    BY <1>1, <1>2, LeastUnused DEF Cmds, CmdCount
  <2>2. Cmds'
    BY <1>1, <2>1, CmdsSubmit
  <2>3. Cardinality(host.out[q]) \in Nat
    BY <2>1, FS_CardinalityType
  <2>4. CASE q = Adm
    BY <1>2, <2>1, <2>2, <2>3, <2>4, Sizes
  <2>5. CASE q = 1
    <3>1. Cardinality(host.out[1]) < IoSize - 1
      BY <1>1, <2>5, AskedIs
    <3> QED
      BY <2>1, <2>2, <2>3, <2>5, <3>1, Sizes
  <2> QED
    BY <1>3, <2>4, <2>5
<1>5. /\ host'.out[q] = host.out[q] \cup {c} /\ host'.tail[q] = (host.tail[q] + 1) % Size[q]
      /\ sqMem'[q] = [sqMem[q] EXCEPT ![host.tail[q]] = c]
      /\ \A p \in Queue : p # q => /\ host'.out[p] = host.out[p] /\ host'.tail[p] = host.tail[p]
                                   /\ sqMem'[p] = sqMem[p]
  BY <1>2, <1>3
<1>6. /\ SqOn(q) /\ CqOn(q) /\ SqOn(q)'
      /\ \A p \in Queue : (CqOn(p)' <=> CqOn(p)) /\ (SqOn(p)' => SqOn(p))
      /\ \A p \in Queue : SqOn(p) => CqOn(p)
  <2>1. c.qid = 1 /\ c.op = "delete_sq" => q = Adm /\ host.has = {"cq", "sq"}
    BY <1>1, AskedIs
  <2>2. q = 1 => host.has = {"cq", "sq"}
    BY <1>1, AskedIs
  <2>3. host'.has = host.has \/ (q = Adm /\ host.has = {"cq", "sq"} /\ host'.has = {"cq"})
    BY <1>2, <2>1
  <2>4. host.has \in {{}, {"cq"}, {"cq", "sq"}}
    BY <1>1 DEF HostTypes
  <2> QED
    BY <1>2, <1>3, <2>2, <2>3, <2>4 DEF SqOn, CqOn
<1>7. ASSUME NEW p \in Queue, CqOn(p)
      PROVE  Ring(p)' /\ Under(p)' /\ PostKeeps(p) /\ Ring(p) /\ Under(p)
  <2>1. Ring(p) /\ Under(p)
    BY <1>1, <1>7 DEF Completing
  <2>2. cqMem'[p] = cqMem[p]
    <3>1. c.qid = 1 /\ c.op = "create_cq" => host.has = {}
      BY <1>1, AskedIs
    <3> QED
      BY <1>2, <1>3, <1>7, <3>1 DEF CqOn
  <2>3. EndsKept(p)
    BY <1>2, <2>2 DEF EndsKept
  <2>4. ChanKeeps(p) /\ Len(tx') \in Nat
    BY <1>1, <1>2, ChanDrop, GoingTypes DEF Rest
  <2>5. Ring(p)' /\ PostKeeps(p)
    BY <1>1, <2>1, <2>3, <2>4, RingKept
  <2>6. host.out[p] \subseteq host'.out[p]
    BY <1>5
  <2>7. Under(p)'
    BY <2>1, <2>5, <2>6, UnderKept
  <2> QED
    BY <2>1, <2>5, <2>7
<1>8. \A p \in Queue : CqOn(p) => \A i : Posted(p, i)' <=> Posted(p, i)
  BY <1>7, PostedKept
<1>9. /\ CqOn(Adm) /\ Busy /\ Creates /\ Room /\ Data
      /\ \A i : Posted(Adm, i)' <=> Posted(Adm, i)
  <2>1. CqOn(Adm) /\ Busy /\ Creates /\ Room /\ Data
    BY <1>2 DEF QInv, Running, CqOn
  <2> QED
    BY <1>3, <1>8, <2>1
<1>10. \A p, i : (Filling(p, i)' <=> Filling(p, i)) /\ (Moving(p, i)' <=> Moving(p, i))
  BY <1>2 DEF Filling, Moving
<1>11. \A p \in Queue : CqOn(p) => \A i : Waits(p, i) => Waits(p, i)'
  BY <1>8, <1>10 DEF Waits
<1>12. Waits(q, c.cid) /\ Waits(q, c.cid)'
  <2>1. ~Posted(q, c.cid)
    BY <1>4, <1>6, <1>7 DEF Under, UnderNames, Unused
  <2>2. ~Filling(q, c.cid)
    BY <1>4, <1>9 DEF Busy, BusyFill, Filling, Unused
  <2>3. ~Moving(q, c.cid)
    BY <1>4, <1>9 DEF Busy, BusyData, Moving, Unused
  <2>4. Waits(q, c.cid)
    BY <2>1, <2>2, <2>3 DEF Waits
  <2> QED
    BY <1>6, <1>11, <2>4
<1>13. /\ Sub(q)' /\ Unfetched(q)' = Unfetched(q) + 1
       /\ \E z \in Slots(q) : z = host.tail[q] /\ Age(q, z)' = 1
       /\ \A s \in Slots(q) : Age(q, s) \in 1..Unfetched(q) =>
            Age(q, s)' = Age(q, s) + 1 /\ s # host.tail[q]
  <2>1. Sub(q)
    BY <1>1, <1>6 DEF Submitting
  <2> QED
    BY <1>1, <1>2, <1>4, <1>5, <1>6, <1>11, <1>12, <2>1, SubSubmit
<1>14. \A p \in Queue : p # q => \A s : Age(p, s)' = Age(p, s)
  BY <1>5 DEF Age
<1>15. \A p \in Queue : p # q => Unfetched(p)' = Unfetched(p)
  BY <1>2, <1>5 DEF Unfetched, Age
<1>16. Submitting'
  <2> SUFFICES ASSUME NEW p \in Queue, p # q, SqOn(p) PROVE Sub(p)'
    BY <1>6, <1>13 DEF Submitting
  <2>1. Sub(p) /\ CqOn(p)
    BY <1>1, <1>6 DEF Submitting
  <2>2. RanOf(p, 0)
    BY <1>1, <1>2, RanIs DEF Ran
  <2>3. sq'[p].head = sq[p].head /\ 0 \in 0..1 /\ 0 # 1
    BY <1>2
  <2> QED
    BY <1>1, <1>5, <1>11, <2>1, <2>2, <2>3, SubEngine
<1>17. Completing'
  BY <1>6, <1>7 DEF Completing
<1>18. Busy'
  <2>1. host.out[Adm] \subseteq host'.out[Adm]
    BY <1>3, <1>5
  <2> QED
    BY <1>2, <1>9, <2>1, BusyKept
<1>19. Stale'
  BY <1>2 DEF Stale
<1>20. ASSUME NEW d, UnfetchedCmd(d) PROVE UnfetchedCmd(d)'
  <2>1. PICK s \in Slots(Adm) : Age(Adm, s) \in 1..Unfetched(Adm) /\ sqMem[Adm][s] = d
    BY <1>20 DEF UnfetchedCmd
  <2>2. CASE q = Adm
    <3>1. PICK n \in Nat : n = Size[Adm] /\ Unfetched(Adm) \in 0..(n - 1)
      BY <1>1, <1>3, AgeTypes, Sizes
    <3>2. PICK u \in Nat : u = Unfetched(Adm)
      BY <3>1
    <3>3. Age(Adm, s)' = Age(Adm, s) + 1 /\ s # host.tail[Adm] /\ Unfetched(Adm)' = u + 1
      BY <1>13, <2>1, <2>2, <3>2
    <3>4. Age(Adm, s)' \in 1..Unfetched(Adm)'
      BY <2>1, <3>2, <3>3
    <3>5. sqMem'[Adm][s] = d
      <4>1. sqMem[Adm] \in [Slots(Adm) -> Commands]
        BY <1>1, <1>3, AgeTypes
      <4> QED
        BY <1>5, <2>1, <2>2, <3>3, <4>1
    <3> QED
      BY <3>4, <3>5 DEF UnfetchedCmd
  <2>3. CASE q # Adm
    <3>1. Age(Adm, s)' \in 1..Unfetched(Adm)' /\ sqMem'[Adm][s] = d
      BY <1>3, <1>5, <1>14, <1>15, <2>1, <2>3
    <3> QED
      BY <3>1 DEF UnfetchedCmd
  <2> QED
    BY <2>2, <2>3
<1>21. ASSUME q = Adm PROVE UnfetchedCmd(c)'
  <2>1. PICK z \in Slots(Adm) : z = host.tail[Adm] /\ Age(Adm, z)' = 1
    BY <1>13, <1>21
  <2>2. sqMem'[Adm][z] = c
    <3>1. sqMem[Adm] \in [Slots(Adm) -> Commands]
      BY <1>1, <1>3, AgeTypes
    <3> QED
      BY <1>5, <1>21, <2>1, <3>1
  <2>3. 1 \in 1..Unfetched(Adm)'
    <3>1. PICK n \in Nat : n = Size[Adm] /\ Unfetched(Adm) \in 0..(n - 1)
      BY <1>1, <1>3, AgeTypes, Sizes
    <3>2. Unfetched(Adm)' = Unfetched(Adm) + 1
      BY <1>13, <1>21
    <3> QED
      BY <3>1, <3>2
  <2> QED
    BY <2>1, <2>2, <2>3 DEF UnfetchedCmd
<1>22. PICK r \in {DOORBELL_TAIL(q), DOORBELL_HEAD(q)} : r = DOORBELL_TAIL(q)
  OBVIOUS
<1>23. /\ InIrq(DOORBELL_TAIL(q))' /\ reg'[DOORBELL_TAIL(q)] = host'.tail[q]
       /\ \A x \in Doorbells : x # DOORBELL_TAIL(q) => reg'[x] = reg[x] /\ (InIrq(x)' => InIrq(x))
       /\ \A x : InIrq(x) => InIrq(x)'
  <2>1. PICK v : v = (host.tail[q] + 1) % Size[q] /\ v = host'.tail[q]
    BY <1>5
  <2>2. reg' = [reg EXCEPT ![r] = v] /\ irq' = Append(irq, r)
    BY <1>2, <1>22, <2>1
  <2>3. /\ InIrq(r)' /\ reg'[r] = v
        /\ \A x \in Doorbells : x # r => reg'[x] = reg[x] /\ (InIrq(x)' => InIrq(x))
        /\ \A x : InIrq(x) => InIrq(x)'
    BY <1>1, <2>2, BellsApart
  <2> QED
    BY <1>22, <2>1, <2>3
<1>24. q = Adm => (IoBells' => IoBells)
  BY <1>23, BellNames DEF IoBells, Doorbells
<1>25. Creates'
  <2> SUFFICES ASSUME NEW d \in host'.out[Adm], d.qid = 1 PROVE Create(d)'
    BY DEF Creates
  <2>1. NewCqMade' <=> NewCqMade
    BY <1>2 DEF NewCqMade, CqUp
  <2>2. NewSqMade' <=> NewSqMade
    BY <1>2 DEF NewSqMade, SqUp
  <2>3. CASE d \in host.out[Adm]
    <3>1. Create(d)
      BY <1>9, <2>3 DEF Creates
    <3>2. d.op \in QueueOp
      BY <1>1, <2>3 DEF Cmds, CmdQids
    <3>3. d.op \notin DataOp /\ host.has # {"cq", "sq"}
      BY <3>1, <3>2, WorkloadAssumption DEF Create, QueueOp
    <3>4. q = Adm
      BY <1>1, <1>3, <3>3, AskedIs
    <3>5. c.op \in DataOp /\ c.qid # 1
      BY <1>1, <2>3, <3>3, <3>4, AskedIs, WorkloadAssumption
    <3>6. host'.has = host.has /\ cqMem'[1] = cqMem[1]
      BY <1>2, <3>5
    <3>7. Posted(Adm, d.cid)' => Posted(Adm, d.cid)
      BY <1>9
    <3>8. cpu = "tc" => cpu' = "tc"
      BY <1>2
    <3> QED
      BY <1>20, <1>24, <2>1, <2>2, <3>1, <3>4, <3>6, <3>7, <3>8, CreateKept
  <2>4. CASE d \notin host.out[Adm]
    <3>1. d = c /\ q = Adm
      BY <1>3, <1>5, <2>4
    <3>2. /\ c.op \in QueueOp
          /\ c.op = "create_cq" => host.has = {}
          /\ c.op = "create_sq" => host.has = {"cq"}
          /\ c.op = "delete_sq" => host.has = {"cq", "sq"}
          /\ c.op = "delete_cq" => host.has = {"cq"}
      BY <1>1, <3>1, AskedIs
    <3>3. /\ c.op # "delete_sq" => host'.has = host.has
          /\ c.op = "delete_sq" => host'.has = host.has \ {"sq"}
      BY <1>2, <3>1
    <3>4. c.op = "create_cq" => \A s \in Slots(1) : cqMem'[1][s].p = 0
      <4>1. c.op = "create_cq" => cqMem'[1] = EmptyCq(1)
        BY <1>2, <1>3, <3>1
      <4>2. \A s \in Slots(1) : EmptyCq(1)[s].p = 0
        BY DEF EmptyCq, Slots
      <4> QED
        BY <4>1, <4>2
    <3>5. ~Posted(Adm, c.cid)'
      BY <1>12, <3>1 DEF Waits
    <3>6. UnfetchedCmd(c)'
      BY <1>21, <3>1
    <3>7. c.op = "create_cq" => host'.has = {}
      BY <3>2, <3>3
    <3>8. c.op = "create_sq" => host'.has = {"cq"}
      BY <3>2, <3>3
    <3>9. c.op \in {"delete_sq", "delete_cq"} => host'.has = {"cq"}
      BY <3>2, <3>3
    <3>10. Create(c)'
      BY <3>4, <3>5, <3>6, <3>7, <3>8, <3>9 DEF Create
    <3> QED
      BY <3>1, <3>10
  <2> QED
    BY <2>3, <2>4
<1>26. Room'
  <2>1. Lag(Adm)' = Lag(Adm) /\ cpu' = cpu
    BY <1>2 DEF Lag
  <2>2. CASE q = Adm
    <3>1. PICK T : T = host.out[Adm] /\ IsFiniteSet(T) /\ c \notin T
      BY <1>4, <2>2 DEF Unused
    <3>2. Cardinality(T \cup {c}) = Cardinality(T) + 1 /\ Cardinality(T) \in Nat
      BY <3>1, FS_AddElement, FS_CardinalityType
    <3>3. Cardinality(host'.out[Adm]) = Cardinality(T) + 1
      BY <1>5, <2>2, <3>1, <3>2
    <3>4. Unfetched(Adm) \in 0..(Size[Adm] - 1) /\ Lag(Adm) \in 0..(Size[Adm] - 1) /\ Size[Adm] \in Nat
      BY <1>1, <1>3, AgeTypes, RingTypes, Sizes
    <3>5. Unfetched(Adm)' = Unfetched(Adm) + 1
      BY <1>13, <2>2
    <3>6. PICK u, l \in Nat : u = Unfetched(Adm) /\ l = Lag(Adm)
      BY <3>4
    <3> QED
      BY <1>9, <2>1, <3>1, <3>2, <3>3, <3>5, <3>6 DEF Room
  <2>3. CASE q # Adm
    BY <1>3, <1>5, <1>9, <1>15, <2>1, <2>3 DEF Room
  <2> QED
    BY <2>2, <2>3
<1>27. DataCmds'
  <2> SUFFICES ASSUME NEW d \in host'.out[Adm], d.op \in DataOp PROVE DataOf(d)'
    BY DEF DataCmds
  <2>1. PostKeeps(Adm) /\ host'.head[Adm] = host.head[Adm] /\ host.out[Adm] \subseteq host'.out[Adm]
    BY <1>2, <1>3, <1>5, <1>7, <1>9
  <2>2. CASE d \in host.out[Adm]
    <3>1. DataOf(d)
      BY <1>9, <2>2 DEF Data, DataCmds
    <3>2. Got(d)' = Got(d)
      <4>1. d.cid \in Cid
        BY <1>3, <2>2 DEF Commands
      <4>2. q = Adm => d.cid # c.cid
        BY <1>4, <2>2 DEF Unused
      <4>3. PICK g, i : g = host.got /\ i = d.cid /\ g \in [Cid -> DataOp \cup {"none", "zero"}]
        BY <1>3
      <4>4. q = Adm => host'.got[i] = g[i]
        BY <1>2, <1>3, <4>1, <4>2, <4>3
      <4>5. q # Adm => host'.got[i] = g[i]
        <5> SUFFICES ASSUME q # Adm PROVE host'.got[i] = g[i]
          OBVIOUS
        <5>1. host'.got = [g EXCEPT ![c.cid] = g[c.cid]]
          BY <1>2, <4>3
        <5>2. DOMAIN g = Cid /\ i \in Cid
          BY <4>1, <4>3
        <5> QED
          BY <5>1, <5>2
      <4> QED
        BY <4>3, <4>4, <4>5 DEF Got
    <3>3. Moved(d.cid)' <=> Moved(d.cid)
      BY <1>2 DEF Moved
    <3>4. \A e \in host.out[Adm] : Behind(d, e) => e \in host'.out[Adm] /\ Behind(d, e)'
      BY <2>1, BehindKept
    <3> QED
      BY <1>9, <3>1, <3>2, <3>3, <3>4, DataKept
  <2>3. CASE d \notin host.out[Adm]
    <3>1. d = c /\ q = Adm
      BY <1>3, <1>5, <2>3
    <3>2. Got(c)' = "none"
      BY <1>2, <1>3, <3>1 DEF Got
    <3>3. ~Posted(Adm, c.cid)' /\ ~Moving(Adm, c.cid)
      BY <1>12, <3>1 DEF Waits
    <3>4. ~Moved(c.cid)'
      <4>1. txDone = 1 => 1 \in 1..Len(tx) /\ tx[1].kind = "data"
        <5>1. tx \in Seq(Transfers) /\ (txDone = 1 => tx # <<>> /\ tx[1].kind = "data")
          BY <1>1 DEF Types, TxTypes
        <5> QED
          BY <5>1, HeadTail
      <4> QED
        BY <1>2, <3>3, <4>1 DEF Moved, Moving
    <3>5. "none" # "zero"
      OBVIOUS
    <3>6. DataOf(c)'
      BY <3>2, <3>3, <3>4 DEF DataOf
    <3> QED
      BY <3>1, <3>6
  <2> QED
    BY <2>2, <2>3
<1>28. DataResp'
  BY <1>2, <1>9 DEF Data, DataResp
<1>29. Bells'
  <2> SUFFICES ASSUME NEW p \in Queue PROVE TailBell(p)' /\ HeadBell(p)'
    BY DEF Bells
  <2>1. TailBell(p) /\ HeadBell(p)
    BY <1>1 DEF Bells
  <2>2. /\ DOORBELL_TAIL(p) \in Doorbells /\ DOORBELL_HEAD(p) \in Doorbells
        /\ DOORBELL_HEAD(p) # DOORBELL_TAIL(q) /\ (p # q => DOORBELL_TAIL(p) # DOORBELL_TAIL(q))
    BY DoorbellsAre, BellNames
  <2>3. HeadBell(p)'
    BY <1>2, <1>6, <1>23, <2>1, <2>2 DEF HeadBell
  <2>4. ASSUME p = q PROVE TailBell(p)'
    BY <1>6, <1>23, <2>4 DEF TailBell
  <2>5. ASSUME p # q PROVE TailBell(p)'
    <3>1. host'.tail[p] = host.tail[p] /\ reg'[DOORBELL_TAIL(p)] = reg[DOORBELL_TAIL(p)]
          /\ (InIrq(DOORBELL_TAIL(p))' => InIrq(DOORBELL_TAIL(p))) /\ sq' = sq
      BY <1>2, <1>5, <1>23, <2>2, <2>5
    <3>2. CASE SqOn(p)' <=> SqOn(p)
      BY <2>1, <3>1, <3>2 DEF TailBell
    <3>3. CASE ~SqOn(p)' /\ SqOn(p)
      <4>1. p = 1 /\ c.op = "delete_sq" /\ c.qid = 1
        BY <1>2, <1>3, <3>3 DEF SqOn
      <4>2. host.out[1] = {} /\ Sub(1)
        BY <1>1, <3>3, <4>1, AskedIs DEF Submitting
      <4>3. Unfetched(1) = 0
        BY <1>1, <1>3, <4>2, NoneFetched
      <4>4. host.tail[1] = sq[1].head
        <5>1. PICK n \in Nat : n = Size[1] /\ n >= 2 /\ Slots(1) = 0..(n - 1)
          BY <1>3, Sizes DEF Slots
        <5>2. sq[1].head \in 0..(n - 1) /\ host.tail[1] \in 0..(n - 1)
          BY <1>1, <1>3, <5>1, AgeTypes
        <5>3. PICK a \in 0..(n - 1), b \in 0..(n - 1) : a = sq[1].head /\ b = host.tail[1]
          BY <5>2
        <5>4. Dist(n, a, b) = 0
          BY <4>3, <5>1, <5>3 DEF Unfetched, Age
        <5>5. a = b
          BY <5>1, <5>4, DistFacts
        <5> QED
          BY <5>3, <5>5
      <4> QED
        BY <2>1, <3>1, <3>3, <4>1, <4>4 DEF TailBell
    <3> QED
      BY <1>6, <3>2, <3>3
  <2> QED
    BY <2>3, <2>4, <2>5
<1> QED
  BY <1>4, <1>16, <1>17, <1>18, <1>19, <1>25, <1>26, <1>27, <1>28, <1>29 DEF Running, Data

-----------------------------------------------------------------------------
(* The commands: the driver takes a completion                             *)

LEMMA MakesIs ==
  ASSUME Cmds, NEW q \in Queue, NEW c \in host.out[q], NEW o \in QueueOp, Makes(c, o)
  PROVE  q = Adm /\ c.qid = 1
<1>1. c.op = o /\ c.qid < 2 /\ c.op \in QueueOp /\ c.op # "io"
  BY DEF Makes, QUEUES, QueueOp
<1>2. q = Adm
  BY <1>1, Sizes DEF Cmds, CmdQids
<1>3. c.qid \in {1, 3}
  BY <1>1, <1>2 DEF Cmds, CmdQids, QUEUES
<1> QED
  BY <1>1, <1>2, <1>3

\* The command that the completion is of.
Found(q, c) ==
  /\ c \in host.out[q] /\ c.cid = cqMem[q][host.head[q]].cid
  /\ \A d \in host.out[q] : d.cid = c.cid => d = c
  /\ CqOn(q) /\ Arrived(q, host.head[q]) /\ PostedAt(q, c.cid, host.head[q]) /\ Posted(q, c.cid)
  /\ Makes(c, "create_cq") =>
       q = Adm /\ host.has = {} /\ NewCqMade /\ \A s \in Slots(1) : cqMem[1][s].p = 0
  /\ Makes(c, "create_sq") => q = Adm /\ host.has = {"cq"} /\ NewSqMade
  /\ Makes(c, "delete_cq") => q = Adm /\ host.has = {"cq"}
  /\ Makes(c, "create_cq") \/ Makes(c, "create_sq") => ~IoBells

LEMMA VisibleFound ==
  ASSUME QInv, NEW q \in Queue, Visible(q), host.pc = "live", q = Adm \/ "cq" \in host.has
  PROVE  \E c \in host.out[q] : Found(q, c)
<1>1. Types /\ Cmds /\ CqOn(q) /\ Ring(q) /\ Under(q) /\ Creates /\ SqOn(Adm) /\ Sub(Adm) /\ Adm \in Queue
  BY Sizes DEF QInv, CqOn, SqOn, Completing, Submitting, Running
<1>2. PICK h \in Slots(q) : h = host.head[q]
  BY <1>1, RingTypes
<1>3. Arrived(q, h)
  <2>1. Expect(q, h) = host.phase[q]
    <3>1. h >= h
      BY <1>2, Sizes DEF Slots
    <3> QED
      BY <1>2, <3>1 DEF Expect
  <2> QED
    BY <1>2, <2>1 DEF Arrived, Visible
<1>4. PICK i : i = cqMem[q][h].cid /\ PostedAt(q, i, h) /\ Posted(q, i)
  BY <1>2, <1>3 DEF PostedAt, Posted
<1>5. PICK c \in host.out[q] : c.cid = i
  BY <1>1, <1>4 DEF Under, UnderNames
<1>6. \A d \in host.out[q] : d.cid = c.cid => d = c
  BY <1>1 DEF Cmds, CmdIds
<1>7. ASSUME NEW o \in QueueOp, Makes(c, o) PROVE q = Adm /\ c.qid = 1 /\ c.op = o /\ Create(c)
  <2>1. q = Adm /\ c.qid = 1 /\ c.op = o
    BY <1>1, <1>7, MakesIs DEF Makes
  <2> QED
    BY <1>1, <2>1 DEF Creates
<1>8. {"create_cq", "create_sq", "delete_cq"} \subseteq QueueOp
  BY DEF QueueOp
<1>9. Makes(c, "create_cq") =>
        q = Adm /\ host.has = {} /\ NewCqMade /\ \A s \in Slots(1) : cqMem[1][s].p = 0
  BY <1>4, <1>5, <1>7, <1>8 DEF Create
<1>10. Makes(c, "create_sq") => q = Adm /\ host.has = {"cq"} /\ NewSqMade
  BY <1>4, <1>5, <1>7, <1>8 DEF Create
<1>11. Makes(c, "delete_cq") => q = Adm /\ host.has = {"cq"}
  BY <1>7, <1>8 DEF Create
<1>12. q = Adm => ~UnfetchedCmd(c)
  <2> SUFFICES ASSUME q = Adm, NEW s \in Slots(Adm), Age(Adm, s) \in 1..Unfetched(Adm),
                      sqMem[Adm][s] = c
               PROVE  FALSE
    BY DEF UnfetchedCmd
  <2>1. PICK w \in 0..(Size[Adm] - 1) : Win(Adm, w)
    BY <1>1 DEF Sub
  <2>2. PICK n \in Nat : n = Size[Adm] /\ Unfetched(Adm) \in 0..(n - 1)
    BY <1>1, AgeTypes, Sizes
  <2>3. Unfetched(Adm) <= w
    BY <2>1 DEF Win
  <2>4. Age(Adm, s) \in 1..w
    BY <2>2, <2>3
  <2>5. Waits(Adm, c.cid)
    BY <2>1, <2>4 DEF Win, WinCmds
  <2> QED
    BY <1>4, <1>5, <2>5 DEF Waits
<1>13. Makes(c, "create_cq") \/ Makes(c, "create_sq") => ~IoBells
  BY <1>4, <1>5, <1>7, <1>8, <1>12 DEF Create
<1> QED
  BY <1>1, <1>2, <1>3, <1>4, <1>5, <1>6, <1>9, <1>10, <1>11, <1>13 DEF Found

\* A command that is not fetched waits to be run.
LEMMA UnfetchedWaits ==
  ASSUME Types, NEW q \in Queue, Sub(q), NEW s \in Slots(q), Age(q, s) \in 1..Unfetched(q)
  PROVE  sqMem[q][s] \in host.out[q] /\ Waits(q, sqMem[q][s].cid)
<1>1. PICK w \in 0..(Size[q] - 1) : Win(q, w)
  BY DEF Sub
<1>2. PICK n \in Nat : n = Size[q] /\ Unfetched(q) \in 0..(n - 1)
  BY AgeTypes, Sizes
<1>3. Unfetched(q) <= w
  BY <1>1 DEF Win
<1>4. Age(q, s) \in 1..w
  BY <1>2, <1>3
<1> QED
  BY <1>1, <1>4 DEF Win, WinCmds

\* The queues that the driver has after it took the completion.
LEMMA FoundQueues ==
  ASSUME HostTypes, NEW q \in Queue, NEW c, Found(q, c), Consumed(q, c), Cmds
  PROVE  /\ \A o \in QueueOp : Makes(c, o) => q = Adm
         /\ \A p \in Queue : CqOn(p)' => CqOn(p) \/ (p = 1 /\ Makes(c, "create_cq"))
         /\ \A p \in Queue : SqOn(p)' => SqOn(p) \/ (p = 1 /\ Makes(c, "create_sq"))
         /\ \A p \in Queue : SqOn(p) => CqOn(p) /\ SqOn(p)'
         /\ Makes(c, "create_cq") => ~CqOn(1)
         /\ Makes(c, "create_sq") => ~SqOn(1)
         /\ "sq" \notin host'.has => "sq" \notin host.has
<1>1. /\ host'.pc = host.pc /\ host.pc = "live"
      /\ host'.has = IF Makes(c, "create_cq") THEN host.has \cup {"cq"}
                     ELSE IF Makes(c, "create_sq") THEN host.has \cup {"sq"}
                     ELSE IF Makes(c, "delete_cq") THEN {} ELSE host.has
  BY DEF Consumed
<1>2. /\ Makes(c, "create_cq") => host.has = {}
      /\ Makes(c, "create_sq") => host.has = {"cq"}
      /\ Makes(c, "delete_cq") => host.has = {"cq"}
      /\ c \in host.out[q]
  BY DEF Found
<1>3. \A o \in QueueOp : Makes(c, o) => q = Adm
  BY <1>2, MakesIs
<1>4. host.has \in {{}, {"cq"}, {"cq", "sq"}} /\ Queue = {Adm, 1} /\ Adm # 1
  BY Sizes DEF HostTypes
<1>5. "sq" \in host'.has => "sq" \in host.has \/ Makes(c, "create_sq")
  BY <1>1, <1>2, <1>4
<1>6. "cq" \in host'.has => "cq" \in host.has \/ Makes(c, "create_cq")
  BY <1>1, <1>2, <1>4
<1>7. "sq" \in host.has => "sq" \in host'.has /\ "cq" \in host.has
  BY <1>1, <1>2, <1>4
<1> QED
  BY <1>1, <1>2, <1>3, <1>4, <1>5, <1>6, <1>7 DEF CqOn, SqOn

LEMMA CmdsConsume ==
  ASSUME Types, Cmds, NEW q \in Queue, NEW c, Found(q, c), Consumed(q, c)
  PROVE  Cmds'
<1>1. /\ host.pc = "live" /\ host'.pc = host.pc /\ UNCHANGED <<rx, tx>>
      /\ host'.out = [host.out EXCEPT ![q] = host.out[q] \ {c}]
  BY DEF Consumed, device
<1>2. HostTypes /\ host.out \in [Queue -> SUBSET Commands] /\ Adm \in Queue /\ 1 \in Queue
  BY Sizes DEF Types, HostTypes
<1>3. \A p \in Queue : host'.out[p] \subseteq host.out[p]
  BY <1>1, <1>2
<1>4. CmdIds' /\ CmdQids' /\ CmdOne'
  BY <1>2, <1>3 DEF Cmds, CmdIds, CmdQids, CmdOne
<1>5. CmdCount'
  <2> SUFFICES ASSUME NEW p \in Queue
               PROVE  /\ IsFiniteSet(host'.out[p]) /\ Cardinality(host'.out[p]) <= MaxAdm
                      /\ Cardinality(host'.out[p]) <= Size[p] - 1
    BY DEF CmdCount
  <2>1. PICK S, T : S = host.out[p] /\ T = host'.out[p] /\ T \subseteq S
    BY <1>3
  <2>2. IsFiniteSet(S) /\ Cardinality(S) <= MaxAdm /\ Cardinality(S) <= Size[p] - 1
    BY <2>1 DEF Cmds, CmdCount
  <2>3. IsFiniteSet(T) /\ Cardinality(T) <= Cardinality(S)
    BY <2>1, <2>2, FS_Subset
  <2>4. Cardinality(S) \in Nat /\ Cardinality(T) \in Nat
    BY <2>2, <2>3, FS_CardinalityType
  <2>5. PICK m \in Nat, n \in Nat : m = MaxAdm /\ n = Size[p]
    BY Sizes
  <2> QED
    BY <2>1, <2>2, <2>3, <2>4, <2>5
<1>6. CmdNew'
  BY <1>1 DEF CmdNew
<1>7. CmdNoSq'
  <2>1. "sq" \notin host'.has => "sq" \notin host.has
    BY <1>2, FoundQueues
  <2> QED
    BY <1>1, <1>2, <1>3, <2>1 DEF Cmds, CmdNoSq
<1> QED
  BY <1>4, <1>5, <1>6, <1>7 DEF Cmds

LEMMA QueuesConsume ==
  ASSUME QInv, NEW q \in Queue, NEW c, Found(q, c), Consumed(q, c)
  PROVE  Cmds' /\ Completing' /\ Submitting' /\ Running' /\ Bells' /\ Stale'
<1>1. IInv /\ Types /\ Shapes /\ HostTypes /\ Cmds /\ Completing /\ Submitting /\ Bells
  BY DEF QInv, Types, IInv
<1>2. /\ host.pc = "live" /\ host'.pc = host.pc
      /\ host'.out = [host.out EXCEPT ![q] = host.out[q] \ {c}]
      /\ host'.got = [i \in Cid |-> IF q = Adm /\ i = c.cid THEN "none" ELSE host.got[i]]
      /\ host'.has = IF Makes(c, "create_cq") THEN host.has \cup {"cq"}
                     ELSE IF Makes(c, "create_sq") THEN host.has \cup {"sq"}
                     ELSE IF Makes(c, "delete_cq") THEN {} ELSE host.has
      /\ \A p \in Queue :
           /\ host'.tail[p] = IF Makes(c, "create_sq") /\ p = 1 THEN 0 ELSE host.tail[p]
           /\ host'.head[p] = IF Makes(c, "create_cq") /\ p = 1 THEN 0
                              ELSE IF p = q THEN (host.head[q] + 1) % Size[q] ELSE host.head[p]
           /\ host'.phase[p] = IF Makes(c, "create_cq") /\ p = 1 THEN 1
                               ELSE IF p = q /\ (host.head[q] + 1) % Size[q] = 0
                                    THEN 1 - host.phase[p] ELSE host.phase[p]
      /\ reg' = [reg EXCEPT ![DOORBELL_HEAD(q)] = (host.head[q] + 1) % Size[q]]
      /\ irq' = Append(irq, DOORBELL_HEAD(q))
      /\ cqMem' = [cqMem EXCEPT ![q] = [cqMem[q] EXCEPT ![host.head[q]] =
                     [cid |-> 0, res |-> 0, p |-> cqMem[q][host.head[q]].p]]]
      /\ sqMem' = [sqMem EXCEPT ![q] =
                     [i \in Slots(q) |-> IF sqMem[q][i] = c THEN Junk ELSE sqMem[q][i]]]
      /\ UNCHANGED <<sq, cq, cpu, filling, resp, rx, tx, txDone>>
  BY DEF Consumed, device
<1>3. /\ Adm \in Queue /\ 1 \in Queue /\ Adm # 1 /\ Queue = {Adm, 1}
      /\ host.out \in [Queue -> SUBSET Commands]
      /\ host.got \in [Cid -> DataOp \cup {"none", "zero"}]
      /\ DOMAIN sqMem = Queue /\ DOMAIN cqMem = Queue
      /\ {"create_cq", "create_sq", "delete_cq"} \subseteq QueueOp
  BY <1>1, Sizes DEF HostTypes, Types, MemTypes, QueueOp
<1>4. Cmds'
  BY <1>1, CmdsConsume
<1>5. /\ host'.out[q] = host.out[q] \ {c}
      /\ sqMem'[q] = [i \in Slots(q) |-> IF sqMem[q][i] = c THEN Junk ELSE sqMem[q][i]]
      /\ cqMem'[q] = [cqMem[q] EXCEPT ![host.head[q]] =
                        [cid |-> 0, res |-> 0, p |-> cqMem[q][host.head[q]].p]]
      /\ \A p \in Queue : p # q => /\ host'.out[p] = host.out[p] /\ sqMem'[p] = sqMem[p]
                                   /\ cqMem'[p] = cqMem[p]
  BY <1>2, <1>3
<1>6. /\ \A o \in QueueOp : Makes(c, o) => q = Adm
      /\ \A p \in Queue : CqOn(p)' => CqOn(p) \/ (p = 1 /\ Makes(c, "create_cq"))
      /\ \A p \in Queue : SqOn(p)' => SqOn(p) \/ (p = 1 /\ Makes(c, "create_sq"))
      /\ \A p \in Queue : SqOn(p) => CqOn(p) /\ SqOn(p)'
      /\ Makes(c, "create_cq") => ~CqOn(1)
      /\ Makes(c, "create_sq") => ~SqOn(1)
  BY <1>1, FoundQueues
<1>7. /\ CqOn(q) /\ Arrived(q, host.head[q]) /\ c \in host.out[q] /\ Posted(q, c.cid)
      /\ c.cid = cqMem[q][host.head[q]].cid /\ PostedAt(q, c.cid, host.head[q])
      /\ \A d \in host.out[q] : d.cid = c.cid => d = c
  BY DEF Found
<1>8. /\ Makes(c, "create_cq") => q = Adm /\ host.has = {} /\ NewCqMade /\ ~IoBells
                                  /\ \A s \in Slots(1) : cqMem[1][s].p = 0
      /\ Makes(c, "create_sq") => q = Adm /\ host.has = {"cq"} /\ NewSqMade /\ ~IoBells
  BY DEF Found
<1>9. /\ Ring(q)' /\ PostLess(q) /\ Lag(q)' = Lag(q) + 1 /\ host.head[q] \in Slots(q)
      /\ \A i : PostedAt(q, i, host.head[q]) => i = c.cid
      /\ \A s \in Slots(q) : /\ s # host.head[q] => Offset(q, s)' = Offset(q, s) - 1
                             /\ Offset(q, s) = 0 <=> s = host.head[q]
  <2>1. ~(Makes(c, "create_cq") /\ q = 1)
    BY <1>3, <1>6
  <2>2. EndTakes(q)
    BY <1>2, <1>5, <1>7, <2>1 DEF EndTakes
  <2>3. Ring(q)
    BY <1>1, <1>7 DEF Completing
  <2> QED
    BY <1>1, <1>7, <2>2, <2>3, RingTake, ZenonT(60)
<1>10. ASSUME NEW p \in Queue, CqOn(p), p # q PROVE Ring(p)' /\ PostKeeps(p) /\ Lag(p)' = Lag(p)
  <2>1. ~(Makes(c, "create_cq") /\ p = 1)
    BY <1>6, <1>10
  <2>2. host'.head[p] = host.head[p] /\ host'.phase[p] = host.phase[p] /\ cqMem'[p] = cqMem[p]
    BY <1>2, <1>5, <1>10, <2>1
  <2>3. EndsKept(p)
    BY <1>2, <2>2 DEF EndsKept
  <2>4. ChanKeeps(p) /\ Len(tx') \in Nat
    BY <1>1, <1>2, ChanDrop, GoingTypes DEF Rest
  <2>5. Ring(p)' /\ PostKeeps(p)
    BY <1>1, <1>10, <2>3, <2>4, RingKept DEF Completing
  <2> QED
    BY <1>2, <2>2, <2>5 DEF Lag
<1>11. ASSUME Makes(c, "create_cq")
       PROVE  Ring(1)' /\ \A i : \A s \in Slots(1) : ~PostedAt(1, i, s)'
  <2>1. q = Adm /\ host.has = {} /\ NewCqMade /\ \A s \in Slots(1) : cqMem[1][s].p = 0
    BY <1>8, <1>11
  <2>2. \A m \in 1..Len(tx) : tx[m].qid # 1
    BY <1>1, <1>2, <2>1 DEF Cmds, CmdNoSq
  <2>3. EndFresh(1)
    BY <1>2, <1>3, <1>5, <1>11, <2>1, <2>2 DEF EndFresh, NewCqMade, Going
  <2> QED
    BY <1>3, <2>3, RingFresh
<1>12. \A i : Posted(q, i)' => Posted(q, i) /\ i # c.cid
  <2> SUFFICES ASSUME NEW i, Posted(q, i)' PROVE Posted(q, i) /\ i # c.cid
    OBVIOUS
  <2>1. PICK s \in Slots(q) : PostedAt(q, i, s)'
    BY DEF Posted
  <2>2. PostedAt(q, i, s) /\ s # host.head[q]
    BY <1>9, <2>1 DEF PostLess
  <2>3. i # c.cid
    BY <1>1, <1>7, <1>9, <2>2 DEF Completing, Under, UnderOnce
  <2> QED
    BY <2>2, <2>3 DEF Posted
<1>13. \A i : Posted(q, i) /\ i # c.cid => Posted(q, i)'
  <2> SUFFICES ASSUME NEW i, Posted(q, i), i # c.cid PROVE Posted(q, i)'
    OBVIOUS
  <2>1. PICK s \in Slots(q) : PostedAt(q, i, s)
    BY DEF Posted
  <2>2. s # host.head[q]
    BY <1>9, <2>1
  <2>3. PostedAt(q, i, s)'
    BY <1>9, <2>1, <2>2 DEF PostLess
  <2> QED
    BY <2>3 DEF Posted
<1>14. \A p \in Queue : CqOn(p) => \A i : Posted(p, i)' => Posted(p, i)
  <2> SUFFICES ASSUME NEW p \in Queue, CqOn(p), p # q PROVE \A i : Posted(p, i)' => Posted(p, i)
    BY <1>12
  <2>1. PostKeeps(p)
    BY <1>10
  <2> QED
    BY <2>1, PostedKept
<1>15. \A p, i : (Filling(p, i)' <=> Filling(p, i)) /\ (Moving(p, i)' <=> Moving(p, i))
  BY <1>2 DEF Filling, Moving
<1>16. \A p \in Queue : CqOn(p) => \A i : Waits(p, i) => Waits(p, i)'
  BY <1>14, <1>15 DEF Waits
<1>17. ASSUME NEW p \in Queue, CqOn(p)' PROVE Under(p)'
  <2>1. CASE p = q
    <3>1. Under(q)
      BY <1>1, <1>7 DEF Completing
    <3>2. UnderNames(q)'
      <4> SUFFICES ASSUME NEW i, Posted(q, i)' PROVE \E d \in host'.out[q] : d.cid = i
        BY DEF UnderNames
      <4>1. Posted(q, i) /\ i # c.cid
        BY <1>12
      <4>2. PICK d \in host.out[q] : d.cid = i
        BY <3>1, <4>1 DEF Under, UnderNames
      <4>3. d # c
        BY <4>1, <4>2
      <4> QED
        BY <1>5, <4>2, <4>3
    <3>3. UnderOnce(q)'
      BY <1>9, <3>1 DEF Under, UnderOnce, PostLess
    <3> QED
      BY <2>1, <3>2, <3>3 DEF Under
  <2>2. CASE p # q /\ CqOn(p)
    <3>1. Under(p) /\ PostKeeps(p) /\ host.out[p] \subseteq host'.out[p]
      BY <1>1, <1>5, <1>10, <2>2 DEF Completing
    <3> QED
      BY <3>1, UnderKept
  <2>3. CASE p = 1 /\ Makes(c, "create_cq")
    <3>1. \A i : ~Posted(p, i)'
      BY <1>11, <2>3 DEF Posted
    <3>2. \A i : \A s \in Slots(p) : ~PostedAt(p, i, s)'
      BY <1>11, <2>3
    <3> QED
      BY <3>1, <3>2 DEF Under, UnderNames, UnderOnce
  <2> QED
    BY <1>6, <1>17, <2>1, <2>2, <2>3
<1>18. Completing'
  <2>1. ASSUME NEW p \in Queue, CqOn(p)' PROVE Ring(p)'
    BY <1>6, <1>9, <1>10, <1>11, <2>1
  <2> QED
    BY <1>17, <2>1 DEF Completing
<1>19. Submitting'
  <2> SUFFICES ASSUME NEW p \in Queue, SqOn(p)' PROVE Sub(p)'
    BY SMTT(30) DEF Submitting
  <2>1. CASE SqOn(p) /\ p = q
    <3>1. host'.tail[q] = host.tail[q]
      BY <1>2, <1>3, <1>6
    <3>2. Sub(q) /\ \A i : Waits(q, i) => Waits(q, i)'
      BY <1>1, <1>7, <1>16, <2>1 DEF Submitting
    <3> QED
      BY <1>1, <1>2, <1>5, <1>7, <2>1, <3>1, <3>2, SubConsume
  <2>2. CASE SqOn(p) /\ p # q
    <3>1. host'.tail[p] = host.tail[p]
      BY <1>2, <1>3, <1>6, <2>2
    <3>2. Sub(p) /\ \A i : Waits(p, i) => Waits(p, i)'
      BY <1>1, <1>6, <1>16, <2>2 DEF Submitting
    <3>3. RanOf(p, 0)
      BY <1>1, <1>2, RanIs DEF Ran
    <3>4. sq'[p].head = sq[p].head /\ 0 \in 0..1 /\ 0 # 1
      BY <1>2
    <3> QED
      BY <1>1, <1>5, <2>2, <3>1, <3>2, <3>3, <3>4, SubEngine
  <2>3. CASE p = 1 /\ Makes(c, "create_sq")
    <3>1. host.has = {"cq"} /\ sq[1].head = 0
      BY <1>8, <2>3 DEF NewSqMade
    <3>2. \A m \in 1..Len(rx') : rx'[m].qid # 1
      BY <1>1, <1>2, <3>1 DEF Cmds, CmdNoSq
    <3>3. host'.tail[1] = 0 /\ sq'[1].head = 0
      BY <1>2, <1>3, <2>3, <3>1
    <3> QED
      BY <1>3, <2>3, <3>2, <3>3, SubFresh
  <2> QED
    BY <1>6, <2>1, <2>2, <2>3
<1>20. Stale'
  BY <1>2 DEF Stale
<1>21. /\ Busy /\ Creates /\ Room /\ DataCmds /\ DataResp /\ CqOn(Adm) /\ CqOn(Adm)' /\ SqOn(Adm)
       /\ Sub(Adm) /\ Ring(Adm)
  <2>1. Busy /\ Creates /\ Room /\ DataCmds /\ DataResp
    BY <1>2 DEF QInv, Running, Data
  <2>2. CqOn(Adm) /\ CqOn(Adm)' /\ SqOn(Adm)
    BY <1>2 DEF CqOn, SqOn
  <2> QED
    BY <1>1, <1>3, <2>1, <2>2 DEF Submitting, Completing
<1>22. host'.tail[Adm] = host.tail[Adm] /\ Unfetched(Adm)' = Unfetched(Adm)
       /\ \A s : Age(Adm, s)' = Age(Adm, s)
  <2>1. host'.tail[Adm] = host.tail[Adm]
    BY <1>2, <1>3
  <2> QED
    BY <1>2, <2>1 DEF Unfetched, Age
<1>23. PICK r, v : r = DOORBELL_HEAD(q) /\ v = (host.head[q] + 1) % Size[q]
  OBVIOUS
<1>24. /\ reg'[r] = v /\ \A x \in Doorbells : x # r => reg'[x] = reg[x] /\ (InIrq(x)' => InIrq(x))
       /\ \A x : InIrq(x) => InIrq(x)'
       /\ InIrq(r)'
  <2>1. r \in {DOORBELL_TAIL(q), DOORBELL_HEAD(q)} /\ reg' = [reg EXCEPT ![r] = v]
        /\ irq' = Append(irq, r)
    BY <1>2, <1>23
  <2> QED
    BY <1>1, <2>1, BellsApart
<1>25. Busy'
  <2>1. cpu' = "fill" => cpu = "fill"
    BY <1>2
  <2>2. \A i : Posted(Adm, i)' => Posted(Adm, i)
    BY <1>3, <1>14, <1>21
  <2>3. \A d \in host.out[Adm] : ~Posted(Adm, d.cid) => d \in host'.out[Adm]
    BY <1>3, <1>5, <1>7
  <2> QED
    BY <1>2, <1>21, <2>1, <2>2, <2>3, BusyKept
<1>26. Creates'
  <2> SUFFICES ASSUME NEW d \in host'.out[Adm], d.qid = 1 PROVE Create(d)'
    BY DEF Creates
  <2>1. d \in host.out[Adm] /\ Create(d) /\ d.op \in QueueOp
    <3>1. d \in host.out[Adm]
      BY <1>3, <1>5
    <3> QED
      BY <1>1, <1>21, <3>1 DEF Creates, Cmds, CmdQids
  <2>2. host.has # {"cq", "sq"}
    <3>1. d.op \in {"create_sq", "create_cq", "delete_sq", "delete_cq"}
      BY <2>1 DEF QueueOp
    <3> QED
      BY <2>1, <3>1 DEF Create
  <2>3. q = Adm
    <3>1. q = 1 => "sq" \in host.has
      BY <1>1, <1>7 DEF Cmds, CmdNoSq
    <3>2. host.has \in {{}, {"cq"}, {"cq", "sq"}}
      BY <1>1 DEF HostTypes
    <3> QED
      BY <1>3, <2>2, <3>1, <3>2
  <2>4. d # c /\ c.op \in DataOp
    <3>1. d # c
      BY <1>5, <2>3
    <3>2. d.op \notin DataOp
      BY <2>1, WorkloadAssumption
    <3> QED
      BY <1>1, <1>7, <2>1, <2>3, <3>1, <3>2 DEF Cmds, CmdOne
  <2>5. host'.has = host.has
    <3>1. c.op \notin QueueOp
      BY <2>4, WorkloadAssumption
    <3> QED
      BY <1>2, <1>3, <3>1 DEF Makes
  <2>6. cqMem'[1] = cqMem[1]
    BY <1>3, <1>5, <2>3
  <2>7. Posted(Adm, d.cid)' => Posted(Adm, d.cid)
    BY <1>12, <2>3
  <2>8. IoBells' => IoBells
    <3>1. {"IO_TAIL", "IO_HEAD"} \subseteq Doorbells /\ r = "ADM_HEAD"
      BY <1>23, <2>3, BellNames DEF Doorbells
    <3> QED
      BY <1>24, <3>1 DEF IoBells
  <2>9. UnfetchedCmd(d) => UnfetchedCmd(d)'
    <3> SUFFICES ASSUME UnfetchedCmd(d) PROVE UnfetchedCmd(d)'
      OBVIOUS
    <3>1. PICK s \in Slots(Adm) : Age(Adm, s) \in 1..Unfetched(Adm) /\ sqMem[Adm][s] = d
      BY DEF UnfetchedCmd
    <3>2. sqMem'[Adm][s] = d
      BY <1>5, <2>3, <2>4, <3>1
    <3> QED
      BY <1>22, <3>1, <3>2 DEF UnfetchedCmd
  <2>10. (NewCqMade => NewCqMade') /\ (NewSqMade => NewSqMade')
    BY <1>2 DEF NewCqMade, NewSqMade, CqUp, SqUp
  <2>11. cpu = "tc" => cpu' = "tc"
    BY <1>2
  <2> QED
    BY <2>1, <2>5, <2>6, <2>7, <2>8, <2>9, <2>10, <2>11, CreateKept
<1>27. Room'
  <2>1. cpu' = cpu
    BY <1>2
  <2>2. CASE q # Adm
    <3>1. host'.out[Adm] = host.out[Adm] /\ Lag(Adm)' = Lag(Adm)
      BY <1>3, <1>5, <1>10, <1>21, <2>2
    <3> QED
      BY <1>21, <1>22, <2>1, <3>1 DEF Room
  <2>3. CASE q = Adm
    <3>1. PICK T : T = host.out[Adm]
      OBVIOUS
    <3>2. IsFiniteSet(T) /\ c \in T /\ host'.out[Adm] = T \ {c}
      BY <1>1, <1>3, <1>5, <1>7, <2>3, <3>1 DEF Cmds, CmdCount
    <3>3. Cardinality(T \ {c}) = Cardinality(T) - 1 /\ Cardinality(T) \in Nat
      BY <3>2, FS_RemoveElement, FS_CardinalityType
    <3>4. Lag(Adm)' = Lag(Adm) + 1 /\ Lag(Adm) \in Nat /\ Unfetched(Adm) \in Nat
      BY <1>1, <1>3, <1>9, <2>3, RingTypes, AgeTypes
    <3>5. PICK u \in Nat, l \in Nat, k \in Nat :
             u = Unfetched(Adm) /\ l = Lag(Adm) /\ k = Cardinality(T)
      BY <3>3, <3>4
    <3>6. cpu # "tc" => (k - u) + l <= AdmSize - 1
      BY <1>21, <3>1, <3>5 DEF Room
    <3>7. AdmSize \in Nat
      BY Sizes
    <3>8. cpu # "tc" => ((k - 1) - u) + (l + 1) <= AdmSize - 1
      BY <3>5, <3>6, <3>7
    <3>9. Cardinality(host'.out[Adm]) = k - 1 /\ Lag(Adm)' = l + 1 /\ Unfetched(Adm)' = u
      BY <1>22, <3>2, <3>3, <3>4, <3>5
    <3> QED
      BY <2>1, <3>8, <3>9 DEF Room
  <2> QED
    BY <2>2, <2>3
<1>28. DataCmds'
  <2> SUFFICES ASSUME NEW d \in host'.out[Adm], d.op \in DataOp PROVE DataOf(d)'
    BY DEF DataCmds
  <2>1. d \in host.out[Adm]
    BY <1>3, <1>5
  <2>2. DataOf(d) /\ d.cid \in Cid
    BY <1>3, <1>21, <2>1 DEF DataCmds, Commands
  <2>3. Moved(d.cid)' <=> Moved(d.cid)
    BY <1>2 DEF Moved
  <2>4. CASE q # Adm
    <3>1. PostKeeps(Adm) /\ host'.out[Adm] = host.out[Adm]
      BY <1>3, <1>5, <1>10, <1>21, <2>4
    <3>2. host'.head[Adm] = host.head[Adm]
      BY <1>2, <1>3, <2>4
    <3>3. Got(d)' = Got(d)
      BY <1>2, <2>2, <2>4 DEF Got
    <3>4. Posted(Adm, d.cid)' <=> Posted(Adm, d.cid)
      BY <3>1, PostedKept
    <3>5. \A e \in host.out[Adm] : Behind(d, e) => e \in host'.out[Adm] /\ Behind(d, e)'
      BY <3>1, <3>2, BehindKept
    <3> QED
      BY <2>2, <2>3, <3>3, <3>4, <3>5, DataKept
  <2>5. CASE q = Adm
    <3>1. d.cid # c.cid
      BY <1>5, <1>7, <2>5
    <3>2. Got(d)' = Got(d)
      BY <1>2, <2>2, <3>1 DEF Got
    <3>3. Posted(Adm, d.cid)' <=> Posted(Adm, d.cid)
      BY <1>12, <1>13, <2>5, <3>1
    <3>4. ASSUME NEW e \in host.out[Adm], Behind(d, e)
          PROVE  e \in host'.out[Adm] /\ Behind(d, e)'
      <4>1. e # c
        <5> SUFFICES ASSUME e = c PROVE FALSE
          OBVIOUS
        <5>1. PICK h \in Slots(Adm) : h = host.head[Adm] /\ PostedAt(Adm, c.cid, h)
                                       /\ Offset(Adm, h) = 0
          BY <1>7, <1>9, <2>5
        <5>2. PICK z \in Slots(Adm) : Offset(Adm, z) < Offset(Adm, h)
          BY <3>4, <5>1 DEF Behind
        <5>3. Offset(Adm, z) \in 0..(Size[Adm] - 1)
          BY <1>1, <1>3, RingTypes
        <5> QED
          BY <5>1, <5>2, <5>3
      <4>2. ASSUME NEW s \in Slots(Adm), PostedAt(Adm, e.cid, s)'
            PROVE  \E z \in Slots(Adm) : PostedAt(Adm, d.cid, z)' /\ Offset(Adm, z)' < Offset(Adm, s)'
        <5>1. PostedAt(Adm, e.cid, s) /\ s # host.head[Adm]
          BY <1>9, <2>5, <4>2 DEF PostLess
        <5>2. PICK z \in Slots(Adm) : PostedAt(Adm, d.cid, z) /\ Offset(Adm, z) < Offset(Adm, s)
          BY <3>4, <5>1 DEF Behind
        <5>3. z # host.head[Adm]
          BY <1>9, <2>5, <3>1, <5>2
        <5>4. PostedAt(Adm, d.cid, z)'
          BY <1>9, <2>5, <5>2, <5>3 DEF PostLess
        <5>5. Offset(Adm, z)' = Offset(Adm, z) - 1 /\ Offset(Adm, s)' = Offset(Adm, s) - 1
          BY <1>9, <2>5, <5>1, <5>3
        <5>6. Offset(Adm, z) \in Int /\ Offset(Adm, s) \in Int
          BY <1>1, <1>3, RingTypes, SMTT(30)
        <5>7. Offset(Adm, z)' < Offset(Adm, s)'
          BY <5>2, <5>5, <5>6
        <5> QED
          BY <5>4, <5>7
      <4>3. Behind(d, e)'
        BY <4>2 DEF Behind
      <4> QED
        BY <1>5, <2>5, <4>1, <4>3
    <3> QED
      BY <2>2, <2>3, <3>2, <3>3, <3>4, DataKept
  <2> QED
    BY <2>4, <2>5
<1>29. DataResp'
  BY <1>2, <1>21 DEF DataResp
<1>30. Bells'
  <2> SUFFICES ASSUME NEW p \in Queue PROVE TailBell(p)' /\ HeadBell(p)'
    BY DEF Bells
  <2>1. TailBell(p) /\ HeadBell(p)
    BY <1>1 DEF Bells
  <2>2. /\ DOORBELL_TAIL(p) \in Doorbells /\ DOORBELL_HEAD(p) \in Doorbells
        /\ DOORBELL_TAIL(p) # r /\ (p # q => DOORBELL_HEAD(p) # r)
    BY <1>23, DoorbellsAre, BellNames
  <2>3. ~IoBells => ~InIrq(DOORBELL_TAIL(1)) /\ ~InIrq(DOORBELL_HEAD(1))
    BY BellNames DEF IoBells
  <2>4. TailBell(p)'
    <3>1. reg'[DOORBELL_TAIL(p)] = reg[DOORBELL_TAIL(p)] /\ sq' = sq
          /\ (InIrq(DOORBELL_TAIL(p))' => InIrq(DOORBELL_TAIL(p)))
      BY <1>2, <1>24, <2>2
    <3>2. CASE SqOn(p)
      <4>1. host'.tail[p] = host.tail[p] /\ SqOn(p)'
        BY <1>2, <1>6, <3>2
      <4> QED
        BY <2>1, <3>1, <3>2, <4>1 DEF TailBell
    <3>3. CASE ~SqOn(p) /\ ~SqOn(p)'
      BY <2>1, <3>1, <3>3 DEF TailBell
    <3>4. CASE ~SqOn(p) /\ SqOn(p)'
      <4>1. p = 1 /\ ~IoBells
        BY <1>6, <1>8, <3>4
      <4>2. ~InIrq(DOORBELL_TAIL(p))'
        BY <2>3, <3>1, <4>1
      <4> QED
        BY <4>2 DEF TailBell
    <3> QED
      BY <3>2, <3>3, <3>4
  <2>5. CASE p = q
    <3>1. ~(Makes(c, "create_cq") /\ p = 1)
      BY <1>3, <1>6, <2>5
    <3>2. host'.head[p] = v /\ cq' = cq
      BY <1>2, <1>23, <2>5, <3>1
    <3>3. HeadBell(p)'
      BY <1>23, <1>24, <2>5, <3>2 DEF HeadBell
    <3> QED
      BY <2>4, <3>3
  <2>6. CASE p # q
    <3>1. reg'[DOORBELL_HEAD(p)] = reg[DOORBELL_HEAD(p)] /\ cq' = cq
          /\ (InIrq(DOORBELL_HEAD(p))' <=> InIrq(DOORBELL_HEAD(p)))
      BY <1>2, <1>24, <2>2, <2>6
    <3>2. CASE CqOn(p)
      <4>1. ~(Makes(c, "create_cq") /\ p = 1)
        BY <1>6, <3>2
      <4>2. host'.head[p] = host.head[p]
        BY <1>2, <2>6, <4>1
      <4>3. HeadBell(p)'
        BY <2>1, <3>1, <3>2, <4>2 DEF HeadBell
      <4> QED
        BY <2>4, <4>3
    <3>3. CASE ~CqOn(p) /\ CqOn(p)'
      <4>1. p = 1 /\ Makes(c, "create_cq")
        BY <1>6, <3>3
      <4>2. ~IoBells /\ cq[1].head = 0
        BY <1>8, <4>1 DEF NewCqMade
      <4>3. host'.head[p] = 0
        BY <1>2, <4>1
      <4>4. ~InIrq(DOORBELL_HEAD(p))'
        BY <2>3, <3>1, <4>1, <4>2
      <4>5. HeadBell(p)'
        BY <3>1, <4>1, <4>2, <4>3, <4>4 DEF HeadBell
      <4> QED
        BY <2>4, <4>5
    <3>4. CASE ~CqOn(p)'
      <4>1. HeadBell(p)'
        BY <3>4 DEF HeadBell
      <4> QED
        BY <2>4, <4>1
    <3> QED
      BY <3>2, <3>3, <3>4
  <2> QED
    BY <2>5, <2>6
<1>31. Running'
  BY <1>25, <1>26, <1>27, <1>28, <1>29 DEF Running, Data
<1> QED
  BY <1>4, <1>18, <1>19, <1>20, <1>30, <1>31

-----------------------------------------------------------------------------
(* The commands: the controller handles a write                            *)

\* What nvme_tc_irq_handler does to the ends of the queues and to what is fetched.
Handled ==
  /\ irq # <<>> /\ irq' = Tail(irq) /\ cpu # "fill" /\ cpu' # "fill"
  /\ (IF irq' = <<>> THEN cpu' = "idle" ELSE cpu' = "tc")
  /\ UNCHANGED <<reg, filling, resp, tx, txDone, host, memory>>
  /\ \A p \in Queue :
       /\ cq'[p].tail = cq[p].tail /\ cq'[p].phase = cq[p].phase
       /\ cq'[p].head = IF Head(irq) = DOORBELL_HEAD(p) THEN reg[DOORBELL_HEAD(p)]
                        ELSE cq[p].head
       /\ sq'[p].head = IF Head(irq) = DOORBELL_TAIL(p) THEN reg[DOORBELL_TAIL(p)]
                        ELSE sq[p].head
       /\ IF Head(irq) = DOORBELL_TAIL(p)
            THEN \E t \in Slots(p), P \in Nat : TailServed(p, t, P) ELSE RanOf(p, 0)
  /\ Head(irq) \notin {"IO_TAIL", "IO_HEAD"} => sq'[1] = sq[1] /\ cq'[1] = cq[1]

LEMMA HandledIs ==
  ASSUME Shapes, Types, Sized, Serve
  PROVE  Handled
<1>1. /\ irq # <<>> /\ irq' = Tail(irq) /\ cpu # "fill" /\ cpu' # "fill"
      /\ (IF irq' = <<>> THEN cpu' = "idle" ELSE cpu' = "tc")
      /\ UNCHANGED <<reg, filling, resp, tx, txDone, host, memory>>
  BY DEF Serve
<1>2. PICK r : r = Head(irq)
  OBVIOUS
<1>3. \/ r = "CC" /\ CcHandler
      \/ r = "AQA" /\ AqaHandler
      \/ r \in {"ASQ_0", "ASQ_1"} /\ AsqHandler(r)
      \/ r \in {"ACQ_0", "ACQ_1"} /\ AcqHandler(r)
      \/ \E q \in Queue : r = DOORBELL_TAIL(q) /\ TailHandler(q)
      \/ \E q \in Queue : r = DOORBELL_HEAD(q) /\ HeadHandler(q)
  BY <1>2 DEF Serve
<1>4. /\ Adm \in Queue /\ 1 \in Queue /\ Adm # 1 /\ Queue = {Adm, 1}
      /\ DOMAIN sq = Queue /\ DOMAIN cq = Queue /\ irq \in Seq(Register)
      /\ \A p \in Queue : sq[p] \in [base : Words, size : {0, Size[p]}, head : Slots(p), tail : Slots(p)]
      /\ \A p \in Queue : cq[p] \in [base : Words, size : {0, Size[p]}, head : Slots(p),
                                     tail : Slots(p), phase : {0, 1}]
  BY Sizes DEF Shapes, Types, SqTypes, CqTypes, OkCqs
<1>5. rx' = rx => \A p \in Queue : RanOf(p, 0)
  BY RanIs DEF Ran
<1>6. /\ \A p, s \in Queue : DOORBELL_TAIL(p) # DOORBELL_HEAD(s)
      /\ \A p, s \in Queue : DOORBELL_TAIL(p) = DOORBELL_TAIL(s) => p = s
      /\ \A p, s \in Queue : DOORBELL_HEAD(p) = DOORBELL_HEAD(s) => p = s
      /\ \A p \in Queue : DOORBELL_TAIL(p) \in Doorbells /\ DOORBELL_HEAD(p) \in Doorbells
      /\ DOORBELL_TAIL(1) = "IO_TAIL" /\ DOORBELL_HEAD(1) = "IO_HEAD"
      /\ "CC" \notin Doorbells /\ "AQA" \notin Doorbells /\ "ASQ_0" \notin Doorbells
      /\ "ASQ_1" \notin Doorbells /\ "ACQ_0" \notin Doorbells /\ "ACQ_1" \notin Doorbells
  BY BellNames, DoorbellsAre DEF Doorbells
<1>7. ASSUME rx' = rx, r \notin Doorbells,
             \A p \in Queue : /\ sq'[p].head = sq[p].head /\ cq'[p].head = cq[p].head
                              /\ cq'[p].tail = cq[p].tail /\ cq'[p].phase = cq[p].phase,
             sq'[1] = sq[1], cq'[1] = cq[1]
      PROVE  Handled
  BY <1>1, <1>2, <1>5, <1>6, <1>7 DEF Handled
<1>8. CASE r = "CC" /\ CcHandler
  BY <1>6, <1>7, <1>8 DEF CcHandler
<1>9. CASE r = "AQA" /\ AqaHandler
  <2>1. PICK z : z = reg["AQA"] + 1
    OBVIOUS
  <2>2. /\ sq' = [sq EXCEPT ![Adm] = [sq[Adm] EXCEPT !.size = z]]
        /\ cq' = [cq EXCEPT ![Adm] = [cq[Adm] EXCEPT !.size = z]] /\ rx' = rx
    BY <1>9, <2>1 DEF AqaHandler
  <2>3. /\ \A p \in Queue : /\ sq'[p].head = sq[p].head /\ cq'[p].head = cq[p].head
                            /\ cq'[p].tail = cq[p].tail /\ cq'[p].phase = cq[p].phase
        /\ sq'[1] = sq[1] /\ cq'[1] = cq[1]
    BY <1>4, <2>2
  <2> QED
    BY <1>6, <1>7, <1>9, <2>2, <2>3
<1>10. CASE r \in {"ASQ_0", "ASQ_1"} /\ AsqHandler(r)
  <2>1. PICK z : z = IF r = "ASQ_1" THEN <<reg["ASQ_0"], reg["ASQ_1"]>> ELSE sq[Adm].base
    OBVIOUS
  <2>2. sq' = [sq EXCEPT ![Adm] = [sq[Adm] EXCEPT !.base = z]] /\ cq' = cq /\ rx' = rx
    BY <1>10, <2>1, Zenon DEF AsqHandler
  <2>3. (\A p \in Queue : sq'[p].head = sq[p].head) /\ sq'[1] = sq[1]
    BY <1>4, <2>2
  <2> QED
    BY <1>6, <1>7, <1>10, <2>2, <2>3
<1>11. CASE r \in {"ACQ_0", "ACQ_1"} /\ AcqHandler(r)
  <2>1. PICK z : z = IF r = "ACQ_1" THEN <<reg["ACQ_0"], reg["ACQ_1"]>> ELSE cq[Adm].base
    OBVIOUS
  <2>2. cq' = [cq EXCEPT ![Adm] = [cq[Adm] EXCEPT !.base = z]] /\ sq' = sq /\ rx' = rx
    BY <1>11, <2>1, Zenon DEF AcqHandler
  <2>3. /\ \A p \in Queue : /\ cq'[p].head = cq[p].head /\ cq'[p].tail = cq[p].tail
                            /\ cq'[p].phase = cq[p].phase
        /\ cq'[1] = cq[1]
    BY <1>4, <2>2
  <2> QED
    BY <1>6, <1>7, <1>11, <2>2, <2>3
<1>12. ASSUME NEW q \in Queue, r = DOORBELL_TAIL(q), TailHandler(q) PROVE Handled
  <2>1. PICK t \in Slots(q), P \in Nat : TailServed(q, t, P)
    BY <1>1, <1>2, <1>4, <1>12, TailIs
  <2>2. /\ t = reg[DOORBELL_TAIL(q)] /\ cq' = cq
        /\ sq' = [sq EXCEPT ![q] = [sq[q] EXCEPT !.tail = t, !.head = t]]
        /\ rx' \in Seq(Fetches) /\ Len(rx') = Len(rx) + P
        /\ \A m \in 1..Len(rx) : rx'[m] = rx[m]
        /\ \A k \in 1..P : rx'[Len(rx) + k].qid = q
    BY <2>1 DEF TailServed
  <2>3. sq'[q].head = t /\ \A p \in Queue : p # q => sq'[p] = sq[p]
    BY <1>4, <2>2
  <2>4. ASSUME NEW p \in Queue, p # q PROVE RanOf(p, 0)
    <3>1. PICK n \in Nat : n = Len(rx)
      BY FetchTypes
    <3>2. Len(rx') = n + P
      BY <2>2, <3>1
    <3>3. ASSUME NEW m \in 1..Len(rx'), rx'[m].qid = p PROVE m \in 1..Len(rx)
      <4>1. CASE m <= n
        BY <3>1, <3>2, <3>3, <4>1
      <4>2. CASE ~(m <= n)
        <5>1. m - n \in 1..P /\ m = n + (m - n)
          BY <3>2, <3>3, <4>2
        <5>2. rx'[m].qid = q
          BY <2>2, <3>1, <5>1
        <5> QED
          BY <2>4, <3>3, <5>2
      <4> QED
        BY <4>1, <4>2
    <3>4. \A m \in 1..Len(rx') : rx'[m].qid = p => m + 0 \in 1..Len(rx) /\ rx'[m] = rx[m + 0]
      <4> SUFFICES ASSUME NEW m \in 1..Len(rx'), rx'[m].qid = p
                   PROVE  m + 0 \in 1..Len(rx) /\ rx'[m] = rx[m + 0]
        OBVIOUS
      <4>1. m \in 1..Len(rx) /\ m + 0 = m
        BY <3>3
      <4> QED
        BY <2>2, <4>1
    <3> QED
      BY <3>2, <3>4 DEF RanOf
  <2>5. \A p \in Queue : p # q => r # DOORBELL_TAIL(p)
    BY <1>6, <1>12
  <2>6. \A p \in Queue : r # DOORBELL_HEAD(p)
    BY <1>6, <1>12
  <2>7. r \notin {"IO_TAIL", "IO_HEAD"} => sq'[1] = sq[1] /\ cq'[1] = cq[1]
    BY <1>4, <1>6, <1>12, <2>2, <2>3
  <2>8. \A p \in Queue : sq'[p].head = IF r = DOORBELL_TAIL(p) THEN reg[DOORBELL_TAIL(p)]
                                       ELSE sq[p].head
    BY <1>12, <2>2, <2>3, <2>5
  <2>9. \A p \in Queue : IF r = DOORBELL_TAIL(p)
          THEN \E t1 \in Slots(p), P1 \in Nat : TailServed(p, t1, P1) ELSE RanOf(p, 0)
    <3> SUFFICES ASSUME NEW p \in Queue
                 PROVE  IF r = DOORBELL_TAIL(p)
                          THEN \E t1 \in Slots(p), P1 \in Nat : TailServed(p, t1, P1) ELSE RanOf(p, 0)
      OBVIOUS
    <3>1. CASE p = q
      BY <1>12, <2>1, <3>1
    <3>2. CASE p # q
      BY <2>4, <2>5, <3>2
    <3> QED
      BY <3>1, <3>2
  <2> QED
    BY <1>1, <1>2, <2>2, <2>6, <2>7, <2>8, <2>9 DEF Handled
<1>13. ASSUME NEW q \in Queue, r = DOORBELL_HEAD(q), HeadHandler(q) PROVE Handled
  <2>1. /\ cq' = [cq EXCEPT ![q] = [cq[q] EXCEPT !.head = reg[DOORBELL_HEAD(q)]]]
        /\ sq' = sq /\ rx' = rx
    BY <1>13 DEF HeadHandler
  <2>2. /\ cq'[q].head = reg[DOORBELL_HEAD(q)] /\ cq'[q].tail = cq[q].tail
        /\ cq'[q].phase = cq[q].phase
        /\ \A p \in Queue : p # q => cq'[p] = cq[p]
    BY <1>4, <2>1
  <2>3. \A p \in Queue : p # q => r # DOORBELL_HEAD(p)
    BY <1>6, <1>13
  <2>4. \A p \in Queue : r # DOORBELL_TAIL(p)
    BY <1>6, <1>13
  <2>5. \A p \in Queue : /\ cq'[p].tail = cq[p].tail /\ cq'[p].phase = cq[p].phase
                         /\ cq'[p].head = IF r = DOORBELL_HEAD(p) THEN reg[DOORBELL_HEAD(p)]
                                          ELSE cq[p].head
    BY <1>13, <2>2, <2>3
  <2>6. r \notin {"IO_TAIL", "IO_HEAD"} => sq'[1] = sq[1] /\ cq'[1] = cq[1]
    BY <1>4, <1>6, <1>13, <2>1, <2>2
  <2> QED
    BY <1>1, <1>2, <1>5, <2>1, <2>4, <2>5, <2>6 DEF Handled
<1> QED
  BY <1>3, <1>8, <1>9, <1>10, <1>11, <1>12, <1>13

LEMMA QueuesServe ==
  ASSUME QInv, Serve
  PROVE  Cmds' /\ Completing' /\ Submitting' /\ Running' /\ Bells' /\ Stale'
<1>1. IInv /\ Types /\ Shapes /\ HostTypes /\ Clean /\ Sized /\ Cmds /\ Completing /\ Submitting /\ Bells
  BY DEF QInv, Types, IInv
<1>2. Handled
  BY <1>1, HandledIs
<1>3. /\ irq # <<>> /\ irq' = Tail(irq) /\ cpu # "fill" /\ cpu' # "fill"
      /\ (IF irq' = <<>> THEN cpu' = "idle" ELSE cpu' = "tc")
      /\ UNCHANGED <<reg, filling, resp, tx, txDone, host, sqMem, cqMem>>
      /\ \A p \in Queue :
           /\ cq'[p].tail = cq[p].tail /\ cq'[p].phase = cq[p].phase
           /\ cq'[p].head = IF Head(irq) = DOORBELL_HEAD(p) THEN reg[DOORBELL_HEAD(p)]
                            ELSE cq[p].head
           /\ sq'[p].head = IF Head(irq) = DOORBELL_TAIL(p) THEN reg[DOORBELL_TAIL(p)]
                            ELSE sq[p].head
           /\ IF Head(irq) = DOORBELL_TAIL(p)
                THEN \E t \in Slots(p), P \in Nat : TailServed(p, t, P) ELSE RanOf(p, 0)
      /\ Head(irq) \notin {"IO_TAIL", "IO_HEAD"} => sq'[1] = sq[1] /\ cq'[1] = cq[1]
  BY <1>2 DEF Handled, memory
<1>4. host.pc # "off"
  BY <1>1, <1>3 DEF Clean
<1>5. /\ \A x : InIrq(x)' => InIrq(x) /\ irq' # <<>>
      /\ \A x : InIrq(x) /\ x # Head(irq) => InIrq(x)'
      /\ InIrq(Head(irq))
  BY <1>1, <1>3, InIrqLess
<1>6. /\ Adm \in Queue /\ 1 \in Queue /\ Adm # 1 /\ Queue = {Adm, 1}
      /\ CqOn(Adm) /\ SqOn(Adm)
      /\ \A p : (CqOn(p)' <=> CqOn(p)) /\ (SqOn(p)' <=> SqOn(p))
      /\ Busy /\ Creates /\ Room /\ DataCmds /\ DataResp
  BY <1>3, <1>4, Sizes DEF CqOn, SqOn, QInv, Running, Data
<1>7. /\ \A q, i, s : PostedAt(q, i, s)' <=> PostedAt(q, i, s)
      /\ \A q : PostKeeps(q)
      /\ \A q, i : Posted(q, i)' <=> Posted(q, i)
      /\ \A q, i : Waits(q, i)' <=> Waits(q, i)
      /\ \A q, s : Age(q, s)' = Age(q, s)
      /\ \A c, d : Behind(c, d) => Behind(c, d)'
  <2>1. \A q, i, s : PostedAt(q, i, s)' <=> PostedAt(q, i, s)
    BY <1>3 DEF PostedAt, Going, Arrived, Expect
  <2>2. \A q, i : Posted(q, i)' <=> Posted(q, i)
    BY <2>1 DEF Posted
  <2>3. \A q : PostKeeps(q)
    BY <2>1 DEF PostKeeps
  <2>4. \A q, i : Filling(q, i)' <=> Filling(q, i)
    BY <1>3 DEF Filling
  <2>5. \A q, i : Moving(q, i)' <=> Moving(q, i)
    BY <1>3 DEF Moving
  <2>6. \A q, i : Waits(q, i)' <=> Waits(q, i)
    BY <2>2, <2>4, <2>5 DEF Waits
  <2>7. \A q, s : Age(q, s)' = Age(q, s)
    BY <1>3 DEF Age
  <2>8. \A c, d : Behind(c, d) => Behind(c, d)'
    BY <1>3, <2>3, BehindKept
  <2> QED
    BY <2>1, <2>2, <2>3, <2>6, <2>7, <2>8
<1>8. Bells'
  <2> SUFFICES ASSUME NEW p \in Queue PROVE TailBell(p)' /\ HeadBell(p)'
    BY DEF Bells
  <2>1. TailBell(p) /\ HeadBell(p)
    BY <1>1 DEF Bells
  <2>2. PICK t, h : t = DOORBELL_TAIL(p) /\ h = DOORBELL_HEAD(p)
    OBVIOUS
  <2>3. /\ InIrq(t) => reg[t] = IF SqOn(p) THEN host.tail[p] ELSE sq[p].head
        /\ CqOn(p) /\ InIrq(h) => reg[h] = host.head[p]
        /\ CqOn(p) /\ cq[p].head # host.head[p] => InIrq(h)
    BY <2>1, <2>2 DEF TailBell, HeadBell
  <2>4. /\ sq'[p].head = IF Head(irq) = t THEN reg[t] ELSE sq[p].head
        /\ cq'[p].head = IF Head(irq) = h THEN reg[h] ELSE cq[p].head
        /\ reg' = reg /\ host' = host
    BY <1>3, <2>2
  <2>5. InIrq(t)' => reg'[t] = IF SqOn(p)' THEN host'.tail[p] ELSE sq'[p].head
    BY <1>5, <1>6, <2>3, <2>4
  <2>6. CqOn(p)' => /\ InIrq(h)' => reg'[h] = host'.head[p]
                    /\ cq'[p].head # host'.head[p] => InIrq(h)'
    BY <1>5, <1>6, <2>3, <2>4
  <2> QED
    BY <2>2, <2>5, <2>6 DEF TailBell, HeadBell
<1>9. \A p \in Queue : CqOn(p) => cq'[p].head \in {cq[p].head, host.head[p]}
  <2> SUFFICES ASSUME NEW p \in Queue, CqOn(p), Head(irq) = DOORBELL_HEAD(p)
               PROVE  cq'[p].head = host.head[p]
    BY <1>3
  <2>1. reg[DOORBELL_HEAD(p)] = host.head[p]
    BY <1>1, <1>5 DEF Bells, HeadBell
  <2> QED
    BY <1>3, <2>1
<1>10. Completing'
  <2> SUFFICES ASSUME NEW p \in Queue, CqOn(p) PROVE Ring(p)' /\ Under(p)'
    BY <1>6 DEF Completing
  <2>1. EndsKept(p)
    BY <1>3, <1>9 DEF EndsKept
  <2>2. ChanKeeps(p) /\ Len(tx') \in Nat
    BY <1>1, <1>3, ChanDrop, GoingTypes DEF Rest
  <2>3. Ring(p) /\ Under(p)
    BY <1>1 DEF Completing
  <2>4. Ring(p)'
    BY <1>1, <2>1, <2>2, <2>3, RingKept
  <2>5. Under(p)'
    BY <1>3, <1>7, <2>3, UnderKept
  <2> QED
    BY <2>4, <2>5
<1>11. ASSUME NEW p \in Queue, SqOn(p), Head(irq) = DOORBELL_TAIL(p) PROVE Sub(p)'
  <2>1. PICK t \in Slots(p), P \in Nat : TailServed(p, t, P)
    BY <1>3, <1>11
  <2>2. t = host.tail[p]
    BY <1>1, <1>5, <1>11, <2>1 DEF TailServed, Bells, TailBell
  <2>3. sq[p].base = Base
    <3>1. CASE p = Adm
      <4>1. host.pc # "enabling"
        <5>1. PICK n \in 1..Len(irq) : irq[n] = Head(irq)
          BY <1>5 DEF InIrq
        <5>2. Head(irq) \in Doorbells
          BY <1>11, DoorbellsAre
        <5> QED
          BY <1>1, <5>1, <5>2 DEF Clean
      <4>2. host.pc \in {"live", "stopping", "down", "disabling"}
        BY <1>1, <1>4, <4>1 DEF HostTypes
      <4> QED
        BY <1>1, <3>1, <4>2 DEF Sized, SqUp
    <3>2. CASE p = 1
      <4>1. "sq" \in host.has
        BY <1>6, <1>11, <3>2 DEF SqOn
      <4> QED
        BY <1>1, <3>2, <4>1 DEF Sized, SqUp
    <3> QED
      BY <1>6, <3>1, <3>2
  <2>4. Sub(p) /\ \A i : Waits(p, i) => Waits(p, i)'
    BY <1>1, <1>7, <1>11 DEF Submitting
  <2> QED
    BY <1>1, <1>3, <2>1, <2>2, <2>3, <2>4, SubTail
<1>12. ASSUME NEW p \in Queue, SqOn(p), Head(irq) # DOORBELL_TAIL(p) PROVE Sub(p)'
  <2>1. RanOf(p, 0) /\ sq'[p].head = sq[p].head
    BY <1>3, <1>12
  <2>2. Sub(p) /\ \A i : Waits(p, i) => Waits(p, i)'
    BY <1>1, <1>7, <1>12 DEF Submitting
  <2>3. host'.tail[p] = host.tail[p] /\ host'.out[p] = host.out[p] /\ sqMem'[p] = sqMem[p]
        /\ 0 \in 0..1 /\ 0 # 1
    BY <1>3
  <2> QED
    BY <1>1, <2>1, <2>2, <2>3, SubEngine
<1>13. Submitting'
  BY <1>6, <1>11, <1>12 DEF Submitting
<1>14. Cmds'
  <2>1. CmdIds' /\ CmdCount' /\ CmdQids' /\ CmdOne' /\ CmdNew'
    BY <1>1, <1>3 DEF Cmds, CmdIds, CmdCount, CmdQids, CmdOne, CmdNew
  <2>2. ASSUME "sq" \notin host.has PROVE \A m \in 1..Len(rx') : rx'[m].qid # 1
    <3>1. \A m \in 1..Len(rx) : rx[m].qid # 1
      BY <1>1, <1>4, <2>2 DEF Cmds, CmdNoSq
    <3>2. CASE Head(irq) # DOORBELL_TAIL(1)
      <4>1. RanOf(1, 0)
        BY <1>3, <1>6, <3>2
      <4>2. ASSUME NEW m \in 1..Len(rx'), rx'[m].qid = 1 PROVE FALSE
        <5>1. m + 0 \in 1..Len(rx) /\ rx'[m] = rx[m + 0]
          BY <4>1, <4>2 DEF RanOf
        <5> QED
          BY <3>1, <4>2, <5>1
      <4> QED
        BY <4>2
    <3>3. CASE Head(irq) = DOORBELL_TAIL(1)
      <4>1. PICK t \in Slots(1), P \in Nat : TailServed(1, t, P)
        BY <1>3, <1>6, <3>3
      <4>2. ~SqOn(1)
        BY <1>6, <2>2 DEF SqOn
      <4>3. t = sq[1].head
        BY <1>1, <1>5, <1>6, <3>3, <4>1, <4>2 DEF TailServed, Bells, TailBell
      <4>4. P = 0
        <5>1. PICK n \in Nat : n = Size[1]
          BY Sizes
        <5>2. t \in Nat
          BY DEF Slots
        <5>3. P = Dist(n, t, t)
          BY <4>1, <4>3, <5>1 DEF TailServed
        <5> QED
          BY <5>1, <5>2, <5>3 DEF Dist
      <4>5. Len(rx') = Len(rx) /\ \A m \in 1..Len(rx) : rx'[m] = rx[m]
        BY <1>1, <4>1, <4>4, FetchTypes DEF TailServed
      <4> QED
        BY <3>1, <4>5
    <3> QED
      BY <3>2, <3>3
  <2>3. CmdNoSq'
    BY <1>1, <1>3, <1>4, <2>2 DEF Cmds, CmdNoSq
  <2> QED
    BY <2>1, <2>3 DEF Cmds
<1>15. Busy'
  BY <1>3, <1>6, <1>7, BusyKept
<1>16. Creates'
  <2> SUFFICES ASSUME NEW d \in host.out[Adm], d.qid = 1 PROVE Create(d)'
    BY <1>3 DEF Creates
  <2>1. Create(d)
    BY <1>6 DEF Creates
  <2>2. UnfetchedCmd(d) => ~Posted(Adm, d.cid)
    BY <1>1, <1>6, UnfetchedWaits DEF UnfetchedCmd, Waits, Submitting
  <2>3. IoBells' => IoBells /\ cpu' = "tc"
    BY <1>3, <1>5 DEF IoBells
  <2>4. ASSUME Posted(Adm, d.cid), d.op \in {"create_sq", "create_cq"}
        PROVE  sq'[1] = sq[1] /\ cq'[1] = cq[1]
    <3>1. ~IoBells
      BY <2>1, <2>2, <2>4 DEF Create
    <3>2. Head(irq) \notin {"IO_TAIL", "IO_HEAD"}
      BY <1>5, <3>1 DEF IoBells
    <3> QED
      BY <1>3, <3>2
  <2>5. host'.has = host.has /\ cqMem' = cqMem /\ (Posted(Adm, d.cid)' <=> Posted(Adm, d.cid))
    BY <1>3, <1>7
  <2>6. d.op = "create_cq" /\ Posted(Adm, d.cid) => NewCqMade'
    BY <2>1, <2>4 DEF Create, NewCqMade, CqUp
  <2>7. d.op = "create_sq" /\ Posted(Adm, d.cid) => NewSqMade'
    BY <2>1, <2>4 DEF Create, NewSqMade, SqUp
  <2>8. d.op \in {"create_sq", "create_cq"} /\ IoBells' => cpu' = "tc" /\ ~Posted(Adm, d.cid)'
    BY <2>1, <2>2, <2>3, <2>5 DEF Create
  <2> QED
    BY <2>1, <2>5, <2>6, <2>7, <2>8 DEF Create
<1>17. Room'
  <2> SUFFICES ASSUME cpu' # "tc"
               PROVE  (Cardinality(host.out[Adm]) - Unfetched(Adm)') + Lag(Adm)' <= AdmSize - 1
    BY <1>3 DEF Room
  <2>1. ~InIrq(DOORBELL_HEAD(Adm))'
    BY <1>3, <1>5
  <2>2. cq'[Adm].head = host.head[Adm]
    BY <1>3, <1>6, <1>8, <2>1 DEF Bells, HeadBell
  <2>3. Lag(Adm)' = 0
    <3>1. PICK n, h : n = Size[Adm] /\ h = host.head[Adm] /\ n \in Nat /\ h \in Nat
      BY <1>1, <1>6, RingTypes, SMTT(30)
    <3>2. Lag(Adm)' = Dist(n, h, h)
      BY <1>3, <2>2, <3>1 DEF Lag
    <3> QED
      BY <3>1, <3>2 DEF Dist
  <2>4. Unfetched(Adm)' \in Nat
    <3>1. PICK z \in Slots(Adm) : z = sq'[Adm].head
      <4>1. reg[DOORBELL_TAIL(Adm)] \in Slots(Adm)
        BY <1>1, <1>6 DEF Types, RegTypes
      <4>2. sq[Adm].head \in Slots(Adm)
        BY <1>1, <1>6, AgeTypes
      <4> QED
        BY <1>3, <1>6, <4>1, <4>2
    <3>2. Unfetched(Adm)' = Age(Adm, z)
      BY <1>3, <3>1 DEF Unfetched, Age
    <3>3. Age(Adm, z) \in 0..(Size[Adm] - 1)
      BY <1>1, <1>6, AgeTypes
    <3> QED
      BY <3>2, <3>3
  <2>5. Cardinality(host.out[Adm]) \in Nat /\ Cardinality(host.out[Adm]) <= AdmSize - 1
    BY <1>1, <1>6, Sizes, FS_CardinalityType DEF Cmds, CmdCount
  <2>6. PICK u \in Nat, k \in Nat : u = Unfetched(Adm)' /\ k = Cardinality(host.out[Adm])
    BY <2>4, <2>5
  <2>7. AdmSize \in Nat /\ k <= AdmSize - 1
    BY <2>5, <2>6, Sizes
  <2>8. (k - u) + 0 <= AdmSize - 1
    BY <2>6, <2>7
  <2> QED
    BY <2>3, <2>6, <2>8
<1>18. DataCmds'
  <2> SUFFICES ASSUME NEW d \in host.out[Adm], d.op \in DataOp PROVE DataOf(d)'
    BY <1>3 DEF DataCmds
  <2>1. DataOf(d)
    BY <1>6 DEF DataCmds
  <2>2. Got(d)' = Got(d) /\ (Moved(d.cid)' <=> Moved(d.cid))
    BY <1>3 DEF Got, Moved
  <2> QED
    BY <1>3, <1>7, <2>1, <2>2, DataKept
<1>19. DataResp'
  BY <1>3, <1>6 DEF DataResp
<1>20. Stale'
  BY <1>3, <1>4 DEF Stale
<1>21. Running'
  BY <1>15, <1>16, <1>17, <1>18, <1>19 DEF Running, Data
<1> QED
  BY <1>8, <1>10, <1>13, <1>14, <1>20, <1>21

-----------------------------------------------------------------------------
(* The commands: nvme_cmd_return                                           *)

\* A completion is put at the end of queue q, or dropped; the rings stay whole.
LEMMA PutKeeps ==
  ASSUME Types, NEW q \in Queue, CqOn(q), CqUp(q), NEW c, c.cid \in Cid, c.op \in Op,
         NEW qs, OkCqs(qs), NEW t, Rest(t), Posts(c, q, qs, t) \/ Drops(q, qs, t),
         \A p \in Queue : CqOn(p) => qs[p] = cq[p] /\ Ring(p),
         cqMem' = cqMem, host'.head = host.head, host'.phase = host.phase
  PROVE  /\ \A p \in Queue : CqOn(p) => /\ Ring(p)' /\ Lag(p)' = Lag(p)
                                        /\ (p # q => PostKeeps(p))
         /\ Drops(q, qs, t) => PostKeeps(q)
         /\ Posts(c, q, qs, t) => PostMore(q, Completion(c, q, cq[q]))
<1>1. qs[q] = cq[q] /\ Ring(q) /\ DOMAIN qs = Queue
  BY DEF OkCqs
<1>2. cq[q] \in [base : Words, size : {0, Size[q]}, head : Slots(q), tail : Slots(q),
                 phase : {0, 1}]
  BY DEF Types, CqTypes, OkCqs
<1>3. CASE Drops(q, qs, t)
  <2>1. cq' = qs /\ tx' = t
    BY <1>3 DEF Drops
  <2>2. Len(tx') \in Nat
    BY <2>1, RestIs
  <2>3. \A p \in Queue : ChanKeeps(p)
    BY <2>1, ChanDrop
  <2>4. ASSUME NEW p \in Queue, CqOn(p)
        PROVE  Ring(p)' /\ Lag(p)' = Lag(p) /\ PostKeeps(p)
    <3>1. cq'[p] = cq[p] /\ Ring(p)
      BY <2>1, <2>4
    <3>2. EndsKept(p)
      BY <3>1 DEF EndsKept
    <3>3. Ring(p)' /\ PostKeeps(p)
      BY <2>2, <2>3, <3>1, <3>2, RingKept
    <3>4. Lag(p)' = Lag(p)
      BY <3>1 DEF Lag
    <3> QED
      BY <3>3, <3>4
  <2>5. ~Posts(c, q, qs, t)
    BY <1>3 DEF Posts, Drops
  <2> QED
    BY <2>4, <2>5
<1>4. CASE Posts(c, q, qs, t)
  <2>1. PICK e : e = Completion(c, q, cq[q])
    OBVIOUS
  <2>2. /\ e.kind = "cq" /\ e.qid = q /\ e.base = Base /\ e.slot = cq[q].tail
        /\ e.p = Stamp(cq[q]) /\ e.cid = c.cid
    BY <2>1 DEF Completion, CqUp
  <2>3. e \in Transfers
    <3>1. Stamp(cq[q]) \in {0, 1}
      BY <1>2 DEF Stamp
    <3>2. cq[q].tail \in Nat /\ cq[q].base \in Words
      BY <1>2 DEF Slots
    <3> QED
      BY <2>1, <3>1, <3>2 DEF Completion, Transfers
  <2>4. /\ cq[q].head # (cq[q].tail + 1) % Size[q]
        /\ cq' = [qs EXCEPT ![q] = [cq[q] EXCEPT !.tail = (cq[q].tail + 1) % Size[q],
                                                 !.phase = Stamp(cq[q])]]
        /\ tx' = Append(t, e)
    BY <1>1, <1>4, <2>1 DEF Posts
  <2>5. PICK d \in 0..1 : ChanMore(q, d, e) /\ \A p \in Queue : p # q => ChanShift(p, d)
    BY <2>2, <2>3, <2>4, ChanPost
  <2>6. Len(tx') \in Nat
    BY <2>5 DEF ChanMore
  <2>7. EndPosts(q, e)
    <3>1. /\ cq'[q].tail = (cq[q].tail + 1) % Size[q] /\ cq'[q].phase = Stamp(cq[q])
          /\ cq'[q].head = cq[q].head
      BY <1>1, <1>2, <2>4
    <3> QED
      BY <2>2, <2>4, <3>1 DEF EndPosts
  <2>8. Ring(q)' /\ PostMore(q, e) /\ Lag(q)' = Lag(q)
    BY <1>1, <2>5, <2>7, RingPost
  <2>9. ASSUME NEW p \in Queue, CqOn(p), p # q
        PROVE  Ring(p)' /\ Lag(p)' = Lag(p) /\ PostKeeps(p)
    <3>1. cq'[p] = cq[p] /\ Ring(p)
      BY <1>1, <2>4, <2>9
    <3>2. EndsKept(p)
      BY <3>1 DEF EndsKept
    <3>3. ChanKeeps(p)
      BY <2>5, <2>9 DEF ChanKeeps
    <3>4. Ring(p)' /\ PostKeeps(p)
      BY <2>6, <3>1, <3>2, <3>3, RingKept
    <3>5. Lag(p)' = Lag(p)
      BY <3>1 DEF Lag
    <3> QED
      BY <3>4, <3>5
  <2>10. ~Drops(q, qs, t)
    BY <1>4 DEF Posts, Drops
  <2> QED
    BY <2>1, <2>8, <2>9, <2>10
<1> QED
  BY <1>3, <1>4

LEMMA RestOk ==
  ASSUME Types, NEW t, Rest(t)
  PROVE  OkTxs(t)
<1>1. OkTxs(tx)
  BY DEF Types, TxTypes, OkTxs
<1> QED
  BY <1>1, TxTail DEF Rest

\* What is posted is what was, and the completion of command c.
LEMMA PutPosted ==
  ASSUME Types, NEW q \in Queue, CqOn(q), CqUp(q), NEW c, c.cid \in Cid, c.op \in Op,
         NEW qs, OkCqs(qs), NEW t, Rest(t), Posts(c, q, qs, t) \/ Drops(q, qs, t),
         \A p \in Queue : CqOn(p) => qs[p] = cq[p] /\ Ring(p) /\ Under(p),
         cqMem' = cqMem, host'.head = host.head, host'.phase = host.phase,
         host'.out = host.out, ~Posted(q, c.cid), \E d \in host.out[q] : d.cid = c.cid
  PROVE  /\ \A p \in Queue : CqOn(p) =>
              /\ Under(p)' /\ cq'[p].head = cq[p].head
              /\ \A i : Posted(p, i) => Posted(p, i)'
              /\ \A i : Posted(p, i)' => Posted(p, i) \/ (p = q /\ i = c.cid)
         /\ CqOn(Adm) => \A d, e : Behind(d, e) /\ (q = Adm => e.cid # c.cid) => Behind(d, e)'
<1>1. /\ \A p \in Queue : CqOn(p) /\ p # q => PostKeeps(p)
      /\ Drops(q, qs, t) => PostKeeps(q)
      /\ Posts(c, q, qs, t) => PostMore(q, Completion(c, q, cq[q]))
  BY PutKeeps
<1>2. PICK e : e = Completion(c, q, cq[q])
  OBVIOUS
<1>3. e.cid = c.cid
  BY <1>2 DEF Completion
<1>4. PostKeeps(q) \/ PostMore(q, e)
  BY <1>1, <1>2
<1>5. ASSUME NEW p \in Queue, CqOn(p) PROVE cq'[p].head = cq[p].head
  <2>1. cq'[p].head = qs[p].head
    BY PostsTypes, RestOk
  <2> QED
    BY <1>5, <2>1
<1>6. ASSUME NEW p \in Queue, CqOn(p), PostKeeps(p)
      PROVE  /\ Under(p)'
             /\ \A i : Posted(p, i) => Posted(p, i)'
             /\ \A i : Posted(p, i)' => Posted(p, i)
  <2>1. Under(p) /\ host.out[p] \subseteq host'.out[p]
    BY <1>6
  <2> QED
    BY <1>6, <2>1, PostedKept, UnderKept
<1>7. ASSUME PostMore(q, e)
      PROVE  /\ Under(q)'
             /\ \A i : Posted(q, i) => Posted(q, i)'
             /\ \A i : Posted(q, i)' => Posted(q, i) \/ i = c.cid
  <2>1. \A i : Posted(q, i) => Posted(q, i)'
    <3> SUFFICES ASSUME NEW i, Posted(q, i) PROVE Posted(q, i)'
      OBVIOUS
    <3>1. PICK s \in Slots(q) : PostedAt(q, i, s)
      BY DEF Posted
    <3>2. PostedAt(q, i, s)'
      BY <1>7, <3>1 DEF PostMore
    <3> QED
      BY <3>2 DEF Posted
  <2>2. \A i : Posted(q, i)' => Posted(q, i) \/ i = c.cid
    <3> SUFFICES ASSUME NEW i, Posted(q, i)' PROVE Posted(q, i) \/ i = c.cid
      OBVIOUS
    <3>1. PICK s \in Slots(q) : PostedAt(q, i, s)'
      BY DEF Posted
    <3>2. PostedAt(q, i, s) \/ i = c.cid
      BY <1>3, <1>7, <3>1 DEF PostMore
    <3> QED
      BY <3>2 DEF Posted
  <2>3. UnderNames(q)'
    BY <2>2 DEF Under, UnderNames
  <2>4. UnderOnce(q)'
    <3> SUFFICES ASSUME NEW i, NEW s \in Slots(q), NEW r \in Slots(q), PostedAt(q, i, s)',
                        PostedAt(q, i, r)'
                 PROVE  s = r
      BY DEF UnderOnce
    <3>1. /\ PostedAt(q, i, s) \/ (i = c.cid /\ s = e.slot)
          /\ PostedAt(q, i, r) \/ (i = c.cid /\ r = e.slot)
      BY <1>3, <1>7 DEF PostMore
    <3>2. i = c.cid => ~PostedAt(q, i, s) /\ ~PostedAt(q, i, r)
      BY DEF Posted
    <3>3. UnderOnce(q)
      BY DEF Under
    <3> QED
      BY <3>1, <3>2, <3>3 DEF UnderOnce
  <2> QED
    BY <2>1, <2>2, <2>3, <2>4 DEF Under
<1>8. ASSUME CqOn(Adm), NEW d, NEW f, Behind(d, f), q = Adm => f.cid # c.cid
      PROVE  Behind(d, f)'
  <2>1. CASE PostKeeps(Adm)
    BY <1>8, <2>1, BehindKept
  <2>2. CASE ~PostKeeps(Adm)
    <3>1. q = Adm /\ PostMore(Adm, e)
      BY <1>1, <1>4, <1>8, <2>2, Sizes
    <3>2. ASSUME NEW s \in Slots(Adm), PostedAt(Adm, f.cid, s)'
          PROVE  \E r \in Slots(Adm) : PostedAt(Adm, d.cid, r)' /\ Offset(Adm, r)' < Offset(Adm, s)'
      <4>1. PostedAt(Adm, f.cid, s)
        BY <1>3, <1>8, <3>1, <3>2 DEF PostMore
      <4>2. PICK r \in Slots(Adm) : PostedAt(Adm, d.cid, r) /\ Offset(Adm, r) < Offset(Adm, s)
        BY <1>8, <4>1 DEF Behind
      <4>3. PostedAt(Adm, d.cid, r)'
        BY <3>1, <4>2 DEF PostMore
      <4>4. Offset(Adm, r)' < Offset(Adm, s)'
        BY <4>2 DEF Offset
      <4> QED
        BY <4>3, <4>4
    <3> QED
      BY <3>2 DEF Behind
  <2> QED
    BY <2>1, <2>2
<1>9. ASSUME NEW p \in Queue, CqOn(p)
      PROVE  /\ Under(p)' /\ cq'[p].head = cq[p].head
             /\ \A i : Posted(p, i) => Posted(p, i)'
             /\ \A i : Posted(p, i)' => Posted(p, i) \/ (p = q /\ i = c.cid)
  BY <1>1, <1>4, <1>5, <1>6, <1>7, <1>9
<1> QED
  BY <1>8, <1>9

-----------------------------------------------------------------------------
(* The commands: the callbacks and the engine                              *)

\* The responses on a channel that changed.
LEMMA BusyDataFrom ==
  ASSUME \A m \in 1..Len(tx') : tx'[m].kind = "data" =>
           \E x : /\ x = tx'[m].cid /\ ~Posted(Adm, x)'
                  /\ \E d \in host'.out[Adm] : d.cid = x /\ d.op = tx'[m].op
  PROVE  BusyData'
BY DEF BusyData

\* A completion that is put into a new queue is not its end.
LEMMA StalePut ==
  ASSUME Types, Stale, NEW q \in Queue, NEW c, NEW qs, OkCqs(qs), qs[Adm] = cq[Adm],
         NEW t, Rest(t), Posts(c, q, qs, t) \/ Drops(q, qs, t), host'.pc = host.pc, cqMem' = cqMem
  PROVE  Stale'
<1> SUFFICES ASSUME host.pc = "off", cq'[Adm].head = 0, cq'[Adm].tail = 0, cq'[Adm].phase = 0
             PROVE  /\ \A m \in 1..Len(tx') : Going(Adm, m)' => tx'[m].p = 0
                    /\ \A s \in Slots(Adm) : cqMem'[Adm][s].p = 0
  BY DEF Stale
<1>1. Adm \in Queue /\ DOMAIN qs = Queue
  BY Sizes DEF OkCqs
<1>2. PICK d \in 0..1 : /\ Len(t) \in Nat /\ t \in Seq(Transfers)
                        /\ \A m \in 1..Len(t) : m + d \in 1..Len(tx) /\ t[m] = tx[m + d]
  BY RestIs
<1>3. cq'[Adm] = cq[Adm] /\ \A m \in 1..Len(tx') : Going(Adm, m)' => m \in 1..Len(t) /\ tx'[m] = t[m]
  <2>1. CASE Drops(q, qs, t)
    BY <2>1 DEF Drops
  <2>2. CASE Posts(c, q, qs, t)
    <3>1. PICK e, z : e = Completion(c, q, qs[q]) /\ z = (qs[q].tail + 1) % Size[q]
      OBVIOUS
    <3>2. /\ qs[q].head # z /\ tx' = Append(t, e) /\ e.qid = q
          /\ cq' = [qs EXCEPT ![q] = [qs[q] EXCEPT !.tail = z, !.phase = Stamp(qs[q])]]
      BY <2>2, <3>1 DEF Posts, Completion
    <3>3. q # Adm
      <4> SUFFICES ASSUME q = Adm PROVE FALSE
        OBVIOUS
      <4>1. qs[q] \in [base : Words, size : {0, Size[q]}, head : Slots(q), tail : Slots(q),
                       phase : {0, 1}]
        BY DEF OkCqs
      <4>2. cq'[q].tail = z /\ cq'[q].head = qs[q].head
        BY <1>1, <3>2, <4>1
      <4> QED
        BY <3>2, <4>2
    <3>4. cq'[Adm] = cq[Adm]
      BY <1>1, <3>2, <3>3
    <3>5. /\ Len(tx') = Len(t) + 1 /\ tx'[Len(t) + 1] = e
          /\ \A m \in 1..Len(t) : tx'[m] = t[m]
      BY <1>2, <3>2
    <3>6. ASSUME NEW m \in 1..Len(tx'), Going(Adm, m)' PROVE m \in 1..Len(t)
      <4>1. m # Len(t) + 1
        BY <3>2, <3>3, <3>5, <3>6 DEF Going
      <4> QED
        BY <1>2, <3>5, <4>1
    <3> QED
      BY <3>4, <3>5, <3>6
  <2> QED
    BY <2>1, <2>2
<1>4. /\ \A m \in 1..Len(tx) : Going(Adm, m) => tx[m].p = 0
      /\ \A s \in Slots(Adm) : cqMem[Adm][s].p = 0
  BY <1>3 DEF Stale
<1>5. ASSUME NEW m \in 1..Len(tx'), Going(Adm, m)' PROVE tx'[m].p = 0
  <2>1. m + d \in 1..Len(tx) /\ tx'[m] = tx[m + d]
    BY <1>2, <1>3, <1>5
  <2>2. Going(Adm, m + d)
    BY <1>5, <2>1 DEF Going
  <2> QED
    BY <1>4, <2>1, <2>2
<1> QED
  BY <1>4, <1>5

\* A controller that is off: nothing is expected of what it still does.
LEMMA OffEngine ==
  ASSUME QInv, Engine, host.pc = "off"
  PROVE  Cmds' /\ Completing' /\ Submitting' /\ Running' /\ Bells'
<1>1. Types /\ Clean /\ Cmds /\ Bells
  BY DEF QInv
<1>2. /\ host'.pc = "off" /\ irq' = irq /\ host'.has = host.has /\ host'.out = host.out
      /\ host'.tail = host.tail /\ host'.head = host.head /\ host'.phase = host.phase
  BY <1>1, EngineIs
<1>3. host.has = {} /\ irq = <<>>
  BY <1>1 DEF Clean, Cmds, CmdNew
<1>4. \A q \in Queue : ~CqOn(q)' /\ ~SqOn(q)'
  BY <1>2, <1>3, Sizes DEF CqOn, SqOn
<1>5. \A x : ~InIrq(x)'
  BY <1>2, <1>3 DEF InIrq
<1>6. Cmds'
  <2>1. CmdNoSq'
    BY <1>1, <1>2 DEF Cmds, CmdNoSq
  <2> QED
    BY <1>1, <1>2, <2>1 DEF Cmds, CmdIds, CmdCount, CmdQids, CmdOne, CmdNew
<1>7. Bells'
  BY <1>4, <1>5 DEF Bells, TailBell, HeadBell
<1> QED
  BY <1>2, <1>4, <1>6, <1>7 DEF Completing, Submitting, Running

\* The driver's view of its commands is that before; so are the doorbells.
LEMMA OnEngine ==
  ASSUME QInv, Engine, host.pc # "off",
         "sq" \notin host.has => /\ \A m \in 1..Len(rx') : rx'[m].qid # 1
                                 /\ \A m \in 1..Len(tx') : tx'[m].qid # 1,
         \A p \in Queue : CqOn(p) => cq'[p].head = cq[p].head,
         \A p \in Queue : sq'[p].head = sq[p].head \/ ~(SqOn(p) \/ InIrq(DOORBELL_TAIL(p)))
  PROVE  Cmds' /\ Bells' /\ Stale'
<1>1. Types /\ Cmds /\ Bells
  BY DEF QInv
<1>2. /\ host'.pc = host.pc /\ irq' = irq /\ reg' = reg /\ host'.has = host.has
      /\ host'.out = host.out
      /\ host'.tail = host.tail /\ host'.head = host.head /\ host'.phase = host.phase
  BY <1>1, EngineIs
<1>3. Cmds'
  <2>1. CmdNoSq'
    BY <1>1, <1>2 DEF Cmds, CmdNoSq
  <2> QED
    BY <1>1, <1>2, <2>1 DEF Cmds, CmdIds, CmdCount, CmdQids, CmdOne, CmdNew
<1>4. \A p : (CqOn(p)' <=> CqOn(p)) /\ (SqOn(p)' <=> SqOn(p)) /\ \A x : InIrq(x)' <=> InIrq(x)
  BY <1>2 DEF CqOn, SqOn, InIrq
<1>5. Bells'
  <2> SUFFICES ASSUME NEW p \in Queue PROVE TailBell(p)' /\ HeadBell(p)'
    BY DEF Bells
  <2>1. TailBell(p) /\ HeadBell(p)
    BY <1>1 DEF Bells
  <2>2. TailBell(p)'
    BY <1>2, <1>4, <2>1 DEF TailBell
  <2>3. HeadBell(p)'
    BY <1>2, <1>4, <2>1 DEF HeadBell
  <2> QED
    BY <2>2, <2>3
<1>6. Stale'
  BY <1>2 DEF Stale
<1> QED
  BY <1>3, <1>5, <1>6

\* The queues that the fetched command is of.
LEMMA FetchedOn ==
  ASSUME QInv, host.pc # "off", rx # <<>>
  PROVE  \E q \in Queue, c \in Commands :
           /\ q = rx[1].qid /\ c = Entry(rx[1]) /\ CqOn(q) /\ SqOn(q) /\ CqUp(q)
           /\ c \in host.out[q] /\ Waits(q, c.cid) /\ c.cid \in Cid /\ c.op \in Op
           /\ \A s \in Slots(q) : Age(q, s) \in 1..Unfetched(q) => sqMem[q][s].cid # c.cid
           /\ q = 1 => host.has = {"cq", "sq"} /\ c.op = "io" /\ c.qid = 0
<1>1. /\ Types /\ HostTypes /\ Clean /\ Sized /\ Cmds /\ Submitting
      /\ Adm \in Queue /\ 1 \in Queue /\ Queue = {Adm, 1}
  BY Sizes DEF QInv, Types
<1>2. PICK q, c : q = rx[1].qid /\ c = Entry(rx[1])
  OBVIOUS
<1>3. q \in Queue /\ c \in Commands /\ rx[1] \in Fetches /\ 1 \in 1..Len(rx)
  <2>1. 1 \in 1..Len(rx)
    BY <1>1, HeadTail DEF Types, RxTypes
  <2> QED
    BY <1>1, <1>2, <2>1, EntryIn
<1>4. q = 1 => host.has = {"cq", "sq"}
  <2>1. q = 1 => "sq" \in host.has
    BY <1>1, <1>2, <1>3 DEF Cmds, CmdNoSq
  <2> QED
    BY <1>1, <2>1 DEF HostTypes
<1>5. CqOn(q) /\ SqOn(q)
  BY <1>1, <1>3, <1>4 DEF CqOn, SqOn
<1>6. CqUp(q)
  <2>1. CASE q = 1
    BY <1>1, <1>4, <2>1 DEF Sized
  <2>2. CASE q = Adm
    <3>1. host.pc \in {"live", "stopping", "down", "disabling"}
      BY <1>1 DEF HostTypes, Clean
    <3> QED
      BY <1>1, <2>2, <3>1 DEF Sized
  <2> QED
    BY <1>1, <1>3, <2>1, <2>2
<1>7. Sub(q)
  BY <1>1, <1>3, <1>5 DEF Submitting
<1>8. /\ c \in host.out[q] /\ Waits(q, c.cid)
      /\ \A s \in Slots(q) : Age(q, s) \in 1..Unfetched(q) => sqMem[q][s].cid # c.cid
  BY <1>1, <1>2, <1>3, <1>7, FirstFetch
<1>9. c.cid \in Cid /\ c.op \in Op
  BY <1>3 DEF Commands
<1>10. q = 1 => c.op = "io" /\ c.qid = 0
  BY <1>1, <1>8 DEF Cmds, CmdQids
<1> QED
  BY <1>2, <1>3, <1>4, <1>5, <1>6, <1>8, <1>9, <1>10

LEMMA QueuesHandle ==
  ASSUME QInv, HandleCommand
  PROVE  Cmds' /\ Completing' /\ Submitting' /\ Running' /\ Bells' /\ Stale'
<1>1. IInv /\ Types /\ HostTypes /\ Sized /\ Cmds /\ Completing /\ Submitting /\ Bells /\ Stale
  BY DEF QInv, Types
<1>2. /\ Adm \in Queue /\ 1 \in Queue /\ Adm # 1 /\ Queue = {Adm, 1}
      /\ Engine
  BY Sizes DEF Engine, Callback
<1>3. PICK q \in Queue, c \in Commands :
        /\ rx # <<>> /\ q = rx[1].qid /\ c = Entry(rx[1]) /\ rx' = Tail(rx) /\ cpu = "idle"
        /\ c.op \notin DataOp /\ sq' = SqsAfter(c)
        /\ CqsAfter(c)[q].size = Size[q] /\ OkCqs(CqsAfter(c))
        /\ Posts(c, q, CqsAfter(c), tx) \/ Drops(q, CqsAfter(c), tx)
        /\ UNCHANGED <<reg, csts, irq, enabled, beyond, cpu, filling, resp, txDone, host, memory>>
  BY <1>1, HandleIs
<1>4. PICK qs : qs = CqsAfter(c)
  OBVIOUS
<1>5. /\ OkCqs(qs) /\ Rest(tx)
      /\ Posts(c, q, qs, tx) \/ Drops(q, qs, tx)
      /\ UNCHANGED <<sqMem, cqMem>> /\ host' = host /\ c.cid \in Cid /\ c.op \in Op
      /\ DOMAIN sq = Queue /\ DOMAIN cq = Queue
  BY <1>1, <1>3, <1>4 DEF memory, Rest, Commands, Types, SqTypes, CqTypes, OkCqs
<1>6. /\ qs[Adm] = cq[Adm] /\ sq'[Adm] = sq[Adm]
      /\ ~(c.op = "create_cq" /\ c.qid = 1) => qs = cq
      /\ ~(c.op = "create_sq" /\ c.qid = 1) => sq' = sq
  BY <1>2, <1>3, <1>4, <1>5 DEF CqsAfter, SqsAfter, CreateCq, CreateSq
<1>7. CASE host.pc = "off"
  <2>1. Stale'
    BY <1>1, <1>5, <1>6, StalePut
  <2> QED
    BY <1>2, <1>7, <2>1, OffEngine
<1>8. CASE host.pc # "off"
  <2>1. /\ CqOn(q) /\ SqOn(q) /\ CqUp(q) /\ c \in host.out[q] /\ Waits(q, c.cid)
        /\ \A s \in Slots(q) : Age(q, s) \in 1..Unfetched(q) => sqMem[q][s].cid # c.cid
        /\ q = 1 => host.has = {"cq", "sq"} /\ c.op = "io" /\ c.qid = 0
    BY <1>3, <1>8, FetchedOn
  <2>2. CqOn(Adm) /\ SqOn(Adm) /\ Busy /\ Creates /\ Room /\ DataCmds /\ DataResp
    BY <1>8 DEF CqOn, SqOn, QInv, Running, Data
  <2>3. c.qid = 1 => q = Adm /\ c.op \in QueueOp /\ Create(c)
    <3>1. c.qid = 1 => q = Adm
      BY <1>2, <2>1
    <3> QED
      BY <1>1, <2>1, <2>2, <3>1 DEF Cmds, CmdQids, Creates
  <2>4. /\ c.op = "create_cq" /\ c.qid = 1 => host.has = {}
        /\ c.op = "create_sq" /\ c.qid = 1 => host.has = {"cq"}
    BY <2>3 DEF Create
  <2>5. \A p \in Queue : CqOn(p) => qs[p] = cq[p]
    <3>1. c.op = "create_cq" /\ c.qid = 1 => ~CqOn(1)
      BY <1>2, <2>4 DEF CqOn
    <3> QED
      BY <1>2, <1>6, <3>1
  <2>6. \A p \in Queue : SqOn(p) => sq'[p] = sq[p]
    <3>1. c.op = "create_sq" /\ c.qid = 1 => ~SqOn(1)
      BY <1>2, <2>4 DEF SqOn
    <3> QED
      BY <1>2, <1>6, <3>1
  <2>7. c.qid = 1 /\ c.op \in {"create_sq", "create_cq"} => ~IoBells
    <3> SUFFICES ASSUME c.qid = 1, c.op \in {"create_sq", "create_cq"} PROVE ~IoBells
      OBVIOUS
    <3>1. q = Adm /\ (IoBells => UnfetchedCmd(c) \/ cpu = "tc")
      BY <2>3 DEF Create
    <3>2. ~UnfetchedCmd(c)
      BY <2>1, <3>1 DEF UnfetchedCmd
    <3> QED
      BY <1>3, <3>1, <3>2
  <2>8. /\ \A p \in Queue : CqOn(p) => qs[p] = cq[p] /\ Ring(p) /\ Under(p)
        /\ ~Posted(q, c.cid) /\ \E d \in host.out[q] : d.cid = c.cid
    BY <1>1, <2>1, <2>5 DEF Completing, Waits
  <2>9. \A p \in Queue : CqOn(p) => Ring(p)' /\ Lag(p)' = Lag(p)
    BY <1>1, <1>5, <2>1, <2>8, PutKeeps
  <2>10. /\ \A p \in Queue : CqOn(p) =>
              /\ Under(p)' /\ cq'[p].head = cq[p].head
              /\ \A i : Posted(p, i) => Posted(p, i)'
              /\ \A i : Posted(p, i)' => Posted(p, i) \/ (p = q /\ i = c.cid)
         /\ \A d, e : Behind(d, e) /\ (q = Adm => e.cid # c.cid) => Behind(d, e)'
    BY <1>1, <1>5, <2>1, <2>2, <2>8, PutPosted
  <2>11. \A m \in 1..Len(tx') : tx'[m].kind = "data" => m \in 1..Len(tx) /\ tx'[m] = tx[m]
    <3>1. OkTxs(tx)
      BY <1>1 DEF Types, TxTypes, OkTxs
    <3> QED
      BY <1>5, <3>1, PostsLessData
  <2>12. \A p, i : Moving(p, i)' => Moving(p, i)
    BY <2>11 DEF Moving
  <2>13. \A p \in Queue : (CqOn(p)' <=> CqOn(p)) /\ (SqOn(p)' <=> SqOn(p))
    BY <1>5 DEF CqOn, SqOn
  <2>14. Completing'
    BY <2>9, <2>10, <2>13 DEF Completing
  <2>15. Submitting'
    <3> SUFFICES ASSUME NEW p \in Queue, SqOn(p) PROVE Sub(p)'
      BY <2>13 DEF Submitting
    <3>1. CqOn(p)
      BY <1>1, <1>2 DEF SqOn, CqOn, HostTypes
    <3>2. ASSUME NEW i, Waits(p, i), ~(1 = 1 /\ rx[1].qid = p /\ i = Entry(rx[1]).cid)
          PROVE  Waits(p, i)'
      <4>1. ~(p = q /\ i = c.cid)
        BY <1>3, <3>2
      <4>2. ~Posted(p, i)'
        BY <2>10, <3>1, <3>2, <4>1 DEF Waits
      <4>3. ~Filling(p, i)'
        BY <1>3, <3>2 DEF Waits, Filling
      <4> QED
        BY <2>12, <3>2, <4>2, <4>3 DEF Waits
    <3>3. RanOf(p, 1) /\ 1 \in 0..1
      BY <1>1, <1>3, RanIs DEF Ran
    <3>4. /\ host'.tail[p] = host.tail[p] /\ host'.out[p] = host.out[p] /\ sqMem'[p] = sqMem[p]
          /\ sq'[p].head = sq[p].head /\ Sub(p)
      BY <1>1, <1>5, <2>6 DEF Submitting
    <3> QED
      BY <1>1, <3>2, <3>3, <3>4, SubEngine
  <2>16. "sq" \notin host.has => /\ \A m \in 1..Len(rx') : rx'[m].qid # 1
                                 /\ \A m \in 1..Len(tx') : tx'[m].qid # 1
    <3> SUFFICES ASSUME "sq" \notin host.has
                 PROVE  /\ \A m \in 1..Len(rx') : rx'[m].qid # 1
                        /\ \A m \in 1..Len(tx') : tx'[m].qid # 1
      OBVIOUS
    <3>1. /\ \A m \in 1..Len(rx) : rx[m].qid # 1
          /\ \A m \in 1..Len(tx) : tx[m].qid # 1
      BY <1>1, <1>8 DEF Cmds, CmdNoSq
    <3>2. q # 1
      BY <2>1
    <3>3. RanOf(1, 1)
      BY <1>1, <1>2, <1>3, RanIs DEF Ran
    <3>4. \A m \in 1..Len(rx') : rx'[m].qid # 1
      BY <3>1, <3>3 DEF RanOf
    <3>5. CASE tx' = tx
      BY <3>1, <3>4, <3>5
    <3>6. CASE Posts(c, q, qs, tx)
      <4>1. PICK e : e = Completion(c, q, qs[q])
        OBVIOUS
      <4>2. e.qid = q /\ tx' = Append(tx, e)
        BY <3>6, <4>1 DEF Posts, Completion
      <4>3. tx \in Seq(Transfers) /\ Len(tx) \in Nat
        BY <1>1 DEF Types, TxTypes
      <4>4. /\ Len(tx') = Len(tx) + 1 /\ tx'[Len(tx) + 1] = e
            /\ \A m \in 1..Len(tx) : tx'[m] = tx[m]
        BY <4>2, <4>3
      <4>5. ASSUME NEW m \in 1..Len(tx') PROVE tx'[m].qid # 1
        <5>1. m \in 1..Len(tx) \/ m = Len(tx) + 1
          BY <4>3, <4>4
        <5> QED
          BY <3>1, <3>2, <4>2, <4>4, <5>1
      <4> QED
        BY <3>4, <4>5
    <3> QED
      BY <1>5, <3>5, <3>6 DEF Drops
  <2>17. Cmds' /\ Bells' /\ Stale'
    <3>1. ASSUME NEW p \in Queue
          PROVE  sq'[p].head = sq[p].head \/ ~(SqOn(p) \/ InIrq(DOORBELL_TAIL(p)))
      <4>1. CASE c.op = "create_sq" /\ c.qid = 1 /\ p = 1
        <5>1. ~InIrq("IO_TAIL") /\ ~SqOn(1)
          BY <1>2, <2>4, <2>7, <4>1 DEF IoBells, SqOn
        <5> QED
          BY <4>1, <5>1, BellNames
      <4>2. CASE ~(c.op = "create_sq" /\ c.qid = 1 /\ p = 1)
        BY <1>2, <1>6, <4>2
      <4> QED
        BY <4>1, <4>2
    <3> QED
      BY <1>2, <1>8, <2>10, <2>16, <3>1, OnEngine
  <2>18. Busy'
    <3>1. BusyFill'
      BY <1>3 DEF BusyFill
    <3>2. ASSUME NEW m \in 1..Len(tx'), tx'[m].kind = "data"
          PROVE  \E x : /\ x = tx'[m].cid /\ ~Posted(Adm, x)'
                        /\ \E d \in host'.out[Adm] : d.cid = x /\ d.op = tx'[m].op
      <4>1. m \in 1..Len(tx) /\ tx'[m] = tx[m]
        BY <2>11, <3>2
      <4>2. PICK x : x = tx[m].cid /\ x = tx'[m].cid
        BY <4>1
      <4>3. /\ ~Posted(Adm, x)
            /\ \E d \in host.out[Adm] : d.cid = x /\ d.op = tx[m].op
        BY <2>2, <3>2, <4>1, <4>2 DEF Busy, BusyData
      <4>4. ~(q = Adm /\ x = c.cid)
        BY <2>1, <3>2, <4>1, <4>2 DEF Waits, Moving
      <4>5. ~Posted(Adm, x)'
        BY <1>2, <2>2, <2>10, <4>3, <4>4
      <4> QED
        BY <1>5, <4>1, <4>2, <4>3, <4>5
    <3>3. BusyData'
      BY <3>2, BusyDataFrom
    <3>4. BusyOnce'
      BY <2>2, <2>11 DEF Busy, BusyOnce
    <3> QED
      BY <3>1, <3>3, <3>4 DEF Busy
  <2>19. Creates'
    <3> SUFFICES ASSUME NEW d \in host.out[Adm], d.qid = 1 PROVE Create(d)'
      BY <1>5 DEF Creates
    <3>1. Create(d) /\ d.op \in QueueOp /\ d.op \notin DataOp
      <4>1. d.op \in QueueOp
        BY <1>1 DEF Cmds, CmdQids
      <4> QED
        BY <2>2, <4>1, WorkloadAssumption DEF Creates
    <3>2. q = Adm
      <4>1. d.op \in {"create_sq", "create_cq", "delete_sq", "delete_cq"}
        BY <3>1 DEF QueueOp
      <4>2. host.has # {"cq", "sq"}
        BY <3>1, <4>1 DEF Create
      <4> QED
        BY <1>2, <2>1, <4>2
    <3>3. d = c
      BY <1>1, <1>3, <2>1, <3>1, <3>2 DEF Cmds, CmdOne
    <3>4. d.op = "create_cq" => NewCqMade'
      <4> SUFFICES ASSUME d.op = "create_cq" PROVE NewCqMade'
        OBVIOUS
      <4>1. qs[1] = [base |-> Base, size |-> IoSize, head |-> 0, tail |-> 0, phase |-> 0]
        BY <1>2, <1>4, <1>5, <3>3 DEF CqsAfter, CreateCq
      <4>2. cq'[1] = qs[1]
        BY <1>2, <1>5, <3>2, PostsTypes, RestOk, <1>1
      <4> QED
        BY <4>1, <4>2, Sizes DEF NewCqMade, CqUp
    <3>5. d.op = "create_sq" => NewSqMade'
      <4> SUFFICES ASSUME d.op = "create_sq" PROVE NewSqMade'
        OBVIOUS
      <4>1. sq'[1] = [base |-> Base, size |-> IoSize, head |-> 0, tail |-> 0]
        BY <1>2, <1>3, <1>5, <3>3 DEF SqsAfter, CreateSq
      <4> QED
        BY <4>1, Sizes DEF NewSqMade, SqUp
    <3>6. d.op \in {"create_sq", "create_cq"} => ~IoBells'
      BY <1>3, <2>7, <3>3 DEF IoBells, InIrq
    <3>7. host'.has = host.has /\ cqMem'[1] = cqMem[1]
      BY <1>5
    <3> QED
      BY <3>1, <3>4, <3>5, <3>6, <3>7 DEF Create
  <2>20. Room'
    <3>1. Unfetched(Adm)' = Unfetched(Adm)
      BY <1>5, <1>6 DEF Unfetched, Age
    <3> QED
      BY <1>2, <1>3, <1>5, <2>2, <2>9, <3>1 DEF Room
  <2>21. DataCmds'
    <3> SUFFICES ASSUME NEW d \in host.out[Adm], d.op \in DataOp PROVE DataOf(d)'
      BY <1>5 DEF DataCmds
    <3>1. DataOf(d)
      BY <2>2 DEF DataCmds
    <3>2. ASSUME NEW e \in host.out[Adm], e.op \in DataOp, q = Adm PROVE e.cid # c.cid
      BY <1>1, <1>3, <2>1, <3>2 DEF Cmds, CmdIds
    <3>3. Got(d)' = Got(d)
      BY <1>5 DEF Got
    <3>4. Posted(Adm, d.cid)' <=> Posted(Adm, d.cid)
      BY <1>2, <2>2, <2>10, <3>2
    <3>5. Moved(d.cid)' <=> Moved(d.cid)
      <4>1. txDone = 1 => tx # <<>>
        BY <1>1 DEF Types, TxTypes
      <4>2. tx # <<>> => tx'[1] = tx[1]
        <5>1. tx \in Seq(Transfers)
          BY <1>1 DEF Types, TxTypes
        <5> QED
          BY <1>5, <5>1 DEF Posts, Drops
      <4> QED
        BY <1>3, <4>1, <4>2 DEF Moved
    <3>6. \A e \in host.out[Adm] : e.op = d.op /\ Behind(d, e) =>
            e \in host'.out[Adm] /\ Behind(d, e)'
      BY <1>5, <2>10, <3>2
    <3> QED
      BY <3>1, <3>3, <3>4, <3>5, <3>6, DataKept
  <2>22. DataResp'
    BY <1>3, <2>2, <2>11 DEF DataResp
  <2>23. Running'
    BY <2>18, <2>19, <2>20, <2>21, <2>22 DEF Running, Data
  <2> QED
    BY <2>14, <2>15, <2>17, <2>23
<1> QED
  BY <1>7, <1>8

\* Steps that keep the completions on the channel, and those that leave the submission
\* queues alone.
LEMMA ChanSteps ==
  ASSUME QInv, host.pc # "off", \A p \in Queue : ChanKeeps(p), Len(tx') \in Nat,
         cq' = cq, cqMem' = cqMem, host'.pc = host.pc, host'.has = host.has, host'.out = host.out,
         host'.head = host.head, host'.phase = host.phase
  PROVE  /\ Completing'
         /\ \A p \in Queue : CqOn(p) => PostKeeps(p) /\ \A i : Posted(p, i)' <=> Posted(p, i)
         /\ \A i : Posted(Adm, i)' <=> Posted(Adm, i)
         /\ Lag(Adm)' = Lag(Adm)
         /\ \A d, e : Behind(d, e) => Behind(d, e)'
<1>1. Types /\ Completing /\ CqOn(Adm) /\ Adm \in Queue
  BY Sizes DEF QInv, CqOn
<1>2. ASSUME NEW p \in Queue, CqOn(p)
      PROVE  Ring(p)' /\ Under(p)' /\ PostKeeps(p) /\ \A i : Posted(p, i)' <=> Posted(p, i)
  <2>1. Ring(p) /\ Under(p) /\ ChanKeeps(p)
    BY <1>1, <1>2 DEF Completing
  <2>2. EndsKept(p)
    BY DEF EndsKept
  <2>3. Ring(p)' /\ PostKeeps(p)
    BY <1>1, <2>1, <2>2, RingKept
  <2>4. Under(p)'
    BY <2>1, <2>3, UnderKept
  <2> QED
    BY <2>3, <2>4, PostedKept
<1>3. \A p : CqOn(p)' <=> CqOn(p)
  BY DEF CqOn
<1>4. Completing'
  BY <1>2, <1>3 DEF Completing
<1>5. PostKeeps(Adm) /\ \A i : Posted(Adm, i)' <=> Posted(Adm, i)
  BY <1>1, <1>2
<1>6. \A d, e : Behind(d, e) => Behind(d, e)'
  BY <1>5, BehindKept
<1>7. Lag(Adm)' = Lag(Adm)
  BY DEF Lag
<1> QED
  BY <1>2, <1>4, <1>5, <1>6, <1>7

LEMMA SubSteps ==
  ASSUME QInv, host.pc # "off", NEW d \in 0..1, Ran(d), sq' = sq, sqMem' = sqMem,
         host'.pc = host.pc, host'.has = host.has, host'.out = host.out, host'.tail = host.tail,
         \A p \in Queue : CqOn(p) => \A i :
           Waits(p, i) /\ ~(d = 1 /\ rx[1].qid = p /\ i = Entry(rx[1]).cid) => Waits(p, i)'
  PROVE  /\ Submitting'
         /\ Unfetched(Adm)' = Unfetched(Adm)
         /\ \A c : UnfetchedCmd(c) => UnfetchedCmd(c)'
         /\ NewSqMade => NewSqMade'
         /\ d = 1 /\ (\A m \in 1..Len(rx) : rx[m].qid # 1) => \A m \in 1..Len(rx') : rx'[m].qid # 1
<1>1. Types /\ HostTypes /\ Submitting /\ Adm \in Queue /\ 1 \in Queue /\ Queue = {Adm, 1}
  BY Sizes DEF QInv, Types
<1>2. \A p \in Queue : RanOf(p, d)
  BY <1>1, RanIs
<1>3. \A p : SqOn(p)' <=> SqOn(p)
  BY DEF SqOn
<1>4. ASSUME NEW p \in Queue, SqOn(p) PROVE Sub(p)'
  <2>1. CqOn(p)
    BY <1>1, <1>4 DEF SqOn, CqOn, HostTypes
  <2>2. \A i : Waits(p, i) /\ ~(d = 1 /\ rx[1].qid = p /\ i = Entry(rx[1]).cid) => Waits(p, i)'
    BY <2>1
  <2>3. /\ host'.tail[p] = host.tail[p] /\ host'.out[p] = host.out[p] /\ sqMem'[p] = sqMem[p]
        /\ sq'[p].head = sq[p].head /\ Sub(p) /\ RanOf(p, d)
    BY <1>1, <1>2, <1>4 DEF Submitting
  <2> QED
    BY <1>1, <2>2, <2>3, SubEngine
<1>5. Submitting'
  BY <1>3, <1>4 DEF Submitting
<1>6. Unfetched(Adm)' = Unfetched(Adm) /\ \A s : Age(Adm, s)' = Age(Adm, s)
  BY DEF Unfetched, Age
<1>7. \A c : UnfetchedCmd(c) => UnfetchedCmd(c)'
  BY <1>6 DEF UnfetchedCmd
<1>8. NewSqMade => NewSqMade'
  BY DEF NewSqMade, SqUp
<1>9. (\A m \in 1..Len(rx) : rx[m].qid # 1) => \A m \in 1..Len(rx') : rx'[m].qid # 1
  <2>1. RanOf(1, d)
    BY <1>1, <1>2
  <2> QED
    BY <2>1 DEF RanOf
<1> QED
  BY <1>5, <1>6, <1>7, <1>8, <1>9

LEMMA QueuesClear ==
  ASSUME QInv, ClearResponse
  PROVE  Cmds' /\ Completing' /\ Submitting' /\ Running' /\ Bells' /\ Stale'
<1>1. IInv /\ Types /\ HostTypes /\ Sized /\ Cmds /\ Completing /\ Submitting /\ Bells /\ Stale
  BY DEF QInv, Types
<1>2. /\ Adm \in Queue /\ 1 \in Queue /\ Adm # 1 /\ Queue = {Adm, 1}
      /\ Engine
  BY Sizes DEF Engine, Callback
<1>3. PICK c : c = Entry(Head(rx))
  OBVIOUS
<1>4. /\ rx # <<>> /\ cpu = "idle" /\ cpu' = "fill" /\ filling' = c /\ c.op \in DataOp
      /\ rx' = Tail(rx) /\ resp' = [resp EXCEPT ![c.op] = "zero"] /\ Head(rx) = rx[1]
      /\ UNCHANGED <<reg, csts, irq, enabled, sq, cq, beyond, tx, txDone, host, sqMem, cqMem>>
  BY <1>1, <1>3, EntryIn DEF ClearResponse, RespBuf, memory
<1>5. CASE host.pc = "off"
  <2>1. Stale'
    BY <1>1, <1>4 DEF Stale, Going
  <2> QED
    BY <1>2, <1>5, <2>1, OffEngine
<1>6. CASE host.pc # "off"
  <2>1. /\ c \in host.out[Adm] /\ Waits(Adm, c.cid) /\ rx[1].qid = Adm
    <3>1. PICK q \in Queue : /\ q = rx[1].qid /\ c \in host.out[q] /\ Waits(q, c.cid)
                             /\ q = 1 => c.op = "io"
      BY <1>3, <1>4, <1>6, FetchedOn
    <3>2. q = Adm
      BY <1>2, <1>4, <3>1, WorkloadAssumption
    <3> QED
      BY <3>1, <3>2
  <2>2. Busy /\ Creates /\ Room /\ DataCmds /\ DataResp
    BY <1>6 DEF QInv, Running, Data
  <2>3. (\A p \in Queue : ChanKeeps(p)) /\ Len(tx') \in Nat
    BY <1>1, <1>4, ChanDrop, GoingTypes DEF Rest
  <2>4. /\ Completing'
        /\ \A p \in Queue : CqOn(p) => PostKeeps(p) /\ \A i : Posted(p, i)' <=> Posted(p, i)
        /\ \A i : Posted(Adm, i)' <=> Posted(Adm, i)
        /\ Lag(Adm)' = Lag(Adm)
        /\ \A d, e : Behind(d, e) => Behind(d, e)'
    BY <1>4, <1>6, <2>3, ChanSteps
  <2>5. \A p, i : Moving(p, i)' <=> Moving(p, i)
    BY <1>4 DEF Moving
  <2>6. ASSUME NEW p \in Queue, CqOn(p), NEW i, Waits(p, i),
               ~(1 = 1 /\ rx[1].qid = p /\ i = Entry(rx[1]).cid)
        PROVE  Waits(p, i)'
    <3>1. ~(p = Adm /\ i = c.cid)
      BY <1>3, <1>4, <2>1, <2>6
    <3>2. ~Filling(p, i)'
      BY <1>4, <3>1 DEF Filling
    <3> QED
      BY <2>4, <2>5, <2>6, <3>2 DEF Waits
  <2>7. Ran(1) /\ 1 \in 0..1
    BY <1>4 DEF Ran
  <2>8. /\ Submitting'
        /\ Unfetched(Adm)' = Unfetched(Adm)
        /\ \A d : UnfetchedCmd(d) => UnfetchedCmd(d)'
        /\ NewSqMade => NewSqMade'
        /\ (\A m \in 1..Len(rx) : rx[m].qid # 1) => \A m \in 1..Len(rx') : rx'[m].qid # 1
    BY <1>4, <1>6, <2>6, <2>7, SubSteps
  <2>9. Cmds' /\ Bells' /\ Stale'
    <3>1. "sq" \notin host.has => /\ \A m \in 1..Len(rx') : rx'[m].qid # 1
                                  /\ \A m \in 1..Len(tx') : tx'[m].qid # 1
      BY <1>1, <1>4, <1>6, <2>8 DEF Cmds, CmdNoSq
    <3> QED
      BY <1>2, <1>4, <1>6, <3>1, OnEngine
  <2>10. Busy'
    <3>1. BusyFill'
      BY <1>4, <2>1, <2>4, <2>5 DEF BusyFill, Waits
    <3>2. BusyData'
      BY <1>4, <2>2, <2>4 DEF BusyData, Busy
    <3>3. BusyOnce'
      BY <1>4, <2>2 DEF BusyOnce, Busy
    <3> QED
      BY <3>1, <3>2, <3>3 DEF Busy
  <2>11. Creates'
    <3> SUFFICES ASSUME NEW d \in host.out[Adm], d.qid = 1 PROVE Create(d)'
      BY <1>4 DEF Creates
    <3>1. Create(d)
      BY <2>2 DEF Creates
    <3>2. NewCqMade => NewCqMade'
      BY <1>4 DEF NewCqMade, CqUp
    <3>3. IoBells' => IoBells
      BY <1>4 DEF IoBells, InIrq
    <3> QED
      BY <1>4, <2>4, <2>8, <3>1, <3>2, <3>3, CreateKept
  <2>12. Room'
    BY <1>4, <2>2, <2>4, <2>8 DEF Room
  <2>13. DataCmds'
    <3> SUFFICES ASSUME NEW d \in host.out[Adm], d.op \in DataOp PROVE DataOf(d)'
      BY <1>4 DEF DataCmds
    <3>1. DataOf(d)
      BY <2>2 DEF DataCmds
    <3>2. Got(d)' = Got(d) /\ (Moved(d.cid)' <=> Moved(d.cid))
      BY <1>4 DEF Got, Moved
    <3> QED
      BY <1>4, <2>4, <3>1, <3>2, DataKept
  <2>14. DataResp'
    <3> SUFFICES ASSUME NEW m \in 1..Len(tx), tx[m].kind = "data", resp'[tx[m].op] # tx[m].op
                 PROVE  c.op = tx[m].op
      BY <1>4 DEF DataResp
    <3>1. resp[tx[m].op] = tx[m].op
      BY <1>4, <2>2 DEF DataResp
    <3> QED
      BY <1>4, <3>1
  <2>15. Running'
    BY <2>10, <2>11, <2>12, <2>13, <2>14 DEF Running, Data
  <2> QED
    BY <2>4, <2>8, <2>9, <2>15
<1> QED
  BY <1>5, <1>6

LEMMA QueuesFill ==
  ASSUME QInv, FillResponse
  PROVE  Cmds' /\ Completing' /\ Submitting' /\ Running' /\ Bells' /\ Stale'
<1>1. IInv /\ Types /\ HostTypes /\ Sized /\ Cmds /\ Completing /\ Submitting /\ Bells /\ Stale
  BY DEF QInv, Types
<1>2. /\ Adm \in Queue /\ 1 \in Queue /\ Adm # 1 /\ Queue = {Adm, 1}
      /\ Engine
  BY Sizes DEF Engine
<1>3. PICK c, e : c = filling /\ e = Response(filling)
  OBVIOUS
<1>4. /\ cpu = "fill" /\ cpu' = "idle" /\ c.op \in DataOp
      /\ resp' = [resp EXCEPT ![c.op] = c.op]
      /\ tx' = Append(tx, e) /\ OkTransfer(e) /\ e.kind = "data" /\ e.cid = c.cid /\ e.op = c.op
      /\ UNCHANGED <<reg, csts, irq, enabled, sq, cq, beyond, rx, txDone, host, sqMem, cqMem>>
  BY <1>1, <1>3, FillIs DEF memory
<1>5. /\ Len(tx) \in Nat /\ Len(tx') = Len(tx) + 1 /\ tx'[Len(tx) + 1] = e
      /\ \A m \in 1..Len(tx) : tx'[m] = tx[m]
  <2>1. OkTxs(tx)
    BY <1>1 DEF Types, TxTypes, OkTxs
  <2> QED
    BY <1>4, <2>1, TxMore
<1>6. e.qid = Adm
  BY <1>4 DEF OkTransfer
<1>7. \A m \in 1..Len(tx') : m \in 1..Len(tx) \/ m = Len(tx) + 1
  BY <1>5
<1>8. CASE host.pc = "off"
  <2>1. \A m \in 1..Len(tx') : Going(Adm, m)' => m \in 1..Len(tx) /\ Going(Adm, m)
    BY <1>4, <1>5, <1>7 DEF Going
  <2>2. Stale'
    BY <1>1, <1>4, <1>5, <2>1 DEF Stale
  <2> QED
    BY <1>2, <1>8, <2>2, OffEngine
<1>9. CASE host.pc # "off"
  <2>1. Busy /\ Creates /\ Room /\ DataCmds /\ DataResp
    BY <1>9 DEF QInv, Running, Data
  <2>2. c \in host.out[Adm] /\ ~Moving(Adm, c.cid) /\ ~Posted(Adm, c.cid)
    BY <1>3, <1>4, <2>1 DEF Busy, BusyFill
  <2>3. (\A p \in Queue : ChanKeeps(p)) /\ Len(tx') \in Nat
    <3>1. e \in Transfers
      BY <1>4 DEF OkTransfer
    <3> QED
      BY <1>1, <1>4, <1>5, <3>1, ChanData
  <2>4. /\ Completing'
        /\ \A p \in Queue : CqOn(p) => PostKeeps(p) /\ \A i : Posted(p, i)' <=> Posted(p, i)
        /\ \A i : Posted(Adm, i)' <=> Posted(Adm, i)
        /\ Lag(Adm)' = Lag(Adm)
        /\ \A d, f : Behind(d, f) => Behind(d, f)'
    BY <1>4, <1>9, <2>3, ChanSteps
  <2>5. \A p, i : Moving(p, i)' => Moving(p, i) \/ (p = Adm /\ i = c.cid)
    BY <1>4, <1>5, <1>7 DEF Moving
  <2>6. ASSUME NEW p \in Queue, CqOn(p), NEW i, Waits(p, i) PROVE Waits(p, i)'
    <3>1. ~(p = Adm /\ i = c.cid)
      BY <1>3, <1>4, <2>6 DEF Waits, Filling
    <3>2. ~Filling(p, i)'
      BY <1>4 DEF Filling
    <3> QED
      BY <2>4, <2>5, <2>6, <3>1, <3>2 DEF Waits
  <2>7. Ran(0) /\ 0 \in 0..1
    BY <1>4 DEF Ran
  <2>8. /\ Submitting'
        /\ Unfetched(Adm)' = Unfetched(Adm)
        /\ \A d : UnfetchedCmd(d) => UnfetchedCmd(d)'
        /\ NewSqMade => NewSqMade'
    BY <1>4, <1>9, <2>6, <2>7, SubSteps
  <2>9. Cmds' /\ Bells' /\ Stale'
    <3>1. "sq" \notin host.has => /\ \A m \in 1..Len(rx') : rx'[m].qid # 1
                                  /\ \A m \in 1..Len(tx') : tx'[m].qid # 1
      <4> SUFFICES ASSUME "sq" \notin host.has
                   PROVE  /\ \A m \in 1..Len(rx') : rx'[m].qid # 1
                          /\ \A m \in 1..Len(tx') : tx'[m].qid # 1
        OBVIOUS
      <4>1. /\ \A m \in 1..Len(rx) : rx[m].qid # 1
            /\ \A m \in 1..Len(tx) : tx[m].qid # 1
        BY <1>1, <1>9 DEF Cmds, CmdNoSq
      <4> QED
        BY <1>2, <1>4, <1>5, <1>6, <1>7, <4>1
    <3> QED
      BY <1>2, <1>4, <1>9, <3>1, OnEngine
  <2>10. Busy'
    <3>1. BusyFill'
      BY <1>4 DEF BusyFill
    <3>2. ASSUME NEW m \in 1..Len(tx'), tx'[m].kind = "data"
          PROVE  \E x : /\ x = tx'[m].cid /\ ~Posted(Adm, x)'
                        /\ \E d \in host'.out[Adm] : d.cid = x /\ d.op = tx'[m].op
      <4>1. CASE m \in 1..Len(tx)
        <5>1. PICK x : x = tx[m].cid /\ x = tx'[m].cid
          BY <1>5, <4>1
        <5>2. /\ ~Posted(Adm, x) /\ tx'[m].op = tx[m].op
              /\ \E d \in host.out[Adm] : d.cid = x /\ d.op = tx[m].op
          BY <1>5, <2>1, <3>2, <4>1, <5>1 DEF Busy, BusyData
        <5> QED
          BY <1>4, <2>4, <5>1, <5>2
      <4>2. CASE m = Len(tx) + 1
        <5>1. tx'[m].cid = c.cid /\ tx'[m].op = c.op
          BY <1>4, <1>5, <4>2
        <5>2. ~Posted(Adm, c.cid)' /\ c \in host'.out[Adm]
          BY <1>4, <2>2, <2>4
        <5> QED
          BY <5>1, <5>2
      <4> QED
        BY <1>7, <4>1, <4>2
    <3>3. BusyData'
      BY <3>2, BusyDataFrom
    <3>4. BusyOnce'
      <4> SUFFICES ASSUME NEW m \in 1..Len(tx'), NEW l \in 1..Len(tx'), tx'[m].kind = "data",
                          tx'[l].kind = "data", tx'[m].cid = tx'[l].cid
                   PROVE  m = l
        BY DEF BusyOnce
      <4>1. \A k \in 1..Len(tx) : tx[k].kind = "data" => tx[k].cid # c.cid
        BY <2>2 DEF Moving
      <4>2. CASE m \in 1..Len(tx) /\ l \in 1..Len(tx)
        BY <1>5, <2>1, <4>2 DEF Busy, BusyOnce
      <4>3. CASE m \in 1..Len(tx) /\ l = Len(tx) + 1
        BY <1>4, <1>5, <4>1, <4>3
      <4>4. CASE l \in 1..Len(tx) /\ m = Len(tx) + 1
        BY <1>4, <1>5, <4>1, <4>4
      <4> QED
        BY <1>7, <4>2, <4>3, <4>4
    <3> QED
      BY <3>1, <3>3, <3>4 DEF Busy
  <2>11. Creates'
    <3> SUFFICES ASSUME NEW d \in host.out[Adm], d.qid = 1 PROVE Create(d)'
      BY <1>4 DEF Creates
    <3>1. Create(d)
      BY <2>1 DEF Creates
    <3>2. NewCqMade => NewCqMade'
      BY <1>4 DEF NewCqMade, CqUp
    <3>3. IoBells' => IoBells
      BY <1>4 DEF IoBells, InIrq
    <3> QED
      BY <1>4, <2>4, <2>8, <3>1, <3>2, <3>3, CreateKept
  <2>12. Room'
    BY <1>4, <2>1, <2>4, <2>8 DEF Room
  <2>13. DataCmds'
    <3> SUFFICES ASSUME NEW d \in host.out[Adm], d.op \in DataOp PROVE DataOf(d)'
      BY <1>4 DEF DataCmds
    <3>1. DataOf(d)
      BY <2>1 DEF DataCmds
    <3>2. txDone = 1 => 1 \in 1..Len(tx)
      <4>1. txDone = 1 => tx # <<>> /\ tx \in Seq(Transfers)
        BY <1>1 DEF Types, TxTypes
      <4> QED
        BY <4>1, HeadTail
    <3>3. Got(d)' = Got(d)
      BY <1>4 DEF Got
    <3>4. Moved(d.cid)' <=> Moved(d.cid)
      BY <1>4, <1>5, <3>2 DEF Moved
    <3> QED
      BY <1>4, <2>4, <3>1, <3>3, <3>4, DataKept
  <2>14. DataResp'
    <3> SUFFICES ASSUME NEW m \in 1..Len(tx'), tx'[m].kind = "data",
                        resp'[tx'[m].op] # tx'[m].op
                 PROVE  FALSE
      BY DEF DataResp
    <3>1. DOMAIN resp = DataOp
      BY <1>1 DEF Types, CpuTypes
    <3>2. PICK o : o = tx'[m].op
      OBVIOUS
    <3>3. o # c.op
      BY <1>4, <3>1, <3>2
    <3>4. m \in 1..Len(tx) /\ o = tx[m].op /\ tx[m].kind = "data"
      BY <1>4, <1>5, <1>7, <3>2, <3>3
    <3>5. resp'[o] = resp[o]
      BY <1>4, <3>1, <3>3
    <3>6. filling.op = o
      BY <2>1, <3>2, <3>4, <3>5 DEF DataResp
    <3> QED
      BY <1>3, <3>3, <3>6
  <2>15. Running'
    BY <2>10, <2>11, <2>12, <2>13, <2>14 DEF Running, Data
  <2> QED
    BY <2>4, <2>8, <2>9, <2>15
<1> QED
  BY <1>8, <1>9

LEMMA QueuesMove ==
  ASSUME QInv, DataMove
  PROVE  Cmds' /\ Completing' /\ Submitting' /\ Running' /\ Bells' /\ Stale'
<1>1. IInv /\ Types /\ HostTypes /\ Sized /\ Cmds /\ Completing /\ Submitting /\ Bells /\ Stale
  BY DEF QInv, Types
<1>2. /\ Adm \in Queue /\ 1 \in Queue /\ Adm # 1 /\ Queue = {Adm, 1}
      /\ Engine
  BY Sizes DEF Engine
<1>3. PICK i, o : i = tx[1].cid /\ o = tx[1].op
  OBVIOUS
<1>4. /\ tx # <<>> /\ tx[1].kind = "data" /\ txDone = 0 /\ txDone' = 1 /\ i \in Cid /\ o \in DataOp
      /\ host'.pc = host.pc /\ host'.out = host.out /\ host'.tail = host.tail
      /\ host'.head = host.head /\ host'.phase = host.phase /\ host'.has = host.has
      /\ host'.got = [host.got EXCEPT ![i] = resp[o]]
      /\ UNCHANGED <<reg, csts, irq, enabled, sq, cq, beyond, cpu, filling, resp, rx, tx,
                     sqMem, cqMem>>
  BY <1>1, <1>3, MoveIs DEF memory
<1>5. CASE host.pc = "off"
  <2>1. Stale'
    BY <1>1, <1>4 DEF Stale, Going
  <2> QED
    BY <1>2, <1>5, <2>1, OffEngine
<1>6. CASE host.pc # "off"
  <2>1. Busy /\ Creates /\ Room /\ DataCmds /\ DataResp
    BY <1>6 DEF QInv, Running, Data
  <2>2. (\A p \in Queue : ChanKeeps(p)) /\ Len(tx') \in Nat
    BY <1>1, <1>4, ChanDrop, GoingTypes DEF Rest
  <2>3. /\ Completing'
        /\ \A p \in Queue : CqOn(p) => PostKeeps(p) /\ \A j : Posted(p, j)' <=> Posted(p, j)
        /\ \A j : Posted(Adm, j)' <=> Posted(Adm, j)
        /\ Lag(Adm)' = Lag(Adm)
        /\ \A d, e : Behind(d, e) => Behind(d, e)'
    BY <1>4, <1>6, <2>2, ChanSteps
  <2>4. ASSUME NEW p \in Queue, CqOn(p), NEW j, Waits(p, j) PROVE Waits(p, j)'
    <3>1. ~Filling(p, j)' /\ ~Moving(p, j)'
      BY <1>4, <2>4 DEF Waits, Filling, Moving
    <3> QED
      BY <2>3, <2>4, <3>1 DEF Waits
  <2>5. Ran(0) /\ 0 \in 0..1
    BY <1>4 DEF Ran
  <2>6. /\ Submitting'
        /\ Unfetched(Adm)' = Unfetched(Adm)
        /\ \A d : UnfetchedCmd(d) => UnfetchedCmd(d)'
        /\ NewSqMade => NewSqMade'
    BY <1>4, <1>6, <2>4, <2>5, SubSteps
  <2>7. Cmds' /\ Bells' /\ Stale'
    <3>1. "sq" \notin host.has => /\ \A m \in 1..Len(rx') : rx'[m].qid # 1
                                  /\ \A m \in 1..Len(tx') : tx'[m].qid # 1
      BY <1>1, <1>4, <1>6 DEF Cmds, CmdNoSq
    <3> QED
      BY <1>2, <1>4, <1>6, <3>1, OnEngine
  <2>8. Busy'
    BY <1>4, <2>1, <2>3, BusyKept
  <2>9. Creates'
    <3> SUFFICES ASSUME NEW d \in host.out[Adm], d.qid = 1 PROVE Create(d)'
      BY <1>4 DEF Creates
    <3>1. Create(d)
      BY <2>1 DEF Creates
    <3>2. NewCqMade => NewCqMade'
      BY <1>4 DEF NewCqMade, CqUp
    <3>3. IoBells' => IoBells
      BY <1>4 DEF IoBells, InIrq
    <3> QED
      BY <1>4, <2>3, <2>6, <3>1, <3>2, <3>3, CreateKept
  <2>10. Room'
    BY <1>4, <2>1, <2>3, <2>6 DEF Room
  <2>11. DataCmds'
    <3> SUFFICES ASSUME NEW d \in host.out[Adm], d.op \in DataOp PROVE DataOf(d)'
      BY <1>4 DEF DataCmds
    <3>1. DataOf(d)
      BY <2>1 DEF DataCmds
    <3>2. d.cid \in Cid /\ host.got \in [Cid -> DataOp \cup {"none", "zero"}]
      BY <1>1, <1>2 DEF HostTypes, Commands
    <3>3. CASE d.cid # i
      <4>1. Got(d)' = Got(d)
        BY <1>4, <3>2, <3>3 DEF Got
      <4>2. Moved(d.cid)' <=> Moved(d.cid)
        BY <1>3, <1>4, <3>3 DEF Moved
      <4> QED
        BY <1>4, <2>3, <3>1, <4>1, <4>2, DataKept
    <3>4. CASE d.cid = i
      <4>1. d.op = o
        <5>1. 1 \in 1..Len(tx)
          BY <1>1, <1>4, TxTail
        <5>2. PICK c \in host.out[Adm] : c.cid = i /\ c.op = o
          BY <1>3, <1>4, <2>1, <5>1 DEF Busy, BusyData
        <5> QED
          BY <1>1, <1>2, <3>4, <5>2 DEF Cmds, CmdIds
      <4>2. Got(d)' = resp[o] /\ resp[o] \in {"zero", o}
        BY <1>1, <1>4, <3>2, <3>4 DEF Got, Types, CpuTypes
      <4>3. o # "zero" /\ o # "none"
        BY <1>4, WorkloadAssumption
      <4>4. Moved(d.cid)'
        BY <1>3, <1>4, <3>4 DEF Moved
      <4>5. ASSUME resp[o] = "zero"
            PROVE  \E e \in host.out[Adm] : e # d /\ e.op = d.op /\ Behind(d, e)'
        <5>1. 1 \in 1..Len(tx)
          BY <1>1, <1>4, TxTail
        <5>2. cpu = "fill" /\ filling.op = o
          BY <1>3, <1>4, <2>1, <4>3, <4>5, <5>1 DEF DataResp
        <5>3. PICK e : e = filling
          OBVIOUS
        <5>4. e \in host.out[Adm] /\ ~Moving(Adm, e.cid) /\ ~Posted(Adm, e.cid)
          BY <2>1, <5>2, <5>3 DEF Busy, BusyFill
        <5>5. e.cid # i
          BY <1>3, <1>4, <5>1, <5>4 DEF Moving
        <5>6. ~Posted(Adm, e.cid)'
          BY <2>3, <5>4
        <5>7. Behind(d, e)'
          BY <5>6 DEF Behind, Posted
        <5> QED
          BY <3>4, <4>1, <5>2, <5>3, <5>4, <5>5, <5>7
      <4> QED
        BY <1>4, <4>1, <4>2, <4>3, <4>4, <4>5 DEF DataOf
    <3> QED
      BY <3>3, <3>4
  <2>12. DataResp'
    BY <1>4, <2>1 DEF DataResp
  <2>13. Running'
    BY <2>8, <2>9, <2>10, <2>11, <2>12 DEF Running, Data
  <2> QED
    BY <2>3, <2>6, <2>7, <2>13
<1> QED
  BY <1>5, <1>6

\* A queue that is asked for, or whose deletion is: there is no submission queue.
LEMMA CreatesNoSq ==
  ASSUME Cmds, Creates, NEW d \in host.out[Adm], d.qid = 1
  PROVE  Create(d) /\ d.op \in QueueOp /\ d.op \notin DataOp /\ host.has # {"cq", "sq"}
<1>1. Create(d) /\ d.op \in QueueOp
  BY DEF Creates, Cmds, CmdQids
<1>2. d.op \in {"create_sq", "create_cq", "delete_sq", "delete_cq"}
  BY <1>1 DEF QueueOp
<1>3. host.has # {"cq", "sq"}
  BY <1>1, <1>2 DEF Create
<1> QED
  BY <1>1, <1>3, WorkloadAssumption

LEMMA QueuesCqMove ==
  ASSUME QInv, CqMove
  PROVE  Cmds' /\ Completing' /\ Submitting' /\ Running' /\ Bells' /\ Stale'
<1>1. IInv /\ Types /\ HostTypes /\ Sized /\ Cmds /\ Completing /\ Submitting /\ Bells /\ Stale
  BY DEF QInv, Types
<1>2. /\ Adm \in Queue /\ 1 \in Queue /\ Adm # 1 /\ Queue = {Adm, 1}
      /\ Engine
  BY Sizes DEF Engine
<1>3. PICK q, z, e : q = tx[1].qid /\ z = tx[1].slot /\ e = Landed(tx[1])
  OBVIOUS
<1>4. /\ tx # <<>> /\ tx[1].kind = "cq" /\ tx' = Tail(tx) /\ txDone = 0
      /\ q \in Queue /\ z \in Slots(q) /\ e.p = tx[1].p
      /\ cqMem' = IF tx[1].base = Base
                    THEN [cqMem EXCEPT ![q] = [cqMem[q] EXCEPT ![z] = e]] ELSE cqMem
      /\ UNCHANGED <<reg, csts, irq, enabled, sq, cq, beyond, cpu, filling, resp, rx, txDone,
                     host, sqMem>>
  BY <1>1, <1>3, CqMoveIs DEF Landed
<1>5. /\ Len(tx) \in Nat \ {0} /\ Len(tx') = Len(tx) - 1 /\ 1 \in 1..Len(tx)
      /\ \A m \in 1..Len(tx') : m + 1 \in 1..Len(tx) /\ tx'[m] = tx[m + 1]
  <2>1. /\ Len(tx) \in Nat \ {0} /\ Len(Tail(tx)) = Len(tx) - 1
        /\ \A m \in 1..(Len(tx) - 1) : Tail(tx)[m] = tx[m + 1]
    BY <1>1, <1>4, TxTail
  <2> QED
    BY <1>4, <2>1
<1>6. /\ DOMAIN cqMem = Queue
      /\ \A p \in Queue : p # q => cqMem'[p] = cqMem[p]
      /\ \A s \in Slots(q) : cqMem'[q][s] = cqMem[q][s] \/ cqMem'[q][s] = e
  <2>1. DOMAIN cqMem = Queue /\ cqMem[q] \in [Slots(q) -> Entries]
    BY <1>1, <1>4 DEF Types, MemTypes
  <2>2. CASE tx[1].base = Base
    BY <1>4, <2>1, <2>2
  <2>3. CASE tx[1].base # Base
    BY <1>4, <2>1, <2>3
  <2> QED
    BY <2>2, <2>3
<1>7. CASE host.pc = "off"
  <2>1. Stale'
    <3> SUFFICES ASSUME cq[Adm].head = 0, cq[Adm].tail = 0, cq[Adm].phase = 0
                 PROVE  /\ \A m \in 1..Len(tx') : Going(Adm, m)' => tx'[m].p = 0
                        /\ \A s \in Slots(Adm) : cqMem'[Adm][s].p = 0
      BY <1>4 DEF Stale
    <3>1. /\ \A m \in 1..Len(tx) : Going(Adm, m) => tx[m].p = 0
          /\ \A s \in Slots(Adm) : cqMem[Adm][s].p = 0
      BY <1>1, <1>7 DEF Stale
    <3>2. ASSUME NEW m \in 1..Len(tx'), Going(Adm, m)' PROVE tx'[m].p = 0
      <4>1. Going(Adm, m + 1)
        BY <1>5, <3>2 DEF Going
      <4> QED
        BY <1>5, <3>1, <3>2, <4>1
    <3>3. q = Adm => e.p = 0
      <4>1. q = Adm => Going(Adm, 1)
        BY <1>3, <1>4 DEF Going
      <4> QED
        BY <1>4, <1>5, <3>1, <4>1
    <3>4. \A s \in Slots(Adm) : cqMem'[Adm][s].p = 0
      BY <1>2, <1>6, <3>1, <3>3
    <3> QED
      BY <3>2, <3>4
  <2> QED
    BY <1>2, <1>7, <2>1, OffEngine
<1>8. CASE host.pc # "off"
  <2>1. Busy /\ Creates /\ Room /\ DataCmds /\ DataResp
    BY <1>8 DEF QInv, Running, Data
  <2>2. q = 1 => host.has = {"cq", "sq"}
    <3>1. q = 1 => "sq" \in host.has
      BY <1>1, <1>3, <1>5, <1>8 DEF Cmds, CmdNoSq
    <3> QED
      BY <1>1, <3>1 DEF HostTypes
  <2>3. CqOn(q) /\ CqOn(Adm)
    BY <1>2, <1>4, <1>8, <2>2 DEF CqOn
  <2>4. Going(q, 1) /\ \A p \in Queue : p # q => ~Going(p, 1)
    BY <1>3, <1>4 DEF Going
  <2>5. ASSUME NEW p \in Queue, CqOn(p)
        PROVE  Ring(p)' /\ PostKeeps(p)
    <3>1. Ring(p)
      BY <1>1, <2>5 DEF Completing
    <3>2. CASE p = q
      BY <1>1, <2>4, <3>1, <3>2, RingMove
    <3>3. CASE p # q
      <4>1. ChanKeeps(p)
        BY <1>1, <1>4, <2>4, <3>3, ChanTail
      <4>2. EndsKept(p)
        BY <1>4, <1>6, <3>3 DEF EndsKept
      <4>3. Len(tx') \in Nat
        BY <1>5
      <4> QED
        BY <1>1, <3>1, <4>1, <4>2, <4>3, RingKept
    <3> QED
      BY <3>2, <3>3
  <2>6. /\ \A p \in Queue : CqOn(p) => \A i : Posted(p, i)' <=> Posted(p, i)
        /\ \A i : Posted(Adm, i)' <=> Posted(Adm, i)
    BY <1>2, <2>3, <2>5, PostedKept
  <2>7. Completing'
    <3> SUFFICES ASSUME NEW p \in Queue, CqOn(p) PROVE Ring(p)' /\ Under(p)'
      BY <1>4 DEF Completing, CqOn
    <3>1. Under(p) /\ host.out[p] \subseteq host'.out[p]
      BY <1>1, <1>4 DEF Completing
    <3> QED
      BY <2>5, <3>1, UnderKept
  <2>8. \A p, i : Moving(p, i)' => Moving(p, i)
    BY <1>5 DEF Moving
  <2>9. ASSUME NEW p \in Queue, CqOn(p), NEW i, Waits(p, i) PROVE Waits(p, i)'
    <3>1. ~Filling(p, i)' /\ ~Moving(p, i)'
      BY <1>4, <2>8, <2>9 DEF Waits, Filling
    <3> QED
      BY <2>6, <2>9, <3>1 DEF Waits
  <2>10. Ran(0) /\ 0 \in 0..1
    BY <1>4 DEF Ran
  <2>11. /\ Submitting'
         /\ Unfetched(Adm)' = Unfetched(Adm)
         /\ \A d : UnfetchedCmd(d) => UnfetchedCmd(d)'
         /\ NewSqMade => NewSqMade'
    BY <1>4, <1>8, <2>9, <2>10, SubSteps
  <2>12. Cmds' /\ Bells' /\ Stale'
    <3>1. "sq" \notin host.has => /\ \A m \in 1..Len(rx') : rx'[m].qid # 1
                                  /\ \A m \in 1..Len(tx') : tx'[m].qid # 1
      BY <1>1, <1>4, <1>5, <1>8 DEF Cmds, CmdNoSq
    <3> QED
      BY <1>2, <1>4, <1>8, <3>1, OnEngine
  <2>13. Busy'
    <3>1. BusyFill'
      BY <1>4, <2>1, <2>6, <2>8 DEF BusyFill, Busy
    <3>2. ASSUME NEW m \in 1..Len(tx'), tx'[m].kind = "data"
          PROVE  \E x : /\ x = tx'[m].cid /\ ~Posted(Adm, x)'
                        /\ \E d \in host'.out[Adm] : d.cid = x /\ d.op = tx'[m].op
      <4>1. m + 1 \in 1..Len(tx) /\ tx'[m] = tx[m + 1]
        BY <1>5
      <4>2. PICK x : x = tx[m + 1].cid /\ x = tx'[m].cid
        BY <4>1
      <4>3. /\ ~Posted(Adm, x)
            /\ \E d \in host.out[Adm] : d.cid = x /\ d.op = tx[m + 1].op
        BY <2>1, <3>2, <4>1, <4>2 DEF Busy, BusyData
      <4> QED
        BY <1>4, <2>6, <4>1, <4>2, <4>3
    <3>3. BusyData'
      BY <3>2, BusyDataFrom
    <3>4. BusyOnce'
      <4> SUFFICES ASSUME NEW m \in 1..Len(tx'), NEW l \in 1..Len(tx'), tx'[m].kind = "data",
                          tx'[l].kind = "data", tx'[m].cid = tx'[l].cid
                   PROVE  m = l
        BY DEF BusyOnce
      <4>1. m + 1 = l + 1
        BY <1>5, <2>1 DEF Busy, BusyOnce
      <4>2. m \in Int /\ l \in Int
        OBVIOUS
      <4> QED
        BY <4>1, <4>2
    <3> QED
      BY <3>1, <3>3, <3>4 DEF Busy
  <2>14. Creates'
    <3> SUFFICES ASSUME NEW d \in host.out[Adm], d.qid = 1 PROVE Create(d)'
      BY <1>4 DEF Creates
    <3>1. Create(d) /\ host.has # {"cq", "sq"}
      BY <1>1, <2>1, CreatesNoSq
    <3>2. cqMem'[1] = cqMem[1]
      BY <1>2, <1>6, <2>2, <3>1
    <3>3. NewCqMade => NewCqMade'
      BY <1>4 DEF NewCqMade, CqUp
    <3>4. IoBells' => IoBells
      BY <1>4 DEF IoBells, InIrq
    <3> QED
      BY <1>4, <2>6, <2>11, <3>1, <3>2, <3>3, <3>4, CreateKept
  <2>15. Room'
    <3>1. Lag(Adm)' = Lag(Adm)
      BY <1>4 DEF Lag
    <3> QED
      BY <1>4, <2>1, <2>11, <3>1 DEF Room
  <2>16. DataCmds'
    <3> SUFFICES ASSUME NEW d \in host.out[Adm], d.op \in DataOp PROVE DataOf(d)'
      BY <1>4 DEF DataCmds
    <3>1. DataOf(d)
      BY <2>1 DEF DataCmds
    <3>2. Got(d)' = Got(d) /\ (Moved(d.cid)' <=> Moved(d.cid))
      BY <1>4 DEF Got, Moved
    <3>3. \A x, f : Behind(x, f) => Behind(x, f)'
      BY <1>2, <1>4, <2>3, <2>5, BehindKept
    <3> QED
      BY <1>4, <2>6, <3>1, <3>2, <3>3, DataKept
  <2>17. DataResp'
    BY <1>4, <1>5, <2>1 DEF DataResp
  <2>18. Running'
    BY <2>13, <2>14, <2>15, <2>16, <2>17 DEF Running, Data
  <2> QED
    BY <2>7, <2>11, <2>12, <2>18
<1> QED
  BY <1>7, <1>8

-----------------------------------------------------------------------------
(* The commands: there is room for the completion of a response            *)

\* There is a slot of every offset.
LEMMA OffsetExists ==
  ASSUME Types, NEW q \in Queue, NEW a \in 0..(Size[q] - 1)
  PROVE  \E s \in Slots(q) : Offset(q, s) = a
<1>1. PICK n \in Nat : n = Size[q] /\ n >= 2 /\ Slots(q) = 0..(n - 1) /\ a \in 0..(n - 1)
  BY Sizes DEF Slots
<1>2. PICK h \in 0..(n - 1) : h = host.head[q]
  BY <1>1, RingTypes
<1>3. PICK s \in 0..(n - 1) : Dist(n, h, s) = a
  <2>1. CASE h + a <= n - 1
    <3>1. h + a \in 0..(n - 1) /\ h + a >= h /\ (h + a) - h = a
      BY <1>1, <2>1
    <3> QED
      BY <3>1 DEF Dist
  <2>2. CASE ~(h + a <= n - 1)
    <3>1. (h + a) - n \in 0..(n - 1) /\ ~((h + a) - n >= h) /\ (((h + a) - n) - h) + n = a
      BY <1>1, <2>2
    <3> QED
      BY <3>1 DEF Dist
  <2> QED
    BY <2>1, <2>2
<1> QED
  BY <1>1, <1>2, <1>3 DEF Offset

\* Every completion that is owed is that of a command.
LEMMA OwedCmd ==
  ASSUME Types, NEW q \in Queue, Ring(q), Under(q), NEW a \in 0..(Size[q] - 1), a < Owing(q)
  PROVE  \E c \in host.out[q] : \E s \in Slots(q) : Offset(q, s) = a /\ PostedAt(q, c.cid, s)
<1>1. PICK s \in Slots(q) : Offset(q, s) = a
  BY OffsetExists
<1>2. Arrived(q, s) \/ \E m \in 1..Len(tx) : Going(q, m) /\ tx[m].slot = s
  BY <1>1 DEF Ring, RingFull
<1>3. \E i : PostedAt(q, i, s)
  BY <1>2 DEF PostedAt
<1>4. PICK i : PostedAt(q, i, s)
  BY <1>3
<1>5. PICK c \in host.out[q] : c.cid = i
  BY <1>4 DEF Under, UnderNames, Posted
<1> QED
  BY <1>1, <1>4, <1>5

\* Commands that are completed, that wait, and one that is neither: all are outstanding.
LEMMA RoomLeft ==
  ASSUME Types, NEW q \in Queue, Ring(q), Under(q), Sub(q), IsFiniteSet(host.out[q]),
         NEW d \in host.out[q], ~Posted(q, d.cid), ~Waits(q, d.cid)
  PROVE  Owing(q) + Unfetched(q) + 1 <= Cardinality(host.out[q])
<1>1. PICK n, o, u : /\ n = Size[q] /\ o = Owing(q) /\ u = Unfetched(q) /\ n \in Nat /\ n >= 2
                     /\ o \in 0..(n - 1) /\ u \in 0..(n - 1)
  BY AgeTypes, RingTypes
<1>2. PICK S, T : S = 1..(o + u + 1) /\ T = host.out[q]
  OBVIOUS
<1>3. Cardinality(T) \in Nat /\ IsFiniteSet(T)
  BY <1>2, FS_CardinalityType
<1>4. IsFiniteSet(S) /\ Cardinality(S) = o + u + 1
  <2>1. PICK w \in Nat : w = o + u + 1
    BY <1>1
  <2>2. Cardinality(1..w) = IF 1 > w THEN 0 ELSE w - 1 + 1
    BY FS_Interval
  <2>3. IsFiniteSet(1..w)
    BY FS_Interval
  <2> QED
    BY <1>1, <1>2, <2>1, <2>2, <2>3
<1> DEFINE done(a, c) == \E s \in Slots(q) : Offset(q, s) = a /\ PostedAt(q, c.cid, s)
           wait(a, c) == \E s \in Slots(q) : Age(q, s) = a /\ sqMem[q][s] = c
           f == [k \in S |-> IF k <= o THEN CHOOSE c \in T : done(k - 1, c)
                             ELSE IF k <= o + u THEN CHOOSE c \in T : wait(k - o, c) ELSE d]
<1>5. ASSUME NEW k \in S, k <= o PROVE f[k] \in T /\ done(k - 1, f[k])
  <2>1. k - 1 \in 0..(n - 1) /\ k - 1 < o
    BY <1>1, <1>2, <1>5, SMTT(30)
  <2>2. PICK a : a = k - 1
    OBVIOUS
  <2>3. \E c \in host.out[q] : \E s \in Slots(q) : Offset(q, s) = a /\ PostedAt(q, c.cid, s)
    BY <1>1, <2>1, <2>2, OwedCmd
  <2>4. \E c \in T : done(k - 1, c)
    BY <1>2, <2>2, <2>3
  <2>5. f[k] = CHOOSE c \in T : done(k - 1, c)
    BY <1>5
  <2> HIDE DEF f, done
  <2> QED
    BY <2>4, <2>5
<1>6. ASSUME NEW k \in S, ~(k <= o), k <= o + u PROVE f[k] \in T /\ wait(k - o, f[k]) /\ k - o \in 1..u
  <2>1. k - o \in 1..u /\ k - o \in 0..(n - 1)
    <3> HIDE DEF f, done, wait
    <3>1. k \in Int /\ o \in Int /\ u \in Int /\ ~(k <= o) /\ k <= o + u /\ u <= n - 1
      BY <1>1, <1>2, <1>6
    <3>2. k - o >= 1 /\ k - o <= u /\ k - o \in Int
      BY <3>1
    <3> QED
      BY <1>1, <3>1, <3>2
  <2>2. PICK s \in Slots(q) : Age(q, s) = k - o
    BY <1>1, <2>1, AgeExists
  <2>3. sqMem[q][s] \in T
    BY <1>1, <1>2, <2>1, <2>2, UnfetchedWaits
  <2>4. \E c \in T : wait(k - o, c)
    BY <2>2, <2>3
  <2>5. f[k] = CHOOSE c \in T : wait(k - o, c)
    BY <1>6
  <2> HIDE DEF f, wait
  <2> QED
    BY <2>1, <2>4, <2>5
<1>7. ASSUME NEW k \in S, ~(k <= o + u) PROVE k = o + u + 1 /\ ~(k <= o) /\ f[k] = d
  <2>1. k = o + u + 1 /\ ~(k <= o)
    <3> HIDE DEF f
    <3> QED
      BY <1>1, <1>2, <1>7
  <2>2. f[k] = d
    <3> HIDE DEF done, wait
    <3> QED
      BY <1>7, <2>1
  <2> QED
    BY <2>1, <2>2
<1>8. ASSUME NEW c, NEW a, done(a, c) PROVE Posted(q, c.cid)
  BY <1>8 DEF Posted
<1>9. ASSUME NEW c, NEW a \in 1..u, wait(a, c) PROVE Waits(q, c.cid) /\ ~Posted(q, c.cid)
  <2>1. PICK s \in Slots(q) : Age(q, s) = a /\ sqMem[q][s] = c
    BY <1>9
  <2> QED
    BY <1>1, <2>1, UnfetchedWaits DEF Waits
<1>10. ASSUME NEW c, NEW a, NEW b, done(a, c), done(b, c) PROVE a = b
  BY <1>10 DEF Under, UnderOnce
<1>11. ASSUME NEW c, NEW a \in 1..u, NEW b \in 1..u, wait(a, c), wait(b, c) PROVE a = b
  <2>1. PICK s \in Slots(q), r \in Slots(q) :
          Age(q, s) = a /\ sqMem[q][s] = c /\ Age(q, r) = b /\ sqMem[q][r] = c
    BY <1>11
  <2>2. PICK w \in 0..(Size[q] - 1) : Win(q, w)
    BY DEF Sub
  <2>3. a \in 1..w /\ b \in 1..w
    BY <1>1, <2>2 DEF Win
  <2>4. s = r
    BY <2>1, <2>2, <2>3 DEF Win, WinApart
  <2> QED
    BY <2>1, <2>4
<1> HIDE DEF f, done, wait
<1>12. f \in [S -> T]
  <2>1. \A k \in S : f[k] \in T
    BY <1>2, <1>5, <1>6, <1>7
  <2>2. f = [k \in S |-> f[k]]
    BY DEF f
  <2> QED
    BY <2>1, <2>2
<1>13. ASSUME NEW k \in S, NEW l \in S, f[k] = f[l], k <= l PROVE k = l
  <2>1. k \in Int /\ l \in Int /\ o \in Int /\ u \in Int
    BY <1>1, <1>2
  <2>2. CASE l <= o
    <3>1. k <= o
      BY <1>13, <2>1, <2>2
    <3>2. k - 1 = l - 1
      BY <1>5, <1>10, <1>13, <2>2, <3>1
    <3> QED
      BY <2>1, <3>2
  <2>3. CASE ~(l <= o) /\ l <= o + u
    <3>1. CASE k <= o
      BY <1>5, <1>6, <1>8, <1>9, <1>13, <2>3, <3>1
    <3>2. CASE ~(k <= o)
      <4>1. k <= o + u
        BY <1>13, <2>1, <2>3
      <4>2. k - o = l - o
        BY <1>6, <1>11, <1>13, <2>3, <3>2, <4>1
      <4> QED
        BY <2>1, <4>2
    <3> QED
      BY <3>1, <3>2
  <2>4. CASE ~(l <= o + u)
    <3>1. CASE k <= o
      BY <1>5, <1>7, <1>8, <1>13, <2>4, <3>1
    <3>2. CASE ~(k <= o) /\ k <= o + u
      BY <1>6, <1>7, <1>9, <1>13, <2>4, <3>2
    <3>3. CASE ~(k <= o + u)
      BY <1>7, <2>4, <3>3
    <3> QED
      BY <3>1, <3>2, <3>3
  <2>5. l <= o => l <= o + u
    BY <1>1, <2>1
  <2> QED
    BY <2>2, <2>3, <2>4
<1>14. ~(Cardinality(T) < Cardinality(S))
  <2> SUFFICES ASSUME Cardinality(T) < Cardinality(S) PROVE FALSE
    OBVIOUS
  <2>1. PICK k \in S, l \in S : k # l /\ f[k] = f[l]
    BY <1>3, <1>4, <1>12, FS_PigeonHole
  <2>2. k <= l \/ l <= k
    BY <1>1, <1>2
  <2> QED
    BY <1>13, <2>1, <2>2
<1> QED
  BY <1>1, <1>2, <1>3, <1>4, <1>14

\* A completion is dropped only when the queue holds as many as it can.
LEMMA FullIs ==
  ASSUME Types, NEW q \in Queue, Ring(q), cq[q].head = (cq[q].tail + 1) % Size[q]
  PROVE  Lag(q) + Owing(q) = Size[q] - 1
<1>1. PICK n \in Nat : n = Size[q] /\ n >= 2
  BY RingTypes
<1>2. PICK k \in 0..(n - 1), h \in 0..(n - 1), t \in 0..(n - 1) :
        k = cq[q].head /\ h = host.head[q] /\ t = cq[q].tail
  BY <1>1, RingTypes
<1>3. Dist(n, k, h) + Dist(n, h, t) <= n - 1
  BY <1>1, <1>2 DEF Ring, RingEnds, Lag, Owing, Offset
<1>4. Dist(n, k, t) = Dist(n, k, h) + Dist(n, h, t)
  BY <1>1, <1>3, DistAdd
<1>5. k = IF t = n - 1 THEN 0 ELSE t + 1
  BY <1>1, <1>2, NextIs
<1>6. Dist(n, k, t) = n - 1
  BY <1>1, <1>5 DEF Dist
<1> QED
  BY <1>1, <1>2, <1>4, <1>6 DEF Lag, Owing, Offset

\* What is posted is within what is owed.
LEMMA PostedOwed ==
  ASSUME Ring(Adm), NEW i, NEW s \in Slots(Adm), PostedAt(Adm, i, s)
  PROVE  Offset(Adm, s) < Owing(Adm)
BY DEF Ring, RingGoing, RingRead, PostedAt

LEMMA QueuesCallback ==
  ASSUME QInv, DataCallback
  PROVE  Cmds' /\ Completing' /\ Submitting' /\ Running' /\ Bells' /\ Stale'
<1>1. IInv /\ Types /\ HostTypes /\ Clean /\ Sized /\ Cmds /\ Completing /\ Submitting /\ Bells /\ Stale
  BY DEF QInv, Types
<1>2. /\ Adm \in Queue /\ 1 \in Queue /\ Adm # 1 /\ Queue = {Adm, 1}
      /\ Engine
  BY Sizes DEF Engine, Callback
<1>3. PICK c, t : c = Called /\ t = Tail(tx)
  OBVIOUS
<1>4. /\ cpu = "idle" /\ txDone = 1 /\ tx # <<>> /\ tx[1].kind = "data" /\ txDone' = 0
      /\ Posts(c, Adm, cq, t) \/ Drops(Adm, cq, t)
      /\ UNCHANGED <<reg, csts, irq, enabled, sq, beyond, cpu, filling, resp, rx, host, sqMem, cqMem>>
  BY <1>1, <1>3, CallbackIs DEF memory
<1>5. /\ Len(tx) \in Nat \ {0} /\ OkTransfer(tx[1]) /\ tx[1] \in Transfers /\ OkTxs(t)
      /\ Len(t) = Len(tx) - 1 /\ 1 \in 1..Len(tx)
      /\ \A m \in 1..Len(t) : m + 1 \in 1..Len(tx) /\ t[m] = tx[m + 1]
  <2>1. /\ Len(tx) \in Nat \ {0} /\ OkTransfer(tx[1]) /\ tx[1] \in Transfers
        /\ OkTxs(t) /\ Len(t) = Len(tx) - 1
        /\ \A m \in 1..(Len(tx) - 1) : t[m] = tx[m + 1]
    BY <1>1, <1>3, <1>4, TxTail, SMTT(30)
  <2> QED
    BY <2>1
<1>6. /\ c.cid = tx[1].cid /\ c.op = tx[1].op /\ c.cid \in Cid /\ c.op \in Op /\ c.op \in DataOp
      /\ Rest(t) /\ OkCqs(cq)
  BY <1>1, <1>3, <1>4, <1>5, ZenonT(60) DEF Called, Transfers, OkTransfer, Rest, Types, CqTypes
<1>7. CASE host.pc = "off"
  <2>1. Stale'
    BY <1>1, <1>2, <1>4, <1>6, StalePut
  <2> QED
    BY <1>2, <1>7, <2>1, OffEngine
<1>8. CASE host.pc # "off"
  <2>1. Busy /\ Creates /\ Room /\ DataCmds /\ DataResp
    BY <1>8 DEF QInv, Running, Data
  <2>2. CqOn(Adm) /\ SqOn(Adm) /\ CqUp(Adm)
    <3>1. host.pc # "enabling"
      BY <1>1, <1>4 DEF Clean
    <3>2. host.pc \in {"live", "stopping", "down", "disabling"}
      BY <1>1, <1>8, <3>1 DEF HostTypes
    <3> QED
      BY <1>1, <1>8, <3>2 DEF CqOn, SqOn, Sized
  <2>3. PICK d0 \in host.out[Adm] : d0.cid = c.cid /\ d0.op = c.op
    BY <1>4, <1>5, <1>6, <2>1 DEF Busy, BusyData
  <2>4. ~Posted(Adm, c.cid) /\ Moving(Adm, c.cid) /\ ~Waits(Adm, c.cid)
    <3>1. ~Posted(Adm, c.cid)
      BY <1>4, <1>5, <1>6, <2>1 DEF Busy, BusyData
    <3>2. Moving(Adm, c.cid)
      BY <1>4, <1>5, <1>6 DEF Moving
    <3> QED
      BY <3>1, <3>2 DEF Waits
  <2>5. Ring(Adm) /\ Under(Adm) /\ Sub(Adm)
    BY <1>1, <1>2, <2>2 DEF Completing, Submitting
  <2>6. Posts(c, Adm, cq, t)
    <3> SUFFICES ASSUME cq[Adm].head = (cq[Adm].tail + 1) % Size[Adm] PROVE FALSE
      BY <1>4 DEF Drops
    <3>1. Lag(Adm) + Owing(Adm) = Size[Adm] - 1
      BY <1>1, <1>2, <2>5, FullIs
    <3>2. IsFiniteSet(host.out[Adm])
      BY <1>1, <1>2 DEF Cmds, CmdCount
    <3>3. Owing(Adm) + Unfetched(Adm) + 1 <= Cardinality(host.out[Adm])
      BY <1>1, <1>2, <2>3, <2>4, <2>5, <3>2, RoomLeft
    <3>4. (Cardinality(host.out[Adm]) - Unfetched(Adm)) + Lag(Adm) <= AdmSize - 1
      BY <1>4, <2>1 DEF Room
    <3>5. PICK k \in Nat, u \in Nat, o \in Nat, l \in Nat :
            k = Cardinality(host.out[Adm]) /\ u = Unfetched(Adm) /\ o = Owing(Adm) /\ l = Lag(Adm)
      BY <1>1, <1>2, <3>2, AgeTypes, RingTypes, FS_CardinalityType
    <3>6. PICK n \in Nat : n = AdmSize /\ n = Size[Adm]
      BY Sizes
    <3>7. l + o = n - 1 /\ o + u + 1 <= k /\ (k - u) + l <= n - 1
      BY <3>1, <3>3, <3>4, <3>5, <3>6
    <3> QED
      BY <3>5, <3>6, <3>7
  <2>7. PICK e : e = Completion(c, Adm, cq[Adm])
    OBVIOUS
  <2>8. e.qid = Adm /\ e.cid = c.cid /\ e.slot = cq[Adm].tail /\ e.kind = "cq" /\ tx' = Append(t, e)
    BY <2>6, <2>7 DEF Posts, Completion
  <2>9. \A p \in Queue : CqOn(p) => cq[p] = cq[p] /\ Ring(p) /\ Under(p)
    BY <1>1 DEF Completing
  <2>10. /\ \A p \in Queue : CqOn(p) => Ring(p)' /\ Lag(p)' = Lag(p)
         /\ PostMore(Adm, e)
    BY <1>1, <1>2, <1>4, <1>6, <2>2, <2>6, <2>7, <2>9, PutKeeps
  <2>11. /\ \A p \in Queue : CqOn(p) =>
              /\ Under(p)' /\ cq'[p].head = cq[p].head
              /\ \A i : Posted(p, i) => Posted(p, i)'
              /\ \A i : Posted(p, i)' => Posted(p, i) \/ (p = Adm /\ i = c.cid)
         /\ \A d, f : Behind(d, f) /\ f.cid # c.cid => Behind(d, f)'
    BY <1>1, <1>2, <1>4, <1>6, <2>2, <2>3, <2>4, <2>9, PutPosted
  <2>12. \A m \in 1..Len(tx') : tx'[m].kind = "data" => m + 1 \in 1..Len(tx) /\ tx'[m] = tx[m + 1]
    <3> SUFFICES ASSUME NEW m \in 1..Len(tx'), tx'[m].kind = "data"
                 PROVE  m + 1 \in 1..Len(tx) /\ tx'[m] = tx[m + 1]
      OBVIOUS
    <3>1. m \in 1..Len(t) /\ tx'[m] = t[m]
      BY <1>2, <1>4, <1>5, <1>6, PostsLessData
    <3> QED
      BY <1>5, <3>1
  <2>13. \A p, i : Moving(p, i)' => Moving(p, i)
    BY <2>12 DEF Moving
  <2>14. ASSUME NEW p \in Queue, CqOn(p), NEW i, Waits(p, i) PROVE Waits(p, i)'
    <3>1. ~(p = Adm /\ i = c.cid)
      BY <2>4, <2>14
    <3>2. ~Filling(p, i)'
      BY <1>4 DEF Filling
    <3> QED
      BY <2>11, <2>13, <2>14, <3>1, <3>2 DEF Waits
  <2>15. Ran(0) /\ 0 \in 0..1
    BY <1>4 DEF Ran
  <2>16. /\ Submitting'
         /\ Unfetched(Adm)' = Unfetched(Adm)
         /\ \A d : UnfetchedCmd(d) => UnfetchedCmd(d)'
         /\ NewSqMade => NewSqMade'
    BY <1>4, <1>8, <2>14, <2>15, SubSteps
  <2>17. Completing'
    BY <1>4, <2>10, <2>11 DEF Completing, CqOn
  <2>18. Cmds' /\ Bells' /\ Stale'
    <3>1. "sq" \notin host.has => /\ \A m \in 1..Len(rx') : rx'[m].qid # 1
                                  /\ \A m \in 1..Len(tx') : tx'[m].qid # 1
      <4> SUFFICES ASSUME "sq" \notin host.has
                   PROVE  /\ \A m \in 1..Len(rx') : rx'[m].qid # 1
                          /\ \A m \in 1..Len(tx') : tx'[m].qid # 1
        OBVIOUS
      <4>1. /\ \A m \in 1..Len(rx) : rx[m].qid # 1
            /\ \A m \in 1..Len(tx) : tx[m].qid # 1
        BY <1>1, <1>8 DEF Cmds, CmdNoSq
      <4>2. t \in Seq(Transfers) /\ Len(t) \in Nat
        BY <1>5 DEF OkTxs
      <4>3. /\ Len(tx') = Len(t) + 1 /\ tx'[Len(t) + 1] = e
            /\ \A m \in 1..Len(t) : tx'[m] = t[m]
        BY <2>8, <4>2
      <4>4. ASSUME NEW m \in 1..Len(tx') PROVE tx'[m].qid # 1
        <5>1. m \in 1..Len(t) \/ m = Len(t) + 1
          BY <4>2, <4>3
        <5> QED
          BY <1>2, <1>5, <2>8, <4>1, <4>3, <5>1
      <4> QED
        BY <1>4, <4>1, <4>4
    <3> QED
      BY <1>2, <1>4, <1>8, <2>11, <3>1, OnEngine
  <2>19. Busy'
    <3>1. BusyFill'
      BY <1>4 DEF BusyFill
    <3>2. ASSUME NEW m \in 1..Len(tx'), tx'[m].kind = "data"
          PROVE  \E x : /\ x = tx'[m].cid /\ ~Posted(Adm, x)'
                        /\ \E d \in host'.out[Adm] : d.cid = x /\ d.op = tx'[m].op
      <4>1. m + 1 \in 1..Len(tx) /\ tx'[m] = tx[m + 1]
        BY <2>12, <3>2
      <4>2. PICK x : x = tx[m + 1].cid /\ x = tx'[m].cid
        BY <4>1
      <4>3. /\ ~Posted(Adm, x)
            /\ \E d \in host.out[Adm] : d.cid = x /\ d.op = tx[m + 1].op
        BY <2>1, <3>2, <4>1, <4>2 DEF Busy, BusyData
      <4>4. x # c.cid
        <5>1. m + 1 # 1
          OBVIOUS
        <5> QED
          BY <1>4, <1>5, <1>6, <2>1, <3>2, <4>1, <4>2, <5>1 DEF Busy, BusyOnce
      <4>5. ~Posted(Adm, x)'
        BY <1>2, <2>2, <2>11, <4>3, <4>4
      <4> QED
        BY <1>4, <4>1, <4>2, <4>3, <4>5
    <3>3. BusyData'
      BY <3>2, BusyDataFrom
    <3>4. BusyOnce'
      <4> SUFFICES ASSUME NEW m \in 1..Len(tx'), NEW l \in 1..Len(tx'), tx'[m].kind = "data",
                          tx'[l].kind = "data", tx'[m].cid = tx'[l].cid
                   PROVE  m = l
        BY DEF BusyOnce
      <4>1. m + 1 = l + 1
        BY <2>1, <2>12 DEF Busy, BusyOnce
      <4>2. m \in Int /\ l \in Int
        OBVIOUS
      <4> QED
        BY <4>1, <4>2
    <3> QED
      BY <3>1, <3>3, <3>4 DEF Busy
  <2>20. Creates'
    <3> SUFFICES ASSUME NEW d \in host.out[Adm], d.qid = 1 PROVE Create(d)'
      BY <1>4 DEF Creates
    <3>1. Create(d) /\ d.op \notin DataOp
      BY <1>1, <2>1, CreatesNoSq
    <3>2. d.cid # c.cid
      BY <1>1, <1>2, <1>6, <2>3, <3>1 DEF Cmds, CmdIds
    <3>3. Posted(Adm, d.cid)' => Posted(Adm, d.cid)
      BY <1>2, <2>2, <2>11, <3>2
    <3>4. cq'[1] = cq[1]
      BY <1>2, <1>4, <1>5, <1>6, PostsTypes
    <3>5. NewCqMade => NewCqMade'
      BY <3>4 DEF NewCqMade, CqUp
    <3>6. IoBells' => IoBells
      BY <1>4 DEF IoBells, InIrq
    <3> QED
      BY <1>4, <2>16, <3>1, <3>3, <3>5, <3>6, CreateKept
  <2>21. Room'
    BY <1>2, <1>4, <2>1, <2>2, <2>10, <2>16 DEF Room
  <2>22. DataCmds'
    <3> SUFFICES ASSUME NEW d \in host.out[Adm], d.op \in DataOp PROVE DataOf(d)'
      BY <1>4 DEF DataCmds
    <3>1. DataOf(d)
      BY <2>1 DEF DataCmds
    <3>2. Got(d)' = Got(d) /\ ~Moved(d.cid)' /\ (Moved(d.cid) <=> d.cid = c.cid)
      BY <1>4, <1>6 DEF Got, Moved
    <3>3. PICK z \in Slots(Adm) : z = e.slot
      BY <1>2, <1>6, <2>8 DEF OkCqs
    <3>4. PostedAt(Adm, c.cid, z)'
      BY <2>8, <2>10, <3>3 DEF PostMore
    <3>5. Posted(Adm, d.cid)' <=> Posted(Adm, d.cid) \/ d.cid = c.cid
      <4>1. Posted(Adm, c.cid)'
        BY <3>4 DEF Posted
      <4> QED
        BY <1>2, <2>2, <2>11, <4>1
    <3>6. ASSUME NEW f \in host.out[Adm], f.cid = c.cid, f # d, Got(d) # "none"
          PROVE  Behind(d, f)'
      <4>1. d.cid # c.cid
        BY <1>1, <1>2, <3>6 DEF Cmds, CmdIds
      <4>2. Posted(Adm, d.cid)
        BY <3>1, <3>2, <3>6, <4>1 DEF DataOf
      <4>3. PICK r \in Slots(Adm) : PostedAt(Adm, d.cid, r)
        BY <4>2 DEF Posted
      <4>4. Offset(Adm, r) < Offset(Adm, z)
        BY <2>5, <2>8, <3>3, <4>3, PostedOwed DEF Owing
      <4>5. PostedAt(Adm, d.cid, r)'
        BY <2>10, <4>3 DEF PostMore
      <4>6. Offset(Adm, r)' = Offset(Adm, r) /\ Offset(Adm, z)' = Offset(Adm, z)
        BY <1>4 DEF Offset
      <4>7. \A s \in Slots(Adm) : PostedAt(Adm, f.cid, s)' => s = z
        BY <2>4, <2>10, <3>3, <3>6 DEF PostMore, Posted
      <4> QED
        BY <4>4, <4>5, <4>6, <4>7 DEF Behind
    <3>7. Got(d) = "zero" =>
            \E f \in host.out[Adm] : f # d /\ f.op = d.op /\ Behind(d, f)'
      <4> SUFFICES ASSUME Got(d) = "zero"
                   PROVE  \E f \in host.out[Adm] : f # d /\ f.op = d.op /\ Behind(d, f)'
        OBVIOUS
      <4>1. PICK f \in host.out[Adm] : f # d /\ f.op = d.op /\ Behind(d, f)
        BY <3>1 DEF DataOf
      <4>2. "zero" # "none"
        OBVIOUS
      <4>3. Behind(d, f)'
        BY <2>11, <3>6, <4>1, <4>2
      <4> QED
        BY <4>1, <4>3
    <3> QED
      BY <1>4, <3>1, <3>2, <3>5, <3>7 DEF DataOf
  <2>23. DataResp'
    BY <1>4, <2>1, <2>12 DEF DataResp
  <2>24. Running'
    BY <2>19, <2>20, <2>21, <2>22, <2>23 DEF Running, Data
  <2> QED
    BY <2>16, <2>17, <2>18, <2>24
<1> QED
  BY <1>7, <1>8

-----------------------------------------------------------------------------
(* The queues: the invariant holds                                         *)

LEMMA InitTypes == Init => Types
<1> SUFFICES ASSUME Init PROVE Types
  OBVIOUS
<1>1. PICK w \in Workload : host = NewHost(w, 0)
  BY DEF Init
<1>2. /\ Queue = {0, 1} /\ \A q \in Queue : Size[q] \in Nat /\ Size[q] >= 2
      /\ MaxAdm \in Nat /\ MaxAdm >= 1
  BY Sizes
<1>3. \A q \in Queue : 0 \in Slots(q)
  <2> SUFFICES ASSUME NEW q \in Queue PROVE 0 \in Slots(q)
    OBVIOUS
  <2>1. PICK n \in Nat : n = Size[q] /\ n >= 2
    BY <1>2
  <2> QED
    BY <2>1 DEF Slots
<1>4. RegTypes
  <2>1. {"ADM_TAIL", "ADM_HEAD", "IO_TAIL", "IO_HEAD", "ASQ_0", "ASQ_1", "ACQ_0", "ACQ_1"}
          \subseteq Register \ {"CC"}
    BY DEF Register
  <2>2. \A r \in Register \ {"CC"} : reg[r] = 0
    BY DEF Init
  <2>3. \A q \in Queue : reg[DOORBELL_TAIL(q)] = 0 /\ reg[DOORBELL_HEAD(q)] = 0
    BY <2>1, <2>2, BellNames, <1>2, Sizes
  <2>4. csts \in [rdy : {0, 1}, shst : {0, 2}] /\ enabled \in BOOLEAN
    BY DEF Init
  <2> QED
    BY <1>3, <2>1, <2>2, <2>3, <2>4 DEF RegTypes
<1>5. SqTypes /\ CqTypes
  BY <1>3 DEF Init, SqTypes, CqTypes, OkCqs, NewSq, NewCq, NoBase, Words
<1>6. HostTypes
  <2>1. /\ DOMAIN host = HostFields /\ host.pc = "off" /\ host.script = w /\ host.granted = 0
        /\ host.has = {} /\ host.out = [q \in Queue |-> {}] /\ host.got = [c \in Cid |-> "none"]
        /\ host.tail = [q \in Queue |-> 0] /\ host.head = [q \in Queue |-> 0]
        /\ host.phase = [q \in Queue |-> 1]
    BY <1>1 DEF NewHost, HostFields
  <2>2. w \in Seq(Op)
    BY WorkloadAssumption
  <2> QED
    BY <1>3, <2>1, <2>2 DEF HostTypes
<1>7. Junk \in Commands
  <2>1. 1 \in Cid
    BY <1>2 DEF Cid
  <2> QED
    BY <2>1 DEF Junk, Commands, Op
<1>8. MemTypes
  <2>1. \A q \in Queue : EmptySq(q) \in [Slots(q) -> Commands]
    BY <1>7 DEF EmptySq, Slots
  <2>2. [cid |-> 0, res |-> 0, p |-> 0] \in Entries
    BY <1>2 DEF Entries
  <2>3. \A q \in Queue : EmptyCq(q) \in [Slots(q) -> Entries]
    BY <2>2 DEF EmptyCq, Slots
  <2> QED
    BY <2>1, <2>3 DEF Init, MemTypes
<1>9. RxTypes /\ TxTypes
  BY DEF Init, RxTypes, TxTypes
<1>10. CpuTypes
  BY <1>7 DEF Init, CpuTypes
<1> QED
  BY <1>4, <1>5, <1>6, <1>8, <1>9, <1>10 DEF Types

LEMMA QInit == Init => QInv
<1> SUFFICES ASSUME Init PROVE QInv
  OBVIOUS
<1>1. IInv /\ Types
  BY Initial, InitTypes
<1>2. PICK w \in Workload : host = NewHost(w, 0)
  BY DEF Init
<1>3. /\ host.pc = "off" /\ host.has = {} /\ host.out = [q \in Queue |-> {}]
      /\ host.tail = [q \in Queue |-> 0] /\ host.head = [q \in Queue |-> 0]
      /\ host.phase = [q \in Queue |-> 1]
  BY <1>2 DEF NewHost
<1>4. irq = <<>> /\ rx = <<>> /\ tx = <<>> /\ cpu = "idle"
  BY DEF Init
<1>5. /\ Queue = {Adm, 1} /\ Adm # 1 /\ MaxAdm \in Nat /\ MaxAdm >= 1
      /\ \A q \in Queue : Size[q] \in Nat /\ Size[q] >= 2
  BY Sizes
<1>6. \A r : ~InIrq(r)
  BY <1>4 DEF InIrq
<1>7. \A q \in Queue : ~SqOn(q) /\ ~CqOn(q)
  BY <1>3, <1>5 DEF SqOn, CqOn
<1>8. Clean
  BY <1>3, <1>4 DEF Clean
<1>9. Sized
  BY <1>3, <1>4, <1>6 DEF Sized
<1>10. Cmds
  <2>1. \A q \in Queue : host.out[q] = {}
    BY <1>3
  <2>2. Cardinality({}) = 0 /\ IsFiniteSet({})
    BY FS_EmptySet
  <2>3. \A q \in Queue : IsFiniteSet(host.out[q]) /\ Cardinality(host.out[q]) = 0
    BY <2>1, <2>2
  <2>4. CmdCount
    <3> SUFFICES ASSUME NEW q \in Queue
                 PROVE  /\ IsFiniteSet(host.out[q]) /\ Cardinality(host.out[q]) <= MaxAdm
                        /\ Cardinality(host.out[q]) <= Size[q] - 1
      BY DEF CmdCount
    <3>1. PICK n \in Nat : n = Size[q] /\ n >= 2
      BY <1>5
    <3> QED
      BY <1>5, <2>3, <3>1
  <2>5. CmdIds /\ CmdQids /\ CmdOne
    BY <1>5, <2>1 DEF CmdIds, CmdQids, CmdOne
  <2>6. CmdNew /\ CmdNoSq
    BY <1>3, <1>5, <2>1 DEF CmdNew, CmdNoSq
  <2> QED
    BY <2>4, <2>5, <2>6 DEF Cmds
<1>11. Completing /\ Submitting /\ Running
  BY <1>3, <1>7 DEF Completing, Submitting, Running
<1>12. Bells
  BY <1>6, <1>7 DEF Bells, TailBell, HeadBell
<1>13. Stale
  <2>1. \A s \in Slots(Adm) : cqMem[Adm][s].p = 0
    BY <1>5 DEF Init, EmptyCq, Slots
  <2> QED
    BY <1>4, <2>1 DEF Stale
<1> QED
  BY <1>1, <1>8, <1>9, <1>10, <1>11, <1>12, <1>13 DEF QInv

\* Nothing happens.
LEMMA QueuesStutter ==
  ASSUME QInv, UNCHANGED vars
  PROVE  QInv'
<1>1. IInv /\ Types /\ Clean /\ Sized /\ Cmds /\ Completing /\ Submitting /\ Running /\ Bells /\ Stale
  BY DEF QInv
<1>2. /\ UNCHANGED <<reg, csts, irq, enabled, sq, cq, beyond, cpu, filling, resp, rx, tx, txDone>>
      /\ UNCHANGED <<host, sqMem, cqMem>>
  BY DEF vars
<1>3. IInv'
  BY <1>1, Inductive
<1>4. \A r : InIrq(r)' <=> InIrq(r)
  BY <1>2 DEF InIrq
<1>5. Types'
  <2>1. RegTypes' /\ SqTypes' /\ CqTypes'
    BY <1>1, <1>2 DEF Types, RegTypes, SqTypes, CqTypes, OkCqs
  <2>2. HostTypes'
    BY <1>1, <1>2 DEF Types, HostTypes
  <2>3. MemTypes' /\ RxTypes' /\ TxTypes' /\ CpuTypes'
    BY <1>1, <1>2 DEF Types, MemTypes, RxTypes, TxTypes, CpuTypes
  <2> QED
    BY <2>1, <2>2, <2>3 DEF Types
<1>6. Clean' /\ Sized'
  BY <1>1, <1>2, <1>4 DEF Clean, Sized, SqUp, CqUp
<1>7. Cmds'
  BY <1>1, <1>2 DEF Cmds, CmdIds, CmdCount, CmdQids, CmdOne, CmdNew, CmdNoSq
<1>8. Unmoved
  BY <1>2, <1>4 DEF Unmoved, device, memory, Work
<1>9. Stale'
  BY <1>1, <1>2 DEF Stale, Going
<1>10. CASE host.pc = "off"
  <2>1. host'.pc = "off" /\ host'.has = {} /\ irq' = <<>>
    BY <1>1, <1>2, <1>10 DEF Clean, Cmds, CmdNew
  <2>2. \A q \in Queue : ~SqOn(q)' /\ ~CqOn(q)'
    BY <2>1 DEF SqOn, CqOn
  <2>3. \A r : ~InIrq(r)'
    BY <2>1 DEF InIrq
  <2>4. Completing' /\ Submitting' /\ Running'
    BY <2>1, <2>2 DEF Completing, Submitting, Running
  <2>5. Bells'
    BY <2>2, <2>3 DEF Bells, TailBell, HeadBell
  <2> QED
    BY <1>3, <1>5, <1>6, <1>7, <1>9, <2>4, <2>5 DEF QInv
<1>11. CASE host.pc # "off"
  <2>1. host'.pc # "off"
    BY <1>2, <1>11
  <2>2. /\ \A q \in Queue : (Ring(q) => Ring(q)') /\ (Under(q) => Under(q)') /\ (Sub(q) => Sub(q)')
        /\ \A q \in Queue : (CqOn(q)' <=> CqOn(q)) /\ (SqOn(q)' <=> SqOn(q))
        /\ (Busy => Busy') /\ (Creates => Creates') /\ (Room => Room') /\ (Data => Data')
        /\ (Bells => Bells')
    BY <1>8, <1>11, <2>1, UnmovedRest
  <2>3. Completing' /\ Submitting' /\ Running' /\ Bells'
    BY <1>1, <1>11, <2>2 DEF Completing, Submitting, Running
  <2> QED
    BY <1>3, <1>5, <1>6, <1>7, <1>9, <2>3 DEF QInv
<1> QED
  BY <1>10, <1>11

\* A completion is that of a command that the driver waits for.
LEMMA ConsumeFound ==
  ASSUME QInv, NEW q \in Queue, Consume(q)
  PROVE  \E c \in host.out[q] : Found(q, c) /\ Consumed(q, c)
<1>1. Visible(q) /\ host.pc = "live" /\ (q = Adm \/ "cq" \in host.has)
  BY DEF Consume
<1>2. PICK c \in host.out[q] : Found(q, c)
  BY <1>1, VisibleFound
<1>3. Consumed(q, c)
  BY <1>2, ConsumeIs DEF QInv, Found
<1> QED
  BY <1>2, <1>3, SMTT(30)

\* A step of the driver or of the controller, by what the queues make of it.
LEMMA QInductive == QInv /\ [Next]_vars => QInv'
<1> SUFFICES ASSUME QInv, [Next]_vars PROVE QInv'
  OBVIOUS
<1>1. IInv /\ Shapes /\ Types /\ HostTypes /\ Clean /\ Sized /\ IInv'
  BY Inductive DEF QInv, IInv, Types
<1>2. CASE HostControl /\ ~(HostSees /\ host'.pc = "off")
  <2>1. Controls
    BY <1>2 DEF HostControl, Controls
  <2>2. Types' /\ Clean' /\ Sized'
    BY <1>1, <1>2, <2>1, TypesControl, CleanControl, SizedControl
  <2> QED
    BY <1>1, <2>1, <2>2, QueuesControl DEF QInv
<1>3. CASE HostSees /\ host'.pc = "off"
  <2>1. HostControl
    BY <1>3 DEF HostControl
  <2>2. Types' /\ Clean' /\ Sized'
    BY <1>1, <1>3, <2>1, TypesOff, CleanControl, SizedOff
  <2> QED
    BY <1>1, <1>3, <2>2, QueuesOff DEF QInv
<1>4. CASE HostSubmits
  <2>1. PICK q \in Queue, c \in Commands : Submit(q, c) /\ Asked(q, c)
    BY <1>1, <1>4, SubmitsOne
  <2>2. host'.pc = "live"
    BY <1>1, <2>1, SubmitIs
  <2>3. Types' /\ Clean' /\ Sized'
    BY <1>1, <2>1, <2>2, TypesSubmit, CleanLive, SizedSubmit
  <2> QED
    BY <1>1, <2>1, <2>3, QueuesSubmit DEF QInv
<1>5. ASSUME NEW q \in Queue, Consume(q) PROVE QInv'
  <2>1. PICK c \in host.out[q] : Found(q, c) /\ Consumed(q, c)
    BY <1>5, ConsumeFound
  <2>2. host'.pc = "live"
    BY <2>1 DEF Consumed
  <2>3. Types'
    BY <1>1, <1>5, <2>1, TypesConsume DEF Found
  <2>4. Clean' /\ Sized'
    BY <1>1, <2>1, <2>2, CleanLive, SizedConsume DEF Found, NewCqMade, NewSqMade
  <2> QED
    BY <1>1, <2>1, <2>3, <2>4, QueuesConsume DEF QInv
<1>6. CASE Serve
  <2>1. Types' /\ Clean' /\ Sized'
    BY <1>1, <1>6, TypesServe, CleanServe, SizedServe
  <2> QED
    BY <1>1, <1>6, <2>1, QueuesServe DEF QInv
<1>7. CASE Engine
  <2>1. Clean' /\ Sized'
    BY <1>1, <1>7, CleanEngine, SizedEngine
  <2>2. Types'
    BY <1>1, <1>7, TypesHandle, TypesClear, TypesCallback, TypesFill, TypesMove, TypesCqMove
       DEF Engine, Callback
  <2>3. Cmds' /\ Completing' /\ Submitting' /\ Running' /\ Bells' /\ Stale'
    BY <1>7, QueuesHandle, QueuesClear, QueuesCallback, QueuesFill, QueuesMove, QueuesCqMove
       DEF Engine, Callback
  <2> QED
    BY <1>1, <2>1, <2>2, <2>3 DEF QInv
<1>8. CASE UNCHANGED vars
  BY <1>8, QueuesStutter
<1> QED
  BY <1>2, <1>3, <1>4, <1>5, <1>6, <1>7, <1>8 DEF Next, Engine

LEMMA QHolds == Spec => []QInv
BY QInit, QInductive, PTL DEF Spec

\* A command that has been fetched is one that the driver waits for, in its slot.
LEMMA FetchedCmd ==
  ASSUME QInv, host.pc = "live", NEW m \in 1..Len(rx)
  PROVE  \E q \in Queue : \E w \in 0..(Size[q] - 1) :
           /\ q = rx[m].qid /\ Win(q, w) /\ rx[m].slot \in Slots(q) /\ Age(q, rx[m].slot) \in 1..w
           /\ Entry(rx[m]) = sqMem[q][rx[m].slot] /\ Entry(rx[m]) \in host.out[q]
<1>1. Types /\ Cmds /\ Submitting /\ 1 \in Queue /\ Queue = {Adm, 1}
  BY Sizes DEF QInv
<1>2. PICK q \in Queue : q = rx[m].qid /\ rx[m].slot \in Slots(q)
  BY <1>1, FetchTypes
<1>3. SqOn(q)
  BY <1>1, <1>2 DEF SqOn, Cmds, CmdNoSq
<1>4. PICK w \in 0..(Size[q] - 1) : Win(q, w)
  BY <1>1, <1>3 DEF Submitting, Sub
<1>5. rx[m].base = Base /\ Unfetched(q) < Age(q, rx[m].slot) /\ Age(q, rx[m].slot) <= w
  BY <1>2, <1>4 DEF Win, WinRx
<1>6. Age(q, rx[m].slot) \in 1..w
  <2>1. PICK n \in Nat : n = Size[q] /\ Unfetched(q) \in 0..(n - 1) /\ Age(q, rx[m].slot) \in 0..(n - 1)
    BY <1>1, <1>2, AgeTypes, Sizes
  <2>2. w \in 0..(n - 1)
    BY <2>1
  <2> QED
    BY <1>5, <2>1, <2>2
<1>7. Entry(rx[m]) = sqMem[q][rx[m].slot]
  BY <1>2, <1>5 DEF Entry
<1>8. Entry(rx[m]) \in host.out[q]
  BY <1>2, <1>4, <1>6, <1>7 DEF Win, WinCmds
<1> QED
  BY <1>2, <1>4, <1>6, <1>7, <1>8

\* What nvme_tc_tail_handler has fetched, and nvme_cmd_handler is yet to run, are commands
\* that the driver waits for, each of them once: the window of the submission queue that
\* waits to be run never grows over a slot that is still in it, and nvme_cmd_create_sq
\* makes a queue anew only when nothing of the one before it is left to run.
THEOREM RunsOwnCommandsHolds == Spec => []RunsOwnCommands
<1>1. QInv => RunsOwnCommands
  <2> SUFFICES ASSUME QInv, host.pc = "live", NEW m \in 1..Len(rx), NEW n \in 1..Len(rx)
               PROVE  /\ Entry(rx[m]) \in host.out[rx[m].qid]
                      /\ rx[m].qid = rx[n].qid /\ Entry(rx[m]) = Entry(rx[n]) => m = n
    BY DEF RunsOwnCommands
  <2>1. PICK q \in Queue : \E w \in 0..(Size[q] - 1) :
          /\ q = rx[m].qid /\ Win(q, w) /\ rx[m].slot \in Slots(q) /\ Age(q, rx[m].slot) \in 1..w
          /\ Entry(rx[m]) = sqMem[q][rx[m].slot] /\ Entry(rx[m]) \in host.out[q]
    BY FetchedCmd
  <2>2. PICK w \in 0..(Size[q] - 1) :
          /\ q = rx[m].qid /\ Win(q, w) /\ rx[m].slot \in Slots(q) /\ Age(q, rx[m].slot) \in 1..w
          /\ Entry(rx[m]) = sqMem[q][rx[m].slot] /\ Entry(rx[m]) \in host.out[q]
    BY <2>1
  <2>3. ASSUME rx[n].qid = q, Entry(rx[m]) = Entry(rx[n]) PROVE m = n
    <3>1. /\ rx[n].slot \in Slots(q) /\ Entry(rx[n]) = sqMem[q][rx[n].slot]
          /\ Unfetched(q) < Age(q, rx[n].slot) /\ Age(q, rx[n].slot) <= w
      <4>1. rx[n].slot \in Slots(q) /\ Entry(rx[n]) = sqMem[q][rx[n].slot]
        BY <2>3, FetchedCmd
      <4>2. Unfetched(q) < Age(q, rx[n].slot) /\ Age(q, rx[n].slot) <= w
        BY <2>2, <2>3 DEF Win, WinRx
      <4> QED
        BY <4>1, <4>2
    <3>2. Age(q, rx[n].slot) \in 1..w
      <4>1. PICK a, l \in Nat : a = Unfetched(q) /\ l = Age(q, rx[n].slot)
        <5>1. Types
          BY DEF QInv
        <5>2. PICK k \in Nat : k = Size[q]
          BY Sizes
        <5>3. Unfetched(q) \in 0..(k - 1) /\ Age(q, rx[n].slot) \in 0..(k - 1)
          BY <3>1, <5>1, <5>2, AgeTypes
        <5> QED
          BY <5>3
      <4>2. a < l /\ l <= w
        BY <3>1, <4>1
      <4>3. PICK k \in Nat : k = Size[q]
        BY Sizes
      <4>4. w \in 0..(k - 1)
        BY <4>3
      <4> QED
        BY <4>1, <4>2, <4>4
    <3>3. rx[m].slot = rx[n].slot
      BY <2>2, <2>3, <3>1, <3>2 DEF Win, WinApart
    <3>4. WinOrder(q)
      BY <2>2 DEF Win
    <3>5. PICK a : a = Age(q, rx[m].slot) /\ a \in Nat
      BY <2>2
    <3>6. ~(m < n) /\ ~(n < m)
      BY <2>2, <2>3, <3>3, <3>4, <3>5 DEF WinOrder
    <3> QED
      BY <3>6
  <2> QED
    BY <2>2, <2>3
<1> QED
  BY <1>1, QHolds, PTL

\* A completion that the driver takes for new, by its phase, is one that nvme_cmd_return
\* posted for a command that the driver waits for; and when the command is identify or
\* get_log, nvme_cmd_return_cb posted it after its data had been moved.
THEOREM CompletionsAreNewHolds == Spec => []CompletionsAreNew
<1>1. QInv => CompletionsAreNew
  <2> SUFFICES ASSUME QInv, host.pc = "live", NEW q \in Queue, Visible(q),
                      q = Adm \/ "cq" \in host.has
               PROVE  \E c \in host.out[q] :
                        /\ c.cid = cqMem[q][host.head[q]].cid
                        /\ c.op \in DataOp => host.got[c.cid] # "none"
    BY DEF CompletionsAreNew
  <2>1. PICK c \in host.out[q] : Found(q, c)
    BY VisibleFound
  <2>2. c.cid = cqMem[q][host.head[q]].cid /\ Posted(q, c.cid)
    BY <2>1, SMTT(30) DEF Found
  <2>3. ASSUME c.op \in DataOp PROVE host.got[c.cid] # "none"
    <3>1. q = Adm
      <4>1. Cmds /\ Queue = {Adm, 1}
        BY Sizes DEF QInv
      <4>2. "io" \notin DataOp
        BY WorkloadAssumption
      <4> QED
        BY <2>3, <4>1, <4>2 DEF Cmds, CmdQids
    <3>2. DataOf(c)
      BY <2>3, <3>1 DEF QInv, Running, Data, DataCmds
    <3> QED
      BY <2>2, <3>1, <3>2 DEF DataOf, Got
  <2> QED
    BY <2>2, <2>3
<1> QED
  BY <1>1, QHolds, PTL

\* identify and get_log clear a static buffer that the engine may not have read yet: the
\* driver gets the response it asked for, or zeros and then another command of the kind
\* is outstanding, whose handler cleared the buffer.
THEOREM ResponsesIntactHolds == Spec => []ResponsesIntact
<1>1. QInv => ResponsesIntact
  <2> SUFFICES ASSUME QInv, host.pc = "live", NEW c \in host.out[Adm], c.op \in DataOp
               PROVE  \/ host.got[c.cid] \in {"none", c.op}
                      \/ host.got[c.cid] = "zero" /\ \E d \in host.out[Adm] : d # c /\ d.op = c.op
    BY DEF ResponsesIntact
  <2>1. DataOf(c)
    BY DEF QInv, Running, Data, DataCmds
  <2> QED
    BY <2>1 DEF DataOf, Got
<1> QED
  BY <1>1, QHolds, PTL

\* Types are kept, the indices of the queues with them; and as the driver names no queue but
\* the one it was granted, or one that no controller has, the identifier that
\* nvme_cmd_create_sq and the like let through by mistake never comes.
THEOREM ArraysRespectedHolds == Spec => []ArraysRespected
<1>1. QInv => ArraysRespected
  <2> SUFFICES ASSUME QInv PROVE TypeOK /\ ~beyond
    BY DEF ArraysRespected
  <2>1. Shapes /\ RegTypes /\ SqTypes /\ CqTypes /\ HostTypes /\ RxTypes /\ TxTypes /\ CpuTypes
    BY DEF QInv, IInv, Types
  <2>2. /\ DOMAIN reg = Register /\ \A n \in 1..Len(irq) : irq[n] \in DOMAIN reg
        /\ csts \in [rdy : {0, 1}, shst : {0, 2}] /\ enabled \in BOOLEAN
    BY <2>1 DEF Shapes, RegTypes
  <2>3. \A q \in Queue :
          /\ sq[q].size \in {0, Size[q]} /\ cq[q].size \in {0, Size[q]}
          /\ {sq[q].head, sq[q].tail, cq[q].head, cq[q].tail} \subseteq 0..(Size[q] - 1)
          /\ cq[q].phase \in {0, 1}
    BY <2>1 DEF SqTypes, CqTypes, OkCqs, Slots
  <2>4. Commands \subseteq Command
    BY DEF Commands, Command, QUEUES
  <2>5. /\ cpu \in {"idle", "tc", "fill"} /\ filling \in Command /\ ~beyond
        /\ resp \in [DataOp -> DataOp \cup {"zero"}] /\ txDone \in {0, 1}
    BY <2>1, <2>4 DEF CpuTypes, TxTypes
  <2>6. \A n \in 1..Len(rx) : rx[n].qid \in Queue /\ rx[n].slot \in 0..(Size[rx[n].qid] - 1)
    BY <2>1, FetchTypes DEF QInv, Slots
  <2>7. \A n \in 1..Len(tx) : tx[n].qid \in Queue /\ tx[n].slot \in 0..(Size[tx[n].qid] - 1)
    BY <2>1 DEF TxTypes, OkTransfer, Transfers, Slots
  <2>8. /\ host.pc \in {"off", "enabling", "live", "stopping", "down", "disabling"}
        /\ \A q \in Queue : host.out[q] \subseteq Command
    BY <2>1, <2>4 DEF HostTypes
  <2> QED
    BY <2>2, <2>3, <2>5, <2>6, <2>7, <2>8 DEF TypeOK
<1> QED
  BY <1>1, QHolds, PTL
=============================================================================
