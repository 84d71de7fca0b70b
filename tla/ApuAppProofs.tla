---------------------------- MODULE ApuAppProofs ----------------------------
(***************************************************************************)
(* Proofs about the APU application and its link to the RPU, for every     *)
(* workload, size of the ring and number of losses of power: the order and *)
(* number of the answers, what the flash device holds, and what a careful  *)
(* host may rely on while the runs of its accelerator go on concurrently.  *)
(***************************************************************************)
EXTENDS ApuApp, SequenceTheorems, TLAPS

-----------------------------------------------------------------------------
(* The inductive invariant                                                 *)

\* The ring and the commands not yet read.
LinkInv ==
  /\ boot # "ready" => acks = <<>> /\ ~host.linked
  /\ ~host.linked => sent = 0
  /\ \A i \in 1..Len(inbox) : inbox[i].id = sent - Len(inbox) + i
  /\ \A i \in 1..Len(acks) :
       /\ acks[i].id <= sent - Len(inbox)
       /\ acks[i].id = 0 => Len(acks) = 1 /\ ~host.linked
  /\ answered + lost + (Len(acks) - Greeting) + Len(inbox) = sent
  /\ lost = 0 => /\ \A i \in 1..(Len(acks) - Greeting) : acks[Greeting + i].id = answered + i
                 /\ sent - answered <= work.out
  /\ work.out <= AckCap => lost = 0

\* What the flashing thread has erased and written so far.
FlashInv ==
  /\ FlashHoldsOneImage
  /\ fw_thread.pc \in {"open", "erase", "write"} => fw_thread.buf \in committed
  /\ fw_thread.pc \in {"open", "erase"} =>
       \A i \in 1..DeviceSize : i <= fw_thread.at => flash[i] = Erased
  /\ fw_thread.pc = "write" =>
       fw_thread.at <= DeviceSize /\ flash = Piece(fw_thread.buf, 1, fw_thread.at)

Setup   == {"SetFw", "ReadLba", "WriteLba"}
Changes == Setup \cup {"Start", "Reset"}

\* The accelerator that the host uses has been started.
Used == \E r \in 1..Len(runs) : runs[r].obj = acc0

F(k) == inbox[k].cmd.f
Pos  == 1..Len(inbox)

\* What is on its way to the application, with a careful host.
QueueInv ==
  /\ \A k \in Pos : F(k) # "ReadFw" /\ (F(k) = "Status" => ~inbox[k].cmd.rae)
  /\ \A k \in Pos : F(k) = "Start" =>
       /\ host.acc = "started" /\ inbox[k].id = host.asked
       /\ \A j \in Pos : j > k => F(j) \notin Changes
  /\ host.acc = "started" =>
       \A k \in Pos : F(k) \in Changes => \E j \in Pos : j >= k /\ F(j) = "Start"
  /\ host.acc \in {"done", "fail"} => \A k \in Pos : F(k) \notin Changes
  /\ host.asked <= sent

\* What the runs are doing, with a careful host.
RunsInv ==
  /\ misuse \subseteq {"log"}
  /\ \A r \in 1..Len(runs) : runs[r].obj = acc0 => r = Len(runs)
  /\ \A r \in 1..Len(runs) : Working(r) =>
       /\ host.acc = "started" /\ runs[r].obj = acc0
       /\ \A k \in Pos : F(k) \notin Changes
  /\ Used =>
       /\ host.acc = "fresh" => \E k \in Pos : F(k) = "Reset"
       /\ \A k \in Pos : F(k) \in Setup \cup {"Start"} => \E j \in Pos : j < k /\ F(j) = "Reset"
  /\ objs[acc0].state # "idle" => Used
  /\ objs[acc0].state \in {"done", "fail"} => \A r \in 1..Len(runs) : ~Working(r)
  /\ host.acc \in {"done", "fail"} => objs[acc0].state = host.acc
  /\ \A i \in 1..Len(acks) :
       host.acc = "started" /\ acks[i].head \in {"done", "fail"} /\ acks[i].id > host.asked =>
         /\ \A k \in Pos : F(k) # "Start"
         /\ objs[acc0].state = acks[i].head

CarefulInv == work.resets => QueueInv /\ RunsInv

-----------------------------------------------------------------------------
(* What a run computes                                                     *)

\* No RESET is behind command k.
LastPart(k) == \A j \in Pos : F(j) = "Reset" => j < k
NoReset     == \A j \in Pos : F(j) # "Reset"

\* The firmware that is set when command k is handled: what the last SEND_FW before
\* it sent.
FirmwareAt(k, fw) ==
  \/ (\A j \in Pos : j < k => F(j) # "SendFw") /\ fw_map = fw
  \/ \E j \in Pos : /\ j < k /\ F(j) = "SendFw" /\ inbox[j].cmd.fw = fw
                    /\ \A i \in Pos : i > j /\ i < k => F(i) # "SendFw"

\* What the accelerator is set up with, once the commands on their way are handled.
SetupInv ==
  /\ host.inp <=> (NoReset /\ objs[acc0].ramdisk_in) \/ \E k \in Pos : F(k) = "ReadLba" /\ LastPart(k)
  /\ host.out <=> (NoReset /\ objs[acc0].ramdisk_out) \/ \E k \in Pos : F(k) = "WriteLba" /\ LastPart(k)
  /\ FirmwareAt(Len(inbox) + 1, host.sent)
  /\ \A k \in Pos : /\ F(k) = "SetFw" /\ LastPart(k)
                    /\ \A j \in Pos : j > k => F(j) # "SetFw"
                    => FirmwareAt(k, host.fw)
  /\ (\A k \in Pos : F(k) = "SetFw" => ~LastPart(k)) =>
       host.fw = IF NoReset THEN objs[acc0].firmware ELSE NoFirmware

\* Run p of object a, for a host h: what it has loaded, read and computed, and what
\* the output blocks d of the RAM disk hold once it has written them.  A run that
\* failed to load has ended too, but the state of its object is not done.
RunIs(a, p, h, d) ==
  LET past(pcs) == p.pc \in pcs \/ (p.pc = "ended" /\ a.state = "done") IN
  /\ past({"in", "exec", "out", "done", "log"}) => p.fw = h.fw
  /\ p.pc \in {"start", "load", "in"} => a.ibuf = NoData
  /\ past({"exec", "out", "done", "log"}) => a.ibuf = h.data
  /\ past({"out", "done", "log"}) /\ p.ok /\ h.out => a.obuf = Result(h.fw, h.data)
  /\ past({"done", "log"}) /\ p.ok /\ h.out => d = Result(h.fw, h.data)

Quiet == \A k \in 1..Len(inbox) : inbox[k].cmd.f \notin Changes

ResultInv ==
  /\ ~Used => objs[acc0].ibuf = NoData
  /\ host.acc = "started" => host.data = IF host.inp THEN ramdisk.inp ELSE NoData
  /\ \A r \in 1..Len(runs) : runs[r].obj = acc0 /\ host.acc # "fresh" /\ Quiet =>
       RunIs(objs[acc0], runs[r], host, ramdisk.out)

DataInv == work.resets /\ ~unmapped => SetupInv /\ ResultInv

-----------------------------------------------------------------------------
(* What a step of a run does                                               *)

\* Run p, of object a, goes on as q, with the object as o.
RunsOn(a, p, o, q) ==
  /\ o.live = a.live /\ o.ramdisk_in = a.ramdisk_in /\ o.ramdisk_out = a.ramdisk_out
  /\ o.firmware = a.firmware /\ q.obj = p.obj
  /\ \/ /\ p.pc = "start" /\ q.pc = "load" /\ o.state = "running"
        /\ o.ibuf = a.ibuf /\ o.obuf = a.obuf /\ q.fw = p.fw /\ q.ok = p.ok /\ ramdisk' = ramdisk
     \/ /\ p.pc = "load" /\ q.pc = "ended" /\ o.state = "fail"
        /\ o.ibuf = a.ibuf /\ o.obuf = a.obuf /\ q.fw = p.fw /\ q.ok = p.ok /\ ramdisk' = ramdisk
     \/ /\ p.pc = "load" /\ q.pc = "in" /\ o = a /\ q.fw = a.firmware /\ q.ok = p.ok
        /\ ramdisk' = ramdisk
     \/ /\ p.pc = "in" /\ q.pc = "exec" /\ o.state = a.state /\ o.obuf = a.obuf
        /\ o.ibuf = IF a.ramdisk_in THEN ramdisk.inp ELSE a.ibuf
        /\ q.fw = p.fw /\ q.ok = p.ok /\ ramdisk' = ramdisk
     \/ /\ p.pc = "exec" /\ q.pc = "out" /\ o.state = a.state /\ o.ibuf = a.ibuf
        /\ ~a.ramdisk_out => o.obuf = a.obuf
        /\ a.ramdisk_out /\ q.ok => o.obuf = Result(p.fw, a.ibuf)
        /\ q.fw = p.fw /\ ramdisk' = ramdisk
     \/ /\ p.pc = "out" /\ q.pc = "done" /\ o = a /\ q.fw = p.fw /\ q.ok = p.ok
        /\ ramdisk'.inp = ramdisk.inp
        /\ a.ramdisk_out => ramdisk'.out = a.obuf
     \/ /\ p.pc = "done" /\ q.pc = "log" /\ o.state = "done"
        /\ o.ibuf = a.ibuf /\ o.obuf = a.obuf /\ q.fw = p.fw /\ q.ok = p.ok /\ ramdisk' = ramdisk
     \/ /\ p.pc = "log" /\ q.pc = "ended" /\ o = a /\ q.fw = p.fw /\ q.ok = p.ok
        /\ ramdisk' = ramdisk

Pcs == {"start", "load", "in", "exec", "out", "done", "log", "ended"}

\* A run at another point, with its firmware, with its result.
Moved(p, to)      == [p EXCEPT !.pc = to]
Loaded(p, to, fw) == [p EXCEPT !.pc = to, !.fw = fw]
Ran(p, to, ok)    == [p EXCEPT !.pc = to, !.ok = ok]

\* A run goes on.
LEMMA RunMoved ==
  ASSUME NEW p \in Runs, NEW to \in Pcs
  PROVE  \E q \in Runs :
           /\ q = Moved(p, to)
           /\ q.pc = to /\ q.obj = p.obj /\ q.fw = p.fw
           /\ q.ok = p.ok
  <1>1. Moved(p, to) \in Runs
    BY DEF Moved, Runs, Pcs
  <1>2. /\ Moved(p, to).pc = to
        /\ Moved(p, to).obj = p.obj
        /\ Moved(p, to).fw = p.fw
        /\ Moved(p, to).ok = p.ok
    BY DEF Moved, Runs, Pcs
  <1> QED
    BY <1>1, <1>2

\* A run has its firmware.
LEMMA RunLoaded ==
  ASSUME NEW p \in Runs, NEW to \in Pcs, NEW fw \in Firmware \cup {NoFirmware}
  PROVE  \E q \in Runs :
           /\ q = Loaded(p, to, fw)
           /\ q.pc = to /\ q.obj = p.obj /\ q.fw = fw
           /\ q.ok = p.ok
  <1>1. Loaded(p, to, fw) \in Runs
    BY DEF Loaded, Runs, Pcs
  <1>2. /\ Loaded(p, to, fw).pc = to
        /\ Loaded(p, to, fw).obj = p.obj
        /\ Loaded(p, to, fw).fw = fw
        /\ Loaded(p, to, fw).ok = p.ok
    BY DEF Loaded, Runs, Pcs
  <1> QED
    BY <1>1, <1>2

\* A run knows whether its execution failed.
LEMMA RunRan ==
  ASSUME NEW p \in Runs, NEW to \in Pcs, NEW ok \in BOOLEAN
  PROVE  \E q \in Runs :
           /\ q = Ran(p, to, ok)
           /\ q.pc = to /\ q.obj = p.obj /\ q.fw = p.fw
           /\ q.ok = ok
  <1>1. Ran(p, to, ok) \in Runs
    BY DEF Ran, Runs, Pcs
  <1>2. /\ Ran(p, to, ok).pc = to
        /\ Ran(p, to, ok).obj = p.obj
        /\ Ran(p, to, ok).fw = p.fw
        /\ Ran(p, to, ok).ok = ok
    BY DEF Ran, Runs, Pcs
  <1> QED
    BY <1>1, <1>2

\* An object in another state, with another input, with another output.
WithState(a, s)  == [a EXCEPT !.state = s]
WithInput(a, i)  == [a EXCEPT !.ibuf = i]
WithOutput(a, x) == [a EXCEPT !.obuf = x]

\* The state of an object changes.
LEMMA AccStateSet ==
  ASSUME NEW a \in Accs, NEW s \in AccState
  PROVE  \E o \in Accs :
           /\ o = WithState(a, s)
           /\ o.live = a.live /\ o.state = s /\ o.ramdisk_in = a.ramdisk_in
           /\ o.ramdisk_out = a.ramdisk_out /\ o.firmware = a.firmware /\ o.ibuf = a.ibuf
           /\ o.obuf = a.obuf
  <1>1. WithState(a, s) \in Accs
    BY DEF WithState, Accs
  <1>2. /\ WithState(a, s).live = a.live
        /\ WithState(a, s).state = s
        /\ WithState(a, s).ramdisk_in = a.ramdisk_in
        /\ WithState(a, s).ramdisk_out = a.ramdisk_out
        /\ WithState(a, s).firmware = a.firmware
        /\ WithState(a, s).ibuf = a.ibuf
        /\ WithState(a, s).obuf = a.obuf
    BY DEF WithState, Accs
  <1> QED
    BY <1>1, <1>2

\* The input of an object changes.
LEMMA AccInput ==
  ASSUME NEW a \in Accs, NEW i \in Data \cup {NoData}
  PROVE  \E o \in Accs :
           /\ o = WithInput(a, i)
           /\ o.live = a.live /\ o.state = a.state /\ o.ramdisk_in = a.ramdisk_in
           /\ o.ramdisk_out = a.ramdisk_out /\ o.firmware = a.firmware /\ o.ibuf = i
           /\ o.obuf = a.obuf
  <1>1. WithInput(a, i) \in Accs
    BY DEF WithInput, Accs
  <1>2. /\ WithInput(a, i).live = a.live
        /\ WithInput(a, i).state = a.state
        /\ WithInput(a, i).ramdisk_in = a.ramdisk_in
        /\ WithInput(a, i).ramdisk_out = a.ramdisk_out
        /\ WithInput(a, i).firmware = a.firmware
        /\ WithInput(a, i).ibuf = i
        /\ WithInput(a, i).obuf = a.obuf
    BY DEF WithInput, Accs
  <1> QED
    BY <1>1, <1>2

\* The output of an object changes.
LEMMA AccOutput ==
  ASSUME NEW a \in Accs, NEW x \in Outputs
  PROVE  \E o \in Accs :
           /\ o = WithOutput(a, x)
           /\ o.live = a.live /\ o.state = a.state /\ o.ramdisk_in = a.ramdisk_in
           /\ o.ramdisk_out = a.ramdisk_out /\ o.firmware = a.firmware /\ o.ibuf = a.ibuf
           /\ o.obuf = x
  <1>1. WithOutput(a, x) \in Accs
    BY DEF WithOutput, Accs
  <1>2. /\ WithOutput(a, x).live = a.live
        /\ WithOutput(a, x).state = a.state
        /\ WithOutput(a, x).ramdisk_in = a.ramdisk_in
        /\ WithOutput(a, x).ramdisk_out = a.ramdisk_out
        /\ WithOutput(a, x).firmware = a.firmware
        /\ WithOutput(a, x).ibuf = a.ibuf
        /\ WithOutput(a, x).obuf = x
    BY DEF WithOutput, Accs
  <1> QED
    BY <1>1, <1>2

\* A step of run r, on records of their own.
LEMMA RunShape ==
  ASSUME AccTypeOK, NEW r \in 1..Len(runs), RunStep(r)
  PROVE  \E n \in 1..Len(objs), a \in Accs, p \in Runs, o \in Accs, q \in Runs :
           /\ n = runs[r].obj /\ a = objs[n] /\ p = runs[r] /\ RunsOn(a, p, o, q)
           /\ objs' = [objs EXCEPT ![n] = o] /\ runs' = [runs EXCEPT ![r] = q]
           /\ misuse' = IF a.live THEN misuse ELSE misuse \cup {p.pc}
           /\ ramdisk' \in [inp : Data \cup {NoData}, out : Outputs]
           /\ UNCHANGED <<fw_map, heads, crashed>>
  <1>1. /\ objs \in Seq(Accs) /\ runs \in Seq(Runs) /\ runs[r].obj \in 1..Len(objs)
        /\ ramdisk \in [inp : Data \cup {NoData}, out : Outputs]
    BY DEF AccTypeOK
  <1>2. PICK p \in Runs : p = runs[r]
    BY <1>1, ElementOfSeq
  <1>3. PICK n \in 1..Len(objs) : n = p.obj
    BY <1>1, <1>2
  <1>4. PICK a \in Accs : a = objs[n]
    BY <1>1, ElementOfSeq
  <1>5. n = runs[r].obj /\ a = Obj(r) /\ objs[runs[r].obj] = a
    BY <1>2, <1>3, <1>4 DEF Obj
  <1>6. p.fw \in Firmware \cup {NoFirmware} /\ p.ok \in BOOLEAN /\ a.firmware \in Firmware \cup {NoFirmware}
        /\ ramdisk.inp \in Data \cup {NoData} /\ a.ibuf \in Data \cup {NoData} /\ a.obuf \in Outputs
    BY <1>1 DEF Runs, Accs
  <1>7. ASSUME NEW to \in Pcs, NEW o \in Accs, Touch(r, p.pc, to, o)
        PROVE  \E q \in Runs :
                 /\ objs' = [objs EXCEPT ![n] = o] /\ runs' = [runs EXCEPT ![r] = q]
                 /\ q.pc = to /\ q.obj = p.obj /\ q.fw = p.fw /\ q.ok = p.ok
                 /\ misuse' = IF a.live THEN misuse ELSE misuse \cup {p.pc}
    <2>1. /\ objs' = [objs EXCEPT ![n] = o]
          /\ misuse' = IF a.live THEN misuse ELSE misuse \cup {p.pc}
          /\ runs' = [runs EXCEPT ![r].pc = to]
      BY <1>5, <1>7, Zenon DEF Touch
    <2>2. runs' = [runs EXCEPT ![r] = [runs[r] EXCEPT !.pc = to]]
      BY <2>1
    <2>3. runs' = [runs EXCEPT ![r] = [p EXCEPT !.pc = to]]
      BY <1>2, <2>2, Zenon
    <2>4. PICK q \in Runs : /\ q = Moved(p, to)
                            /\ q.pc = to /\ q.obj = p.obj /\ q.fw = p.fw /\ q.ok = p.ok
      BY <1>6, RunMoved
    <2>5. runs' = [runs EXCEPT ![r] = q]
      BY <2>3, <2>4, Zenon DEF Moved
    <2> QED
      BY <2>1, <2>4, <2>5
  <1>8. CASE RunStart(r)
    <2>1. p.pc = "start" /\ Touch(r, p.pc, "load", [a EXCEPT !.state = "running"]) /\ UNCHANGED <<fw_map, ramdisk, heads, crashed>>
      BY <1>2, <1>5, <1>8, Zenon DEF RunStart, Touch
    <2>2. PICK o \in Accs : /\ o = WithState(a, "running") /\ o.state = "running" /\ o.live = a.live
                            /\ o.ramdisk_in = a.ramdisk_in /\ o.ramdisk_out = a.ramdisk_out
                            /\ o.firmware = a.firmware /\ o.ibuf = a.ibuf /\ o.obuf = a.obuf
      BY <1>6, AccStateSet DEF AccState
    <2>3. Touch(r, p.pc, "load", o)
      BY <2>1, <2>2, Zenon DEF WithState, WithInput
    <2>4. PICK q \in Runs :
            /\ objs' = [objs EXCEPT ![n] = o] /\ runs' = [runs EXCEPT ![r] = q]
            /\ q.pc = "load" /\ q.obj = p.obj /\ q.fw = p.fw /\ q.ok = p.ok
            /\ misuse' = IF a.live THEN misuse ELSE misuse \cup {p.pc}
      BY <1>7, <2>3 DEF Pcs
    <2>5. RunsOn(a, p, o, q)
      BY <2>1, <2>2, <2>4 DEF RunsOn
    <2> QED
      BY <1>1, <1>2, <1>3, <1>4, <2>1, <2>4, <2>5
  <1>9. CASE RunFails(r)
    <2>1. p.pc = "load" /\ Touch(r, p.pc, "ended", [a EXCEPT !.state = "fail"]) /\ UNCHANGED <<fw_map, ramdisk, heads, crashed>>
      BY <1>2, <1>5, <1>9, Zenon DEF RunFails, Touch
    <2>2. PICK o \in Accs : /\ o = WithState(a, "fail") /\ o.state = "fail" /\ o.live = a.live
                            /\ o.ramdisk_in = a.ramdisk_in /\ o.ramdisk_out = a.ramdisk_out
                            /\ o.firmware = a.firmware /\ o.ibuf = a.ibuf /\ o.obuf = a.obuf
      BY <1>6, AccStateSet DEF AccState
    <2>3. Touch(r, p.pc, "ended", o)
      BY <2>1, <2>2, Zenon DEF WithState, WithInput
    <2>4. PICK q \in Runs :
            /\ objs' = [objs EXCEPT ![n] = o] /\ runs' = [runs EXCEPT ![r] = q]
            /\ q.pc = "ended" /\ q.obj = p.obj /\ q.fw = p.fw /\ q.ok = p.ok
            /\ misuse' = IF a.live THEN misuse ELSE misuse \cup {p.pc}
      BY <1>7, <2>3 DEF Pcs
    <2>5. RunsOn(a, p, o, q)
      BY <2>1, <2>2, <2>4 DEF RunsOn
    <2> QED
      BY <1>1, <1>2, <1>3, <1>4, <2>1, <2>4, <2>5
  <1>10. CASE RunLoads(r)
    <2>1. /\ p.pc = "load" /\ runs' = [runs EXCEPT ![r].pc = "in", ![r].fw = a.firmware]
          /\ misuse' = IF a.live THEN misuse ELSE misuse \cup {"load"}
          /\ UNCHANGED <<objs, fw_map, ramdisk, heads, crashed>>
      BY <1>2, <1>5, <1>10, Zenon DEF RunLoads
    <2>2. PICK q \in Runs : /\ q = Loaded(p, "in", a.firmware)
                            /\ q.pc = "in" /\ q.obj = p.obj /\ q.fw = a.firmware /\ q.ok = p.ok
      <3>1. PICK fw \in Firmware \cup {NoFirmware} : fw = a.firmware
        BY <1>6
      <3>2. "in" \in Pcs
        BY DEF Pcs
      <3> QED
        BY <3>1, <3>2, RunLoaded
    <2>3. runs' = [runs EXCEPT ![r] = q]
      <3>1. runs' = [runs EXCEPT ![r] = [runs[r] EXCEPT !.pc = "in", !.fw = a.firmware]]
        BY <2>1
      <3> QED
        BY <1>2, <2>2, <3>1, Zenon DEF Loaded, Ran
    <2>4. objs' = [objs EXCEPT ![n] = a]
      <3>1. objs \in [1..Len(objs) -> Accs]
        BY <1>1, LenProperties
      <3> QED
        BY <1>4, <2>1, <3>1
    <2>5. RunsOn(a, p, a, q)
      BY <2>1, <2>2 DEF RunsOn
    <2> QED
      BY <1>1, <1>2, <1>3, <1>4, <2>1, <2>3, <2>4, <2>5
  <1>11. CASE RunReads(r)
    <2>1. /\ p.pc = "in" /\ UNCHANGED <<fw_map, ramdisk, heads, crashed>>
          /\ Touch(r, p.pc, "exec", IF a.ramdisk_in THEN [a EXCEPT !.ibuf = ramdisk.inp] ELSE a)
      BY <1>2, <1>5, <1>11, Zenon DEF RunReads, Touch
    <2>2. PICK o \in Accs : /\ o = (IF a.ramdisk_in THEN WithInput(a, ramdisk.inp) ELSE a)
                            /\ o.live = a.live /\ o.state = a.state
                            /\ o.ramdisk_in = a.ramdisk_in /\ o.ramdisk_out = a.ramdisk_out
                            /\ o.firmware = a.firmware /\ o.obuf = a.obuf
                            /\ o.ibuf = IF a.ramdisk_in THEN ramdisk.inp ELSE a.ibuf
      <3>1. PICK c \in Accs : /\ c = WithInput(a, ramdisk.inp)
                              /\ c.live = a.live /\ c.state = a.state
                              /\ c.ramdisk_in = a.ramdisk_in /\ c.ramdisk_out = a.ramdisk_out
                              /\ c.firmware = a.firmware /\ c.obuf = a.obuf /\ c.ibuf = ramdisk.inp
        BY <1>6, AccInput
      <3>2. CASE a.ramdisk_in
        <4>1. c = (IF a.ramdisk_in THEN WithInput(a, ramdisk.inp) ELSE a)
          BY <3>1, <3>2, Zenon
        <4> QED
          BY <3>1, <3>2, <4>1
      <3>3. CASE ~a.ramdisk_in
        <4>1. a = (IF a.ramdisk_in THEN WithInput(a, ramdisk.inp) ELSE a)
          BY <3>3, Zenon
        <4> QED
          BY <3>3, <4>1
      <3> QED
        BY <3>2, <3>3
    <2>3. Touch(r, p.pc, "exec", o)
      BY <2>1, <2>2, Zenon DEF WithInput
    <2>4. PICK q \in Runs :
            /\ objs' = [objs EXCEPT ![n] = o] /\ runs' = [runs EXCEPT ![r] = q]
            /\ q.pc = "exec" /\ q.obj = p.obj /\ q.fw = p.fw /\ q.ok = p.ok
            /\ misuse' = IF a.live THEN misuse ELSE misuse \cup {p.pc}
      BY <1>7, <2>3 DEF Pcs
    <2>5. RunsOn(a, p, o, q)
      BY <2>1, <2>2, <2>4 DEF RunsOn
    <2> QED
      BY <1>1, <1>2, <1>3, <1>4, <2>1, <2>4, <2>5
  <1>12. CASE RunExecutes(r)
    <2> DEFINE result(ok) == IF ok THEN Result(p.fw, a.ibuf) ELSE Broken(p.fw)
    <2>1. PICK ok \in BOOLEAN :
          /\ p.pc = "exec" /\ runs' = [runs EXCEPT ![r].pc = "out", ![r].ok = ok]
          /\ objs' = [objs EXCEPT ![n].obuf = IF a.ramdisk_out THEN result(ok) ELSE @]
          /\ misuse' = IF a.live THEN misuse ELSE misuse \cup {"exec"}
          /\ UNCHANGED <<fw_map, ramdisk, heads, crashed>>
      BY <1>2, <1>5, <1>12, Zenon DEF RunExecutes
    <2>2. PICK q \in Runs : /\ q = Ran(p, "out", ok)
                            /\ q.pc = "out" /\ q.obj = p.obj /\ q.fw = p.fw /\ q.ok = ok
      BY <1>6, RunRan DEF Pcs
    <2>3. runs' = [runs EXCEPT ![r] = q]
      <3>1. runs' = [runs EXCEPT ![r] = [runs[r] EXCEPT !.pc = "out", !.ok = ok]]
        BY <2>1
      <3> QED
        BY <1>2, <2>2, <3>1, Zenon DEF Loaded, Ran
    <2>4. PICK x \in Outputs : /\ x = (IF a.ramdisk_out THEN result(ok) ELSE a.obuf)
                               /\ ~a.ramdisk_out => x = a.obuf
                               /\ a.ramdisk_out /\ ok => x = Result(p.fw, a.ibuf)
      <3>1. Result(p.fw, a.ibuf) \in Outputs /\ Broken(p.fw) \in Outputs
        BY <1>6 DEF Outputs, Result, Broken
      <3> QED
        BY <1>6, <3>1
    <2>5. PICK o \in Accs : /\ o = WithOutput(a, x) /\ o.live = a.live /\ o.state = a.state
                            /\ o.ramdisk_in = a.ramdisk_in /\ o.ramdisk_out = a.ramdisk_out
                            /\ o.firmware = a.firmware /\ o.obuf = x /\ o.ibuf = a.ibuf
      BY <1>6, AccOutput
    <2>6. objs' = [objs EXCEPT ![n] = o]
      <3>1. objs' = [objs EXCEPT ![n] = [objs[n] EXCEPT !.obuf = IF a.ramdisk_out THEN result(ok) ELSE objs[n].obuf]]
        BY <2>1
      <3>2. x = (IF a.ramdisk_out THEN result(ok) ELSE objs[n].obuf)
        BY <1>4, <2>4, Zenon
      <3> HIDE DEF result
      <3> QED
        BY <1>4, <2>5, <3>1, <3>2, Zenon DEF WithOutput
    <2>7. RunsOn(a, p, o, q)
      BY <2>1, <2>2, <2>4, <2>5 DEF RunsOn
    <2> QED
      BY <1>1, <1>2, <1>3, <1>4, <2>1, <2>3, <2>6, <2>7
  <1>13. CASE RunWrites(r)
    <2>1. /\ p.pc = "out" /\ Touch(r, p.pc, "done", a) /\ UNCHANGED <<fw_map, heads, crashed>>
          /\ ramdisk' = IF a.ramdisk_out THEN [ramdisk EXCEPT !.out = a.obuf] ELSE ramdisk
      BY <1>2, <1>5, <1>13, Zenon DEF RunWrites, Touch
    <2>2. PICK q \in Runs :
            /\ objs' = [objs EXCEPT ![n] = a] /\ runs' = [runs EXCEPT ![r] = q]
            /\ q.pc = "done" /\ q.obj = p.obj /\ q.fw = p.fw /\ q.ok = p.ok
            /\ misuse' = IF a.live THEN misuse ELSE misuse \cup {p.pc}
      BY <1>7, <2>1 DEF Pcs
    <2>3. /\ ramdisk' \in [inp : Data \cup {NoData}, out : Outputs]
          /\ ramdisk'.inp = ramdisk.inp /\ (a.ramdisk_out => ramdisk'.out = a.obuf)
      BY <1>1, <1>6, <2>1
    <2>4. RunsOn(a, p, a, q)
      BY <2>1, <2>2, <2>3 DEF RunsOn
    <2> QED
      BY <1>2, <1>3, <1>4, <2>1, <2>2, <2>3, <2>4
  <1>14. CASE RunDone(r)
    <2>1. p.pc = "done" /\ Touch(r, p.pc, "log", [a EXCEPT !.state = "done"]) /\ UNCHANGED <<fw_map, ramdisk, heads, crashed>>
      BY <1>2, <1>5, <1>14, Zenon DEF RunDone, Touch
    <2>2. PICK o \in Accs : /\ o = WithState(a, "done") /\ o.state = "done" /\ o.live = a.live
                            /\ o.ramdisk_in = a.ramdisk_in /\ o.ramdisk_out = a.ramdisk_out
                            /\ o.firmware = a.firmware /\ o.ibuf = a.ibuf /\ o.obuf = a.obuf
      BY <1>6, AccStateSet DEF AccState
    <2>3. Touch(r, p.pc, "log", o)
      BY <2>1, <2>2, Zenon DEF WithState, WithInput
    <2>4. PICK q \in Runs :
            /\ objs' = [objs EXCEPT ![n] = o] /\ runs' = [runs EXCEPT ![r] = q]
            /\ q.pc = "log" /\ q.obj = p.obj /\ q.fw = p.fw /\ q.ok = p.ok
            /\ misuse' = IF a.live THEN misuse ELSE misuse \cup {p.pc}
      BY <1>7, <2>3 DEF Pcs
    <2>5. RunsOn(a, p, o, q)
      BY <2>1, <2>2, <2>4 DEF RunsOn
    <2> QED
      BY <1>1, <1>2, <1>3, <1>4, <2>1, <2>4, <2>5
  <1>15. CASE RunLogs(r)
    <2>1. p.pc = "log" /\ Touch(r, p.pc, "ended", a) /\ UNCHANGED <<fw_map, ramdisk, heads, crashed>>
      BY <1>2, <1>5, <1>15, Zenon DEF RunLogs, Touch
    <2>2. PICK q \in Runs :
            /\ objs' = [objs EXCEPT ![n] = a] /\ runs' = [runs EXCEPT ![r] = q]
            /\ q.pc = "ended" /\ q.obj = p.obj /\ q.fw = p.fw /\ q.ok = p.ok
            /\ misuse' = IF a.live THEN misuse ELSE misuse \cup {p.pc}
      BY <1>7, <2>1 DEF Pcs
    <2>3. RunsOn(a, p, a, q)
      BY <2>1, <2>2 DEF RunsOn
    <2> QED
      BY <1>1, <1>2, <1>3, <1>4, <2>1, <2>2, <2>3
  <1> QED
    BY <1>8, <1>9, <1>10, <1>11, <1>12, <1>13, <1>14, <1>15 DEF RunStep

-----------------------------------------------------------------------------
(* What the main loop does with the accelerator                            *)

\* An object that reads the RAM disk, that writes it, with its firmware.
Reading(a)       == [a EXCEPT !.ramdisk_in = TRUE]
Writing(a)       == [a EXCEPT !.ramdisk_out = TRUE]
WithFirmware(a, fw) == [a EXCEPT !.firmware = fw]

\* An object is to read the RAM disk.
LEMMA AccReading ==
  ASSUME NEW a \in Accs
  PROVE  \E o \in Accs :
           /\ o = Reading(a)
           /\ o.live = a.live /\ o.state = a.state /\ o.ramdisk_in
           /\ o.ramdisk_out = a.ramdisk_out /\ o.firmware = a.firmware /\ o.ibuf = a.ibuf
           /\ o.obuf = a.obuf
  <1>1. Reading(a) \in Accs
    BY DEF Reading, Accs
  <1>2. /\ Reading(a).live = a.live
        /\ Reading(a).state = a.state
        /\ Reading(a).ramdisk_in
        /\ Reading(a).ramdisk_out = a.ramdisk_out
        /\ Reading(a).firmware = a.firmware
        /\ Reading(a).ibuf = a.ibuf
        /\ Reading(a).obuf = a.obuf
    BY DEF Reading, Accs
  <1> QED
    BY <1>1, <1>2

\* An object is to write the RAM disk.
LEMMA AccWriting ==
  ASSUME NEW a \in Accs
  PROVE  \E o \in Accs :
           /\ o = Writing(a)
           /\ o.live = a.live /\ o.state = a.state /\ o.ramdisk_in = a.ramdisk_in
           /\ o.ramdisk_out /\ o.firmware = a.firmware /\ o.ibuf = a.ibuf
           /\ o.obuf = a.obuf
  <1>1. Writing(a) \in Accs
    BY DEF Writing, Accs
  <1>2. /\ Writing(a).live = a.live
        /\ Writing(a).state = a.state
        /\ Writing(a).ramdisk_in = a.ramdisk_in
        /\ Writing(a).ramdisk_out
        /\ Writing(a).firmware = a.firmware
        /\ Writing(a).ibuf = a.ibuf
        /\ Writing(a).obuf = a.obuf
    BY DEF Writing, Accs
  <1> QED
    BY <1>1, <1>2

\* An object gets its firmware.
LEMMA AccFirmware ==
  ASSUME NEW a \in Accs, NEW fw \in Firmware \cup {NoFirmware}
  PROVE  \E o \in Accs :
           /\ o = WithFirmware(a, fw)
           /\ o.live = a.live /\ o.state = a.state /\ o.ramdisk_in = a.ramdisk_in
           /\ o.ramdisk_out = a.ramdisk_out /\ o.firmware = fw /\ o.ibuf = a.ibuf
           /\ o.obuf = a.obuf
  <1>1. WithFirmware(a, fw) \in Accs
    BY DEF WithFirmware, Accs
  <1>2. /\ WithFirmware(a, fw).live = a.live
        /\ WithFirmware(a, fw).state = a.state
        /\ WithFirmware(a, fw).ramdisk_in = a.ramdisk_in
        /\ WithFirmware(a, fw).ramdisk_out = a.ramdisk_out
        /\ WithFirmware(a, fw).firmware = fw
        /\ WithFirmware(a, fw).ibuf = a.ibuf
        /\ WithFirmware(a, fw).obuf = a.obuf
    BY DEF WithFirmware, Accs
  <1> QED
    BY <1>1, <1>2

\* Object n is replaced.
LEMMA ObjSet ==
  ASSUME AccTypeOK, NEW n \in 1..Len(objs), NEW o \in Accs, o.live = objs[n].live,
         objs' = [objs EXCEPT ![n] = o]
  PROVE  /\ objs' \in Seq(Accs) /\ objs' # <<>> /\ Len(objs') = Len(objs) /\ acc0' = acc0
         /\ objs'[n] = o /\ \A i \in 1..Len(objs) : i # n => objs'[i] = objs[i]
         /\ \A i \in 1..Len(objs') : objs'[i].live <=> i = acc0'
  <1>1. objs \in Seq(Accs) /\ objs # <<>> /\ \A i \in 1..Len(objs) : objs[i].live <=> i = acc0
    BY DEF AccTypeOK
  <1>2. /\ objs' \in Seq(Accs) /\ Len(objs') = Len(objs)
        /\ \A j \in 1..Len(objs) : objs'[j] = IF j = n THEN o ELSE objs[j]
    BY <1>1, ExceptSeq
  <1>3. Len(objs) \in Nat \ {0}
    BY <1>1, EmptySeq
  <1>4. objs' # <<>> /\ acc0' = acc0
    BY <1>2, <1>3 DEF acc0
  <1> QED
    BY <1>1, <1>2, <1>4

\* The object in use is the last.
LEMMA Acc0 ==
  ASSUME AccTypeOK
  PROVE  acc0 \in Nat \ {0} /\ acc0 \in 1..Len(objs) /\ objs[acc0] \in Accs /\ objs[acc0].live
  <1>1. objs \in Seq(Accs) /\ objs # <<>> /\ \A i \in 1..Len(objs) : objs[i].live <=> i = acc0
    BY DEF AccTypeOK
  <1>2. Len(objs) \in Nat \ {0}
    BY <1>1, EmptySeq
  <1> QED
    BY <1>1, <1>2, ElementOfSeq DEF acc0

\* A command that sets the accelerator up: it changes a part of the object.
SetsUp(o, a) ==
  /\ objs' = [objs EXCEPT ![acc0] = o]
  /\ o.live = a.live /\ o.state = a.state /\ o.ibuf = a.ibuf /\ o.obuf = a.obuf
  /\ misuse' = IF InUse THEN misuse \cup {"configured in use"} ELSE misuse
  /\ UNCHANGED <<runs, fw_map, ramdisk, heads, crashed>>

\* READ_LBA
LEMMA ReadLbaShape ==
  ASSUME AccTypeOK, io_cmd_read_lba
  PROVE  \E a \in Accs, o \in Accs :
           /\ a = objs[acc0] /\ SetsUp(o, a) /\ o.ramdisk_in
           /\ o.ramdisk_out = a.ramdisk_out /\ o.firmware = a.firmware
  <1>1. PICK a \in Accs : a = objs[acc0]
    BY Acc0
  <1>2. PICK o \in Accs : /\ o = Reading(a) /\ o.live = a.live /\ o.state = a.state /\ o.ramdisk_in
                          /\ o.ramdisk_out = a.ramdisk_out /\ o.firmware = a.firmware
                          /\ o.ibuf = a.ibuf /\ o.obuf = a.obuf
    BY AccReading
  <1>3. Configure(o)
    BY <1>1, <1>2, Zenon DEF io_cmd_read_lba, Reading
  <1>4. SetsUp(o, a)
    BY <1>2, <1>3 DEF Configure, SetsUp
  <1> QED
    BY <1>1, <1>2, <1>4

\* WRITE_LBA
LEMMA WriteLbaShape ==
  ASSUME AccTypeOK, io_cmd_write_lba
  PROVE  \E a \in Accs, o \in Accs :
           /\ a = objs[acc0] /\ SetsUp(o, a) /\ o.ramdisk_out
           /\ o.ramdisk_in = a.ramdisk_in /\ o.firmware = a.firmware
  <1>1. PICK a \in Accs : a = objs[acc0]
    BY Acc0
  <1>2. PICK o \in Accs : /\ o = Writing(a) /\ o.live = a.live /\ o.state = a.state /\ o.ramdisk_out
                          /\ o.ramdisk_in = a.ramdisk_in /\ o.firmware = a.firmware
                          /\ o.ibuf = a.ibuf /\ o.obuf = a.obuf
    BY AccWriting
  <1>3. Configure(o)
    BY <1>1, <1>2, Zenon DEF io_cmd_write_lba, Writing
  <1>4. SetsUp(o, a)
    BY <1>2, <1>3 DEF Configure, SetsUp
  <1> QED
    BY <1>1, <1>2, <1>4

\* SET_FW
LEMMA SetFwShape ==
  ASSUME AccTypeOK, addFirmware
  PROVE  \E a \in Accs, o \in Accs :
           /\ a = objs[acc0] /\ SetsUp(o, a) /\ o.firmware = fw_map
           /\ o.ramdisk_in = a.ramdisk_in /\ o.ramdisk_out = a.ramdisk_out
  <1>1. PICK a \in Accs : a = objs[acc0]
    BY Acc0
  <1>2. PICK fw \in Firmware \cup {NoFirmware} : fw = fw_map
    BY DEF AccTypeOK
  <1>3. PICK o \in Accs : /\ o = WithFirmware(a, fw) /\ o.live = a.live /\ o.state = a.state
                          /\ o.ramdisk_in = a.ramdisk_in /\ o.ramdisk_out = a.ramdisk_out
                          /\ o.firmware = fw /\ o.ibuf = a.ibuf /\ o.obuf = a.obuf
    BY AccFirmware
  <1>4. Configure(o)
    BY <1>1, <1>2, <1>3, Zenon DEF addFirmware, WithFirmware
  <1>5. SetsUp(o, a)
    BY <1>3, <1>4 DEF Configure, SetsUp
  <1> QED
    BY <1>1, <1>2, <1>3, <1>5

\* RESET: the old object is deleted, a new one is behind it.
LEMMA ResetShape ==
  ASSUME AccTypeOK, Reset
  PROVE  /\ objs' \in Seq(Accs) /\ objs' # <<>> /\ acc0' = acc0 + 1 /\ Len(objs') = Len(objs) + 1
         /\ objs'[acc0'] = NewAcc
         /\ \A i \in 1..Len(objs') : objs'[i].live <=> i = acc0'
         /\ UNCHANGED <<runs, fw_map, ramdisk, heads, misuse, crashed>>
  <1>1. PICK a \in Accs : a = objs[acc0]
    BY Acc0
  <1> DEFINE d == [a EXCEPT !.live = FALSE]
             p == [objs EXCEPT ![acc0] = d]
  <1>2. d \in Accs
    BY DEF Accs
  <1>3. ~d.live
    BY DEF Accs
  <1>4. objs' = Append([objs EXCEPT ![acc0].live = FALSE], NewAcc)
    BY DEF Reset
  <1>5. [objs EXCEPT ![acc0].live = FALSE] = [objs EXCEPT ![acc0] = [objs[acc0] EXCEPT !.live = FALSE]]
    OBVIOUS
  <1>6. objs' = Append(p, NewAcc)
    BY <1>1, <1>4, <1>5, Zenon
  <1> HIDE DEF d
  <1>7. objs \in Seq(Accs) /\ acc0 = Len(objs) /\ acc0 \in 1..Len(objs) /\ Len(objs) \in Nat
        /\ \A i \in 1..Len(objs) : objs[i].live <=> i = acc0
    BY Acc0 DEF AccTypeOK, acc0
  <1>8. /\ p \in Seq(Accs) /\ Len(p) = Len(objs)
        /\ \A j \in 1..Len(objs) : p[j] = IF j = acc0 THEN d ELSE objs[j]
    BY <1>2, <1>7, ExceptSeq
  <1> HIDE DEF p
  <1>9. NewAcc \in Accs /\ NewAcc.live
    BY DEF NewAcc, Accs, AccState, Outputs
  <1>10. /\ objs' \in Seq(Accs) /\ Len(objs') = Len(objs) + 1 /\ objs'[Len(objs) + 1] = NewAcc
         /\ \A j \in 1..Len(objs) : objs'[j] = p[j]
    BY <1>6, <1>8, <1>9, AppendProperties
  <1>11. objs' # <<>> /\ acc0' = Len(objs) + 1
    BY <1>7, <1>10 DEF acc0
  <1>12. \A i \in 1..Len(objs') : objs'[i].live <=> i = acc0'
    <2> SUFFICES ASSUME NEW i \in 1..Len(objs')
                 PROVE  objs'[i].live <=> i = acc0'
      OBVIOUS
    <2>1. CASE i = Len(objs) + 1
      BY <1>9, <1>10, <1>11, <2>1
    <2>2. CASE i \in 1..Len(objs)
      <3>1. objs'[i] = IF i = acc0 THEN d ELSE objs[i]
        BY <1>8, <1>10, <2>2
      <3>2. ~objs'[i].live
        BY <1>3, <1>7, <2>2, <3>1
      <3> QED
        BY <1>7, <1>11, <2>2, <3>2
    <2> QED
      BY <1>7, <1>10, <2>1, <2>2
  <1> QED
    BY <1>7, <1>10, <1>11, <1>12 DEF Reset

NewRun == [obj |-> acc0, pc |-> "start", fw |-> NoFirmware, ok |-> TRUE]

\* START: one more run.
LEMMA StartShape ==
  ASSUME AccTypeOK, start
  PROVE  /\ runs' \in Seq(Runs) /\ Len(runs) \in Nat /\ Len(runs') = Len(runs) + 1
         /\ runs'[Len(runs) + 1] = NewRun
         /\ \A r \in 1..Len(runs) : runs'[r] = runs[r]
         /\ misuse' = IF InUse THEN misuse \cup {"started twice"} ELSE misuse
         /\ UNCHANGED <<objs, fw_map, ramdisk, heads, crashed>>
  <1>1. runs \in Seq(Runs)
    BY Zenon DEF AccTypeOK
  <1>2. NewRun \in Runs
    BY Acc0 DEF NewRun, Runs
  <1>3. /\ runs' = Append(runs, NewRun)
        /\ misuse' = IF InUse THEN misuse \cup {"started twice"} ELSE misuse
        /\ UNCHANGED <<objs, fw_map, ramdisk, heads, crashed>>
    BY Zenon DEF start, NewRun
  <1> HIDE DEF NewRun
  <1>4. Len(runs) \in Nat
    BY <1>1, LenProperties
  <1>5. /\ runs' \in Seq(Runs) /\ Len(runs') = Len(runs) + 1
        /\ runs'[Len(runs) + 1] = NewRun
        /\ \A r \in 1..Len(runs) : runs'[r] = runs[r]
    BY <1>1, <1>2, <1>3, AppendProperties, ZenonT(40)
  <1> QED
    BY <1>3, <1>4, <1>5, Zenon

-----------------------------------------------------------------------------
(* Types                                                                   *)

\* A step of a run keeps the types.
LEMMA RunTypes ==
  ASSUME AccTypeOK, NEW r \in 1..Len(runs), RunStep(r)
  PROVE  AccTypeOK'
  <1>1. PICK n \in 1..Len(objs), a \in Accs, p \in Runs, o \in Accs, q \in Runs :
          /\ n = runs[r].obj /\ a = objs[n] /\ p = runs[r] /\ RunsOn(a, p, o, q)
          /\ objs' = [objs EXCEPT ![n] = o] /\ runs' = [runs EXCEPT ![r] = q]
          /\ misuse' = IF a.live THEN misuse ELSE misuse \cup {p.pc}
          /\ ramdisk' \in [inp : Data \cup {NoData}, out : Outputs]
          /\ UNCHANGED <<fw_map, heads, crashed>>
    BY RunShape
  <1>2. o.live = a.live /\ q.obj = p.obj /\ p.pc \in Pcs \ {"ended"}
    BY <1>1 DEF RunsOn, Pcs
  <1>3. /\ objs' \in Seq(Accs) /\ objs' # <<>> /\ Len(objs') = Len(objs)
        /\ \A i \in 1..Len(objs') : objs'[i].live <=> i = acc0'
    BY <1>1, <1>2, ObjSet
  <1>4. runs \in Seq(Runs) /\ \A i \in 1..Len(runs) : runs[i].obj \in 1..Len(objs)
    BY Zenon DEF AccTypeOK
  <1>5. /\ runs' \in Seq(Runs) /\ Len(runs') = Len(runs)
        /\ \A j \in 1..Len(runs) : runs'[j] = IF j = r THEN q ELSE runs[j]
    BY <1>1, <1>4, ExceptSeq
  <1>6. \A i \in 1..Len(runs') : runs'[i].obj \in 1..Len(objs')
    BY <1>1, <1>2, <1>3, <1>4, <1>5
  <1>7. misuse' \subseteq {"configured in use", "started twice", "start", "load", "in",
                           "exec", "out", "done", "log"}
    BY <1>1, <1>2 DEF AccTypeOK, Pcs
  <1>8. /\ fw_map' \in Firmware \cup {NoFirmware} /\ heads' \in Heads /\ crashed' \in BOOLEAN
    BY <1>1 DEF AccTypeOK
  <1> QED
    BY <1>1, <1>3, <1>5, <1>6, <1>7, <1>8, Zenon DEF AccTypeOK

\* A command that sets the accelerator up keeps the types.
LEMMA SetUpTypes ==
  ASSUME AccTypeOK, NEW a \in Accs, NEW o \in Accs, a = objs[acc0], SetsUp(o, a)
  PROVE  AccTypeOK'
  <1>1. acc0 \in 1..Len(objs)
    BY Acc0
  <1>2. o.live = objs[acc0].live /\ objs' = [objs EXCEPT ![acc0] = o]
    BY DEF SetsUp
  <1>3. /\ objs' \in Seq(Accs) /\ objs' # <<>> /\ Len(objs') = Len(objs)
        /\ \A i \in 1..Len(objs') : objs'[i].live <=> i = acc0'
    BY <1>1, <1>2, ObjSet
  <1>4. misuse' \subseteq {"configured in use", "started twice", "start", "load", "in",
                           "exec", "out", "done", "log"}
    BY DEF AccTypeOK, SetsUp
  <1>5. UNCHANGED <<runs, fw_map, ramdisk, heads, crashed>>
    BY DEF SetsUp
  <1>6. \A r \in 1..Len(runs') : runs'[r].obj \in 1..Len(objs')
    BY <1>3, <1>5 DEF AccTypeOK
  <1> QED
    BY <1>3, <1>4, <1>5, <1>6, Zenon DEF AccTypeOK

\* A step of the application's main thread, on the accelerator.
AccCommand ==
  \/ \E fw \in Firmware : io_cmd_send_fw(fw)
  \/ io_cmd_read_lba \/ io_cmd_write_lba \/ addFirmware \/ Reset \/ start
  \/ \E rae \in BOOLEAN : adm_cmd_status(rae)

\* The commands keep the types.
LEMMA CommandTypes ==
  ASSUME AccTypeOK, AccCommand
  PROVE  AccTypeOK'
  <1>1. CASE \E fw \in Firmware : io_cmd_send_fw(fw)
    <2>1. fw_map' \in Firmware \cup {NoFirmware} /\ UNCHANGED <<objs, runs, ramdisk, heads, misuse, crashed>>
      BY <1>1 DEF io_cmd_send_fw
    <2> QED
      BY <2>1 DEF AccTypeOK, acc0
  <1>2. CASE io_cmd_read_lba
    BY <1>2, ReadLbaShape, SetUpTypes
  <1>3. CASE io_cmd_write_lba
    BY <1>3, WriteLbaShape, SetUpTypes
  <1>4. CASE addFirmware
    BY <1>4, SetFwShape, SetUpTypes
  <1>5. CASE Reset
    <2>1. /\ objs' \in Seq(Accs) /\ objs' # <<>> /\ Len(objs') = Len(objs) + 1
          /\ \A i \in 1..Len(objs') : objs'[i].live <=> i = acc0'
          /\ UNCHANGED <<runs, fw_map, ramdisk, heads, misuse, crashed>>
      BY <1>5, ResetShape
    <2>2. \A r \in 1..Len(runs') : runs'[r].obj \in 1..Len(objs')
      <3>1. Len(objs) \in Nat /\ \A r \in 1..Len(runs) : runs[r].obj \in 1..Len(objs)
        BY LenProperties DEF AccTypeOK
      <3> QED
        BY <2>1, <3>1
    <2> QED
      BY <2>1, <2>2, Zenon DEF AccTypeOK
  <1>6. CASE start
    <2>1. /\ runs' \in Seq(Runs) /\ Len(runs) \in Nat /\ Len(runs') = Len(runs) + 1
          /\ runs'[Len(runs) + 1] = NewRun
          /\ \A r \in 1..Len(runs) : runs'[r] = runs[r]
          /\ misuse' = IF InUse THEN misuse \cup {"started twice"} ELSE misuse
          /\ UNCHANGED <<objs, fw_map, ramdisk, heads, crashed>>
      BY <1>6, StartShape, Zenon
    <2>2. NewRun.obj \in 1..Len(objs)
      BY Acc0 DEF NewRun
    <2>3. \A r \in 1..Len(runs') : runs'[r].obj \in 1..Len(objs')
      <3>1. \A r \in 1..Len(runs) : runs[r].obj \in 1..Len(objs)
        BY DEF AccTypeOK
      <3>2. /\ Len(runs) \in Nat /\ Len(runs') = Len(runs) + 1 /\ objs' = objs
            /\ runs'[Len(runs) + 1].obj = NewRun.obj
            /\ \A r \in 1..Len(runs) : runs'[r] = runs[r]
        BY <2>1, Zenon
      <3> QED
        BY <2>2, <3>1, <3>2
    <2>4. misuse' \subseteq {"configured in use", "started twice", "start", "load", "in",
                             "exec", "out", "done", "log"}
      BY <2>1 DEF AccTypeOK
    <2>5. /\ objs' \in Seq(Accs) /\ objs' # <<>>
          /\ \A i \in 1..Len(objs') : objs'[i].live <=> i = acc0'
      BY <2>1 DEF AccTypeOK, acc0
    <2> QED
      BY <2>1, <2>3, <2>4, <2>5, Zenon DEF AccTypeOK
  <1>7. CASE \E rae \in BOOLEAN : adm_cmd_status(rae)
    <2>1. /\ heads' = heads \/ heads' = objs[acc0].state
          /\ UNCHANGED <<objs, runs, fw_map, ramdisk, misuse, crashed>>
      BY <1>7 DEF adm_cmd_status, CalculateStatus
    <2>2. objs[acc0].state \in AccState
      BY Acc0 DEF Accs
    <2>3. heads' \in Heads
      BY <2>1, <2>2 DEF AccTypeOK, Heads
    <2> QED
      BY <2>1, <2>3 DEF AccTypeOK, acc0
  <1> QED
    BY <1>1, <1>2, <1>3, <1>4, <1>5, <1>6, <1>7 DEF AccCommand

-----------------------------------------------------------------------------
(* The flash device                                                        *)

Cells   == Nat \cup {Erased}
Threads == [pc : {"none", "open", "erase", "write", "ended"}, buf : Seq(Nat), at : Nat]

\* What a piece of an image is.
LEMMA PieceIs ==
  ASSUME NEW image \in Seq(Nat), NEW first \in Nat, NEW last \in Nat
  PROVE  /\ Piece(image, first, last) \in [1..DeviceSize -> Cells]
         /\ \A i \in 1..DeviceSize :
              Piece(image, first, last)[i] =
                IF first <= i /\ i <= last /\ i <= Len(image) THEN image[i] ELSE Erased
  <1>1. DeviceSize \in Nat /\ Len(image) \in Nat
    BY FlashAssumption, LenProperties
  <1>2. ASSUME NEW i \in 1..DeviceSize
        PROVE  /\ i \in first..last /\ i \in 1..Len(image) <=> first <= i /\ i <= last /\ i <= Len(image)
               /\ i <= Len(image) => image[i] \in Nat
    <2>1. i \in Nat \ {0}
      BY <1>1
    <2>2. i <= Len(image) => image[i] \in Nat
      BY <1>1, <2>1, ElementOfSeq
    <2> QED
      BY <1>1, <2>1, <2>2
  <1> QED
    BY <1>2 DEF Piece, Cells

\* Functions that agree everywhere are the same.
Agree(g, h, S, T) == g \in [S -> T] /\ h \in [S -> T] /\ \A i \in S : g[i] = h[i]

LEMMA FunctionsAgree ==
  ASSUME NEW g, NEW h, NEW S, NEW T, Agree(g, h, S, T)
  PROVE  g = h
  BY DEF Agree

\* A device with the words of a piece is that piece.
LEMMA IsPiece ==
  ASSUME NEW d \in [1..DeviceSize -> Cells],
         NEW image \in Seq(Nat), NEW first \in Nat, NEW last \in Nat,
         \A i \in 1..DeviceSize :
           d[i] = IF first <= i /\ i <= last /\ i <= Len(image) THEN image[i] ELSE Erased
  PROVE  d = Piece(image, first, last)
  <1>1. PICK p \in [1..DeviceSize -> Cells] : p = Piece(image, first, last)
    BY PieceIs
  <1>2. \A i \in 1..DeviceSize : d[i] = p[i]
    BY <1>1, PieceIs
  <1>3. Agree(d, p, 1..DeviceSize, Cells)
    BY <1>2 DEF Agree
  <1> QED
    BY <1>1, <1>3, FunctionsAgree

\* A download keeps the types and leaves the device and its thread alone.
LEMMA DownloadKeeps ==
  ASSUME FlashTypeOK, FlashInv, NEW off \in Nat, NEW words \in Seq(Nat),
         adm_cmd_fw_download(off, words)
  PROVE  FlashTypeOK' /\ FlashInv'
  <1>1. fw_buffer \in Seq(Nat) /\ Len(fw_buffer) \in Nat /\ Len(words) \in Nat
    BY LenProperties DEF FlashTypeOK, Word
  <1> DEFINE n == Len(words)
             size == IF Len(fw_buffer) < off + n THEN off + n ELSE Len(fw_buffer)
             w(i) == IF i \in (off + 1)..(off + n) THEN words[i - off]
                     ELSE IF i \in DOMAIN fw_buffer THEN fw_buffer[i] ELSE 0
  <1>2. fw_buffer' = [i \in 1..size |-> w(i)] /\ UNCHANGED <<fw_thread, flash, committed>>
    BY DEF adm_cmd_fw_download
  <1>3. size \in Nat
    BY <1>1
  <1>4. ASSUME NEW i \in 1..size
        PROVE  w(i) \in Nat
    <2>1. CASE i \in (off + 1)..(off + n)
      <3>1. i - off \in 1..Len(words)
        BY <1>1, <1>3, <2>1
      <3>2. words[i - off] \in Nat
        BY <3>1, ElementOfSeq
      <3> QED
        BY <2>1, <3>2
    <2>2. CASE i \notin (off + 1)..(off + n) /\ i \in DOMAIN fw_buffer
      <3>1. fw_buffer[i] \in Nat
        BY <1>1, <2>2
      <3> QED
        BY <2>2, <3>1
    <2> QED
      BY <2>1, <2>2
  <1> HIDE DEF w, size
  <1>5. fw_buffer' \in Seq(Nat)
    BY <1>2, <1>3, <1>4, IsASeq
  <1> QED
    BY <1>2, <1>5 DEF FlashTypeOK, FlashInv, FlashHoldsOneImage, Word

\* A commit adds its image; the device keeps the one it has.
LEMMA CommitKeeps ==
  ASSUME FlashTypeOK, FlashInv, adm_cmd_fw_commit
  PROVE  FlashTypeOK' /\ FlashInv'
  <1>1. /\ fw_thread' = [pc |-> "open", buf |-> fw_buffer, at |-> 0]
        /\ committed' = committed \cup {fw_buffer} /\ UNCHANGED <<fw_buffer, flash>>
    BY DEF adm_cmd_fw_commit
  <1>2. FlashTypeOK'
    BY <1>1 DEF FlashTypeOK
  <1>3. FlashHoldsOneImage'
    BY <1>1 DEF FlashInv, FlashHoldsOneImage
  <1>4. \A i \in 1..DeviceSize : ~(i <= 0)
    BY FlashAssumption
  <1> QED
    BY <1>1, <1>2, <1>3, <1>4 DEF FlashInv

\* The flashing thread: an erase leaves a piece of the image there was, and a write
\* makes a longer piece of the new one.
LEMMA FlashKeeps ==
  ASSUME FlashTypeOK, FlashInv, FlashStep
  PROVE  FlashTypeOK' /\ FlashInv'
  <1>1. /\ fw_thread \in Threads /\ fw_thread.buf \in Seq(Nat) /\ fw_thread.at \in Nat
        /\ Len(fw_thread.buf) \in Nat
        /\ flash \in [1..DeviceSize -> Cells] /\ committed \subseteq Seq(Nat)
        /\ DeviceSize \in Nat /\ EraseSize \in Nat \ {0} /\ Erased \notin Nat
    BY LenProperties, FlashAssumption DEF FlashTypeOK, Word, Threads, Cells
  <1>2. ASSUME NEW pc \in {"none", "open", "erase", "write", "ended"}, NEW n \in Nat,
               fw_thread' = [fw_thread EXCEPT !.pc = pc, !.at = n],
               flash' \in [1..DeviceSize -> Cells], UNCHANGED <<fw_buffer, committed>>
        PROVE  /\ FlashTypeOK'
               /\ fw_thread'.pc = pc /\ fw_thread'.buf = fw_thread.buf /\ fw_thread'.at = n
    BY <1>1, <1>2 DEF FlashTypeOK, Word, Threads, Cells
  <1>3. UNCHANGED <<flash, committed>> => FlashHoldsOneImage'
    BY DEF FlashInv, FlashHoldsOneImage
  <1>4. CASE FlashFails
    <2>1. /\ fw_thread' = [fw_thread EXCEPT !.pc = "ended", !.at = fw_thread.at]
          /\ UNCHANGED <<fw_buffer, flash, committed>>
      BY <1>1, <1>4 DEF FlashFails, Threads
    <2>2. FlashTypeOK' /\ fw_thread'.pc = "ended"
      BY <1>1, <1>2, <2>1
    <2> QED
      BY <1>3, <2>1, <2>2 DEF FlashInv
  <1>5. CASE FlashOpens
    <2>1. /\ fw_thread.pc = "open" /\ fw_thread' = [fw_thread EXCEPT !.pc = "erase", !.at = fw_thread.at]
          /\ UNCHANGED <<fw_buffer, flash, committed>>
      BY <1>1, <1>5 DEF FlashOpens, Threads
    <2>2. /\ FlashTypeOK' /\ fw_thread'.pc = "erase" /\ fw_thread'.buf = fw_thread.buf
          /\ fw_thread'.at = fw_thread.at
      BY <1>1, <1>2, <2>1
    <2> QED
      BY <1>3, <2>1, <2>2 DEF FlashInv
  <1>6. CASE FlashErase
    <2> DEFINE erased == fw_thread.at + EraseSize
    <2>1. /\ fw_thread.pc = "erase" /\ UNCHANGED <<fw_buffer, committed>>
          /\ flash' = [i \in 1..DeviceSize |-> IF i <= erased THEN Erased ELSE flash[i]]
          /\ fw_thread' = [fw_thread EXCEPT !.pc = "erase", !.at = erased]
      BY <1>1, <1>6 DEF FlashErase, Threads
    <2>2. erased \in Nat
      BY <1>1
    <2> HIDE DEF erased
    <2>3. /\ flash' \in [1..DeviceSize -> Cells]
          /\ \A i \in 1..DeviceSize : flash'[i] = IF i <= erased THEN Erased ELSE flash[i]
      BY <1>1, <2>1 DEF Cells
    <2>4. /\ FlashTypeOK' /\ fw_thread'.pc = "erase" /\ fw_thread'.buf = fw_thread.buf
          /\ fw_thread'.at = erased
      BY <1>2, <2>1, <2>2, <2>3
    <2>5. PICK image \in committed, first \in 1..(DeviceSize + 1), last \in 0..DeviceSize :
            flash = Piece(image, first, last)
      BY DEF FlashInv, FlashHoldsOneImage
    <2>6. image \in Seq(Nat) /\ Len(image) \in Nat /\ first \in Nat /\ last \in Nat
      BY <1>1, <2>5, LenProperties
    <2>7. \A i \in 1..DeviceSize :
            flash[i] = IF first <= i /\ i <= last /\ i <= Len(image) THEN image[i] ELSE Erased
      BY <2>5, <2>6, PieceIs
    <2>8. PICK f \in 1..(DeviceSize + 1) :
            \A i \in 1..DeviceSize : f <= i <=> first <= i /\ ~(i <= erased)
      <3>1. CASE erased + 1 <= first
        <4>1. \A i \in 1..DeviceSize : first <= i <=> first <= i /\ ~(i <= erased)
          BY <1>1, <2>2, <2>5, <3>1
        <4> QED
          BY <2>5, <4>1
      <3>2. CASE first < erased + 1 /\ erased <= DeviceSize
        <4>1. erased + 1 \in 1..(DeviceSize + 1)
          BY <1>1, <2>2, <3>2
        <4>2. \A i \in 1..DeviceSize : erased + 1 <= i <=> first <= i /\ ~(i <= erased)
          BY <1>1, <2>2, <2>5, <3>2
        <4> QED
          BY <4>1, <4>2
      <3>3. CASE DeviceSize < erased
        <4>1. DeviceSize + 1 \in 1..(DeviceSize + 1)
          BY <1>1
        <4>2. \A i \in 1..DeviceSize : DeviceSize + 1 <= i <=> first <= i /\ ~(i <= erased)
          BY <1>1, <2>2, <2>5, <3>3
        <4> QED
          BY <4>1, <4>2
      <3> QED
        BY <1>1, <2>2, <2>5, <3>1, <3>2, <3>3
    <2>9. \A i \in 1..DeviceSize :
            flash'[i] = IF f <= i /\ i <= last /\ i <= Len(image) THEN image[i] ELSE Erased
      BY <2>3, <2>7, <2>8
    <2>10. f \in Nat
      BY <1>1, <2>8
    <2>11. flash' = Piece(image, f, last)
      BY <2>3, <2>6, <2>9, <2>10, IsPiece
    <2>12. FlashHoldsOneImage'
      BY <2>1, <2>5, <2>8, <2>11 DEF FlashHoldsOneImage, Piece
    <2> QED
      BY <2>1, <2>3, <2>4, <2>12 DEF FlashInv
  <1>7. CASE FlashErased
    <2>1. /\ fw_thread.pc = "erase" /\ fw_thread.at >= DeviceSize
          /\ fw_thread' = [fw_thread EXCEPT !.pc = "write", !.at = 0]
          /\ UNCHANGED <<fw_buffer, flash, committed>>
      BY <1>7 DEF FlashErased
    <2>2. /\ FlashTypeOK' /\ fw_thread'.pc = "write" /\ fw_thread'.buf = fw_thread.buf
          /\ fw_thread'.at = 0
      BY <1>1, <1>2, <2>1
    <2>3. \A i \in 1..DeviceSize : flash[i] = Erased
      BY <1>1, <2>1 DEF FlashInv
    <2>4. \A i \in 1..DeviceSize : ~(i <= 0)
      BY <1>1
    <2>5. flash = Piece(fw_thread.buf, 1, 0)
      BY <1>1, <2>3, <2>4, IsPiece
    <2>6. flash' = Piece(fw_thread'.buf, 1, fw_thread'.at)
      BY <2>1, <2>2, <2>5, Zenon
    <2>7. fw_thread'.buf \in committed' /\ fw_thread'.at <= DeviceSize
      BY <1>1, <2>1, <2>2 DEF FlashInv
    <2> QED
      BY <1>3, <2>1, <2>2, <2>6, <2>7 DEF FlashInv, Piece
  <1>8. CASE FlashWrite
    <2> DEFINE next == fw_thread.at + 1
    <2>1. /\ fw_thread.pc = "write" /\ UNCHANGED <<fw_buffer, committed>>
          /\ \/ /\ next <= Len(fw_thread.buf) /\ next <= DeviceSize
                /\ flash' = [flash EXCEPT ![next] = fw_thread.buf[next]]
                /\ fw_thread' = [fw_thread EXCEPT !.at = next]
             \/ fw_thread' = [fw_thread EXCEPT !.pc = "ended"] /\ UNCHANGED flash
      BY <1>8 DEF FlashWrite, Writes
    <2>2. next \in Nat /\ next = fw_thread.at + 1
      BY <1>1
    <2>3. fw_thread.buf \in committed /\ flash = Piece(fw_thread.buf, 1, fw_thread.at)
      BY <2>1 DEF FlashInv
    <2> HIDE DEF next
    <2>4. CASE /\ next <= Len(fw_thread.buf) /\ next <= DeviceSize
               /\ flash' = [flash EXCEPT ![next] = fw_thread.buf[next]]
               /\ fw_thread' = [fw_thread EXCEPT !.at = next]
      <3>1. fw_thread' = [fw_thread EXCEPT !.pc = "write", !.at = next]
        BY <1>1, <2>1, <2>4 DEF Threads
      <3>2. next \in 1..Len(fw_thread.buf) /\ next \in 1..DeviceSize
        BY <1>1, <2>2, <2>4
      <3>3. fw_thread.buf[next] \in Nat
        BY <1>1, <3>2, ElementOfSeq
      <3>4. /\ flash' \in [1..DeviceSize -> Cells] /\ flash'[next] = fw_thread.buf[next]
            /\ \A i \in 1..DeviceSize : i # next => flash'[i] = flash[i]
        BY <1>1, <2>4, <3>2, <3>3 DEF Cells
      <3>5. /\ FlashTypeOK' /\ fw_thread'.pc = "write" /\ fw_thread'.buf = fw_thread.buf
            /\ fw_thread'.at = next
        BY <1>2, <2>1, <2>2, <3>1, <3>4
      <3>6. \A i \in 1..DeviceSize :
              flash[i] = IF 1 <= i /\ i <= fw_thread.at /\ i <= Len(fw_thread.buf)
                         THEN fw_thread.buf[i] ELSE Erased
        BY <1>1, <2>3, PieceIs
      <3>7. ASSUME NEW i \in 1..DeviceSize
            PROVE  flash'[i] = IF 1 <= i /\ i <= next /\ i <= Len(fw_thread.buf)
                               THEN fw_thread.buf[i] ELSE Erased
        <4>1. CASE i = next
          BY <1>1, <2>2, <3>2, <3>4, <4>1
        <4>2. CASE i # next
          <5>1. i <= next <=> i <= fw_thread.at
            BY <1>1, <2>2, <4>2
          <5> QED
            BY <3>4, <3>6, <4>2, <5>1
        <4> QED
          BY <4>1, <4>2
      <3>8. flash' = Piece(fw_thread.buf, 1, next)
        <4>1. PICK d \in [1..DeviceSize -> Cells] : d = flash'
          BY <3>4
        <4>2. \A i \in 1..DeviceSize :
                d[i] = IF 1 <= i /\ i <= next /\ i <= Len(fw_thread.buf)
                       THEN fw_thread.buf[i] ELSE Erased
          BY <3>7, <4>1
        <4>3. d = Piece(fw_thread.buf, 1, next)
          BY <1>1, <2>2, <4>2, IsPiece
        <4> QED
          BY <4>1, <4>3
      <3>9. 1 \in 1..(DeviceSize + 1) /\ next \in 0..DeviceSize
        BY <1>1, <3>2
      <3>10. FlashHoldsOneImage'
        BY <2>1, <2>3, <3>8, <3>9 DEF FlashHoldsOneImage, Piece
      <3>11. flash' = Piece(fw_thread'.buf, 1, fw_thread'.at)
        BY <3>5, <3>8, Zenon
      <3>12. fw_thread'.buf \in committed' /\ fw_thread'.at <= DeviceSize
        BY <2>1, <2>3, <2>4, <3>5
      <3> QED
        BY <3>5, <3>10, <3>11, <3>12 DEF FlashInv, Piece
    <2>5. CASE fw_thread' = [fw_thread EXCEPT !.pc = "ended"] /\ UNCHANGED flash
      <3>1. fw_thread' = [fw_thread EXCEPT !.pc = "ended", !.at = fw_thread.at]
        BY <1>1, <2>5 DEF Threads
      <3>2. FlashTypeOK' /\ fw_thread'.pc = "ended"
        BY <1>1, <1>2, <2>1, <2>5, <3>1
      <3> QED
        BY <1>3, <2>1, <2>5, <3>2 DEF FlashInv
    <2> QED
      BY <2>1, <2>4, <2>5
  <1> QED
    BY <1>4, <1>5, <1>6, <1>7, <1>8 DEF FlashStep

-----------------------------------------------------------------------------
(* The link                                                                *)

Entries == [id : Nat, cmd : Commands]

\* The constants.
LEMMA WorkIs ==
  ASSUME LinkTypeOK
  PROVE  /\ AckCap \in Nat \ {0} /\ MaxLoss \in Nat
         /\ work.script \in Seq(SUBSET Commands) /\ work.out \in Nat /\ work.resets \in BOOLEAN
  BY AppAssumption DEF LinkTypeOK

\* The parameters that come with a command.
LEMMA Parameters ==
  ASSUME NEW c \in Commands
  PROVE  /\ c.f = "SendFw" => c.fw \in Firmware
         /\ c.f = "Status" => c.rae \in BOOLEAN /\ c.large \in BOOLEAN
         /\ c.f = "Download" => c.off \in Nat /\ c.words \in Seq(Nat)
  <1>1. CASE c \in [f : {"SendFw"}, fw : Firmware]
    BY <1>1
  <1>2. CASE c \in [f : {"Status"}, rae : BOOLEAN, large : BOOLEAN]
    BY <1>2
  <1>3. CASE c \in [f : {"Download"}, off : Nat, words : Seq(Word)]
    BY <1>3 DEF Word
  <1>4. CASE c \in [f : {"ReadLba", "WriteLba", "SetFw", "Start", "Reset", "ReadFw", "Nothing",
                         "Identify", "Commit"}]
    BY <1>4
  <1> QED
    BY <1>1, <1>2, <1>3, <1>4 DEF Commands

\* 1 if the first message of a ring is the one that answers nothing.
Greets(a) == IF Len(a) >= 1 /\ a[1].id = 0 THEN 1 ELSE 0

\* That is Greeting.
LEMMA GreetingIs ==
  ASSUME NEW a \in Seq(Messages)
  PROVE  /\ (IF a # <<>> /\ Head(a).id = 0 THEN 1 ELSE 0) = Greets(a)
         /\ Greets(a) \in 0..1 /\ Greets(a) <= Len(a)
  <1>1. Len(a) \in Nat /\ (a # <<>> <=> Len(a) >= 1)
    BY EmptySeq, LenProperties
  <1>2. a # <<>> => Head(a) = a[1]
    OBVIOUS
  <1> QED
    BY <1>1, <1>2 DEF Greets

\* LinkInv, on the ring, the commands not yet read and the counters by themselves.
LinkOf(b, hl, a, q, s, ans, l, out) ==
  /\ b # "ready" => Len(a) = 0 /\ ~hl
  /\ ~hl => s = 0
  /\ \A i \in 1..Len(q) : q[i].id = s - Len(q) + i
  /\ \A i \in 1..Len(a) :
       /\ a[i].id <= s - Len(q)
       /\ a[i].id = 0 => Len(a) = 1 /\ ~hl
  /\ ans + l + (Len(a) - Greets(a)) + Len(q) = s
  /\ l = 0 => /\ \A i \in 1..(Len(a) - Greets(a)) : a[Greets(a) + i].id = ans + i
              /\ s - ans <= out
  /\ out <= AckCap => l = 0

\* That is LinkInv.
LEMMA LinkInvIs ==
  ASSUME LinkTypeOK
  PROVE  LinkInv <=> LinkOf(boot, host.linked, acks, inbox, sent, answered, lost, work.out)
  <1>1. acks \in Seq(Messages)
    BY DEF LinkTypeOK
  <1>2. Greeting = Greets(acks)
    BY <1>1, GreetingIs DEF Greeting
  <1>3. acks = <<>> <=> Len(acks) = 0
    BY <1>1, EmptySeq
  <1> QED
    BY <1>2, <1>3, Zenon DEF LinkInv, LinkOf

\* The same after a step.
LEMMA LinkInvNext ==
  ASSUME LinkTypeOK'
  PROVE  LinkInv' <=> LinkOf(boot', host'.linked, acks', inbox', sent', answered', lost', work'.out)
  <1>1. acks' \in Seq(Messages)
    BY DEF LinkTypeOK
  <1>2. Greeting' = Greets(acks')
    BY <1>1, GreetingIs DEF Greeting
  <1>3. acks' = <<>> <=> Len(acks') = 0
    BY <1>1, EmptySeq
  <1> QED
    BY <1>2, <1>3, Zenon DEF LinkInv, LinkOf

\* A command is answered, and there is room for the answer.
LEMMA LinkAnswered ==
  ASSUME NEW hl \in BOOLEAN, NEW a \in Seq(Messages), NEW q \in Seq(Entries), q # <<>>,
         NEW s \in Nat, NEW ans \in Nat, NEW l \in Nat, NEW out \in Nat,
         LinkOf("ready", hl, a, q, s, ans, l, out),
         NEW m \in Messages, m.id = Head(q).id
  PROVE  LinkOf("ready", hl, Append(a, m), Tail(q), s, ans, l, out)
  <1> DEFINE b == Append(a, m)
             t == Tail(q)
  <1>1. Len(q) \in Nat \ {0} /\ Len(a) \in Nat /\ Head(q) = q[1]
    BY EmptySeq, LenProperties
  <1>2. /\ t \in Seq(Entries) /\ Len(t) = Len(q) - 1
        /\ \A i \in 1..Len(t) : t[i] = q[i + 1]
    BY HeadTailProperties
  <1>3. /\ b \in Seq(Messages) /\ Len(b) = Len(a) + 1 /\ b[Len(a) + 1] = m
        /\ \A i \in 1..Len(a) : b[i] = a[i]
    BY AppendProperties
  <1>4. Greets(a) \in 0..1 /\ Greets(a) <= Len(a)
    BY GreetingIs
  <1>5. /\ m.id = s - Len(q) + 1 /\ ans + l + (Len(a) - Greets(a)) + Len(q) = s
        /\ m.id \in Nat \ {0}
    <2>1. q[1].id = s - Len(q) + 1
      BY <1>1 DEF LinkOf
    <2>2. ans + l + (Len(a) - Greets(a)) + Len(q) = s
      BY DEF LinkOf
    <2> QED
      BY <1>1, <1>4, <2>1, <2>2
  <1>6. hl /\ s # 0
    BY <1>1, <1>4, <1>5 DEF LinkOf
  <1>7. Greets(a) = 0 /\ Greets(b) = 0
    BY <1>1, <1>3, <1>5, <1>6 DEF LinkOf, Greets
  <1>8. \A i \in 1..Len(t) : t[i].id = s - Len(t) + i
    BY <1>1, <1>2 DEF LinkOf
  <1>9. \A i \in 1..Len(b) : i = Len(a) + 1 \/ i \in 1..Len(a)
    BY <1>1, <1>3
  <1>10. \A i \in 1..Len(b) : b[i].id <= s - Len(t) /\ (b[i].id = 0 => Len(b) = 1 /\ ~hl)
    <2> SUFFICES ASSUME NEW i \in 1..Len(b)
                 PROVE  b[i].id <= s - Len(t) /\ b[i].id # 0
      BY Zenon
    <2>1. CASE i = Len(a) + 1
      BY <1>1, <1>2, <1>3, <1>5, <2>1
    <2>2. CASE i \in 1..Len(a)
      <3>1. b[i] = a[i] /\ a[i].id <= s - Len(q) /\ (a[i].id = 0 => ~hl) /\ a[i] \in Messages
        BY <1>3, <2>2, ElementOfSeq DEF LinkOf
      <3> QED
        BY <1>1, <1>2, <1>6, <3>1 DEF Messages
    <2> QED
      BY <1>9, <2>1, <2>2
  <1>11. l = 0 => \A i \in 1..(Len(b) - Greets(b)) : b[Greets(b) + i].id = ans + i
    <2> SUFFICES ASSUME l = 0, NEW i \in 1..Len(b)
                 PROVE  b[i].id = ans + i
      BY <1>1, <1>3, <1>7
    <2>1. CASE i = Len(a) + 1
      BY <1>1, <1>3, <1>5, <1>7, <2>1
    <2>2. CASE i \in 1..Len(a)
      BY <1>1, <1>3, <1>7, <2>2 DEF LinkOf
    <2> QED
      BY <1>9, <2>1, <2>2
  <1>12. ans + l + (Len(b) - Greets(b)) + Len(t) = s
    BY <1>1, <1>2, <1>3, <1>5, <1>7
  <1> HIDE DEF b, t
  <1>13. LinkOf("ready", hl, b, t, s, ans, l, out)
    BY <1>6, <1>8, <1>10, <1>11, <1>12 DEF LinkOf
  <1> QED
    BY <1>13 DEF b, t

\* A command is answered, and the ring is full: with no more commands under way than
\* the ring holds that does not happen.
LEMMA LinkRefused ==
  ASSUME NEW hl \in BOOLEAN, NEW a \in Seq(Messages), NEW q \in Seq(Entries), q # <<>>,
         NEW s \in Nat, NEW ans \in Nat, NEW l \in Nat, NEW out \in Nat,
         LinkOf("ready", hl, a, q, s, ans, l, out), Len(a) >= AckCap, AckCap \in Nat
  PROVE  LinkOf("ready", hl, a, Tail(q), s, ans, l + 1, out)
  <1> DEFINE t == Tail(q)
  <1>1. Len(q) \in Nat \ {0} /\ Len(a) \in Nat
    BY EmptySeq, LenProperties
  <1>2. /\ t \in Seq(Entries) /\ Len(t) = Len(q) - 1
        /\ \A i \in 1..Len(t) : t[i] = q[i + 1]
    BY HeadTailProperties
  <1>3. Greets(a) \in 0..1 /\ Greets(a) <= Len(a)
    BY GreetingIs
  <1>4. ans + l + (Len(a) - Greets(a)) + Len(q) = s
    BY DEF LinkOf
  <1>5. hl /\ s # 0
    BY <1>1, <1>3, <1>4 DEF LinkOf
  <1>6. Greets(a) = 0
    BY <1>1, <1>5 DEF LinkOf, Greets
  <1>7. ~(out <= AckCap)
    <2> SUFFICES ASSUME out <= AckCap
                 PROVE  FALSE
      OBVIOUS
    <2>1. l = 0 /\ s - ans <= out
      BY DEF LinkOf
    <2> QED
      BY <1>1, <1>4, <1>6, <2>1
  <1>8. \A i \in 1..Len(t) : t[i].id = s - Len(t) + i
    BY <1>1, <1>2 DEF LinkOf
  <1>9. \A i \in 1..Len(a) : a[i].id <= s - Len(t) /\ (a[i].id = 0 => Len(a) = 1 /\ ~hl)
    <2> SUFFICES ASSUME NEW i \in 1..Len(a)
                 PROVE  a[i].id <= s - Len(t) /\ (a[i].id = 0 => Len(a) = 1 /\ ~hl)
      BY Zenon
    <2>1. a[i] \in Messages /\ a[i].id <= s - Len(q) /\ (a[i].id = 0 => Len(a) = 1 /\ ~hl)
      BY ElementOfSeq DEF LinkOf
    <2> QED
      BY <1>1, <1>2, <2>1 DEF Messages
  <1>10. ans + (l + 1) + (Len(a) - Greets(a)) + Len(t) = s /\ l + 1 # 0
    BY <1>1, <1>2, <1>4, <1>6
  <1> HIDE DEF t
  <1>11. LinkOf("ready", hl, a, t, s, ans, l + 1, out)
    BY <1>5, <1>7, <1>8, <1>9, <1>10, Zenon DEF LinkOf
  <1> QED
    BY <1>11 DEF t

\* The RPU takes a message.
LEMMA LinkReceived ==
  ASSUME NEW bt, NEW hl \in BOOLEAN, NEW a \in Seq(Messages), a # <<>>, NEW q \in Seq(Entries),
         NEW s \in Nat, NEW ans \in Nat, NEW l \in Nat, NEW out \in Nat,
         LinkOf(bt, hl, a, q, s, ans, l, out),
         NEW hl2 \in BOOLEAN, hl2 <=> hl \/ Head(a).id = 0,
         NEW ans2, ans2 = IF Head(a).id = 0 THEN ans ELSE ans + 1
  PROVE  LinkOf(bt, hl2, Tail(a), q, s, ans2, l, out) /\ ans2 \in 0..s
  <1> DEFINE t == Tail(a)
  <1>1. Len(a) \in Nat \ {0} /\ Len(q) \in Nat /\ Head(a) = a[1] /\ a[1] \in Messages
    BY EmptySeq, LenProperties
  <1>2. /\ t \in Seq(Messages) /\ Len(t) = Len(a) - 1
        /\ \A i \in 1..Len(t) : t[i] = a[i + 1]
    BY HeadTailProperties
  <1>3. Greets(a) \in 0..1 /\ Greets(a) <= Len(a)
    BY GreetingIs
  <1>4. ans + l + (Len(a) - Greets(a)) + Len(q) = s /\ bt = "ready"
    BY <1>1 DEF LinkOf
  <1>5. \A i \in 1..Len(q) : q[i].id = s - Len(q) + i
    BY DEF LinkOf
  <1>6. out <= AckCap => l = 0
    BY DEF LinkOf
  <1>7. CASE Head(a).id = 0
    <2>1. Len(a) = 1 /\ ~hl /\ s = 0 /\ hl2 /\ ans2 = ans /\ Greets(a) = 1
      BY <1>1, <1>7 DEF LinkOf, Greets
    <2>2. Len(t) = 0 /\ Greets(t) = 0
      <3>1. Len(t) = 0
        BY <1>2, <2>1
      <3> HIDE DEF t
      <3> QED
        BY <3>1 DEF Greets
    <2>3. ans2 = 0 /\ l = 0 /\ Len(q) = 0
      BY <1>1, <1>4, <2>1
    <2>4. s - ans <= out
      BY <2>1, <2>3
    <2> HIDE DEF t
    <2>5. LinkOf(bt, hl2, t, q, s, ans2, l, out)
      BY <1>1, <1>4, <1>5, <1>6, <2>1, <2>2, <2>3, <2>4 DEF LinkOf
    <2>6. ans2 \in 0..s
      BY <2>1, <2>3
    <2> QED
      BY <2>5, <2>6, Zenon DEF t
  <1>8. CASE Head(a).id # 0
    <2>1. Greets(a) = 0 /\ ans2 = ans + 1
      BY <1>1, <1>8 DEF Greets
    <2>2. \A i \in 1..Len(a) : a[i].id <= s - Len(q) /\ (a[i].id = 0 => Len(a) = 1 /\ ~hl)
      BY DEF LinkOf
    <2>3. \A i \in 1..Len(a) : a[i].id # 0
      BY <1>1, <1>8, <2>2
    <2>4. Greets(t) = 0
      BY <1>1, <1>2, <2>3 DEF Greets
    <2>5. \A i \in 1..Len(t) : i + 1 \in 1..Len(a)
      BY <1>1, <1>2
    <2>6. \A i \in 1..Len(t) : t[i].id <= s - Len(q) /\ t[i].id # 0
      BY <1>2, <2>2, <2>3, <2>5
    <2>7. ans2 + l + (Len(t) - Greets(t)) + Len(q) = s
      BY <1>1, <1>2, <1>4, <2>1, <2>4
    <2>8. ASSUME l = 0
          PROVE  /\ \A i \in 1..(Len(t) - Greets(t)) : t[Greets(t) + i].id = ans2 + i
                 /\ s - ans2 <= out
      <3>1. \A i \in 1..Len(a) : a[i].id = ans + i
        BY <1>1, <2>1, <2>8 DEF LinkOf
      <3>2. \A i \in 1..Len(t) : t[i].id = ans + (i + 1)
        BY <1>2, <2>5, <3>1
      <3>3. s - ans <= out
        BY <2>8 DEF LinkOf
      <3> QED
        BY <1>1, <1>2, <2>1, <2>4, <3>2, <3>3
    <2>9. ~hl2 => s = 0
      BY DEF LinkOf
    <2> HIDE DEF t
    <2>10. LinkOf(bt, hl2, t, q, s, ans2, l, out)
      BY <1>4, <1>5, <1>6, <2>6, <2>7, <2>8, <2>9 DEF LinkOf
    <2>11. ans2 \in 0..s
      BY <1>1, <1>4, <2>1
    <2> QED
      BY <2>10, <2>11 DEF t
  <1> QED
    BY <1>7, <1>8

\* The host sends a command.
LEMMA LinkSent ==
  ASSUME NEW bt, NEW a \in Seq(Messages), NEW q \in Seq(Entries),
         NEW s \in Nat, NEW ans \in Nat, NEW l \in Nat, NEW out \in Nat,
         LinkOf(bt, TRUE, a, q, s, ans, l, out), s - ans < out,
         NEW e \in Entries, e.id = s + 1
  PROVE  LinkOf(bt, TRUE, a, Append(q, e), s + 1, ans, l, out)
  <1> DEFINE t == Append(q, e)
  <1>1. Len(a) \in Nat /\ Len(q) \in Nat /\ Greets(a) \in 0..1
    BY LenProperties, GreetingIs
  <1>2. /\ t \in Seq(Entries) /\ Len(t) = Len(q) + 1 /\ t[Len(q) + 1] = e
        /\ \A i \in 1..Len(q) : t[i] = q[i]
    BY AppendProperties
  <1>3. /\ bt = "ready" /\ \A i \in 1..Len(a) : a[i].id <= s - Len(q) /\ a[i].id # 0
        /\ ans + l + (Len(a) - Greets(a)) + Len(q) = s
        /\ \A i \in 1..Len(q) : q[i].id = s - Len(q) + i
        /\ l = 0 => \A i \in 1..(Len(a) - Greets(a)) : a[Greets(a) + i].id = ans + i
        /\ out <= AckCap => l = 0
    BY DEF LinkOf
  <1>4. \A i \in 1..Len(t) : t[i].id = (s + 1) - Len(t) + i
    <2> SUFFICES ASSUME NEW i \in 1..Len(t)
                 PROVE  t[i].id = (s + 1) - Len(t) + i
      BY Zenon
    <2>1. CASE i = Len(q) + 1
      BY <1>1, <1>2, <2>1
    <2>2. CASE i \in 1..Len(q)
      BY <1>1, <1>2, <1>3, <2>2
    <2> QED
      BY <1>1, <1>2, <2>1, <2>2
  <1>5. s - Len(q) = (s + 1) - Len(t) /\ ans + l + (Len(a) - Greets(a)) + Len(t) = s + 1
        /\ (s + 1) - ans <= out
    <2>1. s - Len(q) = (s + 1) - Len(t)
      BY <1>1, <1>2
    <2>2. ans + l + (Len(a) - Greets(a)) + Len(t) = s + 1
      <3>1. Len(t) = Len(q) + 1 /\ ans + l + (Len(a) - Greets(a)) + Len(q) = s
        BY <1>2, <1>3
      <3> HIDE DEF t
      <3> QED
        BY <1>1, <3>1
    <2> QED
      BY <2>1, <2>2
  <1> HIDE DEF t
  <1>6. \A i \in 1..Len(a) : a[i].id <= (s + 1) - Len(t) /\ a[i].id # 0
    BY <1>3, <1>5
  <1>7. LinkOf(bt, TRUE, a, t, s + 1, ans, l, out)
    BY <1>3, <1>4, <1>5, <1>6, Zenon DEF LinkOf
  <1> QED
    BY <1>7 DEF t

\* The application says hello.
LEMMA LinkHello ==
  ASSUME NEW hl \in BOOLEAN, NEW a \in Seq(Messages), NEW q \in Seq(Entries),
         NEW s \in Nat, NEW ans \in Nat, NEW l \in Nat, NEW out \in Nat,
         LinkOf("hello", hl, a, q, s, ans, l, out), NEW m \in Messages, m.id = 0
  PROVE  Len(a) = 0 /\ LinkOf("ready", hl, Append(a, m), q, s, ans, l, out)
  <1> DEFINE b == Append(a, m)
  <1>1. Len(q) \in Nat /\ Len(a) = 0 /\ ~hl /\ s = 0
    BY LenProperties DEF LinkOf
  <1>2. Len(b) = 1 /\ b[1] = m
    BY <1>1, AppendProperties
  <1>3. Greets(a) = 0 /\ Greets(b) = 1
    BY <1>1, <1>2 DEF Greets
  <1>4. ans = 0 /\ l = 0 /\ Len(q) = 0
    BY <1>1, <1>3 DEF LinkOf
  <1> HIDE DEF b
  <1>5. LinkOf("ready", hl, b, q, s, ans, l, out)
    BY <1>1, <1>2, <1>3, <1>4 DEF LinkOf
  <1> QED
    BY <1>1, <1>5 DEF b

-----------------------------------------------------------------------------
(* What the host takes note of                                             *)

\* What the host learns from a message.
LEMMA LearnsIs ==
  ASSUME NEW h \in Hosts, NEW m \in Messages
  PROVE  \E g \in Hosts :
           /\ g = Learns(h, m)
           /\ g.linked <=> (h.linked \/ m.id = 0)
           /\ g.acc = IF m.head \in {"done", "fail"} /\ h.acc = "started" /\ m.id > h.asked
                      THEN m.head ELSE h.acc
           /\ g.asked = h.asked /\ g.sent = h.sent /\ g.fw = h.fw /\ g.inp = h.inp
           /\ g.out = h.out /\ g.data = h.data
  <1> DEFINE l == h.linked \/ m.id = 0
             x == IF m.head \in {"done", "fail"} /\ h.acc = "started" /\ m.id > h.asked
                  THEN m.head ELSE h.acc
             g == [h EXCEPT !.linked = l, !.acc = x]
  <1>1. l \in BOOLEAN /\ x \in {"fresh", "started", "done", "fail"}
    BY DEF Hosts
  <1>2. g = Learns(h, m)
    BY DEF Learns, Hosts
  <1> HIDE DEF l, x
  <1>3. g \in Hosts
    BY <1>1 DEF Hosts
  <1>4. g.linked = l /\ g.acc = x /\ g.asked = h.asked /\ g.sent = h.sent /\ g.fw = h.fw
        /\ g.inp = h.inp /\ g.out = h.out /\ g.data = h.data
    BY <1>1, ZenonT(40) DEF Hosts
  <1> QED
    BY <1>2, <1>3, <1>4 DEF l, x

\* What it takes note of when it sends c.
LEMMA NotedIs ==
  ASSUME LinkTypeOK, AccTypeOK, NEW c \in Commands
  PROVE  \E g \in Hosts :
           /\ g = Noted(c)
           /\ host.linked => g.linked
           /\ g.acc = IF c.f = "Start" THEN "started" ELSE IF c.f = "Reset" THEN "fresh" ELSE host.acc
           /\ g.asked = IF c.f = "Start" THEN sent + 1 ELSE IF c.f = "Reset" THEN 0 ELSE host.asked
           /\ g.sent = IF c.f = "SendFw" THEN c.fw ELSE host.sent
           /\ g.fw = IF c.f = "SetFw" THEN host.sent ELSE IF c.f = "Reset" THEN NoFirmware ELSE host.fw
           /\ g.inp = IF c.f = "ReadLba" THEN TRUE ELSE IF c.f = "Reset" THEN FALSE ELSE host.inp
           /\ g.out = IF c.f = "WriteLba" THEN TRUE ELSE IF c.f = "Reset" THEN FALSE ELSE host.out
           /\ g.data = IF c.f = "Start" THEN (IF host.inp THEN ramdisk.inp ELSE NoData)
                       ELSE IF c.f = "Reset" THEN NoData ELSE host.data
  <1>1. PICK h \in Hosts : h = host
    BY DEF LinkTypeOK
  <1>2. PICK n \in Nat : n = sent + 1
    BY DEF LinkTypeOK
  <1>3. PICK d \in Data \cup {NoData} : d = IF h.inp THEN ramdisk.inp ELSE NoData
    BY DEF AccTypeOK
  <1>4. CASE c.f = "SendFw"
    <2>1. PICK fw \in Firmware : fw = c.fw
      BY <1>4, Parameters
    <2>2. Noted(c) = [h EXCEPT !.sent = fw]
      BY <1>1, <1>4, <2>1, Zenon DEF Noted
    <2>3. PICK g \in Hosts :
            /\ g = [h EXCEPT !.sent = fw] /\ g.linked = h.linked /\ g.acc = h.acc
            /\ g.asked = h.asked /\ g.sent = fw /\ g.fw = h.fw /\ g.inp = h.inp
            /\ g.out = h.out /\ g.data = h.data
      <3> DEFINE x == [h EXCEPT !.sent = fw]
      <3>1. x \in Hosts
        BY DEF Hosts
      <3>2. /\ x.linked = h.linked /\ x.acc = h.acc /\ x.asked = h.asked /\ x.sent = fw
            /\ x.fw = h.fw /\ x.inp = h.inp /\ x.out = h.out /\ x.data = h.data
        BY DEF Hosts
      <3> HIDE DEF x
      <3> QED
        BY <3>1, <3>2 DEF x
    <2> QED
      BY <1>1, <1>4, <2>1, <2>2, <2>3
  <1>5. CASE c.f = "SetFw"
    <2>1. PICK fw \in Firmware \cup {NoFirmware} : fw = h.sent
      BY DEF Hosts
    <2>2. Noted(c) = [h EXCEPT !.fw = fw]
      BY <1>1, <1>5, <2>1 DEF Noted
    <2>3. PICK g \in Hosts :
            /\ g = [h EXCEPT !.fw = fw] /\ g.linked = h.linked /\ g.acc = h.acc
            /\ g.asked = h.asked /\ g.sent = h.sent /\ g.fw = fw /\ g.inp = h.inp
            /\ g.out = h.out /\ g.data = h.data
      <3> DEFINE x == [h EXCEPT !.fw = fw]
      <3>1. x \in Hosts
        BY DEF Hosts
      <3>2. /\ x.linked = h.linked /\ x.acc = h.acc /\ x.asked = h.asked /\ x.sent = h.sent
            /\ x.fw = fw /\ x.inp = h.inp /\ x.out = h.out /\ x.data = h.data
        BY DEF Hosts
      <3> HIDE DEF x
      <3> QED
        BY <3>1, <3>2 DEF x
    <2> QED
      BY <1>1, <1>5, <2>1, <2>2, <2>3
  <1>6. CASE c.f = "ReadLba"
    <2>2. Noted(c) = [h EXCEPT !.inp = TRUE]
      BY <1>1, <1>6 DEF Noted
    <2>3. PICK g \in Hosts :
            /\ g = [h EXCEPT !.inp = TRUE] /\ g.linked = h.linked /\ g.acc = h.acc
            /\ g.asked = h.asked /\ g.sent = h.sent /\ g.fw = h.fw /\ g.inp /\ g.out = h.out
            /\ g.data = h.data
      <3> DEFINE x == [h EXCEPT !.inp = TRUE]
      <3>1. x \in Hosts
        BY DEF Hosts
      <3>2. /\ x.linked = h.linked /\ x.acc = h.acc /\ x.asked = h.asked /\ x.sent = h.sent
            /\ x.fw = h.fw /\ x.inp /\ x.out = h.out /\ x.data = h.data
        BY DEF Hosts
      <3> HIDE DEF x
      <3> QED
        BY <3>1, <3>2 DEF x
    <2> QED
      BY <1>1, <1>6, <2>2, <2>3
  <1>7. CASE c.f = "WriteLba"
    <2>2. Noted(c) = [h EXCEPT !.out = TRUE]
      BY <1>1, <1>7 DEF Noted
    <2>3. PICK g \in Hosts :
            /\ g = [h EXCEPT !.out = TRUE] /\ g.linked = h.linked /\ g.acc = h.acc
            /\ g.asked = h.asked /\ g.sent = h.sent /\ g.fw = h.fw /\ g.inp = h.inp /\ g.out
            /\ g.data = h.data
      <3> DEFINE x == [h EXCEPT !.out = TRUE]
      <3>1. x \in Hosts
        BY DEF Hosts
      <3>2. /\ x.linked = h.linked /\ x.acc = h.acc /\ x.asked = h.asked /\ x.sent = h.sent
            /\ x.fw = h.fw /\ x.inp = h.inp /\ x.out /\ x.data = h.data
        BY DEF Hosts
      <3> HIDE DEF x
      <3> QED
        BY <3>1, <3>2 DEF x
    <2> QED
      BY <1>1, <1>7, <2>2, <2>3
  <1>8. CASE c.f = "Start"
    <2>2. Noted(c) = [h EXCEPT !.acc = "started", !.asked = n, !.data = d]
      BY <1>1, <1>2, <1>3, <1>8 DEF Noted
    <2>3. PICK g \in Hosts :
            /\ g = [h EXCEPT !.acc = "started", !.asked = n, !.data = d]
            /\ g.linked = h.linked /\ g.acc = "started" /\ g.asked = n /\ g.sent = h.sent
            /\ g.fw = h.fw /\ g.inp = h.inp /\ g.out = h.out /\ g.data = d
      <3> DEFINE x == [h EXCEPT !.acc = "started", !.asked = n, !.data = d]
      <3>1. x \in Hosts
        BY DEF Hosts
      <3>2. /\ x.linked = h.linked /\ x.acc = "started" /\ x.asked = n /\ x.sent = h.sent
            /\ x.fw = h.fw /\ x.inp = h.inp /\ x.out = h.out /\ x.data = d
        BY DEF Hosts
      <3> HIDE DEF x
      <3> QED
        BY <3>1, <3>2 DEF x
    <2> QED
      BY <1>1, <1>2, <1>3, <1>8, <2>2, <2>3
  <1>9. CASE c.f = "Reset"
    <2>1. PICK fw \in Firmware \cup {NoFirmware} : fw = h.sent
      BY DEF Hosts
    <2>2. Noted(c) = [FreshHost EXCEPT !.linked = TRUE, !.sent = fw]
      BY <1>1, <1>9, <2>1 DEF Noted
    <2>3. PICK g \in Hosts :
            /\ g = [FreshHost EXCEPT !.linked = TRUE, !.sent = fw] /\ g.linked
            /\ g.acc = "fresh" /\ g.asked = 0 /\ g.sent = fw /\ g.fw = NoFirmware /\ ~g.inp
            /\ ~g.out /\ g.data = NoData
      <3> DEFINE x == [FreshHost EXCEPT !.linked = TRUE, !.sent = fw]
      <3>1. x \in Hosts
        BY DEF Hosts, FreshHost
      <3>2. /\ x.linked /\ x.acc = "fresh" /\ x.asked = 0 /\ x.sent = fw
            /\ x.fw = NoFirmware /\ ~x.inp /\ ~x.out /\ x.data = NoData
        BY DEF Hosts, FreshHost
      <3> HIDE DEF x
      <3> QED
        BY <3>1, <3>2 DEF x
    <2>4. g = Noted(c)
      BY <2>2, <2>3, Zenon
    <2>5. /\ g.linked /\ g.acc = "fresh" /\ g.asked = 0 /\ g.sent = host.sent
          /\ g.fw = NoFirmware /\ ~g.inp /\ ~g.out /\ g.data = NoData
      BY <1>1, <2>1, <2>3, Zenon
    <2>6. g.inp = FALSE /\ g.out = FALSE
      BY <2>5 DEF Hosts
    <2> QED
      BY <1>9, <2>4, <2>5, <2>6
  <1>10. CASE c.f \notin {"SendFw", "SetFw", "ReadLba", "WriteLba", "Start", "Reset"}
    <2>1. Noted(c) = h
      BY <1>1, <1>10, Zenon DEF Noted
    <2> QED
      BY <1>1, <1>10, <2>1
  <1> QED
    BY <1>4, <1>5, <1>6, <1>7, <1>8, <1>9, <1>10

-----------------------------------------------------------------------------
(* The steps of the link                                                   *)

\* A message is written to the endpoint, or the ring refuses it.
Written(m) ==
  \/ Len(acks) < AckCap /\ acks' = Append(acks, m) /\ lost' = lost
  \/ Len(acks) >= AckCap /\ acks' = acks /\ lost' = lost + 1

\* send_ack, with the message it writes.
LEMMA AckShape ==
  ASSUME LinkTypeOK, inbox # <<>>, NEW data \in BOOLEAN, NEW head \in Heads, send_ack(data, head)
  PROVE  /\ \E m \in Messages : m.id = Head(inbox).id /\ m.head = head /\ Written(m)
         /\ inbox' = Tail(inbox) /\ (ipi' = ipi \/ ipi' = TRUE)
         /\ UNCHANGED <<work, boot, nokick, poll, sent, answered, host, losses>>
  <1>1. inbox \in Seq(Entries) /\ acks \in Seq(Messages) /\ Len(acks) \in Nat /\ AckCap \in Nat
    BY WorkIs, LenProperties DEF LinkTypeOK, Entries
  <1>2. PICK n \in Nat : n = Head(inbox).id
    <2>1. Head(inbox) \in Entries
      BY <1>1, HeadTailProperties
    <2> QED
      BY <2>1 DEF Entries
  <1> DEFINE m == [id |-> n, data |-> data, head |-> head]
  <1>3. m \in Messages /\ m.id = n /\ m.head = head
    BY DEF Messages
  <1>4. /\ Write(m) /\ inbox' = Tail(inbox)
        /\ UNCHANGED <<work, boot, nokick, poll, sent, answered, host, losses>>
    BY <1>2, Zenon DEF send_ack
  <1> HIDE DEF m
  <1>5. Written(m) /\ (ipi' = ipi \/ ipi' = TRUE)
    BY <1>1, <1>4 DEF Write, Written
  <1> QED
    BY <1>2, <1>3, <1>4, <1>5, Zenon

\* An answer keeps the link's types and its invariant.
LEMMA AckKeeps ==
  ASSUME LinkTypeOK, LinkInv, boot = "ready", inbox # <<>>, NEW data \in BOOLEAN,
         NEW head \in Heads, send_ack(data, head), unmapped' \in BOOLEAN
  PROVE  LinkTypeOK' /\ LinkInv'
  <1>1. PICK m \in Messages : m.id = Head(inbox).id /\ m.head = head /\ Written(m)
    BY AckShape
  <1>2. /\ inbox' = Tail(inbox) /\ (ipi' = ipi \/ ipi' = TRUE)
        /\ UNCHANGED <<work, boot, nokick, poll, sent, answered, host, losses>>
    BY AckShape
  <1>3. /\ inbox \in Seq(Entries) /\ acks \in Seq(Messages) /\ Len(acks) \in Nat
        /\ AckCap \in Nat /\ work.out \in Nat /\ sent \in Nat /\ answered \in Nat
        /\ lost \in Nat /\ host \in Hosts /\ host.linked \in BOOLEAN /\ Len(acks) <= AckCap
    BY WorkIs, LenProperties DEF LinkTypeOK, Entries, Hosts
  <1>4. inbox' \in Seq(Entries)
    BY <1>2, <1>3, HeadTailProperties
  <1>5. acks' \in Seq(Messages) /\ Len(acks') <= AckCap /\ lost' \in Nat
    <2>1. Append(acks, m) \in Seq(Messages) /\ Len(Append(acks, m)) = Len(acks) + 1
      BY <1>3, AppendProperties
    <2>2. CASE Len(acks) < AckCap /\ acks' = Append(acks, m) /\ lost' = lost
      BY <1>3, <2>1, <2>2
    <2>3. CASE Len(acks) >= AckCap /\ acks' = acks /\ lost' = lost + 1
      BY <1>3, <2>3
    <2> QED
      BY <1>1, <2>2, <2>3, Zenon DEF Written
  <1>6. LinkTypeOK'
    BY <1>2, <1>4, <1>5 DEF LinkTypeOK, Entries
  <1>7. LinkOf("ready", host.linked, acks, inbox, sent, answered, lost, work.out)
    BY LinkInvIs
  <1>8. LinkOf("ready", host.linked, acks', inbox', sent, answered, lost', work.out)
    <2>1. CASE Len(acks) < AckCap /\ acks' = Append(acks, m) /\ lost' = lost
      BY <1>1, <1>2, <1>3, <1>7, <2>1, LinkAnswered
    <2>2. CASE Len(acks) >= AckCap /\ acks' = acks /\ lost' = lost + 1
      BY <1>2, <1>3, <1>7, <2>2, LinkRefused
    <2> QED
      BY <1>1, <2>1, <2>2 DEF Written
  <1>9. LinkOf(boot', host'.linked, acks', inbox', sent', answered', lost', work'.out)
    BY <1>2, <1>8
  <1> QED
    BY <1>6, <1>9, LinkInvNext

\* The RPU takes a message from the ring.
LEMMA EndpointKeeps ==
  ASSUME LinkTypeOK, LinkInv, EndpointCb
  PROVE  LinkTypeOK' /\ LinkInv'
  <1>1. /\ acks # <<>> /\ acks' = Tail(acks)
        /\ answered' = IF Head(acks).id = 0 THEN answered ELSE answered + 1
        /\ host' = Learns(host, Head(acks))
        /\ UNCHANGED <<work, boot, inbox, ipi, nokick, poll, sent, lost, unmapped, losses>>
    BY DEF EndpointCb
  <1>2. /\ inbox \in Seq(Entries) /\ acks \in Seq(Messages)
        /\ work.out \in Nat /\ sent \in Nat /\ answered \in Nat
        /\ lost \in Nat /\ host \in Hosts /\ host.linked \in BOOLEAN
        /\ Len(acks) \in Nat /\ Len(acks) <= AckCap /\ AckCap \in Nat
    BY WorkIs, LenProperties DEF LinkTypeOK, Entries, Hosts
  <1>3. PICK m \in Messages : m = Head(acks)
    BY <1>1, <1>2, HeadTailProperties
  <1>4. PICK g \in Hosts : g = Learns(host, m) /\ (g.linked <=> (host.linked \/ m.id = 0))
    BY <1>2, LearnsIs
  <1>5. host' = g /\ g.linked \in BOOLEAN /\ (g.linked <=> (host.linked \/ Head(acks).id = 0))
    BY <1>1, <1>3, <1>4 DEF Hosts
  <1>6. LinkOf(boot, host.linked, acks, inbox, sent, answered, lost, work.out)
    BY LinkInvIs
  <1>7. /\ LinkOf(boot, g.linked, Tail(acks), inbox, sent, answered', lost, work.out)
        /\ answered' \in 0..sent
    BY <1>1, <1>2, <1>5, <1>6, LinkReceived
  <1>8. LinkOf(boot', host'.linked, acks', inbox', sent', answered', lost', work'.out)
    BY <1>1, <1>5, <1>7, Zenon
  <1>9. Tail(acks) \in Seq(Messages) /\ Len(Tail(acks)) <= AckCap
    BY <1>1, <1>2, HeadTailProperties
  <1>10. LinkTypeOK'
    BY <1>1, <1>5, <1>7, <1>9 DEF LinkTypeOK
  <1> QED
    BY <1>8, <1>10, LinkInvNext

\* The host sends a command.
LEMMA SendKeeps ==
  ASSUME LinkTypeOK, LinkInv, AccTypeOK, sent < Len(work.script), NEW c \in work.script[sent + 1],
         HostSends(c)
  PROVE  LinkTypeOK' /\ LinkInv'
  <1>1. /\ host.linked /\ sent - answered < work.out
        /\ sent' = sent + 1 /\ inbox' = Append(inbox, [id |-> sent + 1, cmd |-> c])
        /\ host' = Noted(c)
        /\ UNCHANGED <<work, boot, acks, ipi, nokick, poll, answered, lost, unmapped, losses>>
    BY Zenon DEF HostSends
  <1>2. /\ inbox \in Seq(Entries) /\ acks \in Seq(Messages)
        /\ work.out \in Nat /\ sent \in Nat /\ answered \in Nat
        /\ lost \in Nat /\ host \in Hosts /\ host.linked = TRUE
    BY <1>1, WorkIs DEF LinkTypeOK, Entries, Hosts
  <1>3. work.script \in Seq(SUBSET Commands) /\ sent + 1 \in 1..Len(work.script)
    BY <1>2, WorkIs DEF LinkTypeOK
  <1>4. c \in Commands
    BY <1>3, ElementOfSeq
  <1> DEFINE e == [id |-> sent + 1, cmd |-> c]
  <1>5. e \in Entries /\ e.id = sent + 1
    BY <1>2, <1>4 DEF Entries
  <1>6. inbox' = Append(inbox, e)
    BY <1>1
  <1> HIDE DEF e
  <1>7. PICK g \in Hosts : g = Noted(c) /\ (host.linked => g.linked)
    BY <1>4, NotedIs
  <1>8. host' = g /\ g.linked = TRUE
    BY <1>1, <1>7 DEF Hosts
  <1>9. LinkOf(boot, TRUE, acks, inbox, sent, answered, lost, work.out)
    BY <1>2, LinkInvIs
  <1>10. LinkOf(boot, TRUE, acks, Append(inbox, e), sent + 1, answered, lost, work.out)
    BY <1>1, <1>2, <1>5, <1>9, LinkSent
  <1>11. LinkOf(boot', host'.linked, acks', inbox', sent', answered', lost', work'.out)
    BY <1>1, <1>6, <1>8, <1>10
  <1>12. inbox' \in Seq(Entries)
    BY <1>2, <1>5, <1>6, AppendProperties
  <1>13. sent' \in 0..Len(work.script) /\ answered \in 0..sent'
    BY <1>1, <1>2, <1>3 DEF LinkTypeOK
  <1>14. LinkTypeOK'
    BY <1>1, <1>8, <1>12, <1>13 DEF LinkTypeOK, Entries
  <1> QED
    BY <1>11, <1>14, LinkInvNext

\* The first message.
LEMMA HelloKeeps ==
  ASSUME LinkTypeOK, LinkInv, Hello
  PROVE  LinkTypeOK' /\ LinkInv'
  <1> DEFINE m == [id |-> 0, data |-> FALSE, head |-> "none"]
  <1>1. /\ boot = "hello" /\ boot' = "ready" /\ Write(m)
        /\ UNCHANGED <<work, inbox, nokick, poll, sent, answered, unmapped, host, losses>>
    BY Zenon DEF Hello
  <1>2. m \in Messages /\ m.id = 0
    BY DEF Messages, Heads
  <1> HIDE DEF m
  <1>3. /\ inbox \in Seq(Entries) /\ acks \in Seq(Messages)
        /\ work.out \in Nat /\ sent \in Nat /\ answered \in Nat
        /\ lost \in Nat /\ host \in Hosts /\ host.linked \in BOOLEAN
        /\ Len(acks) \in Nat /\ AckCap \in Nat \ {0}
    BY WorkIs, LenProperties DEF LinkTypeOK, Entries, Hosts
  <1>4. LinkOf("hello", host.linked, acks, inbox, sent, answered, lost, work.out)
    BY <1>1, LinkInvIs
  <1>5. Len(acks) = 0 /\ LinkOf("ready", host.linked, Append(acks, m), inbox, sent, answered, lost, work.out)
    BY <1>2, <1>3, <1>4, LinkHello
  <1>6. acks' = Append(acks, m) /\ ipi' = TRUE /\ lost' = lost
    BY <1>1, <1>3, <1>5 DEF Write
  <1>7. LinkOf(boot', host'.linked, acks', inbox', sent', answered', lost', work'.out)
    BY <1>1, <1>5, <1>6, Zenon
  <1>8. acks' \in Seq(Messages) /\ Len(acks') <= AckCap
    BY <1>2, <1>3, <1>5, <1>6, AppendProperties
  <1>9. LinkTypeOK'
    BY <1>1, <1>6, <1>8 DEF LinkTypeOK
  <1> QED
    BY <1>7, <1>9, LinkInvNext

\* A step of rpmsg_init.
LEMMA BootKeeps ==
  ASSUME LinkTypeOK, LinkInv, RpmsgInit
  PROVE  LinkTypeOK' /\ LinkInv'
  <1>1. /\ boot \in {"access", "bind", "ctrl", "ept", "name", "open"}
        /\ boot' \in {"access", "bind", "ctrl", "ept", "name", "open", "hello", "exited"}
        /\ UNCHANGED <<work, inbox, acks, ipi, nokick, poll, sent, answered, lost, unmapped, host, losses>>
    BY DEF RpmsgInit, AfterStep
  <1>2. LinkTypeOK'
    BY <1>1 DEF LinkTypeOK, AfterStep
  <1>3. boot # "ready" /\ boot' # "ready"
    BY <1>1
  <1> QED
    BY <1>1, <1>2, <1>3, Zenon DEF LinkInv, Greeting

\* A loss of power.
LEMMA PowerKeepsLink ==
  ASSUME LinkTypeOK, PowerLoss
  PROVE  LinkTypeOK' /\ LinkInv'
  <1>1. /\ losses < MaxLoss /\ losses' = losses + 1
        /\ boot' = "access" /\ inbox' = <<>> /\ acks' = <<>> /\ ipi' = FALSE /\ nokick' = TRUE
        /\ poll' = "sleep" /\ sent' = 0 /\ answered' = 0 /\ lost' = 0 /\ unmapped' = FALSE
        /\ host' = FreshHost /\ UNCHANGED work
    BY DEF PowerLoss
  <1>2. FreshHost \in Hosts /\ ~FreshHost.linked
    BY DEF FreshHost, Hosts
  <1>3. work.out \in Nat /\ AckCap \in Nat /\ MaxLoss \in Nat /\ Len(work.script) \in Nat
    BY WorkIs, LenProperties
  <1>4. Len(inbox') = 0 /\ Len(acks') = 0 /\ inbox' \in Seq(Entries) /\ acks' \in Seq(Messages)
    BY <1>1, EmptySeq
  <1>5. LinkTypeOK'
    <2>1. losses' \in 0..MaxLoss /\ answered' \in 0..sent' /\ sent' \in 0..Len(work'.script)
      BY <1>1, <1>3 DEF LinkTypeOK
    <2>2. boot' \in DOMAIN AfterStep
      BY <1>1 DEF AfterStep
    <2>3. Len(acks') <= AckCap /\ lost' \in Nat /\ poll' \in {"sleep", "drain"}
      BY <1>1, <1>3, <1>4
    <2>4. {ipi', nokick', unmapped'} \subseteq BOOLEAN
      BY <1>1
    <2>5. host' \in Hosts /\ work' \in Workloads
      BY <1>1, <1>2, Zenon DEF LinkTypeOK
    <2> QED
      BY <1>4, <2>1, <2>2, <2>3, <2>4, <2>5 DEF LinkTypeOK, Entries
  <1>6. Greeting' = 0
    BY <1>1 DEF Greeting
  <1> QED
    BY <1>1, <1>2, <1>3, <1>4, <1>5, <1>6 DEF LinkInv

\* A step that leaves the link alone.
LEMMA LinkUnchanged ==
  ASSUME LinkTypeOK, LinkInv, UNCHANGED <<work, boot, inbox, acks, sent, answered, lost, unmapped, host, losses>>,
         poll' \in {"sleep", "drain"}, ipi' \in BOOLEAN, nokick' \in BOOLEAN
  PROVE  LinkTypeOK' /\ LinkInv'
  <1>1. LinkTypeOK'
    BY DEF LinkTypeOK
  <1>2. LinkInv'
    BY Zenon DEF LinkInv, Greeting
  <1> QED
    BY <1>1, <1>2

-----------------------------------------------------------------------------
(* The main loop, and the first layer of the invariant                     *)

\* The command in front of the queue.
LEMMA CmdIs ==
  ASSUME LinkTypeOK, inbox # <<>>
  PROVE  Cmd \in Commands /\ Cmd = inbox[1].cmd /\ Len(inbox) \in Nat \ {0}
  <1>1. inbox \in Seq(Entries)
    BY DEF LinkTypeOK, Entries
  <1>2. Head(inbox) \in Entries /\ Head(inbox) = inbox[1] /\ Len(inbox) \in Nat \ {0}
    BY <1>1, HeadTailProperties, EmptySeq
  <1> QED
    BY <1>2 DEF Cmd, Entries

\* A command is handled, whatever it is, by a command of the accelerator or of the
\* firmware update or by none, and acknowledged once.
LEMMA MainLoopIs ==
  ASSUME TypeOK, MainLoop
  PROVE  /\ boot = "ready" /\ inbox # <<>>
         /\ AccCommand \/ UNCHANGED accVars
         /\ \/ \E off \in Nat, words \in Seq(Nat) : adm_cmd_fw_download(off, words)
            \/ adm_cmd_fw_commit
            \/ UNCHANGED flashVars
         /\ \E data \in BOOLEAN, head \in Heads : send_ack(data, head)
         /\ unmapped' = unmapped \/ unmapped' = TRUE
  <1>1. AccTypeOK /\ LinkTypeOK
    BY DEF TypeOK
  <1>2. "none" \in Heads /\ "unwritten" \in Heads
    BY DEF Heads
  <1>3. ASSUME Ack
        PROVE  /\ \E data \in BOOLEAN, head \in Heads : send_ack(data, head)
               /\ unmapped' = unmapped
    BY <1>2, <1>3, Zenon DEF Ack
  <1>4. ASSUME NEW f, Command(f)
        PROVE  boot = "ready" /\ inbox # <<>> /\ Cmd.f = f /\ Cmd \in Commands
    BY <1>1, <1>4, CmdIs DEF Command, Up
  <1>5. CASE CannotMap
    <2>1. /\ \E f \in HasBuffer : Command(f)
          /\ send_ack(FALSE, "none") /\ unmapped' = TRUE /\ UNCHANGED <<accVars, flashVars>>
      BY <1>5, Zenon DEF CannotMap
    <2>2. boot = "ready" /\ inbox # <<>>
      BY <1>4, <2>1, Zenon
    <2> QED
      BY <1>2, <2>1, <2>2, Zenon
  <1>6. CASE HandleSendFw
    <2>1. Command("SendFw") /\ io_cmd_send_fw(Cmd.fw) /\ Ack /\ UNCHANGED flashVars
      BY <1>6, Zenon DEF HandleSendFw
    <2>2. Cmd.fw \in Firmware
      BY <1>4, <2>1, Parameters
    <2> QED
      BY <1>3, <1>4, <2>1, <2>2, Zenon DEF AccCommand
  <1>7. CASE HandleReadLba
    BY <1>3, <1>4, <1>7, Zenon DEF HandleReadLba, AccCommand
  <1>8. CASE HandleWriteLba
    BY <1>3, <1>4, <1>8, Zenon DEF HandleWriteLba, AccCommand
  <1>9. CASE HandleSetFw
    BY <1>3, <1>4, <1>9, Zenon DEF HandleSetFw, AccCommand
  <1>10. CASE HandleStart
    BY <1>3, <1>4, <1>10, Zenon DEF HandleStart, AccCommand
  <1>11. CASE HandleReset
    BY <1>3, <1>4, <1>11, Zenon DEF HandleReset, AccCommand
  <1>12. CASE HandleNothing
    BY <1>3, <1>4, <1>12, Zenon DEF HandleNothing
  <1>13. CASE HandleIdentify
    <2>1. /\ Command("Identify") /\ send_ack(TRUE, "none")
          /\ UNCHANGED accVars /\ UNCHANGED flashVars /\ UNCHANGED unmapped
      BY <1>13, Zenon DEF HandleIdentify
    <2> QED
      BY <1>2, <1>4, <2>1, Zenon
  <1>14. CASE HandleStatus
    <2>1. /\ Command("Status") /\ adm_cmd_status(Cmd.rae)
          /\ send_ack(TRUE, IF Cmd.large THEN "unwritten" ELSE heads')
          /\ UNCHANGED flashVars /\ UNCHANGED unmapped
      BY <1>14, Zenon DEF HandleStatus
    <2>2. Cmd.rae \in BOOLEAN
      BY <1>4, <2>1, Parameters
    <2>3. AccCommand
      BY <2>1, <2>2, Zenon DEF AccCommand
    <2>4. heads' \in Heads
      BY <1>1, <2>3, CommandTypes DEF AccTypeOK
    <2>5. (IF Cmd.large THEN "unwritten" ELSE heads') \in Heads
      BY <1>2, <2>4
    <2> QED
      BY <1>4, <2>1, <2>3, <2>5, Zenon
  <1>15. CASE HandleDownload
    <2>1. /\ Command("Download") /\ adm_cmd_fw_download(Cmd.off, Cmd.words)
          /\ Ack /\ UNCHANGED accVars
      BY <1>15, Zenon DEF HandleDownload
    <2>2. Cmd.off \in Nat /\ Cmd.words \in Seq(Nat)
      BY <1>4, <2>1, Parameters
    <2> QED
      BY <1>3, <1>4, <2>1, <2>2, Zenon
  <1>16. CASE HandleCommit
    BY <1>3, <1>4, <1>16, Zenon DEF HandleCommit
  <1> QED
    BY <1>5, <1>6, <1>7, <1>8, <1>9, <1>10, <1>11, <1>12, <1>13, <1>14, <1>15, <1>16,
       Zenon DEF MainLoop

\* Nothing happens to the accelerator.
LEMMA AccUnchanged ==
  ASSUME AccTypeOK, UNCHANGED accVars
  PROVE  AccTypeOK'
  BY DEF AccTypeOK, accVars, acc0

\* Nothing happens to the flash device and its thread.
LEMMA FlashUnchanged ==
  ASSUME FlashTypeOK, FlashInv, UNCHANGED flashVars
  PROVE  FlashTypeOK' /\ FlashInv'
  <1>1. flash' = flash /\ committed' = committed /\ fw_thread' = fw_thread
        /\ fw_buffer' = fw_buffer
    BY DEF flashVars
  <1>2. FlashTypeOK'
    BY <1>1 DEF FlashTypeOK
  <1>3. FlashHoldsOneImage'
    BY <1>1 DEF FlashInv, FlashHoldsOneImage
  <1>4. FlashInv'
    BY <1>1, <1>3 DEF FlashInv
  <1> QED
    BY <1>2, <1>4

\* The types, the link and the flash device.
Base == TypeOK /\ LinkInv /\ FlashInv

\* At first.
LEMMA BaseInit ==
  ASSUME Init
  PROVE  Base
  <1>1. AccTypeOK
    <2>1. NewAcc \in Accs /\ NewAcc.live = TRUE
      BY DEF NewAcc, Accs, AccState, Outputs
    <2>2. objs = <<NewAcc>>
      BY DEF Init, AccInit
    <2> HIDE DEF NewAcc
    <2>3. objs \in Seq(Accs) /\ Len(objs) = 1 /\ objs[1] = NewAcc /\ objs # <<>>
      BY <2>1, <2>2
    <2>4. \A i \in 1..Len(objs) : objs[i].live <=> i = acc0
      BY <2>1, <2>3 DEF acc0
    <2>5. runs = <<>> /\ runs \in Seq(Runs) /\ Len(runs) = 0
      BY EmptySeq DEF Init, AccInit
    <2>6. /\ fw_map \in Firmware \cup {NoFirmware} /\ heads \in Heads
          /\ ramdisk \in [inp : Data \cup {NoData}, out : Outputs]
          /\ misuse = {} /\ crashed \in BOOLEAN
      BY DEF Init, AccInit, Heads, Outputs
    <2> QED
      BY <2>3, <2>4, <2>5, <2>6 DEF AccTypeOK
  <1>2. FlashTypeOK /\ FlashInv
    <2>1. /\ fw_buffer = <<>> /\ fw_thread = [pc |-> "none", buf |-> <<>>, at |-> 0]
          /\ flash = Piece(Factory, 1, DeviceSize) /\ committed = {Factory}
      BY DEF Init, FlashInit, NoThread
    <2>2. Factory \in Seq(Nat) /\ DeviceSize \in Nat
      BY FlashAssumption DEF Word
    <2>3. flash \in [1..DeviceSize -> Cells]
      BY <2>1, <2>2, PieceIs
    <2>4. FlashTypeOK
      BY <2>1, <2>2, <2>3, EmptySeq DEF FlashTypeOK, Word, Cells
    <2>5. 1 \in 1..(DeviceSize + 1) /\ DeviceSize \in 0..DeviceSize
      BY <2>2
    <2>6. FlashHoldsOneImage
      BY <2>1, <2>5 DEF FlashHoldsOneImage
    <2> QED
      BY <2>1, <2>4, <2>6 DEF FlashInv
  <1>3. LinkTypeOK /\ LinkInv
    <2>1. /\ work \in Workloads /\ losses = 0
          /\ boot = "access" /\ inbox = <<>> /\ acks = <<>> /\ ipi = FALSE /\ nokick = TRUE
          /\ poll = "sleep" /\ sent = 0 /\ answered = 0 /\ lost = 0 /\ unmapped = FALSE
          /\ host = FreshHost
      BY DEF Init, LinkInit
    <2>2. FreshHost \in Hosts /\ ~FreshHost.linked
      BY DEF FreshHost, Hosts
    <2>3. /\ AckCap \in Nat \ {0} /\ MaxLoss \in Nat
          /\ work.script \in Seq(SUBSET Commands) /\ work.out \in Nat
      BY <2>1, AppAssumption
    <2>4. Len(work.script) \in Nat
      BY <2>3, LenProperties
    <2>5. Len(inbox) = 0 /\ Len(acks) = 0 /\ inbox \in Seq(Entries) /\ acks \in Seq(Messages)
      BY <2>1, EmptySeq
    <2>6. LinkTypeOK
      <3>1. losses \in 0..MaxLoss /\ answered \in 0..sent /\ sent \in 0..Len(work.script)
        BY <2>1, <2>3, <2>4
      <3>2. boot \in DOMAIN AfterStep
        BY <2>1 DEF AfterStep
      <3>3. Len(acks) <= AckCap /\ lost \in Nat /\ poll \in {"sleep", "drain"}
        BY <2>1, <2>3, <2>5
      <3>4. {ipi, nokick, unmapped} \subseteq BOOLEAN
        BY <2>1
      <3>5. host \in Hosts /\ work \in Workloads
        BY <2>1, <2>2, Zenon
      <3> QED
        BY <2>5, <3>1, <3>2, <3>3, <3>4, <3>5 DEF LinkTypeOK, Entries
    <2>7. Greeting = 0
      BY <2>1 DEF Greeting
    <2> QED
      BY <2>1, <2>2, <2>3, <2>5, <2>6, <2>7 DEF LinkInv
  <1> QED
    BY <1>1, <1>2, <1>3 DEF Base, TypeOK

\* A loss of power leaves the accelerator as it was made.
LEMMA PowerKeepsAcc ==
  ASSUME PowerLoss
  PROVE  AccTypeOK'
  <1>1. NewAcc \in Accs /\ NewAcc.live = TRUE
    BY DEF NewAcc, Accs, AccState, Outputs
  <1>2. /\ objs' = <<NewAcc>> /\ runs' = <<>> /\ fw_map' = NoFirmware /\ heads' = "uninitialised"
        /\ ramdisk' = [inp |-> NoData, out |-> NoData] /\ misuse' = {} /\ crashed' = FALSE
    BY DEF PowerLoss
  <1> HIDE DEF NewAcc
  <1>3. objs' \in Seq(Accs) /\ Len(objs') = 1 /\ objs'[1] = NewAcc /\ objs' # <<>>
    BY <1>1, <1>2
  <1>4. \A i \in 1..Len(objs') : objs'[i].live <=> i = acc0'
    BY <1>1, <1>3 DEF acc0
  <1>5. runs' \in Seq(Runs) /\ Len(runs') = 0
    BY <1>2, EmptySeq
  <1>6. /\ fw_map' \in Firmware \cup {NoFirmware} /\ heads' \in Heads
        /\ ramdisk' \in [inp : Data \cup {NoData}, out : Outputs] /\ crashed' \in BOOLEAN
    BY <1>2 DEF Heads, Outputs
  <1> QED
    BY <1>2, <1>3, <1>4, <1>5, <1>6 DEF AccTypeOK

\* The steps of Next.
LEMMA BaseStep ==
  ASSUME Base, [Next]_vars
  PROVE  Base'
  <1>1. /\ AccTypeOK /\ FlashTypeOK /\ LinkTypeOK /\ LinkInv /\ FlashInv /\ TypeOK
        /\ poll \in {"sleep", "drain"} /\ ipi \in BOOLEAN /\ nokick \in BOOLEAN
        /\ unmapped \in BOOLEAN
    BY DEF Base, TypeOK, LinkTypeOK
  <1> SUFFICES (AccTypeOK' /\ FlashTypeOK' /\ FlashInv') /\ (LinkTypeOK' /\ LinkInv')
    BY DEF Base, TypeOK
  <1>2. CASE RpmsgInit
    <2>1. UNCHANGED accVars /\ UNCHANGED flashVars
      BY <1>2, Zenon DEF RpmsgInit
    <2> QED
      BY <1>1, <1>2, <2>1, AccUnchanged, FlashUnchanged, BootKeeps, Zenon
  <1>3. CASE Hello
    <2>1. UNCHANGED accVars /\ UNCHANGED flashVars
      BY <1>3, Zenon DEF Hello
    <2> QED
      BY <1>1, <1>3, <2>1, AccUnchanged, FlashUnchanged, HelloKeeps, Zenon
  <1>4. CASE MainLoop
    <2>1. /\ boot = "ready" /\ inbox # <<>>
          /\ AccCommand \/ UNCHANGED accVars
          /\ \/ \E off \in Nat, words \in Seq(Nat) : adm_cmd_fw_download(off, words)
             \/ adm_cmd_fw_commit
             \/ UNCHANGED flashVars
          /\ \E data \in BOOLEAN, head \in Heads : send_ack(data, head)
          /\ unmapped' = unmapped \/ unmapped' = TRUE
      BY <1>1, <1>4, MainLoopIs, Zenon
    <2>2. unmapped' \in BOOLEAN
      BY <1>1, <2>1
    <2>3. AccTypeOK'
      BY <1>1, <2>1, AccUnchanged, CommandTypes, Zenon
    <2>4. FlashTypeOK' /\ FlashInv'
      BY <1>1, <2>1, FlashUnchanged, DownloadKeeps, CommitKeeps, Zenon
    <2>5. LinkTypeOK' /\ LinkInv'
      BY <1>1, <2>1, <2>2, AckKeeps, Zenon
    <2> QED
      BY <2>3, <2>4, <2>5
  <1>5. CASE FlashThread
    <2>1. FlashStep /\ UNCHANGED accVars /\ UNCHANGED <<work, linkVars, host, losses>>
      BY <1>5, Zenon DEF FlashThread
    <2>2. LinkTypeOK' /\ LinkInv'
      BY <1>1, <2>1, LinkUnchanged DEF linkVars
    <2> QED
      BY <1>1, <2>1, <2>2, AccUnchanged, FlashKeeps, Zenon
  <1>6. ASSUME NEW r \in 1..MaxRun, r \in DOMAIN runs, AccThread(r) \/ AccThreadCrashes(r)
        PROVE  (AccTypeOK' /\ FlashTypeOK' /\ FlashInv') /\ (LinkTypeOK' /\ LinkInv')
    <2>1. RunStep(r) \/ RunCannotMap(r)
      BY <1>6, Zenon DEF AccThread, AccThreadCrashes
    <2>2. UNCHANGED flashVars /\ UNCHANGED <<work, linkVars, host, losses>>
      BY <1>6, Zenon DEF AccThread, AccThreadCrashes
    <2>3. LinkTypeOK' /\ LinkInv'
      BY <1>1, <2>2, LinkUnchanged DEF linkVars
    <2>4. r \in 1..Len(runs)
      BY <1>1, <1>6, LenProperties DEF AccTypeOK
    <2>5. AccTypeOK'
      <3>1. CASE RunStep(r)
        BY <1>1, <2>4, <3>1, RunTypes
      <3>2. CASE RunCannotMap(r)
        <4>1. crashed' = TRUE /\ UNCHANGED <<objs, runs, fw_map, ramdisk, heads, misuse>>
          BY <3>2 DEF RunCannotMap
        <4> QED
          BY <1>1, <4>1 DEF AccTypeOK, acc0
      <3> QED
        BY <2>1, <3>1, <3>2
    <2> QED
      BY <1>1, <2>2, <2>3, <2>5, FlashUnchanged, Zenon
  <1>7. CASE Rpu
    <2>1. UNCHANGED accVars /\ UNCHANGED flashVars
      BY <1>7, Zenon DEF Rpu, IrqHandler, PlatformPoll, EndpointCb, PollEnds
    <2>2. LinkTypeOK' /\ LinkInv'
      <3>1. CASE IrqHandler
        BY <1>1, <3>1, LinkUnchanged DEF IrqHandler
      <3>2. CASE PlatformPoll
        BY <1>1, <3>2, LinkUnchanged DEF PlatformPoll
      <3>3. CASE EndpointCb
        BY <1>1, <3>3, EndpointKeeps
      <3>4. CASE PollEnds
        BY <1>1, <3>4, LinkUnchanged DEF PollEnds
      <3> QED
        BY <1>7, <3>1, <3>2, <3>3, <3>4 DEF Rpu
    <2> QED
      BY <1>1, <2>1, <2>2, AccUnchanged, FlashUnchanged, Zenon
  <1>8. ASSUME sent < Len(work.script), NEW c \in work.script[sent + 1], HostSends(c)
        PROVE  (AccTypeOK' /\ FlashTypeOK' /\ FlashInv') /\ (LinkTypeOK' /\ LinkInv')
    <2>1. UNCHANGED accVars /\ UNCHANGED flashVars
      BY <1>8, Zenon DEF HostSends
    <2> QED
      BY <1>1, <1>8, <2>1, AccUnchanged, FlashUnchanged, SendKeeps, Zenon
  <1>9. ASSUME NEW d \in Data, HostWrites(d)
        PROVE  (AccTypeOK' /\ FlashTypeOK' /\ FlashInv') /\ (LinkTypeOK' /\ LinkInv')
    <2>1. /\ ramdisk' = [ramdisk EXCEPT !.inp = d]
          /\ UNCHANGED <<objs, runs, fw_map, heads, misuse, crashed>> /\ UNCHANGED flashVars
          /\ UNCHANGED <<work, linkVars, host, losses>>
      BY <1>9, Zenon DEF HostWrites
    <2>2. LinkTypeOK' /\ LinkInv'
      BY <1>1, <2>1, LinkUnchanged DEF linkVars
    <2>3. ramdisk' \in [inp : Data \cup {NoData}, out : Outputs]
      BY <1>1, <2>1 DEF AccTypeOK
    <2>4. AccTypeOK'
      BY <1>1, <2>1, <2>3 DEF AccTypeOK, acc0
    <2> QED
      BY <1>1, <2>1, <2>2, <2>4, FlashUnchanged, Zenon
  <1>10. CASE PowerLoss
    <2>1. fw_buffer' = <<>> /\ fw_thread' = NoThread /\ UNCHANGED <<flash, committed>>
      BY <1>10 DEF PowerLoss
    <2>2. NoThread \in Threads /\ NoThread.pc = "none"
      BY EmptySeq DEF NoThread, Threads
    <2>3. FlashTypeOK' /\ FlashInv'
      BY <1>1, <2>1, <2>2, EmptySeq DEF FlashTypeOK, FlashInv, FlashHoldsOneImage, Word, Threads
    <2> QED
      BY <1>1, <1>10, <2>3, PowerKeepsAcc, PowerKeepsLink, Zenon
  <1>11. CASE UNCHANGED vars
    <2>1. UNCHANGED accVars /\ UNCHANGED flashVars /\ UNCHANGED <<work, linkVars, host, losses>>
      BY <1>11, Zenon DEF vars
    <2>2. LinkTypeOK' /\ LinkInv'
      BY <1>1, <2>1, LinkUnchanged DEF linkVars
    <2> QED
      BY <1>1, <2>1, <2>2, AccUnchanged, FlashUnchanged, Zenon
  <1> QED
    BY <1>2, <1>3, <1>4, <1>5, <1>6, <1>7, <1>8, <1>9, <1>10, <1>11, Zenon DEF Next

\* The types, the order of the answers and the images on the device, always.
LEMMA BaseHolds == Spec => []Base
  <1>1. Init => Base
    BY BaseInit
  <1>2. Base /\ [Next]_vars => Base'
    BY BaseStep
  <1> QED
    BY <1>1, <1>2, PTL DEF Spec

\* Commands are answered once each and in their order, for every workload and every
\* size of the ring; and with no more of them under way than the ring holds no answer
\* is refused (send_ack and rpmsg_endpoint_cb).
THEOREM AnsweredInOrderHolds == Spec => []AnsweredInOrder
  <1>1. Base => AnsweredInOrder
    BY DEF Base, LinkInv, AnsweredInOrder
  <1> QED
    BY <1>1, BaseHolds, PTL

\* The flash device never holds words of two images, whenever downloads, commits and
\* losses of power happen, in the middle of an erase or of a write too, and whatever
\* the sizes of the device and of its erase blocks are (flash_fw).
THEOREM FlashHoldsOneImageHolds == Spec => []FlashHoldsOneImage
  <1>1. Base => FlashHoldsOneImage
    BY DEF Base, FlashInv
  <1> QED
    BY <1>1, BaseHolds, PTL

-----------------------------------------------------------------------------
(* A careful host                                                          *)

\* The queue after a command was handled.
LEMMA TailIs ==
  ASSUME LinkTypeOK, inbox # <<>>, inbox' = Tail(inbox)
  PROVE  /\ Len(inbox) \in Nat \ {0} /\ Len(inbox') = Len(inbox) - 1
         /\ \A k \in 1..Len(inbox') : k + 1 \in 1..Len(inbox) /\ inbox'[k] = inbox[k + 1]
         /\ \A j \in 1..Len(inbox) : j # 1 => j - 1 \in 1..Len(inbox') /\ inbox'[j - 1] = inbox[j]
  <1>1. inbox \in Seq(Entries)
    BY DEF LinkTypeOK, Entries
  <1>2. Len(inbox) \in Nat \ {0}
    BY <1>1, EmptySeq
  <1>3. /\ inbox' \in Seq(Entries) /\ Len(inbox') = Len(inbox) - 1
        /\ \A k \in 1..Len(inbox') : inbox'[k] = inbox[k + 1]
    BY <1>1, HeadTailProperties
  <1>4. \A k \in 1..Len(inbox') : k + 1 \in 1..Len(inbox)
    BY <1>2, <1>3
  <1>5. \A j \in 1..Len(inbox) : j # 1 => j - 1 \in 1..Len(inbox')
    BY <1>2, <1>3
  <1>6. \A j \in 1..Len(inbox) : j # 1 => inbox'[j - 1] = inbox[(j - 1) + 1]
    BY <1>3, <1>5
  <1>7. \A j \in 1..Len(inbox) : (j - 1) + 1 = j
    BY <1>2
  <1> QED
    BY <1>2, <1>3, <1>4, <1>5, <1>6, <1>7

\* The ring after an answer: m may be in it.
LEMMA RingIs ==
  ASSUME LinkTypeOK, NEW m \in Messages, Written(m)
  PROVE  \A i \in 1..Len(acks') : acks'[i] = m \/ (i \in 1..Len(acks) /\ acks'[i] = acks[i])
  <1>1. acks \in Seq(Messages) /\ Len(acks) \in Nat
    BY LenProperties DEF LinkTypeOK
  <1>2. /\ Len(Append(acks, m)) = Len(acks) + 1 /\ Append(acks, m)[Len(acks) + 1] = m
        /\ \A i \in 1..Len(acks) : Append(acks, m)[i] = acks[i]
    BY <1>1, AppendProperties
  <1>3. CASE acks' = Append(acks, m)
    <2>1. \A i \in 1..Len(acks') : i = Len(acks) + 1 \/ i \in 1..Len(acks)
      BY <1>1, <1>2, <1>3
    <2> QED
      BY <1>2, <1>3, <2>1
  <1>4. CASE acks' = acks
    BY <1>4
  <1> QED
    BY <1>3, <1>4 DEF Written

\* A command leaves the queue: what is behind it stays in order.
LEMMA QueueTail ==
  ASSUME LinkTypeOK, QueueInv, inbox # <<>>, inbox' = Tail(inbox), UNCHANGED <<host, sent>>
  PROVE  QueueInv'
  <1>1. /\ Len(inbox) \in Nat \ {0} /\ Len(inbox') = Len(inbox) - 1
        /\ \A k \in 1..Len(inbox') : k + 1 \in 1..Len(inbox) /\ inbox'[k] = inbox[k + 1]
        /\ \A j \in 1..Len(inbox) : j # 1 => j - 1 \in 1..Len(inbox') /\ inbox'[j - 1] = inbox[j]
    BY TailIs
  <1>2. \A k \in 1..Len(inbox') :
          /\ inbox'[k].cmd.f # "ReadFw"
          /\ inbox'[k].cmd.f = "Status" => ~inbox'[k].cmd.rae
    BY <1>1 DEF QueueInv, F, Pos
  <1>3. ASSUME NEW k \in 1..Len(inbox'), inbox'[k].cmd.f = "Start"
        PROVE  /\ host.acc = "started" /\ inbox'[k].id = host.asked
               /\ \A j \in 1..Len(inbox') : j > k => inbox'[j].cmd.f \notin Changes
    <2>1. k + 1 \in 1..Len(inbox) /\ inbox[k + 1] = inbox'[k]
      BY <1>1
    <2>2. /\ host.acc = "started" /\ inbox[k + 1].id = host.asked
          /\ \A j \in 1..Len(inbox) : j > k + 1 => inbox[j].cmd.f \notin Changes
      BY <1>3, <2>1 DEF QueueInv, F, Pos
    <2>3. \A j \in 1..Len(inbox') : j > k => j + 1 > k + 1
      BY <1>1
    <2> QED
      BY <1>1, <2>1, <2>2, <2>3
  <1>4. ASSUME host.acc = "started", NEW k \in 1..Len(inbox'), inbox'[k].cmd.f \in Changes
        PROVE  \E j \in 1..Len(inbox') : j >= k /\ inbox'[j].cmd.f = "Start"
    <2>1. k + 1 \in 1..Len(inbox) /\ inbox[k + 1].cmd.f \in Changes
      BY <1>1, <1>4
    <2>2. PICK j \in 1..Len(inbox) : j >= k + 1 /\ inbox[j].cmd.f = "Start"
      BY <1>4, <2>1 DEF QueueInv, F, Pos
    <2>3. j # 1 /\ j - 1 >= k
      BY <1>1, <2>2
    <2> QED
      BY <1>1, <2>2, <2>3
  <1>5. host.acc \in {"done", "fail"} => \A k \in 1..Len(inbox') : inbox'[k].cmd.f \notin Changes
    BY <1>1 DEF QueueInv, F, Pos
  <1>6. host.asked <= sent
    BY DEF QueueInv
  <1> QED
    BY <1>2, <1>3, <1>4, <1>5, <1>6 DEF QueueInv, F, Pos

\* A command that does not change the accelerator is handled; the answer may tell the
\* state the accelerator is in.
LEMMA OtherHandled ==
  ASSUME TypeOK, LinkInv, QueueInv, RunsInv, inbox # <<>>, inbox' = Tail(inbox),
         inbox[1].cmd.f \notin Changes,
         NEW m \in Messages, m.id = inbox[1].id, Written(m),
         m.head \in {"done", "fail"} => m.head = objs[acc0].state,
         UNCHANGED <<objs, runs, misuse, host, sent>>
  PROVE  RunsInv'
  <1>1. AccTypeOK /\ LinkTypeOK
    BY DEF TypeOK
  <1>2. /\ Len(inbox) \in Nat \ {0} /\ Len(inbox') = Len(inbox) - 1
        /\ \A k \in 1..Len(inbox') : k + 1 \in 1..Len(inbox) /\ inbox'[k] = inbox[k + 1]
        /\ \A j \in 1..Len(inbox) : j # 1 => j - 1 \in 1..Len(inbox') /\ inbox'[j - 1] = inbox[j]
    BY <1>1, TailIs
  <1>3. \A i \in 1..Len(acks') : acks'[i] = m \/ (i \in 1..Len(acks) /\ acks'[i] = acks[i])
    BY <1>1, RingIs
  <1>4. ASSUME NEW r \in 1..Len(runs), runs[r].pc \notin {"log", "ended"}
        PROVE  /\ host.acc = "started" /\ runs[r].obj = acc0
               /\ \A k \in 1..Len(inbox') : inbox'[k].cmd.f \notin Changes
    BY <1>2, <1>4 DEF RunsInv, Working, F, Pos
  <1>5. ASSUME Used
        PROVE  /\ host.acc = "fresh" => \E k \in 1..Len(inbox') : inbox'[k].cmd.f = "Reset"
               /\ \A k \in 1..Len(inbox') : inbox'[k].cmd.f \in Setup \cup {"Start"} =>
                    \E j \in 1..Len(inbox') : j < k /\ inbox'[j].cmd.f = "Reset"
    <2>1. host.acc = "fresh" => \E k \in 1..Len(inbox') : inbox'[k].cmd.f = "Reset"
      <3> SUFFICES ASSUME host.acc = "fresh"
                   PROVE  \E k \in 1..Len(inbox') : inbox'[k].cmd.f = "Reset"
        OBVIOUS
      <3>1. PICK k \in 1..Len(inbox) : inbox[k].cmd.f = "Reset"
        BY <1>5 DEF RunsInv, F, Pos
      <3>2. k # 1
        BY <3>1 DEF Changes
      <3> QED
        BY <1>2, <3>1, <3>2
    <2>2. ASSUME NEW k \in 1..Len(inbox'), inbox'[k].cmd.f \in Setup \cup {"Start"}
          PROVE  \E j \in 1..Len(inbox') : j < k /\ inbox'[j].cmd.f = "Reset"
      <3>1. k + 1 \in 1..Len(inbox) /\ inbox[k + 1].cmd.f \in Setup \cup {"Start"}
        BY <1>2, <2>2
      <3>2. PICK j \in 1..Len(inbox) : j < k + 1 /\ inbox[j].cmd.f = "Reset"
        BY <1>5, <3>1 DEF RunsInv, F, Pos
      <3>3. j # 1
        BY <3>2 DEF Changes
      <3>4. j - 1 \in 1..Len(inbox') /\ j - 1 < k /\ inbox'[j - 1].cmd.f = "Reset"
        BY <1>2, <3>2, <3>3
      <3> QED
        BY <3>4
    <2> QED
      BY <2>1, <2>2
  <1>6. ASSUME NEW i \in 1..Len(acks'), host.acc = "started", acks'[i].head \in {"done", "fail"},
               acks'[i].id > host.asked
        PROVE  /\ \A k \in 1..Len(inbox') : inbox'[k].cmd.f # "Start"
               /\ objs[acc0].state = acks'[i].head
    <2>1. CASE i \in 1..Len(acks) /\ acks'[i] = acks[i]
      BY <1>2, <1>6, <2>1 DEF RunsInv, F, Pos
    <2>2. CASE acks'[i] = m
      <3>1. objs[acc0].state = acks'[i].head
        BY <1>6, <2>2
      <3>2. ASSUME NEW k \in 1..Len(inbox'), inbox'[k].cmd.f = "Start"
            PROVE  FALSE
        <4>1. k + 1 \in 1..Len(inbox) /\ inbox[k + 1].cmd.f = "Start"
          BY <1>2, <3>2
        <4>2. inbox[k + 1].id = host.asked
          BY <4>1 DEF QueueInv, F, Pos
        <4>3. inbox[k + 1].id = sent - Len(inbox) + (k + 1) /\ inbox[1].id = sent - Len(inbox) + 1
          BY <1>2, <4>1 DEF LinkInv
        <4>4. sent \in Nat
          BY <1>1 DEF LinkTypeOK
        <4> QED
          BY <1>2, <1>6, <2>2, <4>2, <4>3, <4>4
      <3> QED
        BY <3>1, <3>2
    <2> QED
      BY <1>3, <2>1, <2>2
  <1>7. acc0' = acc0 /\ Used' = Used /\ \A r \in 1..Len(runs) : Working(r)' = Working(r)
    BY DEF acc0, Used, Working
  <1>8. /\ misuse \subseteq {"log"}
        /\ \A r \in 1..Len(runs) : runs[r].obj = acc0 => r = Len(runs)
        /\ objs[acc0].state # "idle" => Used
        /\ objs[acc0].state \in {"done", "fail"} => \A r \in 1..Len(runs) : ~Working(r)
        /\ host.acc \in {"done", "fail"} => objs[acc0].state = host.acc
    BY DEF RunsInv
  <1> QED
    BY <1>4, <1>5, <1>6, <1>7, <1>8 DEF RunsInv, F, Pos, acc0, Used, Working

\* A command that changes the accelerator finds no run at work.
LEMMA NobodyWorks ==
  ASSUME AccTypeOK, RunsInv, NEW k \in 1..Len(inbox), inbox[k].cmd.f \in Changes
  PROVE  (\A r \in 1..Len(runs) : ~Working(r)) /\ ~InUse
  <1>1. \A r \in 1..Len(runs) : ~Working(r)
    BY DEF RunsInv, F, Pos
  <1>2. DOMAIN runs = 1..Len(runs)
    BY LenProperties DEF AccTypeOK
  <1> QED
    BY <1>1, <1>2 DEF InUse

\* What has been set up or started is new.
LEMMA NotUsed ==
  ASSUME RunsInv, 1 \in 1..Len(inbox), Len(inbox) \in Nat, inbox[1].cmd.f \in Setup \cup {"Start"}
  PROVE  ~Used
  <1> SUFFICES ASSUME Used
               PROVE  FALSE
    OBVIOUS
  <1>1. \E j \in 1..Len(inbox) : j < 1 /\ inbox[j].cmd.f = "Reset"
    BY DEF RunsInv, F, Pos
  <1> QED
    BY <1>1

\* A command that sets the accelerator up is handled.
LEMMA SetupHandled ==
  ASSUME TypeOK, LinkInv, QueueInv, RunsInv, inbox # <<>>, inbox' = Tail(inbox),
         inbox[1].cmd.f \in Setup,
         NEW m \in Messages, Written(m), m.head = "none",
         NEW a \in Accs, NEW o \in Accs, a = objs[acc0], SetsUp(o, a),
         UNCHANGED <<host, sent>>
  PROVE  RunsInv'
  <1>1. AccTypeOK /\ LinkTypeOK
    BY DEF TypeOK
  <1>2. /\ Len(inbox) \in Nat \ {0} /\ Len(inbox') = Len(inbox) - 1
        /\ \A k \in 1..Len(inbox') : k + 1 \in 1..Len(inbox) /\ inbox'[k] = inbox[k + 1]
    BY <1>1, TailIs
  <1>3. \A i \in 1..Len(acks') : acks'[i] = m \/ (i \in 1..Len(acks) /\ acks'[i] = acks[i])
    BY <1>1, RingIs
  <1>4. 1 \in 1..Len(inbox) /\ inbox[1].cmd.f \in Changes
    BY <1>2 DEF Changes
  <1>5. (\A r \in 1..Len(runs) : ~Working(r)) /\ ~InUse
    BY <1>1, <1>4, NobodyWorks
  <1>6. ~Used
    BY <1>2, <1>4, NotUsed
  <1>7. acc0 \in 1..Len(objs) /\ o.live = objs[acc0].live /\ objs' = [objs EXCEPT ![acc0] = o]
    BY <1>1, Acc0 DEF SetsUp
  <1>8. acc0' = acc0 /\ objs'[acc0] = o
    BY <1>1, <1>7, ObjSet
  <1>9. misuse' = misuse /\ runs' = runs /\ o.state = a.state
    BY <1>5 DEF SetsUp
  <1>10. objs'[acc0'].state = objs[acc0].state
    BY <1>8, <1>9
  <1>11. ~Used' /\ \A r \in 1..Len(runs') : ~Working(r)'
    BY <1>5, <1>6, <1>8, <1>9 DEF Used, Working
  <1>12. /\ misuse \subseteq {"log"}
         /\ objs[acc0].state # "idle" => Used
         /\ host.acc \in {"done", "fail"} => objs[acc0].state = host.acc
    BY DEF RunsInv
  <1>13. \A r \in 1..Len(runs') : runs'[r].obj = acc0' => r = Len(runs')
    BY <1>8, <1>9 DEF RunsInv
  <1>14. ASSUME NEW i \in 1..Len(acks'), host.acc = "started", acks'[i].head \in {"done", "fail"},
                acks'[i].id > host.asked
         PROVE  /\ \A k \in 1..Len(inbox') : inbox'[k].cmd.f # "Start"
                /\ objs[acc0].state = acks'[i].head
    <2>1. i \in 1..Len(acks) /\ acks'[i] = acks[i]
      BY <1>3, <1>14
    <2> QED
      BY <1>2, <1>14, <2>1 DEF RunsInv, F, Pos
  <1> QED
    BY <1>6, <1>9, <1>10, <1>11, <1>12, <1>13, <1>14 DEF RunsInv, F, Pos

\* START is handled.
LEMMA StartHandled ==
  ASSUME TypeOK, LinkInv, QueueInv, RunsInv, inbox # <<>>, inbox' = Tail(inbox),
         inbox[1].cmd.f = "Start",
         NEW m \in Messages, Written(m), m.head = "none", start,
         UNCHANGED <<host, sent>>
  PROVE  RunsInv'
  <1>1. AccTypeOK /\ LinkTypeOK
    BY DEF TypeOK
  <1>2. /\ Len(inbox) \in Nat \ {0} /\ Len(inbox') = Len(inbox) - 1
        /\ \A k \in 1..Len(inbox') : k + 1 \in 1..Len(inbox) /\ inbox'[k] = inbox[k + 1]
    BY <1>1, TailIs
  <1>3. \A i \in 1..Len(acks') : acks'[i] = m \/ (i \in 1..Len(acks) /\ acks'[i] = acks[i])
    BY <1>1, RingIs
  <1>4. 1 \in 1..Len(inbox) /\ inbox[1].cmd.f \in Changes
    BY <1>2 DEF Changes
  <1>5. (\A r \in 1..Len(runs) : ~Working(r)) /\ ~InUse
    BY <1>1, <1>4, NobodyWorks
  <1>6. ~Used
    BY <1>2, <1>4, NotUsed
  <1>7. /\ Len(runs) \in Nat /\ Len(runs') = Len(runs) + 1
        /\ runs'[Len(runs) + 1] = NewRun
        /\ \A r \in 1..Len(runs) : runs'[r] = runs[r]
        /\ objs' = objs
    BY <1>1, StartShape, Zenon
  <1>8. misuse' = misuse
    BY <1>1, <1>5, StartShape, Zenon
  <1>9. NewRun.obj = acc0 /\ NewRun.pc = "start"
    BY DEF NewRun
  <1> HIDE DEF NewRun
  <1>10. /\ host.acc = "started"
         /\ \A k \in 1..Len(inbox') : inbox'[k].cmd.f \notin Changes
    <2>1. host.acc = "started" /\ \A j \in 1..Len(inbox) : j > 1 => inbox[j].cmd.f \notin Changes
      BY <1>4 DEF QueueInv, F, Pos
    <2>2. \A k \in 1..Len(inbox') : k + 1 > 1
      BY <1>2
    <2> QED
      BY <1>2, <2>1, <2>2
  <1>11. acc0' = acc0 /\ objs[acc0].state = "idle"
    BY <1>6, <1>7 DEF acc0, RunsInv
  <1>12. \A r \in 1..Len(runs') : r = Len(runs) + 1 \/ (r \in 1..Len(runs) /\ runs'[r] = runs[r])
    BY <1>7
  <1>13. \A r \in 1..Len(runs') : runs'[r].obj = acc0 => r = Len(runs')
    BY <1>6, <1>7, <1>12 DEF Used
  <1>14. \A r \in 1..Len(runs') : Working(r)' => runs'[r].obj = acc0
    BY <1>5, <1>7, <1>9, <1>12 DEF Working
  <1>15. Used'
    <2>1. Len(runs) + 1 \in 1..Len(runs') /\ runs'[Len(runs) + 1].obj = acc0'
      BY <1>7, <1>9, <1>11
    <2> QED
      BY <2>1 DEF Used
  <1>16. ASSUME NEW i \in 1..Len(acks'), acks'[i].head \in {"done", "fail"},
                acks'[i].id > host.asked
         PROVE  FALSE
    <2>1. i \in 1..Len(acks) /\ acks'[i] = acks[i]
      BY <1>3, <1>16
    <2>2. \A k \in 1..Len(inbox) : inbox[k].cmd.f # "Start"
      BY <1>10, <1>16, <2>1 DEF RunsInv, F, Pos
    <2> QED
      BY <1>4, <2>2
  <1>17. misuse' \subseteq {"log"}
    BY <1>8 DEF RunsInv
  <1>18. \A k \in 1..Len(inbox') : inbox'[k].cmd.f \notin Setup \cup {"Start"}
    BY <1>10 DEF Changes
  <1> QED
    BY <1>7, <1>10, <1>11, <1>13, <1>14, <1>15, <1>16, <1>17, <1>18 DEF RunsInv, F, Pos

\* RESET is handled.
LEMMA ResetHandled ==
  ASSUME TypeOK, LinkInv, QueueInv, RunsInv, inbox # <<>>, inbox' = Tail(inbox),
         inbox[1].cmd.f = "Reset",
         NEW m \in Messages, Written(m), m.head = "none", Reset,
         UNCHANGED <<host, sent>>
  PROVE  RunsInv'
  <1>1. AccTypeOK /\ LinkTypeOK
    BY DEF TypeOK
  <1>2. /\ Len(inbox) \in Nat \ {0} /\ Len(inbox') = Len(inbox) - 1
        /\ \A k \in 1..Len(inbox') : k + 1 \in 1..Len(inbox) /\ inbox'[k] = inbox[k + 1]
    BY <1>1, TailIs
  <1>3. \A i \in 1..Len(acks') : acks'[i] = m \/ (i \in 1..Len(acks) /\ acks'[i] = acks[i])
    BY <1>1, RingIs
  <1>4. 1 \in 1..Len(inbox) /\ inbox[1].cmd.f \in Changes
    BY <1>2 DEF Changes
  <1>5. \A r \in 1..Len(runs) : ~Working(r)
    BY <1>1, <1>4, NobodyWorks
  <1>6. /\ acc0' = acc0 + 1 /\ objs'[acc0'] = NewAcc /\ runs' = runs /\ misuse' = misuse
    BY <1>1, ResetShape
  <1>7. NewAcc.state = "idle"
    BY DEF NewAcc
  <1> HIDE DEF NewAcc
  <1>8. objs'[acc0'].state = "idle"
    BY <1>6, <1>7
  <1>9. acc0 \in Nat /\ acc0 = Len(objs)
    BY <1>1, Acc0 DEF acc0
  <1>10. \A r \in 1..Len(runs') : runs'[r].obj # acc0'
    <2>1. \A r \in 1..Len(runs) : runs[r].obj \in 1..Len(objs)
      BY <1>1 DEF AccTypeOK
    <2> QED
      BY <1>6, <1>9, <2>1
  <1>11. ~Used'
    BY <1>10 DEF Used
  <1>12. \A r \in 1..Len(runs') : ~Working(r)'
    BY <1>5, <1>6 DEF Working
  <1>13. host.acc \notin {"done", "fail"}
    BY <1>4 DEF QueueInv, F, Pos
  <1>14. ASSUME NEW i \in 1..Len(acks'), host.acc = "started", acks'[i].head \in {"done", "fail"},
                acks'[i].id > host.asked
         PROVE  FALSE
    <2>1. i \in 1..Len(acks) /\ acks'[i] = acks[i]
      BY <1>3, <1>14
    <2>2. \A k \in 1..Len(inbox) : inbox[k].cmd.f # "Start"
      BY <1>14, <2>1 DEF RunsInv, F, Pos
    <2>3. \E j \in 1..Len(inbox) : inbox[j].cmd.f = "Start"
      BY <1>4, <1>14 DEF QueueInv, F, Pos
    <2> QED
      BY <2>2, <2>3
  <1>15. misuse' \subseteq {"log"}
    BY <1>6 DEF RunsInv
  <1> QED
    BY <1>8, <1>10, <1>11, <1>12, <1>13, <1>14, <1>15 DEF RunsInv

\* A run goes on.
LEMMA RunKeepsCareful ==
  ASSUME TypeOK, QueueInv, RunsInv, NEW r \in 1..Len(runs), RunStep(r),
         UNCHANGED <<inbox, acks, host, sent>>
  PROVE  RunsInv'
  <1>1. AccTypeOK
    BY DEF TypeOK
  <1>2. PICK n \in 1..Len(objs), a \in Accs, p \in Runs, o \in Accs, q \in Runs :
          /\ n = runs[r].obj /\ a = objs[n] /\ p = runs[r] /\ RunsOn(a, p, o, q)
          /\ objs' = [objs EXCEPT ![n] = o] /\ runs' = [runs EXCEPT ![r] = q]
          /\ misuse' = IF a.live THEN misuse ELSE misuse \cup {p.pc}
    BY <1>1, RunShape
  <1>3. /\ o.live = a.live /\ q.obj = p.obj /\ p.pc # "ended"
        /\ p.pc # "log" => Working(r)
        /\ q.pc \notin {"log", "ended"} => p.pc # "log"
        /\ o.state = a.state \/ (q.pc \in {"log", "ended"} /\ o.state \in {"done", "fail"}) \/ o.state = "running"
        /\ p.pc = "log" => o.state = a.state
    BY <1>2 DEF RunsOn, Working
  <1>4. /\ acc0' = acc0 /\ objs'[n] = o /\ \A i \in 1..Len(objs) : i # n => objs'[i] = objs[i]
    BY <1>1, <1>2, <1>3, ObjSet
  <1>5. runs \in Seq(Runs) /\ Len(runs) \in Nat /\ acc0 \in 1..Len(objs)
        /\ \A i \in 1..Len(objs) : objs[i].live <=> i = acc0
    BY <1>1, Acc0, LenProperties DEF AccTypeOK
  <1>6. /\ Len(runs') = Len(runs)
        /\ \A j \in 1..Len(runs) : runs'[j] = IF j = r THEN q ELSE runs[j]
    BY <1>2, <1>5, ExceptSeq
  <1>7. \A j \in 1..Len(runs) : runs'[j].obj = runs[j].obj
    BY <1>2, <1>3, <1>6
  <1>8. \A j \in 1..Len(runs) : Working(j)' => Working(j)
    BY <1>2, <1>3, <1>6 DEF Working
  <1>9. Used' <=> Used
    BY <1>4, <1>6, <1>7 DEF Used
  <1>10. misuse' \subseteq {"log"}
    <2>1. CASE p.pc = "log"
      BY <1>2, <2>1 DEF RunsInv
    <2>2. CASE p.pc # "log"
      <3>1. n = acc0
        BY <1>2, <1>3, <2>2 DEF RunsInv
      <3>2. a.live
        BY <1>2, <1>5, <3>1
      <3> QED
        BY <1>2, <3>2 DEF RunsInv
    <2> QED
      BY <2>1, <2>2
  <1>11. \A j \in 1..Len(runs) : runs[j].obj = acc0 => j = Len(runs)
    BY DEF RunsInv
  <1>12. \A j \in 1..Len(runs) : Working(j) =>
           /\ host.acc = "started" /\ runs[j].obj = acc0
           /\ \A k \in 1..Len(inbox) : inbox[k].cmd.f \notin Changes
    BY DEF RunsInv, F, Pos
  <1>13. objs'[acc0].state # "idle" => Used
    <2>1. CASE n = acc0
      BY <1>2, <2>1 DEF Used
    <2>2. CASE n # acc0
      BY <1>4, <1>5, <2>2 DEF RunsInv
    <2> QED
      BY <2>1, <2>2
  <1>14. objs'[acc0].state \in {"done", "fail"} => \A j \in 1..Len(runs) : ~Working(j)'
    <2> SUFFICES ASSUME objs'[acc0].state \in {"done", "fail"}, NEW j \in 1..Len(runs), Working(j)'
                 PROVE  FALSE
      BY Zenon
    <2>1. Working(j) /\ runs[j].obj = acc0 /\ j = Len(runs)
      BY <1>8, <1>11, <1>12
    <2>2. objs[acc0].state \notin {"done", "fail"}
      BY <2>1 DEF RunsInv
    <2>3. n = acc0
      BY <1>4, <1>5, <2>2
    <2>4. r = j
      BY <1>2, <1>11, <2>1, <2>3
    <2>5. q.pc \notin {"log", "ended"}
      BY <1>6, <2>4 DEF Working
    <2> QED
      BY <1>2, <1>3, <1>4, <2>2, <2>3, <2>5
  <1>15. (\A j \in 1..Len(runs) : ~Working(j)) => objs'[acc0].state = objs[acc0].state
    BY <1>2, <1>3, <1>4, <1>5
  <1>16. host.acc \in {"done", "fail"} => objs'[acc0].state = host.acc
    <2> SUFFICES ASSUME host.acc \in {"done", "fail"}
                 PROVE  objs'[acc0].state = host.acc
      OBVIOUS
    <2>1. (\A j \in 1..Len(runs) : ~Working(j)) /\ objs[acc0].state = host.acc
      BY <1>12 DEF RunsInv
    <2> QED
      BY <1>15, <2>1
  <1>17. ASSUME NEW i \in 1..Len(acks), host.acc = "started", acks[i].head \in {"done", "fail"},
                acks[i].id > host.asked
         PROVE  /\ \A k \in 1..Len(inbox) : inbox[k].cmd.f # "Start"
                /\ objs'[acc0].state = acks[i].head
    <2>1. /\ \A k \in 1..Len(inbox) : inbox[k].cmd.f # "Start"
          /\ objs[acc0].state = acks[i].head
      BY <1>17 DEF RunsInv, F, Pos
    <2>2. \A j \in 1..Len(runs) : ~Working(j)
      BY <1>17, <2>1 DEF RunsInv
    <2> QED
      BY <1>15, <2>1, <2>2
  <1>18. Used => /\ host.acc = "fresh" => \E k \in 1..Len(inbox) : inbox[k].cmd.f = "Reset"
                 /\ \A k \in 1..Len(inbox) : inbox[k].cmd.f \in Setup \cup {"Start"} =>
                      \E j \in 1..Len(inbox) : j < k /\ inbox[j].cmd.f = "Reset"
    BY DEF RunsInv, F, Pos
  <1>19. \A j \in 1..Len(runs') : Working(j)' =>
           /\ host.acc = "started" /\ runs'[j].obj = acc0
           /\ \A k \in 1..Len(inbox) : inbox[k].cmd.f \notin Changes
    BY <1>6, <1>7, <1>8, <1>12
  <1>20. \A j \in 1..Len(runs') : runs'[j].obj = acc0 => j = Len(runs')
    BY <1>6, <1>7, <1>11
  <1> QED
    BY <1>4, <1>6, <1>9, <1>10, <1>13, <1>14, <1>16, <1>17, <1>18, <1>19, <1>20 DEF RunsInv, F, Pos

\* The main loop, with a careful host.
LEMMA MainLoopCareful ==
  ASSUME TypeOK, LinkInv, QueueInv, RunsInv, MainLoop
  PROVE  QueueInv' /\ RunsInv'
  <1>1. AccTypeOK /\ LinkTypeOK
    BY DEF TypeOK
  <1>2. ASSUME NEW f, Command(f)
        PROVE  inbox # <<>> /\ inbox[1].cmd.f = f /\ Cmd = inbox[1].cmd
    BY <1>1, <1>2, CmdIs DEF Command
  <1>3. ASSUME inbox # <<>>, NEW data \in BOOLEAN, NEW head \in Heads, send_ack(data, head)
        PROVE  /\ \E m \in Messages : m.id = inbox[1].id /\ m.head = head /\ Written(m)
               /\ inbox' = Tail(inbox) /\ UNCHANGED <<host, sent>> /\ QueueInv'
    <2>1. /\ \E m \in Messages : m.id = Head(inbox).id /\ m.head = head /\ Written(m)
          /\ inbox' = Tail(inbox) /\ UNCHANGED <<host, sent>>
      BY <1>1, <1>3, AckShape
    <2>2. Head(inbox) = inbox[1]
      OBVIOUS
    <2>3. QueueInv'
      BY <1>1, <1>3, <2>1, QueueTail
    <2> QED
      BY <2>1, <2>2, <2>3
  <1>4. "none" \in Heads
    BY DEF Heads
  <1>5. ASSUME inbox # <<>>, Ack
        PROVE  /\ \E m \in Messages : m.id = inbox[1].id /\ m.head = "none" /\ Written(m)
               /\ inbox' = Tail(inbox) /\ UNCHANGED <<host, sent>> /\ QueueInv'
    BY <1>3, <1>4, <1>5, Zenon DEF Ack
  <1>6. ASSUME NEW f, f \notin Changes, Command(f), UNCHANGED <<objs, runs, misuse>>,
               NEW data \in BOOLEAN, send_ack(data, "none")
        PROVE  QueueInv' /\ RunsInv'
    <2>1. inbox # <<>> /\ inbox[1].cmd.f \notin Changes
      BY <1>2, <1>6
    <2>2. /\ \E m \in Messages : m.id = inbox[1].id /\ m.head = "none" /\ Written(m)
          /\ inbox' = Tail(inbox) /\ UNCHANGED <<host, sent>> /\ QueueInv'
      BY <1>3, <1>4, <1>6, <2>1, Zenon
    <2>3. PICK m \in Messages : m.id = inbox[1].id /\ m.head = "none" /\ Written(m)
      BY <2>2
    <2>4. m.head \in {"done", "fail"} => m.head = objs[acc0].state
      BY <2>3
    <2> QED
      BY <1>6, <2>1, <2>2, <2>3, <2>4, OtherHandled
  <1>7. ASSUME NEW f, f \in Setup, Command(f), Ack,
               \E a \in Accs, o \in Accs : a = objs[acc0] /\ SetsUp(o, a)
        PROVE  QueueInv' /\ RunsInv'
    <2>1. inbox # <<>> /\ inbox[1].cmd.f \in Setup
      BY <1>2, <1>7
    <2>2. /\ \E m \in Messages : m.id = inbox[1].id /\ m.head = "none" /\ Written(m)
          /\ inbox' = Tail(inbox) /\ UNCHANGED <<host, sent>> /\ QueueInv'
      BY <1>5, <1>7, <2>1
    <2> QED
      BY <1>7, <2>1, <2>2, SetupHandled
  <1>8. CASE CannotMap
    <2>1. PICK f \in HasBuffer : Command(f)
      BY <1>8 DEF CannotMap
    <2>2. send_ack(FALSE, "none") /\ UNCHANGED <<objs, runs, misuse>>
      BY <1>8 DEF CannotMap, accVars
    <2>3. f \notin Changes
      BY DEF HasBuffer, Changes, Setup
    <2> QED
      BY <1>6, <2>1, <2>2, <2>3
  <1>9. CASE HandleSendFw
    <2>1. Command("SendFw") /\ send_ack(FALSE, "none") /\ UNCHANGED <<objs, runs, misuse>>
      BY <1>9 DEF HandleSendFw, Ack, io_cmd_send_fw
    <2>2. "SendFw" \notin Changes
      BY DEF Changes, Setup
    <2> QED
      BY <1>6, <2>1, <2>2
  <1>10. CASE HandleReadLba
    <2>1. Command("ReadLba") /\ Ack /\ io_cmd_read_lba
      BY <1>10, Zenon DEF HandleReadLba
    <2>2. \E a \in Accs, o \in Accs : a = objs[acc0] /\ SetsUp(o, a)
      BY <1>1, <2>1, ReadLbaShape
    <2>3. "ReadLba" \in Setup
      BY DEF Setup
    <2> QED
      BY <1>7, <2>1, <2>2, <2>3
  <1>11. CASE HandleWriteLba
    <2>1. Command("WriteLba") /\ Ack /\ io_cmd_write_lba
      BY <1>11, Zenon DEF HandleWriteLba
    <2>2. \E a \in Accs, o \in Accs : a = objs[acc0] /\ SetsUp(o, a)
      BY <1>1, <2>1, WriteLbaShape
    <2>3. "WriteLba" \in Setup
      BY DEF Setup
    <2> QED
      BY <1>7, <2>1, <2>2, <2>3
  <1>12. CASE HandleSetFw
    <2>1. Command("SetFw") /\ Ack /\ addFirmware
      BY <1>12, Zenon DEF HandleSetFw
    <2>2. \E a \in Accs, o \in Accs : a = objs[acc0] /\ SetsUp(o, a)
      BY <1>1, <2>1, SetFwShape
    <2>3. "SetFw" \in Setup
      BY DEF Setup
    <2> QED
      BY <1>7, <2>1, <2>2, <2>3
  <1>13. CASE HandleStart
    <2>1. Command("Start") /\ Ack /\ start
      BY <1>13, Zenon DEF HandleStart
    <2>2. inbox # <<>> /\ inbox[1].cmd.f = "Start"
      BY <1>2, <2>1
    <2>3. /\ \E m \in Messages : m.id = inbox[1].id /\ m.head = "none" /\ Written(m)
          /\ inbox' = Tail(inbox) /\ UNCHANGED <<host, sent>> /\ QueueInv'
      BY <1>5, <2>1, <2>2
    <2> QED
      BY <2>1, <2>2, <2>3, StartHandled
  <1>14. CASE HandleReset
    <2>1. (Command("Reset") \/ Command("ReadFw")) /\ Ack /\ Reset
      BY <1>14, Zenon DEF HandleReset
    <2>2. inbox # <<>> /\ inbox[1].cmd.f \in {"Reset", "ReadFw"}
      BY <1>2, <2>1
    <2>3. 1 \in 1..Len(inbox)
      BY <1>1, <2>2, CmdIs
    <2>4. inbox[1].cmd.f = "Reset"
      BY <2>2, <2>3 DEF QueueInv, F, Pos
    <2>5. /\ \E m \in Messages : m.id = inbox[1].id /\ m.head = "none" /\ Written(m)
          /\ inbox' = Tail(inbox) /\ UNCHANGED <<host, sent>> /\ QueueInv'
      BY <1>5, <2>1, <2>2
    <2> QED
      BY <2>1, <2>2, <2>4, <2>5, ResetHandled
  <1>15. CASE HandleNothing
    <2>1. Command("Nothing") /\ send_ack(FALSE, "none") /\ UNCHANGED <<objs, runs, misuse>>
      BY <1>15 DEF HandleNothing, Ack, accVars
    <2>2. "Nothing" \notin Changes
      BY DEF Changes, Setup
    <2> QED
      BY <1>6, <2>1, <2>2
  <1>16. CASE HandleIdentify
    <2>1. Command("Identify") /\ send_ack(TRUE, "none") /\ UNCHANGED <<objs, runs, misuse>>
      BY <1>16 DEF HandleIdentify, accVars
    <2>2. "Identify" \notin Changes
      BY DEF Changes, Setup
    <2> QED
      BY <1>6, <2>1, <2>2
  <1>17. CASE HandleStatus
    <2>1. /\ Command("Status") /\ adm_cmd_status(Cmd.rae)
          /\ send_ack(TRUE, IF Cmd.large THEN "unwritten" ELSE heads')
      BY <1>17, Zenon DEF HandleStatus
    <2>2. inbox # <<>> /\ inbox[1].cmd.f = "Status" /\ Cmd = inbox[1].cmd
      BY <1>2, <2>1
    <2>3. 1 \in 1..Len(inbox)
      BY <1>1, <2>2, CmdIs
    <2>4. ~Cmd.rae
      BY <2>2, <2>3 DEF QueueInv, F, Pos
    <2>5. heads' = objs[acc0].state /\ UNCHANGED <<objs, runs, misuse>>
      BY <2>1, <2>4 DEF adm_cmd_status, CalculateStatus
    <2>6. objs[acc0].state \in AccState
      BY <1>1, Acc0 DEF Accs
    <2>7. PICK h \in Heads : /\ h = (IF Cmd.large THEN "unwritten" ELSE heads')
                             /\ h \in {"done", "fail"} => h = objs[acc0].state
      BY <2>5, <2>6 DEF Heads
    <2>8. send_ack(TRUE, h)
      BY <2>1, <2>7, Zenon
    <2>9. /\ \E m \in Messages : m.id = inbox[1].id /\ m.head = h /\ Written(m)
          /\ inbox' = Tail(inbox) /\ UNCHANGED <<host, sent>> /\ QueueInv'
      BY <1>3, <2>2, <2>8, Zenon
    <2>10. inbox[1].cmd.f \notin Changes
      BY <2>2 DEF Changes, Setup
    <2> QED
      BY <2>2, <2>5, <2>7, <2>9, <2>10, OtherHandled
  <1>18. CASE HandleDownload
    <2>1. Command("Download") /\ send_ack(FALSE, "none") /\ UNCHANGED <<objs, runs, misuse>>
      BY <1>18 DEF HandleDownload, Ack, accVars
    <2>2. "Download" \notin Changes
      BY DEF Changes, Setup
    <2> QED
      BY <1>6, <2>1, <2>2
  <1>19. CASE HandleCommit
    <2>1. Command("Commit") /\ send_ack(FALSE, "none") /\ UNCHANGED <<objs, runs, misuse>>
      BY <1>19 DEF HandleCommit, Ack, accVars
    <2>2. "Commit" \notin Changes
      BY DEF Changes, Setup
    <2> QED
      BY <1>6, <2>1, <2>2
  <1> QED
    BY <1>8, <1>9, <1>10, <1>11, <1>12, <1>13, <1>14, <1>15, <1>16, <1>17, <1>18, <1>19,
       Zenon DEF MainLoop

\* The RPU takes a message, from which the host may learn that the run has ended.
LEMMA EndpointCareful ==
  ASSUME TypeOK, LinkInv, QueueInv, RunsInv, EndpointCb
  PROVE  QueueInv' /\ RunsInv'
  <1>1. /\ acks # <<>> /\ acks' = Tail(acks) /\ host' = Learns(host, Head(acks))
        /\ UNCHANGED <<objs, runs, misuse, inbox, sent>>
    BY DEF EndpointCb, accVars
  <1>2. acks \in Seq(Messages) /\ host \in Hosts
    BY DEF TypeOK, LinkTypeOK
  <1>3. PICK m \in Messages : m = Head(acks) /\ m = acks[1]
    BY <1>1, <1>2, HeadTailProperties
  <1>4. PICK g \in Hosts :
          /\ g = Learns(host, m) /\ g.asked = host.asked
          /\ g.acc = IF m.head \in {"done", "fail"} /\ host.acc = "started" /\ m.id > host.asked
                     THEN m.head ELSE host.acc
    BY <1>2, LearnsIs
  <1>5. host' = g
    BY <1>1, <1>3, <1>4
  <1>6. /\ Len(acks) \in Nat \ {0} /\ Len(acks') = Len(acks) - 1
        /\ \A i \in 1..Len(acks') : acks'[i] = acks[i + 1]
    BY <1>1, <1>2, HeadTailProperties, EmptySeq
  <1>7. 1 \in 1..Len(acks) /\ \A i \in 1..Len(acks') : i + 1 \in 1..Len(acks)
    BY <1>6
  <1>8. acc0' = acc0 /\ (Used' <=> Used) /\ \A r \in 1..Len(runs) : Working(r)' <=> Working(r)
    BY <1>1 DEF acc0, Used, Working
  <1>9. CASE m.head \in {"done", "fail"} /\ host.acc = "started" /\ m.id > host.asked
    <2>1. /\ \A k \in 1..Len(inbox) : inbox[k].cmd.f # "Start"
          /\ objs[acc0].state = m.head
      BY <1>3, <1>7, <1>9 DEF RunsInv, F, Pos
    <2>2. \A k \in 1..Len(inbox) : inbox[k].cmd.f \notin Changes
      BY <1>9, <2>1 DEF QueueInv, F, Pos
    <2>3. \A r \in 1..Len(runs) : ~Working(r)
      BY <1>9, <2>1 DEF RunsInv
    <2>4. host'.acc = m.head /\ host'.asked = host.asked
      BY <1>4, <1>5, <1>9
    <2>5. QueueInv'
      BY <1>1, <1>9, <2>1, <2>2, <2>4 DEF QueueInv, F, Pos
    <2>6. RunsInv'
      BY <1>1, <1>8, <1>9, <2>1, <2>2, <2>3, <2>4 DEF RunsInv, F, Pos
    <2> QED
      BY <2>5, <2>6
  <1>10. CASE ~(m.head \in {"done", "fail"} /\ host.acc = "started" /\ m.id > host.asked)
    <2>1. host'.acc = host.acc /\ host'.asked = host.asked
      BY <1>4, <1>5, <1>10
    <2>2. QueueInv'
      BY <1>1, <2>1 DEF QueueInv, F, Pos
    <2>3. ASSUME NEW i \in 1..Len(acks'), host.acc = "started", acks'[i].head \in {"done", "fail"},
                 acks'[i].id > host.asked
          PROVE  /\ \A k \in 1..Len(inbox) : inbox[k].cmd.f # "Start"
                 /\ objs[acc0].state = acks'[i].head
      BY <1>6, <1>7, <2>3 DEF RunsInv, F, Pos
    <2>4. RunsInv'
      BY <1>1, <1>8, <2>1, <2>3 DEF RunsInv, F, Pos
    <2> QED
      BY <2>2, <2>4
  <1> QED
    BY <1>9, <1>10

\* A careful host sends a command.
LEMMA SendCareful ==
  ASSUME TypeOK, LinkInv, QueueInv, RunsInv, NEW c \in Commands, HostSends(c), Careful(c)
  PROVE  QueueInv' /\ RunsInv'
  <1>1. AccTypeOK /\ LinkTypeOK /\ inbox \in Seq(Entries) /\ Len(inbox) \in Nat /\ sent \in Nat
    BY LenProperties DEF TypeOK, LinkTypeOK, Entries
  <1>2. /\ sent' = sent + 1 /\ inbox' = Append(inbox, [id |-> sent + 1, cmd |-> c])
        /\ host' = Noted(c)
        /\ UNCHANGED <<objs, runs, misuse, acks>>
    BY Zenon DEF HostSends, accVars
  <1>3. PICK g \in Hosts :
          /\ g = Noted(c)
          /\ g.acc = IF c.f = "Start" THEN "started" ELSE IF c.f = "Reset" THEN "fresh" ELSE host.acc
          /\ g.asked = IF c.f = "Start" THEN sent + 1 ELSE IF c.f = "Reset" THEN 0 ELSE host.asked
    BY <1>1, NotedIs
  <1>4. host' = g
    BY <1>2, <1>3
  <1> DEFINE e == [id |-> sent + 1, cmd |-> c]
             n == Len(inbox) + 1
  <1>5. e \in Entries /\ e.id = sent + 1 /\ e.cmd = c
    BY <1>1 DEF Entries
  <1>6. inbox' = Append(inbox, e)
    BY <1>2
  <1> HIDE DEF e
  <1>7. /\ Len(inbox') = n /\ inbox'[n] = e
        /\ \A k \in 1..Len(inbox) : inbox'[k] = inbox[k]
    BY <1>1, <1>5, <1>6, AppendProperties
  <1>8. /\ n \in 1..Len(inbox') /\ \A k \in 1..Len(inbox) : k \in 1..Len(inbox') /\ k < n
        /\ \A k \in 1..Len(inbox') : k = n \/ k \in 1..Len(inbox)
        /\ \A k \in 1..Len(inbox') : ~(k > n)
    BY <1>1, <1>7
  <1> HIDE DEF n
  <1>9. acc0' = acc0 /\ (Used' <=> Used) /\ \A r \in 1..Len(runs) : Working(r)' <=> Working(r)
    BY <1>2 DEF acc0, Used, Working
  <1>10. inbox'[n].cmd.f = c.f /\ inbox'[n].id = sent + 1 /\ inbox'[n].cmd = c
    BY <1>5, <1>7
  <1>11. /\ c.f \in Setup \cup {"Start"} => host.acc = "fresh"
         /\ c.f = "Reset" => host.acc # "started"
         /\ c.f # "ReadFw" /\ (c.f = "Status" => ~c.rae)
    BY DEF Careful, Setup
  <1>12. \A k \in 1..Len(inbox') : /\ inbox'[k].cmd.f # "ReadFw"
                                   /\ inbox'[k].cmd.f = "Status" => ~inbox'[k].cmd.rae
    BY <1>7, <1>8, <1>10, <1>11 DEF QueueInv, F, Pos
  <1>13. host.asked \in Nat /\ host.asked <= sent
    BY <1>1 DEF QueueInv, LinkTypeOK, Hosts
  <1>14. host'.asked <= sent'
    BY <1>1, <1>2, <1>3, <1>4, <1>13
  <1>15. /\ \A k \in 1..Len(inbox) : inbox[k].cmd.f = "Start" =>
              /\ host.acc = "started" /\ inbox[k].id = host.asked
              /\ \A j \in 1..Len(inbox) : j > k => inbox[j].cmd.f \notin Changes
         /\ host.acc = "started" =>
              \A k \in 1..Len(inbox) : inbox[k].cmd.f \in Changes =>
                \E j \in 1..Len(inbox) : j >= k /\ inbox[j].cmd.f = "Start"
         /\ host.acc \in {"done", "fail"} => \A k \in 1..Len(inbox) : inbox[k].cmd.f \notin Changes
    BY DEF QueueInv, F, Pos
  <1>16. /\ misuse \subseteq {"log"}
         /\ \A r \in 1..Len(runs) : runs[r].obj = acc0 => r = Len(runs)
         /\ \A r \in 1..Len(runs) : Working(r) =>
              /\ host.acc = "started" /\ runs[r].obj = acc0
              /\ \A k \in 1..Len(inbox) : inbox[k].cmd.f \notin Changes
         /\ Used =>
              /\ host.acc = "fresh" => \E k \in 1..Len(inbox) : inbox[k].cmd.f = "Reset"
              /\ \A k \in 1..Len(inbox) : inbox[k].cmd.f \in Setup \cup {"Start"} =>
                   \E j \in 1..Len(inbox) : j < k /\ inbox[j].cmd.f = "Reset"
         /\ objs[acc0].state # "idle" => Used
         /\ objs[acc0].state \in {"done", "fail"} => \A r \in 1..Len(runs) : ~Working(r)
         /\ host.acc \in {"done", "fail"} => objs[acc0].state = host.acc
         /\ \A i \in 1..Len(acks) :
              host.acc = "started" /\ acks[i].head \in {"done", "fail"} /\ acks[i].id > host.asked =>
                /\ \A k \in 1..Len(inbox) : inbox[k].cmd.f # "Start"
                /\ objs[acc0].state = acks[i].head
    BY DEF RunsInv, F, Pos
  \* The command changes nothing about the accelerator.
  <1>17. CASE c.f \notin Changes
    <2>1. host'.acc = host.acc /\ host'.asked = host.asked
      BY <1>3, <1>4, <1>17 DEF Changes
    <2>2. \A k \in 1..Len(inbox') : inbox'[k].cmd.f \in Changes =>
            k \in 1..Len(inbox) /\ inbox'[k] = inbox[k]
      BY <1>7, <1>8, <1>10, <1>17
    <2>3. QueueInv'
      <3>1. ASSUME NEW k \in 1..Len(inbox'), inbox'[k].cmd.f = "Start"
            PROVE  /\ host'.acc = "started" /\ inbox'[k].id = host'.asked
                   /\ \A j \in 1..Len(inbox') : j > k => inbox'[j].cmd.f \notin Changes
        BY <1>15, <2>1, <2>2, <3>1 DEF Changes
      <3>2. host'.acc = "started" => \A k \in 1..Len(inbox') : inbox'[k].cmd.f \in Changes =>
              \E j \in 1..Len(inbox') : j >= k /\ inbox'[j].cmd.f = "Start"
        BY <1>7, <1>8, <1>15, <2>1, <2>2
      <3>3. host'.acc \in {"done", "fail"} => \A k \in 1..Len(inbox') : inbox'[k].cmd.f \notin Changes
        BY <1>15, <2>1, <2>2
      <3> QED
        BY <1>12, <1>14, <3>1, <3>2, <3>3 DEF QueueInv, F, Pos
    <2>4. RunsInv'
      <3>1. \A k \in 1..Len(inbox') : inbox'[k].cmd.f \in Setup \cup {"Start"} => inbox'[k].cmd.f \in Changes
        BY DEF Changes
      <3>2. Used => /\ host.acc = "fresh" => \E k \in 1..Len(inbox') : inbox'[k].cmd.f = "Reset"
                    /\ \A k \in 1..Len(inbox') : inbox'[k].cmd.f \in Setup \cup {"Start"} =>
                         \E j \in 1..Len(inbox') : j < k /\ inbox'[j].cmd.f = "Reset"
        <4>1. \A k \in 1..Len(inbox) : k \in 1..Len(inbox') /\ inbox'[k] = inbox[k]
          BY <1>7, <1>8
        <4>2. ASSUME Used, host.acc = "fresh"
              PROVE  \E k \in 1..Len(inbox') : inbox'[k].cmd.f = "Reset"
          <5>1. PICK k \in 1..Len(inbox) : inbox[k].cmd.f = "Reset"
            BY <1>16, <4>2
          <5> QED
            BY <4>1, <5>1
        <4>3. ASSUME Used, NEW k \in 1..Len(inbox'), inbox'[k].cmd.f \in Setup \cup {"Start"}
              PROVE  \E j \in 1..Len(inbox') : j < k /\ inbox'[j].cmd.f = "Reset"
          <5>1. k \in 1..Len(inbox) /\ inbox'[k] = inbox[k]
            BY <2>2, <3>1, <4>3
          <5>2. PICK j \in 1..Len(inbox) : j < k /\ inbox[j].cmd.f = "Reset"
            BY <1>16, <4>3, <5>1
          <5> QED
            BY <4>1, <5>2
        <4> QED
          BY <4>2, <4>3
      <3>3. ASSUME NEW r \in 1..Len(runs), Working(r), NEW k \in 1..Len(inbox')
            PROVE  inbox'[k].cmd.f \notin Changes
        <4>1. \A j \in 1..Len(inbox) : inbox[j].cmd.f \notin Changes
          BY <1>16, <3>3
        <4> QED
          BY <2>2, <4>1
      <3>4. (\A k \in 1..Len(inbox) : inbox[k].cmd.f # "Start") => \A k \in 1..Len(inbox') : inbox'[k].cmd.f # "Start"
        BY <2>2 DEF Changes
      <3> QED
        BY <1>2, <1>9, <1>16, <2>1, <3>2, <3>3, <3>4 DEF RunsInv, F, Pos
    <2> QED
      BY <2>3, <2>4
  \* It sets up, starts or resets, and nobody works.
  <1>18. CASE c.f \in Changes
    <2>1. host.acc # "started" /\ \A r \in 1..Len(runs) : ~Working(r)
      BY <1>11, <1>16, <1>18 DEF Changes, Setup
    <2>2. \A k \in 1..Len(inbox) : inbox[k].cmd.f # "Start"
      BY <1>15, <2>1
    <2>3. \A k \in 1..Len(inbox') : inbox'[k].cmd.f = "Start" => k = n /\ c.f = "Start"
      BY <1>7, <1>8, <1>10, <2>2
    <2>4. /\ host'.acc = (IF c.f = "Start" THEN "started" ELSE "fresh")
          /\ c.f = "Start" => host'.asked = sent + 1
      BY <1>3, <1>4, <1>11, <1>18 DEF Changes, Setup
    <2>5. QueueInv'
      <3>1. ASSUME NEW k \in 1..Len(inbox'), inbox'[k].cmd.f = "Start"
            PROVE  /\ host'.acc = "started" /\ inbox'[k].id = host'.asked
                   /\ \A j \in 1..Len(inbox') : j > k => inbox'[j].cmd.f \notin Changes
        BY <1>8, <1>10, <2>3, <2>4, <3>1
      <3>2. host'.acc = "started" => \A k \in 1..Len(inbox') : inbox'[k].cmd.f \in Changes =>
              \E j \in 1..Len(inbox') : j >= k /\ inbox'[j].cmd.f = "Start"
        <4> SUFFICES ASSUME host'.acc = "started", NEW k \in 1..Len(inbox')
                     PROVE  n >= k /\ inbox'[n].cmd.f = "Start"
          BY <1>8
        <4>1. n >= k
          BY <1>1, <1>8 DEF n
        <4> QED
          BY <1>10, <2>4, <4>1
      <3>3. host'.acc \notin {"done", "fail"}
        BY <2>4
      <3> QED
        BY <1>12, <1>14, <3>1, <3>2, <3>3 DEF QueueInv, F, Pos
    <2>6. RunsInv'
      <3>1. Used => /\ host'.acc = "fresh" => \E k \in 1..Len(inbox') : inbox'[k].cmd.f = "Reset"
                    /\ \A k \in 1..Len(inbox') : inbox'[k].cmd.f \in Setup \cup {"Start"} =>
                         \E j \in 1..Len(inbox') : j < k /\ inbox'[j].cmd.f = "Reset"
        <4> SUFFICES ASSUME Used
                     PROVE  /\ host'.acc = "fresh" => \E k \in 1..Len(inbox') : inbox'[k].cmd.f = "Reset"
                            /\ \A k \in 1..Len(inbox') : inbox'[k].cmd.f \in Setup \cup {"Start"} =>
                                 \E j \in 1..Len(inbox') : j < k /\ inbox'[j].cmd.f = "Reset"
          BY Zenon
        <4>1. \A k \in 1..Len(inbox) : inbox'[k].cmd.f \in Setup \cup {"Start"} =>
                \E j \in 1..Len(inbox') : j < k /\ inbox'[j].cmd.f = "Reset"
          BY <1>7, <1>8, <1>16
        <4>2. CASE c.f = "Reset"
          <5>1. inbox'[n].cmd.f \notin Setup \cup {"Start"}
            BY <1>10, <4>2 DEF Setup
          <5> QED
            BY <1>8, <1>10, <4>1, <4>2, <5>1
        <4>3. CASE c.f # "Reset"
          <5>1. host.acc = "fresh"
            BY <1>11, <1>18, <4>3 DEF Changes
          <5>2. PICK j \in 1..Len(inbox) : inbox[j].cmd.f = "Reset"
            BY <1>16, <5>1
          <5>3. j \in 1..Len(inbox') /\ j < n /\ inbox'[j].cmd.f = "Reset"
            BY <1>7, <1>8, <5>2
          <5> QED
            BY <1>8, <4>1, <5>3
        <4> QED
          BY <4>2, <4>3
      <3>2. ASSUME NEW i \in 1..Len(acks), host'.acc = "started", acks[i].id > host'.asked
            PROVE  FALSE
        <4>1. host'.asked = sent + 1
          BY <2>4, <3>2
        <4>2. acks[i].id <= sent - Len(inbox) /\ acks[i] \in Messages
          BY <1>1, ElementOfSeq DEF LinkInv, LinkTypeOK
        <4>3. acks[i].id \in Nat
          BY <4>2 DEF Messages
        <4> QED
          BY <1>1, <3>2, <4>1, <4>2, <4>3
      <3>3. host'.acc \notin {"done", "fail"}
        BY <2>4
      <3>4. \A r \in 1..Len(runs') : ~Working(r)'
        BY <1>2, <1>9, <2>1
      <3> QED
        BY <1>2, <1>9, <1>16, <3>1, <3>2, <3>3, <3>4 DEF RunsInv, F, Pos
    <2> QED
      BY <2>5, <2>6
  <1> QED
    BY <1>17, <1>18

\* A step that leaves the accelerator, the host and both queues alone.
LEMMA CarefulUnchanged ==
  ASSUME QueueInv, RunsInv, UNCHANGED <<objs, runs, misuse, inbox, acks, host, sent>>
  PROVE  QueueInv' /\ RunsInv'
  <1>1. QueueInv'
    BY DEF QueueInv, F, Pos
  <1>2. acc0' = acc0 /\ (Used' <=> Used) /\ \A r \in 1..Len(runs) : Working(r)' <=> Working(r)
    BY DEF acc0, Used, Working
  <1>3. RunsInv'
    BY <1>2 DEF RunsInv, F, Pos
  <1> QED
    BY <1>1, <1>3

\* Nothing is on its way and nothing has been started.
LEMMA CarefulFresh ==
  ASSUME inbox' = <<>>, acks' = <<>>, runs' = <<>>, misuse' = {}, objs' = <<NewAcc>>,
         host' = FreshHost, sent' = 0
  PROVE  QueueInv' /\ RunsInv'
  <1>1. Len(inbox') = 0 /\ Len(acks') = 0 /\ Len(runs') = 0
    BY EmptySeq
  <1>2. host'.acc = "fresh" /\ host'.asked = 0
    BY DEF FreshHost
  <1>3. objs'[acc0'].state = "idle"
    BY DEF acc0, NewAcc
  <1>4. ~Used'
    BY <1>1 DEF Used
  <1>5. QueueInv'
    BY <1>1, <1>2 DEF QueueInv, F, Pos
  <1>6. RunsInv'
    BY <1>1, <1>2, <1>3, <1>4 DEF RunsInv, F, Pos
  <1> QED
    BY <1>5, <1>6

\* At first.
LEMMA CarefulInit ==
  ASSUME Init
  PROVE  CarefulInv
  <1>1. /\ inbox = <<>> /\ acks = <<>> /\ runs = <<>> /\ misuse = {} /\ objs = <<NewAcc>>
        /\ host = FreshHost /\ sent = 0
    BY DEF Init, LinkInit, AccInit
  <1>2. Len(inbox) = 0 /\ Len(acks) = 0 /\ Len(runs) = 0
    BY <1>1, EmptySeq
  <1>3. host.acc = "fresh" /\ host.asked = 0
    BY <1>1 DEF FreshHost
  <1>4. objs[acc0].state = "idle"
    BY <1>1 DEF acc0, NewAcc
  <1>5. ~Used
    BY <1>2 DEF Used
  <1>6. QueueInv
    BY <1>1, <1>2, <1>3 DEF QueueInv, F, Pos
  <1>7. RunsInv
    BY <1>1, <1>2, <1>3, <1>4, <1>5 DEF RunsInv, F, Pos
  <1> QED
    BY <1>6, <1>7 DEF CarefulInv

\* The steps of Next.
LEMMA CarefulStep ==
  ASSUME Base, CarefulInv, [Next]_vars
  PROVE  CarefulInv'
  <1>1. work' = work
    BY Zenon DEF Next, RpmsgInit, Hello, MainLoop, CannotMap, HandleSendFw, HandleReadLba, HandleWriteLba,
       HandleSetFw, HandleStart, HandleReset, HandleNothing, HandleIdentify, HandleStatus,
       HandleDownload, HandleCommit, Ack, send_ack, FlashThread, AccThread, AccThreadCrashes,
       Rpu, IrqHandler, PlatformPoll, EndpointCb, PollEnds, HostSends, HostWrites, PowerLoss, vars
  <1> SUFFICES ASSUME work.resets
               PROVE  QueueInv' /\ RunsInv'
    BY <1>1 DEF CarefulInv
  <1>2. /\ TypeOK /\ LinkInv /\ AccTypeOK /\ LinkTypeOK /\ QueueInv /\ RunsInv
    BY DEF Base, TypeOK, CarefulInv
  <1>3. CASE RpmsgInit \/ FlashThread \/ IrqHandler \/ PlatformPoll \/ PollEnds \/ UNCHANGED vars
    <2>1. UNCHANGED <<objs, runs, misuse, inbox, acks, host, sent>>
      BY <1>3, Zenon DEF RpmsgInit, FlashThread, IrqHandler, PlatformPoll, PollEnds, vars, linkVars, accVars
    <2> QED
      BY <1>2, <2>1, CarefulUnchanged
  <1>4. CASE Hello
    <2> DEFINE m == [id |-> 0, data |-> FALSE, head |-> "none"]
    <2>1. Write(m) /\ UNCHANGED <<objs, runs, misuse, inbox, host, sent>>
      BY <1>4, Zenon DEF Hello, accVars
    <2>2. m \in Messages /\ m.head = "none"
      BY DEF Messages, Heads
    <2> HIDE DEF m
    <2>3. Len(acks) \in Nat /\ AckCap \in Nat
      BY <1>2, WorkIs, LenProperties DEF LinkTypeOK
    <2>4. Written(m)
      BY <2>1, <2>3 DEF Write, Written
    <2>5. \A i \in 1..Len(acks') : acks'[i] = m \/ (i \in 1..Len(acks) /\ acks'[i] = acks[i])
      BY <1>2, <2>2, <2>4, RingIs
    <2>6. QueueInv'
      BY <1>2, <2>1 DEF QueueInv, F, Pos
    <2>7. acc0' = acc0 /\ (Used' <=> Used) /\ \A r \in 1..Len(runs) : Working(r)' <=> Working(r)
      BY <2>1 DEF acc0, Used, Working
    <2>8. \A i \in 1..Len(acks') : acks'[i].head \in {"done", "fail"} => i \in 1..Len(acks) /\ acks'[i] = acks[i]
      BY <2>2, <2>5
    <2>9. RunsInv'
      BY <1>2, <2>1, <2>7, <2>8 DEF RunsInv, F, Pos
    <2> QED
      BY <2>6, <2>9
  <1>5. CASE MainLoop
    BY <1>2, <1>5, MainLoopCareful
  <1>6. ASSUME NEW r \in 1..MaxRun, r \in DOMAIN runs, AccThread(r) \/ AccThreadCrashes(r)
        PROVE  QueueInv' /\ RunsInv'
    <2>1. UNCHANGED <<inbox, acks, host, sent>>
      BY <1>6, Zenon DEF AccThread, AccThreadCrashes, linkVars
    <2>2. CASE AccThreadCrashes(r)
      <3>1. UNCHANGED <<objs, runs, misuse>>
        BY <2>2, Zenon DEF AccThreadCrashes, RunCannotMap
      <3> QED
        BY <1>2, <2>1, <3>1, CarefulUnchanged
    <2>3. CASE AccThread(r)
      <3>1. RunStep(r) /\ r \in 1..Len(runs)
        BY <1>2, <1>6, <2>3, LenProperties DEF AccThread, AccTypeOK
      <3>2. QueueInv'
        BY <1>2, <2>1 DEF QueueInv, F, Pos
      <3>3. RunsInv'
        BY <1>2, <2>1, <3>1, RunKeepsCareful
      <3> QED
        BY <3>2, <3>3
    <2> QED
      BY <1>6, <2>2, <2>3
  <1>7. CASE EndpointCb
    BY <1>2, <1>7, EndpointCareful
  <1>8. ASSUME sent < Len(work.script), NEW c \in work.script[sent + 1], HostSends(c)
        PROVE  QueueInv' /\ RunsInv'
    <2>1. Careful(c)
      BY <1>8 DEF HostSends
    <2>2. work.script \in Seq(SUBSET Commands) /\ sent + 1 \in 1..Len(work.script)
      BY <1>2, <1>8, WorkIs, LenProperties DEF LinkTypeOK
    <2>3. c \in Commands
      BY <1>8, <2>2, ElementOfSeq
    <2> QED
      BY <1>2, <1>8, <2>1, <2>3, SendCareful
  <1>9. ASSUME NEW d \in Data, HostWrites(d)
        PROVE  QueueInv' /\ RunsInv'
    <2>1. UNCHANGED <<objs, runs, misuse, inbox, acks, host, sent>>
      BY <1>9, Zenon DEF HostWrites, linkVars
    <2> QED
      BY <1>2, <2>1, CarefulUnchanged
  <1>10. CASE PowerLoss
    <2>1. /\ inbox' = <<>> /\ acks' = <<>> /\ runs' = <<>> /\ misuse' = {} /\ objs' = <<NewAcc>>
          /\ host' = FreshHost /\ sent' = 0
      BY <1>10, Zenon DEF PowerLoss
    <2> QED
      BY <2>1, CarefulFresh
  <1> QED
    BY <1>3, <1>4, <1>5, <1>6, <1>7, <1>8, <1>9, <1>10, Zenon DEF Next, Rpu

\* With a careful host no accelerator is set up or started while it runs, and a run
\* uses a deleted one for nothing but the id in its last line of the log, however
\* many commands are under way and runs overlap (acc.cpp, io_acc_ctl.cpp).
THEOREM NoUseAfterDeleteHolds == Spec => []NoUseAfterDelete
  <1>1. Init => CarefulInv
    BY CarefulInit
  <1>2. Base /\ CarefulInv /\ [Next]_vars => CarefulInv'
    BY CarefulStep
  <1>3. CarefulInv => NoUseAfterDelete
    BY DEF CarefulInv, RunsInv, NoUseAfterDelete
  <1> QED
    BY <1>1, <1>2, <1>3, BaseHolds, PTL DEF Spec

-----------------------------------------------------------------------------
(* What the accelerator is set up with                                     *)

\* The commands behind the one that was handled.
LEMMA PartTail ==
  ASSUME LinkTypeOK, inbox # <<>>, inbox' = Tail(inbox)
  PROVE  /\ \A k \in 1..Len(inbox') : LastPart(k)' <=> LastPart(k + 1)
         /\ NoReset <=> NoReset' /\ inbox[1].cmd.f # "Reset"
         /\ LastPart(1) <=> NoReset' /\ inbox[1].cmd.f # "Reset"
  <1>1. /\ Len(inbox) \in Nat \ {0} /\ Len(inbox') = Len(inbox) - 1
        /\ \A k \in 1..Len(inbox') : k + 1 \in 1..Len(inbox) /\ inbox'[k] = inbox[k + 1]
        /\ \A j \in 1..Len(inbox) : j # 1 => j - 1 \in 1..Len(inbox') /\ inbox'[j - 1] = inbox[j]
    BY TailIs
  <1>2. NoReset' <=> \A j \in 1..Len(inbox) : j # 1 => inbox[j].cmd.f # "Reset"
    <2>1. ASSUME NoReset', NEW j \in 1..Len(inbox), j # 1
          PROVE  inbox[j].cmd.f # "Reset"
      BY <1>1, <2>1 DEF NoReset, F, Pos
    <2>2. ASSUME \A j \in 1..Len(inbox) : j # 1 => inbox[j].cmd.f # "Reset"
          PROVE  NoReset'
      <3>1. \A k \in 1..Len(inbox') : k + 1 # 1
        BY <1>1
      <3> QED
        BY <1>1, <2>2, <3>1 DEF NoReset, F, Pos
    <2> QED
      BY <2>1, <2>2
  <1>3. 1 \in 1..Len(inbox) /\ \A j \in 1..Len(inbox) : ~(j < 1)
    BY <1>1
  <1>4. NoReset <=> NoReset' /\ inbox[1].cmd.f # "Reset"
    BY <1>2, <1>3 DEF NoReset, F, Pos
  <1>5. LastPart(1) <=> NoReset
    BY <1>3 DEF NoReset, LastPart, F, Pos
  <1>6. ASSUME NEW k \in 1..Len(inbox')
        PROVE  LastPart(k)' <=> LastPart(k + 1)
    <2>1. ASSUME LastPart(k)', NEW j \in 1..Len(inbox), inbox[j].cmd.f = "Reset"
          PROVE  j < k + 1
      <3>1. CASE j = 1
        BY <1>1, <3>1
      <3>2. CASE j # 1
        <4>1. j - 1 < k
          BY <1>1, <2>1, <3>2 DEF LastPart, F, Pos
        <4> QED
          BY <1>1, <4>1
      <3> QED
        BY <3>1, <3>2
    <2>2. ASSUME LastPart(k + 1), NEW j \in 1..Len(inbox'), inbox'[j].cmd.f = "Reset"
          PROVE  j < k
      <3>1. j + 1 < k + 1
        BY <1>1, <2>2 DEF LastPart, F, Pos
      <3> QED
        BY <1>1, <3>1
    <2> QED
      BY <2>1, <2>2 DEF LastPart, F, Pos
  <1> QED
    BY <1>4, <1>5, <1>6

\* The command f sets the flag x, which is y afterwards; RESET clears it.
LEMMA FlagTail ==
  ASSUME LinkTypeOK, inbox # <<>>, inbox' = Tail(inbox), NEW f, f # "Reset",
         NEW x \in BOOLEAN, NEW y \in BOOLEAN,
         y <=> (inbox[1].cmd.f = f \/ (inbox[1].cmd.f # "Reset" /\ x))
  PROVE  ((NoReset' /\ y) \/ \E k \in 1..Len(inbox') : inbox'[k].cmd.f = f /\ LastPart(k)')
           <=> ((NoReset /\ x) \/ \E k \in 1..Len(inbox) : inbox[k].cmd.f = f /\ LastPart(k))
  <1>1. /\ Len(inbox) \in Nat \ {0} /\ Len(inbox') = Len(inbox) - 1
        /\ \A k \in 1..Len(inbox') : k + 1 \in 1..Len(inbox) /\ inbox'[k] = inbox[k + 1]
        /\ \A j \in 1..Len(inbox) : j # 1 => j - 1 \in 1..Len(inbox') /\ inbox'[j - 1] = inbox[j]
    BY TailIs
  <1>2. /\ \A k \in 1..Len(inbox') : LastPart(k)' <=> LastPart(k + 1)
        /\ NoReset <=> NoReset' /\ inbox[1].cmd.f # "Reset"
        /\ LastPart(1) <=> NoReset' /\ inbox[1].cmd.f # "Reset"
    BY PartTail
  <1>3. ASSUME NEW k \in 1..Len(inbox'), inbox'[k].cmd.f = f, LastPart(k)'
        PROVE  \E j \in 1..Len(inbox) : inbox[j].cmd.f = f /\ LastPart(j)
    BY <1>1, <1>2, <1>3
  <1>4. ASSUME NEW j \in 1..Len(inbox), j # 1, inbox[j].cmd.f = f, LastPart(j)
        PROVE  \E k \in 1..Len(inbox') : inbox'[k].cmd.f = f /\ LastPart(k)'
    <2>1. j - 1 \in 1..Len(inbox') /\ (j - 1) + 1 = j
      BY <1>1, <1>4
    <2>2. LastPart(j - 1)'
      BY <1>2, <1>4, <2>1
    <2>3. inbox'[j - 1].cmd.f = f
      BY <1>1, <1>4
    <2> QED
      BY <2>1, <2>2, <2>3
  <1>5. 1 \in 1..Len(inbox)
    BY <1>1
  <1>6. CASE inbox[1].cmd.f = f
    BY <1>2, <1>3, <1>4, <1>5, <1>6
  <1>7. CASE inbox[1].cmd.f # f
    BY <1>2, <1>3, <1>4, <1>5, <1>7
  <1> QED
    BY <1>6, <1>7

\* SEND_FW in front of the queue leaves its firmware in fw_map.
LEMMA FirmwareTail ==
  ASSUME LinkTypeOK, inbox # <<>>, inbox' = Tail(inbox),
         fw_map' = IF inbox[1].cmd.f = "SendFw" THEN inbox[1].cmd.fw ELSE fw_map,
         NEW fw, NEW k \in 1..(Len(inbox') + 1), FirmwareAt(k + 1, fw)
  PROVE  FirmwareAt(k, fw)'
  <1>1. /\ Len(inbox) \in Nat \ {0} /\ Len(inbox') = Len(inbox) - 1
        /\ \A i \in 1..Len(inbox') : i + 1 \in 1..Len(inbox) /\ inbox'[i] = inbox[i + 1]
        /\ \A j \in 1..Len(inbox) : j # 1 => j - 1 \in 1..Len(inbox') /\ inbox'[j - 1] = inbox[j]
    BY TailIs
  <1>2. 1 \in 1..Len(inbox) /\ 1 < k + 1 /\ k \in Nat
    BY <1>1
  <1>3. \A i \in 1..Len(inbox') : i < k => i + 1 < k + 1
    BY <1>1, <1>2
  <1>4. CASE (\A j \in 1..Len(inbox) : j < k + 1 => inbox[j].cmd.f # "SendFw") /\ fw_map = fw
    <2>1. inbox[1].cmd.f # "SendFw" /\ fw_map' = fw
      BY <1>2, <1>4
    <2>2. \A i \in 1..Len(inbox') : i < k => inbox'[i].cmd.f # "SendFw"
      BY <1>1, <1>3, <1>4
    <2> QED
      BY <2>1, <2>2 DEF FirmwareAt, F, Pos
  <1>5. ASSUME NEW j \in 1..Len(inbox), j < k + 1, inbox[j].cmd.f = "SendFw", inbox[j].cmd.fw = fw,
               \A i \in 1..Len(inbox) : i > j /\ i < k + 1 => inbox[i].cmd.f # "SendFw"
        PROVE  FirmwareAt(k, fw)'
    <2>1. CASE j = 1
      <3>1. fw_map' = fw
        BY <1>5, <2>1
      <3>2. \A i \in 1..Len(inbox') : i + 1 > 1
        BY <1>1
      <3>3. \A i \in 1..Len(inbox') : i < k => inbox'[i].cmd.f # "SendFw"
        BY <1>1, <1>3, <1>5, <2>1, <3>2
      <3> QED
        BY <3>1, <3>3 DEF FirmwareAt, F, Pos
    <2>2. CASE j # 1
      <3>1. j - 1 \in 1..Len(inbox') /\ j - 1 < k /\ inbox'[j - 1].cmd.f = "SendFw"
            /\ inbox'[j - 1].cmd.fw = fw
        BY <1>1, <1>2, <1>5, <2>2
      <3>2. \A i \in 1..Len(inbox') : i > j - 1 => i + 1 > j
        BY <1>1
      <3>3. \A i \in 1..Len(inbox') : i > j - 1 /\ i < k => inbox'[i].cmd.f # "SendFw"
        BY <1>1, <1>3, <1>5, <3>2
      <3> QED
        BY <3>1, <3>3 DEF FirmwareAt, F, Pos
    <2> QED
      BY <2>1, <2>2
  <1> QED
    BY <1>4, <1>5 DEF FirmwareAt, F, Pos

\* The setup after a command was handled: a is the object in use before, o after it.
SetupMoves(a, o) ==
  /\ o.ramdisk_in <=> (inbox[1].cmd.f = "ReadLba" \/ (inbox[1].cmd.f # "Reset" /\ a.ramdisk_in))
  /\ o.ramdisk_out <=> (inbox[1].cmd.f = "WriteLba" \/ (inbox[1].cmd.f # "Reset" /\ a.ramdisk_out))
  /\ inbox[1].cmd.f = "SetFw" => o.firmware = fw_map
  /\ inbox[1].cmd.f = "Reset" => o.firmware = NoFirmware
  /\ inbox[1].cmd.f \notin {"SetFw", "Reset"} => o.firmware = a.firmware

\* Handling a command keeps what the host relies on.
LEMMA SetupTail ==
  ASSUME LinkTypeOK, SetupInv, inbox # <<>>, inbox' = Tail(inbox), host' = host,
         fw_map' = IF inbox[1].cmd.f = "SendFw" THEN inbox[1].cmd.fw ELSE fw_map,
         NEW a \in Accs, NEW o \in Accs, a = objs[acc0], o = objs'[acc0'], SetupMoves(a, o)
  PROVE  SetupInv'
  <1>1. /\ Len(inbox) \in Nat \ {0} /\ Len(inbox') = Len(inbox) - 1
        /\ \A i \in 1..Len(inbox') : i + 1 \in 1..Len(inbox) /\ inbox'[i] = inbox[i + 1]
        /\ \A j \in 1..Len(inbox) : j # 1 => j - 1 \in 1..Len(inbox') /\ inbox'[j - 1] = inbox[j]
    BY TailIs
  <1>2. /\ \A k \in 1..Len(inbox') : LastPart(k)' <=> LastPart(k + 1)
        /\ NoReset <=> NoReset' /\ inbox[1].cmd.f # "Reset"
        /\ LastPart(1) <=> NoReset' /\ inbox[1].cmd.f # "Reset"
    BY PartTail
  <1>3. a.ramdisk_in \in BOOLEAN /\ a.ramdisk_out \in BOOLEAN /\ o.ramdisk_in \in BOOLEAN
        /\ o.ramdisk_out \in BOOLEAN
    BY DEF Accs
  <1>4. host.inp <=> (NoReset' /\ o.ramdisk_in) \/
                     \E k \in 1..Len(inbox') : inbox'[k].cmd.f = "ReadLba" /\ LastPart(k)'
    <2>1. host.inp <=> (NoReset /\ a.ramdisk_in) \/
                       \E k \in 1..Len(inbox) : inbox[k].cmd.f = "ReadLba" /\ LastPart(k)
      BY Zenon DEF SetupInv, F, Pos
    <2>2. o.ramdisk_in <=> (inbox[1].cmd.f = "ReadLba" \/ (inbox[1].cmd.f # "Reset" /\ a.ramdisk_in))
      BY Zenon DEF SetupMoves
    <2>3. "ReadLba" # "Reset"
      OBVIOUS
    <2>4. ((NoReset' /\ o.ramdisk_in) \/ \E k \in 1..Len(inbox') : inbox'[k].cmd.f = "ReadLba" /\ LastPart(k)')
          <=> ((NoReset /\ a.ramdisk_in) \/ \E k \in 1..Len(inbox) : inbox[k].cmd.f = "ReadLba" /\ LastPart(k))
      BY <1>3, <2>2, <2>3, FlagTail
    <2> QED
      BY <2>1, <2>4, Zenon
  <1>5. host.out <=> (NoReset' /\ o.ramdisk_out) \/
                     \E k \in 1..Len(inbox') : inbox'[k].cmd.f = "WriteLba" /\ LastPart(k)'
    <2>1. host.out <=> (NoReset /\ a.ramdisk_out) \/
                       \E k \in 1..Len(inbox) : inbox[k].cmd.f = "WriteLba" /\ LastPart(k)
      BY Zenon DEF SetupInv, F, Pos
    <2>2. o.ramdisk_out <=> (inbox[1].cmd.f = "WriteLba" \/ (inbox[1].cmd.f # "Reset" /\ a.ramdisk_out))
      BY Zenon DEF SetupMoves
    <2>3. "WriteLba" # "Reset"
      OBVIOUS
    <2>4. ((NoReset' /\ o.ramdisk_out) \/ \E k \in 1..Len(inbox') : inbox'[k].cmd.f = "WriteLba" /\ LastPart(k)')
          <=> ((NoReset /\ a.ramdisk_out) \/ \E k \in 1..Len(inbox) : inbox[k].cmd.f = "WriteLba" /\ LastPart(k))
      BY <1>3, <2>2, <2>3, FlagTail
    <2> QED
      BY <2>1, <2>4, Zenon
  <1>6. FirmwareAt(Len(inbox) + 1, host.sent)'
    <2>1. PICK n : n = Len(inbox)
      OBVIOUS
    <2>2. PICK fw : fw = host.sent
      OBVIOUS
    <2>3. n \in 1..(Len(inbox') + 1) /\ n = Len(inbox') + 1
      BY <1>1, <2>1
    <2>4. FirmwareAt(n + 1, fw)
      BY <2>1, <2>2 DEF SetupInv
    <2>5. FirmwareAt(n, fw)'
      BY <2>3, <2>4, FirmwareTail
    <2>6. fw = host'.sent
      BY <2>2
    <2> QED
      BY <2>3, <2>5, <2>6, Zenon
  <1>7. ASSUME NEW k \in 1..Len(inbox'), inbox'[k].cmd.f = "SetFw", LastPart(k)',
               \A j \in 1..Len(inbox') : j > k => inbox'[j].cmd.f # "SetFw"
        PROVE  FirmwareAt(k, host.fw)'
    <2>1. k + 1 \in 1..Len(inbox) /\ inbox[k + 1].cmd.f = "SetFw" /\ LastPart(k + 1)
      BY <1>1, <1>2, <1>7
    <2>2. \A j \in 1..Len(inbox) : j > k + 1 => inbox[j].cmd.f # "SetFw"
      <3> SUFFICES ASSUME NEW j \in 1..Len(inbox), j > k + 1
                   PROVE  inbox[j].cmd.f # "SetFw"
        OBVIOUS
      <3>1. j # 1 /\ j - 1 > k
        BY <1>1
      <3> QED
        BY <1>1, <1>7, <3>1
    <2>3. PICK fw : fw = host.fw
      OBVIOUS
    <2>4. FirmwareAt(k + 1, fw)
      BY <2>1, <2>2, <2>3 DEF SetupInv, F, Pos
    <2>5. k \in 1..(Len(inbox') + 1)
      BY <1>1
    <2>6. FirmwareAt(k, fw)'
      BY <2>4, <2>5, FirmwareTail
    <2> QED
      BY <2>3, <2>6 DEF FirmwareAt
  <1>8. ASSUME \A k \in 1..Len(inbox') : inbox'[k].cmd.f = "SetFw" => ~LastPart(k)'
        PROVE  host.fw = IF NoReset' THEN o.firmware ELSE NoFirmware
    <2>1. \A j \in 1..Len(inbox) : j # 1 /\ inbox[j].cmd.f = "SetFw" => ~LastPart(j)
      <3> SUFFICES ASSUME NEW j \in 1..Len(inbox), j # 1, inbox[j].cmd.f = "SetFw", LastPart(j)
                   PROVE  FALSE
        OBVIOUS
      <3>1. j - 1 \in 1..Len(inbox') /\ (j - 1) + 1 = j /\ inbox'[j - 1].cmd.f = "SetFw"
        BY <1>1
      <3>2. LastPart(j - 1)'
        BY <1>2, <3>1
      <3> QED
        BY <1>8, <3>1, <3>2
    <2>2. CASE inbox[1].cmd.f = "SetFw" /\ NoReset'
      <3>1. LastPart(1) /\ 1 \in 1..Len(inbox)
        BY <1>1, <1>2, <2>2
      <3>2. \A j \in 1..Len(inbox) : j # 1 => inbox[j].cmd.f # "SetFw"
        <4>1. \A j \in 1..Len(inbox) : j # 1 => LastPart(j)
          BY <1>2, <2>2 DEF NoReset, LastPart, F, Pos
        <4> QED
          BY <2>1, <4>1
      <3>3. FirmwareAt(1, host.fw)
        <4>1. \A j \in 1..Len(inbox) : j > 1 => j # 1
          BY <1>1
        <4> QED
          BY <2>2, <3>1, <3>2, <4>1 DEF SetupInv, F, Pos
      <3>4. \A j \in 1..Len(inbox) : ~(j < 1)
        BY <1>1
      <3>5. fw_map = host.fw
        BY <3>3, <3>4 DEF FirmwareAt, F, Pos
      <3> QED
        BY <2>2, <3>5 DEF SetupMoves
    <2>3. CASE ~(inbox[1].cmd.f = "SetFw" /\ NoReset')
      <3>1. \A j \in 1..Len(inbox) : inbox[j].cmd.f = "SetFw" => ~LastPart(j)
        BY <1>2, <2>1, <2>3
      <3>2. host.fw = IF NoReset THEN a.firmware ELSE NoFirmware
        BY <3>1 DEF SetupInv, F, Pos
      <3> QED
        BY <1>2, <2>3, <3>2 DEF SetupMoves
    <2> QED
      BY <2>2, <2>3
  <1>9. /\ (host.inp <=> (NoReset /\ objs[acc0].ramdisk_in) \/ \E k \in Pos : F(k) = "ReadLba" /\ LastPart(k))'
        /\ (host.out <=> (NoReset /\ objs[acc0].ramdisk_out) \/ \E k \in Pos : F(k) = "WriteLba" /\ LastPart(k))'
    BY <1>4, <1>5, Zenon DEF F, Pos
  <1>11. \A k \in 1..Len(inbox') :
           /\ inbox'[k].cmd.f = "SetFw" /\ LastPart(k)'
           /\ \A j \in 1..Len(inbox') : j > k => inbox'[j].cmd.f # "SetFw"
           => FirmwareAt(k, host.fw)'
    BY <1>7, Zenon
  <1> QED
    BY <1>6, <1>8, <1>9, <1>11, Zenon DEF SetupInv, F, Pos

\* The queue after the host has sent command c.
Sent(n, c) ==
  /\ n = Len(inbox) + 1 /\ Len(inbox') = n /\ n \in 1..Len(inbox') /\ inbox'[n].cmd = c
  /\ \A k \in 1..Len(inbox) : k \in 1..Len(inbox') /\ k < n /\ inbox'[k] = inbox[k]
  /\ \A k \in 1..Len(inbox') : (k = n \/ k \in 1..Len(inbox)) /\ ~(k > n)

\* A command goes to the end of the queue.
LEMMA SentIs ==
  ASSUME LinkTypeOK, NEW c \in Commands, inbox' = Append(inbox, [id |-> sent + 1, cmd |-> c])
  PROVE  \E n \in Nat : Sent(n, c)
  <1>1. inbox \in Seq(Entries) /\ Len(inbox) \in Nat /\ sent \in Nat
    BY LenProperties DEF LinkTypeOK, Entries
  <1> DEFINE e == [id |-> sent + 1, cmd |-> c]
             n == Len(inbox) + 1
  <1>2. e \in Entries /\ e.cmd = c /\ inbox' = Append(inbox, e)
    BY <1>1 DEF Entries
  <1> HIDE DEF e
  <1>3. /\ Len(inbox') = n /\ inbox'[n] = e
        /\ \A k \in 1..Len(inbox) : inbox'[k] = inbox[k]
    BY <1>1, <1>2, AppendProperties
  <1>4. /\ n \in 1..Len(inbox') /\ \A k \in 1..Len(inbox) : k \in 1..Len(inbox') /\ k < n
        /\ \A k \in 1..Len(inbox') : (k = n \/ k \in 1..Len(inbox)) /\ ~(k > n)
    BY <1>1, <1>3
  <1>5. Sent(n, c)
    BY <1>2, <1>3, <1>4 DEF Sent
  <1>6. n \in Nat
    BY <1>1
  <1> QED
    BY <1>5, <1>6

\* The firmware set by a command on its way is the same when another one is sent.
LEMMA FirmwareSent ==
  ASSUME NEW n \in Nat, NEW c \in Commands, Sent(n, c), fw_map' = fw_map,
         NEW fw, NEW k \in 1..(n + 1), FirmwareAt(k, fw), k = n + 1 => c.f # "SendFw"
  PROVE  FirmwareAt(k, fw)'
  <1>1. /\ n \in 1..Len(inbox') /\ inbox'[n].cmd = c
        /\ \A j \in 1..Len(inbox) : j \in 1..Len(inbox') /\ inbox'[j] = inbox[j]
        /\ \A j \in 1..Len(inbox') : j = n \/ j \in 1..Len(inbox)
    BY DEF Sent
  <1>2. n < k => c.f # "SendFw"
    OBVIOUS
  <1>3. CASE (\A j \in 1..Len(inbox) : j < k => inbox[j].cmd.f # "SendFw") /\ fw_map = fw
    <2>1. \A j \in 1..Len(inbox') : j < k => inbox'[j].cmd.f # "SendFw"
      BY <1>1, <1>2, <1>3
    <2> QED
      BY <1>3, <2>1 DEF FirmwareAt, F, Pos
  <1>4. ASSUME NEW j \in 1..Len(inbox), j < k, inbox[j].cmd.f = "SendFw", inbox[j].cmd.fw = fw,
               \A i \in 1..Len(inbox) : i > j /\ i < k => inbox[i].cmd.f # "SendFw"
        PROVE  FirmwareAt(k, fw)'
    <2>1. j \in 1..Len(inbox') /\ inbox'[j].cmd.f = "SendFw" /\ inbox'[j].cmd.fw = fw
      BY <1>1, <1>4
    <2>2. \A i \in 1..Len(inbox') : i > j /\ i < k => inbox'[i].cmd.f # "SendFw"
      BY <1>1, <1>2, <1>4
    <2> QED
      BY <1>4, <2>1, <2>2 DEF FirmwareAt, F, Pos
  <1> QED
    BY <1>3, <1>4 DEF FirmwareAt, F, Pos

\* The parts of the queue when command c has been sent.
LEMMA PartSent ==
  ASSUME NEW n \in Nat, NEW c \in Commands, Sent(n, c)
  PROVE  /\ c.f = "Reset" => ~NoReset' /\ \A k \in 1..Len(inbox') : ~LastPart(k)'
         /\ c.f # "Reset" => /\ NoReset' <=> NoReset
                             /\ LastPart(n)'
                             /\ \A k \in 1..Len(inbox) : LastPart(k)' <=> LastPart(k)
  <1>1. /\ n \in 1..Len(inbox') /\ inbox'[n].cmd = c
        /\ \A j \in 1..Len(inbox) : j \in 1..Len(inbox') /\ j < n /\ inbox'[j] = inbox[j]
        /\ \A j \in 1..Len(inbox') : (j = n \/ j \in 1..Len(inbox)) /\ ~(j > n)
    BY DEF Sent
  <1>2. ASSUME c.f = "Reset"
        PROVE  ~NoReset' /\ \A k \in 1..Len(inbox') : ~LastPart(k)'
    <2>1. ~NoReset'
      BY <1>1, <1>2 DEF NoReset, F, Pos
    <2>2. ASSUME NEW k \in 1..Len(inbox'), LastPart(k)'
          PROVE  FALSE
      <3>1. n < k
        BY <1>1, <1>2, <2>2 DEF LastPart, F, Pos
      <3> QED
        BY <1>1, <3>1
    <2> QED
      BY <2>1, <2>2
  <1>3. ASSUME c.f # "Reset"
        PROVE  /\ NoReset' <=> NoReset
               /\ LastPart(n)'
               /\ \A k \in 1..Len(inbox) : LastPart(k)' <=> LastPart(k)
    <2>1. \A j \in 1..Len(inbox') : inbox'[j].cmd.f = "Reset" => j \in 1..Len(inbox)
      BY <1>1, <1>3
    <2>2. NoReset' <=> NoReset
      BY <1>1, <2>1 DEF NoReset, F, Pos
    <2>3. LastPart(n)'
      BY <1>1, <2>1 DEF LastPart, F, Pos
    <2>4. \A k \in 1..Len(inbox) : LastPart(k)' <=> LastPart(k)
      BY <1>1, <2>1 DEF LastPart, F, Pos
    <2> QED
      BY <2>2, <2>3, <2>4
  <1> QED
    BY <1>2, <1>3

\* A command f is in the last part of the queue.
LEMMA FlagSent ==
  ASSUME NEW n \in Nat, NEW c \in Commands, Sent(n, c), NEW f, f # "Reset"
  PROVE  /\ NoReset' <=> NoReset /\ c.f # "Reset"
         /\ (\E k \in 1..Len(inbox') : inbox'[k].cmd.f = f /\ LastPart(k)')
              <=> c.f = f \/ (c.f # "Reset" /\ \E k \in 1..Len(inbox) : inbox[k].cmd.f = f /\ LastPart(k))
  <1>1. /\ n \in 1..Len(inbox') /\ inbox'[n].cmd = c
        /\ \A j \in 1..Len(inbox) : j \in 1..Len(inbox') /\ inbox'[j] = inbox[j]
        /\ \A j \in 1..Len(inbox') : j = n \/ j \in 1..Len(inbox)
    BY DEF Sent
  <1>2. CASE c.f = "Reset"
    BY <1>2, PartSent
  <1>3. CASE c.f # "Reset"
    <2>1. /\ NoReset' <=> NoReset
          /\ LastPart(n)'
          /\ \A k \in 1..Len(inbox) : LastPart(k)' <=> LastPart(k)
      BY <1>3, PartSent
    <2> QED
      BY <1>1, <1>3, <2>1
  <1> QED
    BY <1>2, <1>3

\* Sending a command keeps what the host relies on.
LEMMA SetupSent ==
  ASSUME LinkTypeOK, AccTypeOK, SetupInv, NEW c \in Commands, UNCHANGED <<objs, fw_map>>,
         inbox' = Append(inbox, [id |-> sent + 1, cmd |-> c]), host' = Noted(c)
  PROVE  SetupInv'
  <1>1. PICK n \in Nat : Sent(n, c)
    BY SentIs
  <1>2. /\ n = Len(inbox) + 1 /\ Len(inbox') = n /\ n \in 1..Len(inbox') /\ inbox'[n].cmd = c
        /\ \A j \in 1..Len(inbox) : j \in 1..Len(inbox') /\ j < n /\ inbox'[j] = inbox[j]
        /\ \A j \in 1..Len(inbox') : (j = n \/ j \in 1..Len(inbox)) /\ ~(j > n)
    BY <1>1 DEF Sent
  <1>3. PICK g \in Hosts :
           /\ g = Noted(c)
           /\ g.sent = IF c.f = "SendFw" THEN c.fw ELSE host.sent
           /\ g.fw = IF c.f = "SetFw" THEN host.sent ELSE IF c.f = "Reset" THEN NoFirmware ELSE host.fw
           /\ g.inp = IF c.f = "ReadLba" THEN TRUE ELSE IF c.f = "Reset" THEN FALSE ELSE host.inp
           /\ g.out = IF c.f = "WriteLba" THEN TRUE ELSE IF c.f = "Reset" THEN FALSE ELSE host.out
    BY NotedIs
  <1>4. host' = g
    BY <1>3
  <1>5. PICK h \in Hosts : h = host
    BY DEF LinkTypeOK
  <1>6. PICK a \in Accs : a = objs[acc0]
    BY Acc0
  <1>7. /\ g.inp \in BOOLEAN /\ g.out \in BOOLEAN /\ h.inp \in BOOLEAN /\ h.out \in BOOLEAN
        /\ a.ramdisk_in \in BOOLEAN /\ a.ramdisk_out \in BOOLEAN
    BY DEF Hosts, Accs
  <1>8. /\ g.inp <=> c.f = "ReadLba" \/ (c.f # "Reset" /\ h.inp)
        /\ g.out <=> c.f = "WriteLba" \/ (c.f # "Reset" /\ h.out)
    BY <1>3, <1>5, <1>7
  <1>9. /\ h.inp <=> (NoReset /\ a.ramdisk_in) \/ \E k \in 1..Len(inbox) : inbox[k].cmd.f = "ReadLba" /\ LastPart(k)
        /\ h.out <=> (NoReset /\ a.ramdisk_out) \/ \E k \in 1..Len(inbox) : inbox[k].cmd.f = "WriteLba" /\ LastPart(k)
    BY <1>5, <1>6, Zenon DEF SetupInv, F, Pos
  <1>11. g.inp <=> (NoReset' /\ a.ramdisk_in) \/ \E k \in 1..Len(inbox') : inbox'[k].cmd.f = "ReadLba" /\ LastPart(k)'
    <2>1. "ReadLba" # "Reset"
      OBVIOUS
    <2>2. /\ NoReset' <=> NoReset /\ c.f # "Reset"
          /\ (\E k \in 1..Len(inbox') : inbox'[k].cmd.f = "ReadLba" /\ LastPart(k)')
               <=> c.f = "ReadLba" \/ (c.f # "Reset" /\ \E k \in 1..Len(inbox) : inbox[k].cmd.f = "ReadLba" /\ LastPart(k))
      BY <1>1, <2>1, FlagSent
    <2>3. c.f = "ReadLba" => c.f # "Reset"
      OBVIOUS
    <2> QED
      BY <1>8, <1>9, <2>2, <2>3, Zenon
  <1>12. g.out <=> (NoReset' /\ a.ramdisk_out) \/ \E k \in 1..Len(inbox') : inbox'[k].cmd.f = "WriteLba" /\ LastPart(k)'
    <2>1. "WriteLba" # "Reset"
      OBVIOUS
    <2>2. /\ NoReset' <=> NoReset /\ c.f # "Reset"
          /\ (\E k \in 1..Len(inbox') : inbox'[k].cmd.f = "WriteLba" /\ LastPart(k)')
               <=> c.f = "WriteLba" \/ (c.f # "Reset" /\ \E k \in 1..Len(inbox) : inbox[k].cmd.f = "WriteLba" /\ LastPart(k))
      BY <1>1, <2>1, FlagSent
    <2>3. c.f = "WriteLba" => c.f # "Reset"
      OBVIOUS
    <2> QED
      BY <1>8, <1>9, <2>2, <2>3, Zenon
  <1>13. a = objs'[acc0']
    BY <1>6 DEF acc0
  <1>14. (host.inp <=> (NoReset /\ objs[acc0].ramdisk_in) \/ \E k \in Pos : F(k) = "ReadLba" /\ LastPart(k))'
    BY <1>4, <1>11, <1>13, Zenon DEF F, Pos
  <1>15. (host.out <=> (NoReset /\ objs[acc0].ramdisk_out) \/ \E k \in Pos : F(k) = "WriteLba" /\ LastPart(k))'
    BY <1>4, <1>12, <1>13, Zenon DEF F, Pos
  <1>16. PICK s : s = host.sent
    OBVIOUS
  <1>17. FirmwareAt(n, s) /\ n \in 1..(n + 1) /\ n + 1 \in 1..(n + 1)
    BY <1>2, <1>16 DEF SetupInv
  <1>18. PICK t : t = g.sent
    OBVIOUS
  <1>19. FirmwareAt(n + 1, t)'
    <2>1. CASE c.f = "SendFw"
      <3>1. n < n + 1 /\ inbox'[n].cmd.f = "SendFw" /\ inbox'[n].cmd.fw = t
        BY <1>2, <1>3, <1>18, <2>1
      <3>2. \A i \in 1..Len(inbox') : i > n /\ i < n + 1 => inbox'[i].cmd.f # "SendFw"
        BY <1>2
      <3> QED
        BY <1>2, <3>1, <3>2 DEF FirmwareAt, F, Pos
    <2>2. CASE c.f # "SendFw"
      <3>1. t = s
        BY <1>3, <1>16, <1>18, <2>2
      <3>2. FirmwareAt(n + 1, s)
        <4>1. \A j \in 1..Len(inbox) : j < n /\ j < n + 1
          BY <1>2
        <4> QED
          BY <1>17, <4>1 DEF FirmwareAt, F, Pos
      <3>3. FirmwareAt(n + 1, s)'
        BY <1>1, <1>17, <2>2, <3>2, FirmwareSent
      <3> QED
        BY <3>1, <3>3
    <2> QED
      BY <2>1, <2>2
  <1>20. FirmwareAt(Len(inbox) + 1, host.sent)'
    BY <1>2, <1>4, <1>18, <1>19, Zenon
  <1>21. PICK v : v = g.fw
    OBVIOUS
  <1>22. ASSUME NEW k \in 1..Len(inbox'), inbox'[k].cmd.f = "SetFw", LastPart(k)',
                \A j \in 1..Len(inbox') : j > k => inbox'[j].cmd.f # "SetFw"
         PROVE  FirmwareAt(k, v)'
    <2>1. c.f # "Reset"
      BY <1>1, <1>22, PartSent
    <2>2. /\ NoReset' <=> NoReset
          /\ LastPart(n)'
          /\ \A j \in 1..Len(inbox) : LastPart(j)' <=> LastPart(j)
      BY <1>1, <2>1, PartSent
    <2>3. k \in 1..(n + 1) /\ k # n + 1
      BY <1>2
    <2>4. CASE k = n
      <3>1. c.f = "SetFw"
        BY <1>2, <1>22, <2>4
      <3>2. v = s
        BY <1>3, <1>16, <1>21, <3>1
      <3>3. FirmwareAt(k, v)
        BY <1>17, <2>4, <3>2
      <3> QED
        BY <1>1, <2>3, <3>3, FirmwareSent
    <2>5. CASE k # n
      <3>1. k \in 1..Len(inbox) /\ n > k
        BY <1>2, <2>5
      <3>2. c.f # "SetFw"
        BY <1>2, <1>22, <3>1
      <3>3. v = host.fw
        BY <1>3, <1>21, <2>1, <3>2
      <3>4. inbox[k].cmd.f = "SetFw" /\ LastPart(k) /\ \A j \in 1..Len(inbox) : j > k => inbox[j].cmd.f # "SetFw"
        BY <1>2, <1>22, <2>2, <3>1
      <3>5. FirmwareAt(k, v)
        BY <3>1, <3>3, <3>4 DEF SetupInv, F, Pos
      <3> QED
        BY <1>1, <2>3, <3>5, FirmwareSent
    <2> QED
      BY <2>4, <2>5
  <1>23. ASSUME \A k \in 1..Len(inbox') : inbox'[k].cmd.f = "SetFw" => ~LastPart(k)'
         PROVE  g.fw = IF NoReset' THEN a.firmware ELSE NoFirmware
    <2>1. CASE c.f = "Reset"
      <3>1. ~NoReset'
        BY <1>1, <2>1, PartSent
      <3> QED
        BY <1>3, <2>1, <3>1
    <2>2. CASE c.f # "Reset"
      <3>1. /\ NoReset' <=> NoReset
            /\ LastPart(n)'
            /\ \A j \in 1..Len(inbox) : LastPart(j)' <=> LastPart(j)
        BY <1>1, <2>2, PartSent
      <3>2. c.f # "SetFw"
        BY <1>2, <1>23, <3>1
      <3>3. \A k \in 1..Len(inbox) : inbox[k].cmd.f = "SetFw" => ~LastPart(k)
        BY <1>2, <1>23, <3>1
      <3>4. host.fw = IF NoReset THEN a.firmware ELSE NoFirmware
        BY <1>6, <3>3 DEF SetupInv, F, Pos
      <3> QED
        BY <1>3, <2>2, <3>1, <3>2, <3>4
    <2> QED
      BY <2>1, <2>2
  <1>24. (\A k \in Pos : /\ F(k) = "SetFw" /\ LastPart(k)
                         /\ \A j \in Pos : j > k => F(j) # "SetFw"
                         => FirmwareAt(k, host.fw))'
    BY <1>4, <1>21, <1>22, Zenon DEF F, Pos
  <1>25. ((\A k \in Pos : F(k) = "SetFw" => ~LastPart(k)) =>
            host.fw = IF NoReset THEN objs[acc0].firmware ELSE NoFirmware)'
    BY <1>4, <1>13, <1>23, Zenon DEF F, Pos
  <1> QED
    BY <1>14, <1>15, <1>20, <1>24, <1>25, Zenon DEF SetupInv

\* A step that sends and handles nothing.
LEMMA SetupKept ==
  ASSUME SetupInv, UNCHANGED <<inbox, fw_map>>,
         NEW a \in Accs, NEW o \in Accs, a = objs[acc0], o = objs'[acc0'],
         NEW h \in Hosts, NEW g \in Hosts, h = host, g = host',
         o.ramdisk_in = a.ramdisk_in /\ o.ramdisk_out = a.ramdisk_out /\ o.firmware = a.firmware,
         g.inp = h.inp /\ g.out = h.out /\ g.sent = h.sent /\ g.fw = h.fw
  PROVE  SetupInv'
  <1>1. NoReset' <=> NoReset
    BY DEF NoReset, F, Pos
  <1>2. \A k \in 1..Len(inbox) : LastPart(k)' <=> LastPart(k)
    BY DEF LastPart, F, Pos
  <1>3. ASSUME NEW k, NEW fw, FirmwareAt(k, fw)
        PROVE  FirmwareAt(k, fw)'
    BY <1>3 DEF FirmwareAt, F, Pos
  <1>4. (host.inp <=> (NoReset /\ objs[acc0].ramdisk_in) \/ \E k \in Pos : F(k) = "ReadLba" /\ LastPart(k))'
    <2>1. h.inp <=> (NoReset /\ a.ramdisk_in) \/ \E k \in 1..Len(inbox) : inbox[k].cmd.f = "ReadLba" /\ LastPart(k)
      BY Zenon DEF SetupInv, F, Pos
    <2>2. g.inp <=> (NoReset' /\ o.ramdisk_in) \/ \E k \in 1..Len(inbox) : inbox[k].cmd.f = "ReadLba" /\ LastPart(k)'
      BY <1>1, <1>2, <2>1, Zenon
    <2> QED
      BY <2>2, Zenon DEF F, Pos
  <1>5. (host.out <=> (NoReset /\ objs[acc0].ramdisk_out) \/ \E k \in Pos : F(k) = "WriteLba" /\ LastPart(k))'
    <2>1. h.out <=> (NoReset /\ a.ramdisk_out) \/ \E k \in 1..Len(inbox) : inbox[k].cmd.f = "WriteLba" /\ LastPart(k)
      BY Zenon DEF SetupInv, F, Pos
    <2>2. g.out <=> (NoReset' /\ o.ramdisk_out) \/ \E k \in 1..Len(inbox) : inbox[k].cmd.f = "WriteLba" /\ LastPart(k)'
      BY <1>1, <1>2, <2>1, Zenon
    <2> QED
      BY <2>2, Zenon DEF F, Pos
  <1>6. PICK n, s, v : n = Len(inbox) + 1 /\ s = h.sent /\ v = h.fw
    OBVIOUS
  <1>7. FirmwareAt(Len(inbox) + 1, host.sent)'
    <2>1. FirmwareAt(n, s)
      BY <1>6, Zenon DEF SetupInv
    <2>2. FirmwareAt(n, s)'
      BY <1>3, <2>1
    <2> QED
      BY <1>6, <2>2, Zenon
  <1>8. (\A k \in Pos : /\ F(k) = "SetFw" /\ LastPart(k)
                        /\ \A j \in Pos : j > k => F(j) # "SetFw"
                        => FirmwareAt(k, host.fw))'
    <2>1. ASSUME NEW k \in 1..Len(inbox), inbox[k].cmd.f = "SetFw", LastPart(k)',
                 \A j \in 1..Len(inbox) : j > k => inbox[j].cmd.f # "SetFw"
          PROVE  FirmwareAt(k, v)'
      <3>1. LastPart(k)
        BY <1>2, <2>1
      <3>2. FirmwareAt(k, v)
        BY <1>6, <2>1, <3>1, Zenon DEF SetupInv, F, Pos
      <3> QED
        BY <1>3, <3>2
    <2> QED
      BY <1>6, <2>1, Zenon DEF F, Pos
  <1>9. ((\A k \in Pos : F(k) = "SetFw" => ~LastPart(k)) =>
            host.fw = IF NoReset THEN objs[acc0].firmware ELSE NoFirmware)'
    <2>1. ASSUME \A k \in 1..Len(inbox) : inbox[k].cmd.f = "SetFw" => ~LastPart(k)'
          PROVE  g.fw = IF NoReset' THEN o.firmware ELSE NoFirmware
      <3>1. \A k \in 1..Len(inbox) : inbox[k].cmd.f = "SetFw" => ~LastPart(k)
        BY <1>2, <2>1
      <3>2. h.fw = IF NoReset THEN a.firmware ELSE NoFirmware
        BY <3>1, Zenon DEF SetupInv, F, Pos
      <3> QED
        BY <1>1, <3>2
    <2> QED
      BY <2>1, Zenon DEF F, Pos
  <1> QED
    BY <1>4, <1>5, <1>7, <1>8, <1>9, Zenon DEF SetupInv

-----------------------------------------------------------------------------
(* What the run of the accelerator computes                                *)

\* A step that changes nothing the result depends on.
LEMMA ResultKept ==
  ASSUME ResultInv, UNCHANGED <<objs, runs, host, ramdisk, inbox>>
  PROVE  ResultInv'
  BY DEF ResultInv, Used, acc0, Quiet

\* The host writes the input blocks: not while a run may read them.
LEMMA WritesKeepResult ==
  ASSUME ResultInv, UNCHANGED <<objs, runs, host, inbox>>, host.acc # "started",
         ramdisk'.out = ramdisk.out
  PROVE  ResultInv'
  BY DEF ResultInv, Used, acc0, Quiet

\* The host learns that the run has ended.
LEMMA LearnsKeepsResult ==
  ASSUME ResultInv, UNCHANGED <<objs, runs, ramdisk, inbox>>,
         host'.acc = host.acc \/ (host.acc = "started" /\ host'.acc \in {"done", "fail"}),
         host'.fw = host.fw, host'.inp = host.inp, host'.out = host.out, host'.data = host.data
  PROVE  ResultInv'
  BY DEF ResultInv, RunIs, Used, acc0, Quiet

\* A careful host sends a command.
LEMMA SendKeepsResult ==
  ASSUME LinkTypeOK, AccTypeOK, ResultInv, NEW c \in Commands, Careful(c),
         UNCHANGED <<objs, runs, ramdisk>>,
         inbox' = Append(inbox, [id |-> sent + 1, cmd |-> c]), host' = Noted(c)
  PROVE  ResultInv'
  <1>1. PICK n \in Nat : Sent(n, c)
    BY SentIs
  <1>2. /\ n \in 1..Len(inbox') /\ inbox'[n].cmd = c
        /\ \A j \in 1..Len(inbox) : j \in 1..Len(inbox') /\ inbox'[j] = inbox[j]
    BY <1>1 DEF Sent
  <1>3. Quiet' => Quiet /\ c.f \notin Changes
    BY <1>2 DEF Quiet
  <1>4. PICK g \in Hosts :
           /\ g = Noted(c)
           /\ g.acc = IF c.f = "Start" THEN "started" ELSE IF c.f = "Reset" THEN "fresh" ELSE host.acc
           /\ g.fw = IF c.f = "SetFw" THEN host.sent ELSE IF c.f = "Reset" THEN NoFirmware ELSE host.fw
           /\ g.inp = IF c.f = "ReadLba" THEN TRUE ELSE IF c.f = "Reset" THEN FALSE ELSE host.inp
           /\ g.out = IF c.f = "WriteLba" THEN TRUE ELSE IF c.f = "Reset" THEN FALSE ELSE host.out
           /\ g.data = IF c.f = "Start" THEN (IF host.inp THEN ramdisk.inp ELSE NoData)
                       ELSE IF c.f = "Reset" THEN NoData ELSE host.data
    BY NotedIs
  <1>5. host' = g
    BY <1>4
  <1>6. c.f \in Setup \cup {"Start"} => host.acc = "fresh"
    BY DEF Careful, Setup
  <1>7. g.acc = "started" => g.data = IF g.inp THEN ramdisk.inp ELSE NoData
    BY <1>4, <1>6 DEF ResultInv, Setup
  <1>8. c.f \notin Changes => g.acc = host.acc /\ g.fw = host.fw /\ g.inp = host.inp /\ g.out = host.out /\ g.data = host.data
    BY <1>4 DEF Changes, Setup
  <1>9. acc0' = acc0 /\ Used' = Used
    BY DEF acc0, Used
  <1>10. ASSUME NEW r \in 1..Len(runs), runs[r].obj = acc0, g.acc # "fresh", Quiet'
         PROVE  RunIs(objs[acc0], runs[r], g, ramdisk.out)
    <2>1. RunIs(objs[acc0], runs[r], host, ramdisk.out)
      BY <1>3, <1>8, <1>10 DEF ResultInv
    <2> QED
      BY <1>3, <1>8, <1>10, <2>1 DEF RunIs
  <1>11. ~Used => objs[acc0].ibuf = NoData
    BY DEF ResultInv
  <1> QED
    BY <1>5, <1>7, <1>9, <1>10, <1>11 DEF ResultInv

\* A command that does not change the accelerator is handled.
LEMMA OtherKeepsResult ==
  ASSUME LinkTypeOK, ResultInv, inbox # <<>>, inbox' = Tail(inbox), inbox[1].cmd.f \notin Changes,
         UNCHANGED <<objs, runs, ramdisk, host>>
  PROVE  ResultInv'
  <1>1. \A j \in 1..Len(inbox) : j # 1 => j - 1 \in 1..Len(inbox') /\ inbox'[j - 1] = inbox[j]
    BY TailIs
  <1>2. Quiet' => Quiet
    BY <1>1 DEF Quiet
  <1>3. acc0' = acc0 /\ Used' = Used
    BY DEF acc0, Used
  <1> QED
    BY <1>2, <1>3 DEF ResultInv

\* The accelerator is set up, or a new one takes its place: it has not been started.
LEMMA FreshKeepsResult ==
  ASSUME ResultInv, ~Used', objs'[acc0'].ibuf = NoData, UNCHANGED <<host, ramdisk>>
  PROVE  ResultInv'
  BY DEF ResultInv, Used

\* START is handled.
LEMMA StartKeepsResult ==
  ASSUME AccTypeOK, ResultInv, ~Used, start, host' = host
  PROVE  ResultInv'
  <1>1. /\ Len(runs) \in Nat /\ Len(runs') = Len(runs) + 1
        /\ runs'[Len(runs) + 1] = NewRun
        /\ \A r \in 1..Len(runs) : runs'[r] = runs[r]
        /\ objs' = objs
    BY StartShape, Zenon
  <1>2. NewRun.obj = acc0 /\ NewRun.pc = "start"
    BY DEF NewRun
  <1> HIDE DEF NewRun
  <1>3. ramdisk' = ramdisk /\ acc0' = acc0 /\ objs[acc0].ibuf = NoData
    BY <1>1 DEF start, ResultInv, acc0
  <1>4. \A r \in 1..Len(runs') : runs'[r].obj = acc0 => r = Len(runs) + 1
    BY <1>1 DEF Used
  <1>5. RunIs(objs[acc0], NewRun, host, ramdisk.out)
    BY <1>2, <1>3 DEF RunIs
  <1>6. Used'
    <2>1. Len(runs) + 1 \in 1..Len(runs') /\ runs'[Len(runs) + 1].obj = acc0'
      BY <1>1, <1>2, <1>3
    <2> QED
      BY <2>1 DEF Used
  <1>7. \A r \in 1..Len(runs') : runs'[r].obj = acc0 => RunIs(objs[acc0], runs'[r], host, ramdisk.out)
    BY <1>1, <1>4, <1>5
  <1> QED
    BY <1>1, <1>3, <1>6, <1>7 DEF ResultInv

\* When no command on its way changes the accelerator, it is set up as the host has noted.
LEMMA SetUpAsNoted ==
  ASSUME SetupInv, Quiet, NEW a \in Accs, a = objs[acc0], NEW h \in Hosts, h = host
  PROVE  h.inp = a.ramdisk_in /\ h.out = a.ramdisk_out /\ h.fw = a.firmware
  <1>1. \A k \in 1..Len(inbox) : inbox[k].cmd.f \notin {"SetFw", "ReadLba", "WriteLba", "Reset"}
    BY DEF Quiet, Changes, Setup
  <1>2. NoReset
    BY <1>1 DEF NoReset, F, Pos
  <1>3. h.inp \in BOOLEAN /\ h.out \in BOOLEAN /\ a.ramdisk_in \in BOOLEAN /\ a.ramdisk_out \in BOOLEAN
    BY DEF Hosts, Accs
  <1>4. /\ h.inp <=> (NoReset /\ a.ramdisk_in) \/ \E k \in 1..Len(inbox) : inbox[k].cmd.f = "ReadLba" /\ LastPart(k)
        /\ h.out <=> (NoReset /\ a.ramdisk_out) \/ \E k \in 1..Len(inbox) : inbox[k].cmd.f = "WriteLba" /\ LastPart(k)
    BY Zenon DEF SetupInv, F, Pos
  <1>5. h.inp = a.ramdisk_in /\ h.out = a.ramdisk_out
    BY <1>1, <1>2, <1>3, <1>4
  <1>6. \A k \in 1..Len(inbox) : inbox[k].cmd.f = "SetFw" => ~LastPart(k)
    BY <1>1
  <1>7. h.fw = a.firmware
    BY <1>2, <1>6 DEF SetupInv, F, Pos
  <1> QED
    BY <1>5, <1>7

\* A step of the run of the accelerator in use.
LEMMA RunIsStep ==
  ASSUME NEW a \in Accs, NEW p \in Runs, NEW o \in Accs, NEW q \in Runs, NEW h \in Hosts,
         RunsOn(a, p, o, q), RunIs(a, p, h, ramdisk.out),
         p.pc # "log" => /\ h.data = IF h.inp THEN ramdisk.inp ELSE NoData
                         /\ h.inp = a.ramdisk_in /\ h.out = a.ramdisk_out /\ h.fw = a.firmware
  PROVE  RunIs(o, q, h, ramdisk'.out)
  <1>1. CASE /\ p.pc = "start" /\ q.pc = "load" /\ o.state = "running"
             /\ o.ibuf = a.ibuf /\ o.obuf = a.obuf /\ q.fw = p.fw /\ q.ok = p.ok /\ ramdisk' = ramdisk
    BY <1>1 DEF RunIs
  <1>2. CASE /\ p.pc = "load" /\ q.pc = "ended" /\ o.state = "fail"
    BY <1>2 DEF RunIs
  <1>3. CASE /\ p.pc = "load" /\ q.pc = "in" /\ o = a /\ q.fw = a.firmware /\ q.ok = p.ok
             /\ ramdisk' = ramdisk
    BY <1>3 DEF RunIs
  <1>4. CASE /\ p.pc = "in" /\ q.pc = "exec" /\ o.state = a.state /\ o.obuf = a.obuf
             /\ o.ibuf = IF a.ramdisk_in THEN ramdisk.inp ELSE a.ibuf
             /\ q.fw = p.fw /\ q.ok = p.ok /\ ramdisk' = ramdisk
    BY <1>4 DEF RunIs
  <1>5. CASE /\ p.pc = "exec" /\ q.pc = "out" /\ o.state = a.state /\ o.ibuf = a.ibuf
             /\ ~a.ramdisk_out => o.obuf = a.obuf
             /\ a.ramdisk_out /\ q.ok => o.obuf = Result(p.fw, a.ibuf)
             /\ q.fw = p.fw /\ ramdisk' = ramdisk
    BY <1>5 DEF RunIs
  <1>6. CASE /\ p.pc = "out" /\ q.pc = "done" /\ o = a /\ q.fw = p.fw /\ q.ok = p.ok
             /\ ramdisk'.inp = ramdisk.inp
             /\ a.ramdisk_out => ramdisk'.out = a.obuf
    BY <1>6 DEF RunIs
  <1>7. CASE /\ p.pc = "done" /\ q.pc = "log" /\ o.state = "done"
             /\ o.ibuf = a.ibuf /\ o.obuf = a.obuf /\ q.fw = p.fw /\ q.ok = p.ok /\ ramdisk' = ramdisk
    BY <1>7 DEF RunIs
  <1>8. CASE /\ p.pc = "log" /\ q.pc = "ended" /\ o = a /\ q.fw = p.fw /\ q.ok = p.ok
             /\ ramdisk' = ramdisk
    BY <1>8 DEF RunIs
  <1> QED
    BY <1>1, <1>2, <1>3, <1>4, <1>5, <1>6, <1>7, <1>8 DEF RunsOn

\* A run goes on.
LEMMA RunKeepsResult ==
  ASSUME AccTypeOK, LinkTypeOK, RunsInv, SetupInv, ResultInv, NEW r \in 1..Len(runs), RunStep(r),
         UNCHANGED <<inbox, host>>
  PROVE  SetupInv' /\ ResultInv'
  <1>1. PICK n \in 1..Len(objs), a \in Accs, p \in Runs, o \in Accs, q \in Runs :
          /\ n = runs[r].obj /\ a = objs[n] /\ p = runs[r] /\ RunsOn(a, p, o, q)
          /\ objs' = [objs EXCEPT ![n] = o] /\ runs' = [runs EXCEPT ![r] = q]
          /\ fw_map' = fw_map
    BY RunShape
  <1>2. /\ o.live = a.live /\ o.ramdisk_in = a.ramdisk_in /\ o.ramdisk_out = a.ramdisk_out
        /\ o.firmware = a.firmware /\ q.obj = p.obj /\ ramdisk'.inp = ramdisk.inp
        /\ p.pc = "log" => ramdisk' = ramdisk
        /\ p.pc \notin {"log", "ended"} <=> p.pc # "log"
    BY <1>1 DEF RunsOn
  <1>3. /\ acc0' = acc0 /\ objs'[n] = o /\ \A i \in 1..Len(objs) : i # n => objs'[i] = objs[i]
    BY <1>1, <1>2, ObjSet
  <1>4. runs \in Seq(Runs) /\ Len(runs) \in Nat /\ acc0 \in 1..Len(objs)
    BY Acc0, LenProperties DEF AccTypeOK
  <1>5. /\ Len(runs') = Len(runs)
        /\ \A j \in 1..Len(runs) : runs'[j] = IF j = r THEN q ELSE runs[j]
    BY <1>1, <1>4, ExceptSeq
  <1>6. \A j \in 1..Len(runs) : runs'[j].obj = runs[j].obj
    BY <1>1, <1>2, <1>5
  <1>7. PICK h \in Hosts : h = host /\ h = host'
    BY DEF LinkTypeOK
  <1>8. p.pc # "log" => n = acc0 /\ host.acc = "started" /\ Quiet
    BY <1>1, <1>2 DEF RunsInv, Working, Quiet, F, Pos
  <1>9. PICK b \in Accs, c \in Accs :
          /\ b = objs[acc0] /\ c = objs'[acc0'] /\ c.ramdisk_in = b.ramdisk_in
          /\ c.ramdisk_out = b.ramdisk_out /\ c.firmware = b.firmware
          /\ n = acc0 => b = a /\ c = o
          /\ n # acc0 => b = c
    <2>1. CASE n = acc0
      BY <1>1, <1>2, <1>3, <2>1
    <2>2. CASE n # acc0
      BY <1>3, <1>4, <2>2, Acc0
    <2> QED
      BY <2>1, <2>2
  <1>10. SetupInv'
    BY <1>1, <1>7, <1>9, SetupKept
  <1>11. Used' <=> Used
    BY <1>3, <1>5, <1>6 DEF Used
  <1>12. ASSUME ~Used
         PROVE  c.ibuf = NoData
    <2>1. n # acc0
      BY <1>1, <1>12 DEF Used
    <2> QED
      BY <1>9, <1>12, <2>1 DEF ResultInv
  <1>13. host.acc = "started" => host.data = IF host.inp THEN ramdisk'.inp ELSE NoData
    BY <1>2 DEF ResultInv
  <1>14. Quiet' <=> Quiet
    BY DEF Quiet
  <1>15. ASSUME NEW j \in 1..Len(runs), runs[j].obj = acc0, host.acc # "fresh", Quiet
         PROVE  RunIs(c, runs'[j], h, ramdisk'.out)
    <2>1. RunIs(b, runs[j], h, ramdisk.out)
      BY <1>7, <1>9, <1>15 DEF ResultInv
    <2>2. CASE n = acc0
      <3>1. j = r
        BY <1>1, <1>15, <2>2 DEF RunsInv
      <3>2. runs'[j] = q /\ runs[j] = p
        BY <1>1, <1>5, <3>1
      <3>3. RunIs(a, p, h, ramdisk.out)
        BY <1>9, <2>1, <2>2, <3>2
      <3>4. ASSUME p.pc # "log"
            PROVE  /\ h.data = IF h.inp THEN ramdisk.inp ELSE NoData
                   /\ h.inp = a.ramdisk_in /\ h.out = a.ramdisk_out /\ h.fw = a.firmware
        <4>1. h.data = IF h.inp THEN ramdisk.inp ELSE NoData
          BY <1>7, <1>8, <3>4 DEF ResultInv
        <4>2. a = objs[acc0]
          BY <1>1, <2>2
        <4>3. h.inp = a.ramdisk_in /\ h.out = a.ramdisk_out /\ h.fw = a.firmware
          BY <1>7, <1>15, <4>2, SetUpAsNoted
        <4> QED
          BY <4>1, <4>3
      <3>5. RunIs(o, q, h, ramdisk'.out)
        BY <1>1, <3>3, <3>4, RunIsStep
      <3> QED
        BY <1>9, <2>2, <3>2, <3>5
    <2>3. CASE n # acc0
      <3>1. j # r /\ p.pc = "log"
        BY <1>1, <1>8, <1>15, <2>3
      <3>2. runs'[j] = runs[j] /\ ramdisk' = ramdisk
        BY <1>2, <1>5, <3>1
      <3> QED
        BY <1>9, <2>1, <2>3, <3>2
    <2> QED
      BY <2>2, <2>3
  <1>16. ResultInv'
    BY <1>3, <1>5, <1>6, <1>7, <1>9, <1>11, <1>12, <1>13, <1>14, <1>15 DEF ResultInv
  <1> QED
    BY <1>10, <1>16

\* A command that does not change the accelerator is handled.
LEMMA OtherKeepsData ==
  ASSUME TypeOK, SetupInv, ResultInv, inbox # <<>>, inbox' = Tail(inbox),
         inbox[1].cmd.f \notin Changes, UNCHANGED <<objs, runs, ramdisk, host>>,
         fw_map' = IF inbox[1].cmd.f = "SendFw" THEN inbox[1].cmd.fw ELSE fw_map
  PROVE  SetupInv' /\ ResultInv'
  <1>1. AccTypeOK /\ LinkTypeOK
    BY DEF TypeOK
  <1>2. PICK a \in Accs : a = objs[acc0] /\ a = objs'[acc0']
    BY <1>1, Acc0 DEF acc0
  <1>3. a.ramdisk_in \in BOOLEAN /\ a.ramdisk_out \in BOOLEAN
    BY DEF Accs
  <1>4. SetupMoves(a, a)
    BY <1>3 DEF SetupMoves, Changes, Setup
  <1>5. SetupInv'
    BY <1>1, <1>2, <1>4, SetupTail
  <1>6. ResultInv'
    BY <1>1, OtherKeepsResult
  <1> QED
    BY <1>5, <1>6

\* A command that sets the accelerator up is handled.
LEMMA SetupKeepsData ==
  ASSUME TypeOK, RunsInv, SetupInv, ResultInv, inbox # <<>>, inbox' = Tail(inbox), host' = host,
         inbox[1].cmd.f \in Setup,
         NEW a \in Accs, NEW o \in Accs, a = objs[acc0], SetsUp(o, a), SetupMoves(a, o)
  PROVE  SetupInv' /\ ResultInv'
  <1>1. AccTypeOK /\ LinkTypeOK
    BY DEF TypeOK
  <1>2. Len(inbox) \in Nat \ {0} /\ inbox[1].cmd.f # "SendFw"
    BY <1>1, CmdIs DEF Setup
  <1>3. ~Used
    BY <1>2, NotUsed
  <1>4. acc0 \in 1..Len(objs) /\ o.live = objs[acc0].live /\ objs' = [objs EXCEPT ![acc0] = o]
    BY <1>1, Acc0 DEF SetsUp
  <1>5. acc0' = acc0 /\ objs'[acc0] = o
    BY <1>1, <1>4, ObjSet
  <1>6. fw_map' = IF inbox[1].cmd.f = "SendFw" THEN inbox[1].cmd.fw ELSE fw_map
    BY <1>2, Zenon DEF SetsUp
  <1>7. SetupInv'
    BY <1>1, <1>5, <1>6, SetupTail
  <1>8. runs' = runs /\ ramdisk' = ramdisk /\ o.ibuf = a.ibuf
    BY Zenon DEF SetsUp
  <1>9. ~Used'
    BY <1>3, <1>5, <1>8 DEF Used
  <1>10. objs'[acc0'].ibuf = NoData
    BY <1>3, <1>5, <1>8 DEF ResultInv
  <1>11. ResultInv'
    BY <1>8, <1>9, <1>10, FreshKeepsResult
  <1> QED
    BY <1>7, <1>11

\* START is handled.
LEMMA StartKeepsData ==
  ASSUME TypeOK, RunsInv, SetupInv, ResultInv, inbox # <<>>, inbox' = Tail(inbox), host' = host,
         inbox[1].cmd.f = "Start", start
  PROVE  SetupInv' /\ ResultInv'
  <1>1. AccTypeOK /\ LinkTypeOK
    BY DEF TypeOK
  <1>2. Len(inbox) \in Nat \ {0} /\ inbox[1].cmd.f \in Setup \cup {"Start"}
    BY <1>1, CmdIs
  <1>3. ~Used
    BY <1>2, NotUsed
  <1>4. ResultInv'
    BY <1>1, <1>3, StartKeepsResult
  <1>5. objs' = objs /\ fw_map' = fw_map
    BY Zenon DEF start
  <1>6. PICK a \in Accs : a = objs[acc0] /\ a = objs'[acc0']
    BY <1>1, <1>5, Acc0 DEF acc0
  <1>7. a.ramdisk_in \in BOOLEAN /\ a.ramdisk_out \in BOOLEAN
    BY DEF Accs
  <1>8. SetupMoves(a, a)
    BY <1>7 DEF SetupMoves
  <1>9. SetupInv'
    BY <1>1, <1>5, <1>6, <1>8, SetupTail
  <1> QED
    BY <1>4, <1>9

\* RESET is handled.
LEMMA ResetKeepsData ==
  ASSUME TypeOK, SetupInv, ResultInv, inbox # <<>>, inbox' = Tail(inbox), host' = host,
         inbox[1].cmd.f = "Reset", Reset
  PROVE  SetupInv' /\ ResultInv'
  <1>1. AccTypeOK /\ LinkTypeOK
    BY DEF TypeOK
  <1>2. acc0' = acc0 + 1 /\ objs'[acc0'] = NewAcc /\ UNCHANGED <<runs, fw_map, ramdisk>>
    BY <1>1, ResetShape
  <1>3. PICK a \in Accs : a = objs[acc0]
    BY <1>1, Acc0
  <1>4. NewAcc \in Accs
    BY DEF NewAcc, Accs, AccState, Outputs
  <1>5. SetupMoves(a, NewAcc) /\ NewAcc.ibuf = NoData
    BY DEF SetupMoves, NewAcc
  <1> HIDE DEF NewAcc
  <1>6. SetupInv'
    BY <1>1, <1>2, <1>3, <1>4, <1>5, SetupTail
  <1>7. acc0 \in Nat /\ acc0 = Len(objs) /\ \A r \in 1..Len(runs) : runs[r].obj \in 1..Len(objs)
    BY <1>1, Acc0 DEF acc0, AccTypeOK
  <1>8. \A r \in 1..Len(runs') : runs'[r].obj # acc0'
    BY <1>2, <1>7
  <1>9. ~Used'
    BY <1>8 DEF Used
  <1>10. objs'[acc0'].ibuf = NoData
    BY <1>2, <1>5
  <1>11. ResultInv'
    BY <1>2, <1>9, <1>10, FreshKeepsResult
  <1> QED
    BY <1>6, <1>11

\* The main loop, with a careful host; the buffer of the command was mapped.
LEMMA MainLoopData ==
  ASSUME TypeOK, QueueInv, RunsInv, SetupInv, ResultInv, MainLoop, ~unmapped'
  PROVE  SetupInv' /\ ResultInv'
  <1>1. AccTypeOK /\ LinkTypeOK
    BY DEF TypeOK
  <1>2. ASSUME NEW f, Command(f)
        PROVE  inbox # <<>> /\ inbox[1].cmd.f = f /\ Cmd = inbox[1].cmd
    BY <1>1, <1>2, CmdIs DEF Command
  <1>3. ASSUME NEW data, NEW head, send_ack(data, head)
        PROVE  inbox' = Tail(inbox) /\ host' = host
    BY <1>3, Zenon DEF send_ack
  <1>4. ASSUME Ack
        PROVE  inbox' = Tail(inbox) /\ host' = host
    BY <1>3, <1>4, Zenon DEF Ack
  <1>5. ASSUME NEW f, f \notin Changes, f # "SendFw", Command(f), UNCHANGED <<objs, runs, ramdisk, fw_map>>,
               inbox' = Tail(inbox), host' = host
        PROVE  SetupInv' /\ ResultInv'
    <2>1. inbox # <<>> /\ inbox[1].cmd.f \notin Changes /\ inbox[1].cmd.f # "SendFw"
      BY <1>2, <1>5
    <2> QED
      BY <1>5, <2>1, OtherKeepsData
  <1>6. ~CannotMap
    BY DEF CannotMap
  <1>7. CASE HandleSendFw
    <2>1. Command("SendFw") /\ Ack /\ fw_map' = Cmd.fw /\ UNCHANGED <<objs, runs, ramdisk>>
      BY <1>7, Zenon DEF HandleSendFw, io_cmd_send_fw
    <2>2. inbox # <<>> /\ inbox[1].cmd.f = "SendFw" /\ Cmd = inbox[1].cmd
      BY <1>2, <2>1
    <2>3. inbox[1].cmd.f \notin Changes
      BY <2>2 DEF Changes, Setup
    <2> QED
      BY <1>4, <2>1, <2>2, <2>3, OtherKeepsData
  <1>8. CASE HandleReadLba
    <2>1. Command("ReadLba") /\ Ack /\ io_cmd_read_lba
      BY <1>8, Zenon DEF HandleReadLba
    <2>2. inbox # <<>> /\ inbox[1].cmd.f = "ReadLba" /\ inbox' = Tail(inbox) /\ host' = host
      BY <1>2, <1>4, <2>1
    <2>3. PICK a \in Accs, o \in Accs :
             /\ a = objs[acc0] /\ SetsUp(o, a) /\ o.ramdisk_in
             /\ o.ramdisk_out = a.ramdisk_out /\ o.firmware = a.firmware
      BY <1>1, <2>1, ReadLbaShape
    <2>4. a.ramdisk_out \in BOOLEAN /\ o.ramdisk_in
      BY <2>3 DEF Accs
    <2>5. SetupMoves(a, o)
      BY <2>2, <2>3, <2>4 DEF SetupMoves
    <2>6. inbox[1].cmd.f \in Setup
      BY <2>2 DEF Setup
    <2> QED
      BY <2>2, <2>3, <2>5, <2>6, SetupKeepsData
  <1>9. CASE HandleWriteLba
    <2>1. Command("WriteLba") /\ Ack /\ io_cmd_write_lba
      BY <1>9, Zenon DEF HandleWriteLba
    <2>2. inbox # <<>> /\ inbox[1].cmd.f = "WriteLba" /\ inbox' = Tail(inbox) /\ host' = host
      BY <1>2, <1>4, <2>1
    <2>3. PICK a \in Accs, o \in Accs :
             /\ a = objs[acc0] /\ SetsUp(o, a) /\ o.ramdisk_out
             /\ o.ramdisk_in = a.ramdisk_in /\ o.firmware = a.firmware
      BY <1>1, <2>1, WriteLbaShape
    <2>4. a.ramdisk_in \in BOOLEAN /\ o.ramdisk_out
      BY <2>3 DEF Accs
    <2>5. SetupMoves(a, o)
      BY <2>2, <2>3, <2>4 DEF SetupMoves
    <2>6. inbox[1].cmd.f \in Setup
      BY <2>2 DEF Setup
    <2> QED
      BY <2>2, <2>3, <2>5, <2>6, SetupKeepsData
  <1>10. CASE HandleSetFw
    <2>1. Command("SetFw") /\ Ack /\ addFirmware
      BY <1>10, Zenon DEF HandleSetFw
    <2>2. inbox # <<>> /\ inbox[1].cmd.f = "SetFw" /\ inbox' = Tail(inbox) /\ host' = host
      BY <1>2, <1>4, <2>1
    <2>3. PICK a \in Accs, o \in Accs :
             /\ a = objs[acc0] /\ SetsUp(o, a) /\ o.firmware = fw_map
             /\ o.ramdisk_in = a.ramdisk_in /\ o.ramdisk_out = a.ramdisk_out
      BY <1>1, <2>1, SetFwShape
    <2>4. a.ramdisk_in \in BOOLEAN /\ a.ramdisk_out \in BOOLEAN
      BY DEF Accs
    <2>5. SetupMoves(a, o)
      BY <2>2, <2>3, <2>4 DEF SetupMoves
    <2>6. inbox[1].cmd.f \in Setup
      BY <2>2 DEF Setup
    <2> QED
      BY <2>2, <2>3, <2>5, <2>6, SetupKeepsData
  <1>11. CASE HandleStart
    <2>1. Command("Start") /\ Ack /\ start
      BY <1>11, Zenon DEF HandleStart
    <2>2. inbox # <<>> /\ inbox[1].cmd.f = "Start" /\ inbox' = Tail(inbox) /\ host' = host
      BY <1>2, <1>4, <2>1
    <2> QED
      BY <2>1, <2>2, StartKeepsData
  <1>12. CASE HandleReset
    <2>1. (Command("Reset") \/ Command("ReadFw")) /\ Ack /\ Reset
      BY <1>12, Zenon DEF HandleReset
    <2>2. inbox # <<>> /\ inbox[1].cmd.f \in {"Reset", "ReadFw"} /\ inbox' = Tail(inbox) /\ host' = host
      BY <1>2, <1>4, <2>1
    <2>3. 1 \in 1..Len(inbox)
      BY <1>1, <2>2, CmdIs
    <2>4. inbox[1].cmd.f = "Reset"
      BY <2>2, <2>3 DEF QueueInv, F, Pos
    <2> QED
      BY <2>1, <2>2, <2>4, ResetKeepsData
  <1>13. CASE HandleNothing
    <2>1. Command("Nothing") /\ Ack /\ UNCHANGED <<objs, runs, ramdisk, fw_map>>
      BY <1>13, Zenon DEF HandleNothing, accVars
    <2>2. "Nothing" \notin Changes /\ "Nothing" # "SendFw"
      BY DEF Changes, Setup
    <2> QED
      BY <1>4, <1>5, <2>1, <2>2
  <1>14. CASE HandleIdentify
    <2>1. Command("Identify") /\ send_ack(TRUE, "none") /\ UNCHANGED <<objs, runs, ramdisk, fw_map>>
      BY <1>14, Zenon DEF HandleIdentify, accVars
    <2>2. "Identify" \notin Changes /\ "Identify" # "SendFw"
      BY DEF Changes, Setup
    <2> QED
      BY <1>3, <1>5, <2>1, <2>2
  <1>15. CASE HandleStatus
    <2>1. /\ Command("Status") /\ adm_cmd_status(Cmd.rae)
          /\ send_ack(TRUE, IF Cmd.large THEN "unwritten" ELSE heads')
      BY <1>15, Zenon DEF HandleStatus
    <2>2. UNCHANGED <<objs, runs, ramdisk, fw_map>>
      BY <2>1, Zenon DEF adm_cmd_status
    <2>3. "Status" \notin Changes /\ "Status" # "SendFw"
      BY DEF Changes, Setup
    <2>4. inbox' = Tail(inbox) /\ host' = host
      BY <1>3, <2>1, Zenon
    <2> QED
      BY <1>5, <2>1, <2>2, <2>3, <2>4, Zenon
  <1>16. CASE HandleDownload
    <2>1. Command("Download") /\ Ack /\ UNCHANGED <<objs, runs, ramdisk, fw_map>>
      BY <1>16, Zenon DEF HandleDownload, accVars
    <2>2. "Download" \notin Changes /\ "Download" # "SendFw"
      BY DEF Changes, Setup
    <2> QED
      BY <1>4, <1>5, <2>1, <2>2
  <1>17. CASE HandleCommit
    <2>1. Command("Commit") /\ Ack /\ UNCHANGED <<objs, runs, ramdisk, fw_map>>
      BY <1>17, Zenon DEF HandleCommit, accVars
    <2>2. "Commit" \notin Changes /\ "Commit" # "SendFw"
      BY DEF Changes, Setup
    <2> QED
      BY <1>4, <1>5, <2>1, <2>2
  <1> QED
    BY <1>6, <1>7, <1>8, <1>9, <1>10, <1>11, <1>12, <1>13, <1>14, <1>15, <1>16, <1>17,
       Zenon DEF MainLoop

\* Nothing is on its way and nothing has been started.
LEMMA DataFresh ==
  ASSUME inbox = <<>>, runs = <<>>, objs = <<NewAcc>>, host = FreshHost, fw_map = NoFirmware
  PROVE  SetupInv /\ ResultInv
  <1>1. Len(inbox) = 0 /\ Len(runs) = 0 /\ 1..Len(inbox) = {}
    BY EmptySeq
  <1>2. /\ host.acc = "fresh" /\ host.inp = FALSE /\ host.out = FALSE /\ host.sent = NoFirmware
        /\ host.fw = NoFirmware
    BY DEF FreshHost
  <1>3. /\ objs[acc0].ibuf = NoData /\ objs[acc0].ramdisk_in = FALSE /\ objs[acc0].ramdisk_out = FALSE
        /\ objs[acc0].firmware = NoFirmware
    BY DEF acc0, NewAcc
  <1>4. FirmwareAt(Len(inbox) + 1, host.sent)
    BY <1>1, <1>2 DEF FirmwareAt, Pos
  <1>5. SetupInv
    BY <1>1, <1>2, <1>3, <1>4 DEF SetupInv, Pos, NoReset
  <1>6. ResultInv
    BY <1>1, <1>2, <1>3 DEF ResultInv
  <1> QED
    BY <1>5, <1>6

\* At first.
LEMMA DataInit ==
  ASSUME Init
  PROVE  DataInv
  <1>1. inbox = <<>> /\ runs = <<>> /\ objs = <<NewAcc>> /\ host = FreshHost /\ fw_map = NoFirmware
    BY DEF Init, LinkInit, AccInit
  <1> QED
    BY <1>1, DataFresh DEF DataInv

\* A loss of power.
LEMMA DataFreshNext ==
  ASSUME inbox' = <<>>, runs' = <<>>, objs' = <<NewAcc>>, host' = FreshHost, fw_map' = NoFirmware
  PROVE  SetupInv' /\ ResultInv'
  <1>1. Len(inbox') = 0 /\ Len(runs') = 0 /\ 1..Len(inbox') = {}
    BY EmptySeq
  <1>2. /\ host'.acc = "fresh" /\ host'.inp = FALSE /\ host'.out = FALSE /\ host'.sent = NoFirmware
        /\ host'.fw = NoFirmware
    BY DEF FreshHost
  <1>3. /\ objs'[acc0'].ibuf = NoData /\ objs'[acc0'].ramdisk_in = FALSE
        /\ objs'[acc0'].ramdisk_out = FALSE /\ objs'[acc0'].firmware = NoFirmware
    BY DEF acc0, NewAcc
  <1>4. FirmwareAt(Len(inbox) + 1, host.sent)'
    BY <1>1, <1>2 DEF FirmwareAt, Pos
  <1>5. SetupInv'
    BY <1>1, <1>2, <1>3, <1>4 DEF SetupInv, Pos, NoReset
  <1>6. ResultInv'
    BY <1>1, <1>2, <1>3 DEF ResultInv
  <1> QED
    BY <1>5, <1>6

\* The steps of Next.
LEMMA DataStep ==
  ASSUME Base, CarefulInv, DataInv, [Next]_vars
  PROVE  DataInv'
  <1>1. work' = work
    BY Zenon DEF Next, RpmsgInit, Hello, MainLoop, CannotMap, HandleSendFw, HandleReadLba, HandleWriteLba,
       HandleSetFw, HandleStart, HandleReset, HandleNothing, HandleIdentify, HandleStatus,
       HandleDownload, HandleCommit, Ack, send_ack, FlashThread, AccThread, AccThreadCrashes,
       Rpu, IrqHandler, PlatformPoll, EndpointCb, PollEnds, HostSends, HostWrites, PowerLoss, vars
  <1> SUFFICES ASSUME work.resets, ~unmapped'
               PROVE  SetupInv' /\ ResultInv'
    BY <1>1 DEF DataInv
  <1>2. TypeOK /\ LinkInv /\ AccTypeOK /\ LinkTypeOK /\ QueueInv /\ RunsInv
    BY DEF Base, TypeOK, CarefulInv
  <1>3. ASSUME unmapped' = unmapped
        PROVE  SetupInv /\ ResultInv
    BY <1>3 DEF DataInv
  <1>4. PICK a \in Accs, h \in Hosts : a = objs[acc0] /\ h = host
    BY <1>2, Acc0 DEF LinkTypeOK
  <1>5. ASSUME UNCHANGED <<inbox, fw_map, objs, host>>, SetupInv
        PROVE  SetupInv'
    <2>1. a = objs'[acc0'] /\ h = host'
      BY <1>4, <1>5 DEF acc0
    <2> QED
      BY <1>4, <1>5, <2>1, SetupKept
  <1>6. CASE RpmsgInit \/ Hello \/ FlashThread \/ IrqHandler \/ PlatformPoll \/ PollEnds \/ UNCHANGED vars
    <2>1. UNCHANGED <<objs, runs, fw_map, ramdisk, inbox, host, unmapped>>
      BY <1>6, Zenon DEF RpmsgInit, Hello, FlashThread, IrqHandler, PlatformPoll, PollEnds, vars,
         linkVars, accVars
    <2> QED
      BY <1>3, <1>5, <2>1, ResultKept
  <1>7. CASE MainLoop
    <2>1. CASE CannotMap
      BY <2>1 DEF CannotMap
    <2>2. CASE ~CannotMap
      <3>1. unmapped' = unmapped
        BY <1>7, <2>2, Zenon DEF MainLoop, HandleSendFw, HandleReadLba, HandleWriteLba, HandleSetFw,
           HandleStart, HandleReset, HandleNothing, HandleIdentify, HandleStatus, HandleDownload,
           HandleCommit, Ack
      <3> QED
        BY <1>2, <1>3, <1>7, <3>1, MainLoopData
    <2> QED
      BY <2>1, <2>2
  <1>8. ASSUME NEW r \in 1..MaxRun, r \in DOMAIN runs, AccThread(r) \/ AccThreadCrashes(r)
        PROVE  SetupInv' /\ ResultInv'
    <2>1. UNCHANGED <<inbox, host, unmapped>>
      BY <1>8, Zenon DEF AccThread, AccThreadCrashes, linkVars
    <2>2. CASE AccThreadCrashes(r)
      <3>1. UNCHANGED <<objs, runs, fw_map, ramdisk>>
        BY <2>2, Zenon DEF AccThreadCrashes, RunCannotMap
      <3> QED
        BY <1>3, <1>5, <2>1, <3>1, ResultKept
    <2>3. CASE AccThread(r)
      <3>1. RunStep(r) /\ r \in 1..Len(runs)
        BY <1>2, <1>8, <2>3, LenProperties DEF AccThread, AccTypeOK
      <3> QED
        BY <1>2, <1>3, <2>1, <3>1, RunKeepsResult
    <2> QED
      BY <1>8, <2>2, <2>3
  <1>9. CASE EndpointCb
    <2>1. /\ acks # <<>> /\ host' = Learns(host, Head(acks))
          /\ UNCHANGED <<objs, runs, fw_map, ramdisk, inbox, unmapped>>
      BY <1>9, Zenon DEF EndpointCb, accVars
    <2>2. PICK m \in Messages : m = Head(acks)
      BY <1>2, <2>1, HeadTailProperties DEF LinkTypeOK
    <2>3. PICK g \in Hosts :
            /\ g = Learns(h, m)
            /\ g.acc = IF m.head \in {"done", "fail"} /\ h.acc = "started" /\ m.id > h.asked
                       THEN m.head ELSE h.acc
            /\ g.sent = h.sent /\ g.fw = h.fw /\ g.inp = h.inp /\ g.out = h.out /\ g.data = h.data
      BY LearnsIs
    <2>4. g = host'
      BY <1>4, <2>1, <2>2, <2>3
    <2>5. a = objs'[acc0']
      BY <1>4, <2>1 DEF acc0
    <2>6. SetupInv'
      BY <1>3, <1>4, <2>1, <2>3, <2>4, <2>5, SetupKept
    <2>7. g.acc = h.acc \/ (h.acc = "started" /\ g.acc \in {"done", "fail"})
      BY <2>3
    <2>8. ResultInv'
      BY <1>3, <1>4, <2>1, <2>3, <2>4, <2>7, LearnsKeepsResult
    <2> QED
      BY <2>6, <2>8
  <1>10. ASSUME sent < Len(work.script), NEW c \in work.script[sent + 1], HostSends(c)
         PROVE  SetupInv' /\ ResultInv'
    <2>1. /\ Careful(c) /\ UNCHANGED <<objs, runs, fw_map, ramdisk, unmapped>>
          /\ inbox' = Append(inbox, [id |-> sent + 1, cmd |-> c]) /\ host' = Noted(c)
      BY <1>10, Zenon DEF HostSends, accVars
    <2>2. work.script \in Seq(SUBSET Commands) /\ sent + 1 \in 1..Len(work.script)
      BY <1>2, <1>10, WorkIs, LenProperties DEF LinkTypeOK
    <2>3. c \in Commands
      BY <1>10, <2>2, ElementOfSeq
    <2>4. SetupInv'
      BY <1>2, <1>3, <2>1, <2>3, SetupSent
    <2>5. ResultInv'
      BY <1>2, <1>3, <2>1, <2>3, SendKeepsResult
    <2> QED
      BY <2>4, <2>5
  <1>11. ASSUME NEW d \in Data, HostWrites(d)
         PROVE  SetupInv' /\ ResultInv'
    <2>1. UNCHANGED <<objs, runs, fw_map, inbox, host, unmapped>> /\ host.acc # "started"
      BY <1>11, Zenon DEF HostWrites, linkVars
    <2>2. ramdisk' = [ramdisk EXCEPT !.inp = d]
      BY <1>11, Zenon DEF HostWrites
    <2>3. ramdisk'.out = ramdisk.out
      BY <1>2, <2>2 DEF AccTypeOK
    <2> QED
      BY <1>3, <1>5, <2>1, <2>3, WritesKeepResult
  <1>12. CASE PowerLoss
    <2>1. inbox' = <<>> /\ runs' = <<>> /\ objs' = <<NewAcc>> /\ host' = FreshHost /\ fw_map' = NoFirmware
      BY <1>12, Zenon DEF PowerLoss
    <2> QED
      BY <2>1, DataFreshNext
  <1> QED
    BY <1>6, <1>7, <1>8, <1>9, <1>10, <1>11, <1>12, Zenon DEF Next, Rpu

\* When a careful host has been told that the accelerator is done, the RAM disk holds
\* what the firmware it set makes of the data it wrote: whatever the order in which
\* the main loop, the runs and the RPU take their steps (acc.cpp, cmds/lba.cpp).
THEOREM DoneMeansWrittenHolds == Spec => []DoneMeansWritten
  <1>1. Init => CarefulInv /\ DataInv
    BY CarefulInit, DataInit
  <1>2. Base /\ CarefulInv /\ DataInv /\ [Next]_vars => CarefulInv' /\ DataInv'
    BY CarefulStep, DataStep
  <1>3. Base /\ CarefulInv /\ DataInv => DoneMeansWritten
    <2> SUFFICES ASSUME Base, CarefulInv, DataInv, work.resets, host.acc = "done", host.out,
                        ~unmapped, runs[Len(runs)].ok
                 PROVE  ramdisk.out = Result(host.fw, host.data)
      BY Zenon DEF DoneMeansWritten
    <2>1. AccTypeOK /\ QueueInv /\ RunsInv /\ ResultInv
      BY DEF Base, TypeOK, CarefulInv, DataInv
    <2>2. Quiet
      BY <2>1 DEF QueueInv, Quiet, F, Pos
    <2>3. objs[acc0].state = "done"
      BY <2>1 DEF RunsInv
    <2>4. Used /\ \A r \in 1..Len(runs) : ~Working(r)
      BY <2>1, <2>3 DEF RunsInv
    <2>5. PICK r \in 1..Len(runs) : runs[r].obj = acc0
      BY <2>4 DEF Used
    <2>6. r = Len(runs)
      BY <2>1, <2>5 DEF RunsInv
    <2>7. RunIs(objs[acc0], runs[r], host, ramdisk.out)
      BY <2>1, <2>2, <2>5 DEF ResultInv
    <2>8. runs[r].pc \in {"log", "ended"}
      BY <2>4 DEF Working
    <2> QED
      BY <2>3, <2>6, <2>7, <2>8 DEF RunIs
  <1> QED
    BY <1>1, <1>2, <1>3, BaseHolds, PTL DEF Spec
=============================================================================
