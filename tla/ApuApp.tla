------------------------------- MODULE ApuApp -------------------------------
(***************************************************************************)
(* The APU application and its link to the RPU: rpmsg_init (rpmsg.cpp),    *)
(* the main loop (main.cpp) with its handlers (cmd.cpp) over the           *)
(* accelerator (ApuAcc) and the firmware update (ApuFlash), and on the     *)
(* other side the RPU's polling of the channel (platform_info.c,           *)
(* zynqmp_r5_a53_rproc.c, main.c of rpu-app).                              *)
(*   The host is part of the model: it sends vendor commands and sees      *)
(* them completed when the RPU has received their acknowledgements.        *)
(***************************************************************************)
EXTENDS ApuAcc, ApuFlash

CONSTANTS
  Workloads,  \* what the host may do.  script: the commands its n-th may be;
              \* out: so many under way at once; resets: it is Careful
  AckCap,     \* messages the ring to the RPU holds (VRING_SIZE)
  MaxAcc,     \* at most so many accelerator objects ...
  MaxRun,     \* ... runs ...
  MaxLoss     \* ... and losses of power

\* The commands, by the handler that serves them.
Commands ==
  [f : {"ReadLba", "WriteLba", "SetFw", "Start", "Reset", "ReadFw", "Nothing",
        "Identify", "Commit"}]
    \cup [f : {"SendFw"}, fw : Firmware]
    \cup [f : {"Status"}, rae : BOOLEAN, large : BOOLEAN]
    \cup [f : {"Download"}, off : Nat, words : Seq(Word)]

ASSUME AppAssumption ==
  /\ Workloads \subseteq [script : Seq(SUBSET Commands), out : Nat, resets : BOOLEAN]
  /\ AckCap \in Nat \ {0} /\ MaxAcc \in Nat /\ MaxRun \in Nat /\ MaxLoss \in Nat

VARIABLES
  work,      \* the workload, chosen once
  boot,      \* how far the application has come
  inbox,     \* commands the RPU has sent and the main loop has not read
  acks,      \* messages to the RPU it has not taken from the ring
  ipi,       \* an interrupt of the RPU's mailbox is pending
  nokick,    \* ipi_nokick
  poll,      \* the RPU's main loop: "sleep", or "drain" the ring
  sent, answered,  \* number of commands sent, and of those completed
  lost,      \* history: acknowledgements that found the ring full
  unmapped,  \* history: a command was acknowledged though its buffer was not mapped
  host,      \* what the host knows of the accelerator
  losses     \* losses of power

linkVars == <<boot, inbox, acks, ipi, nokick, poll, sent, answered, lost, unmapped>>
vars == <<accVars, flashVars, work, linkVars, host, losses>>

\* The RPU knows the endpoint; whether the accelerator was set up, started (by
\* which command) or reported to have ended; what it was set up with.
FreshHost ==
  [linked |-> FALSE, acc |-> "fresh", asked |-> 0, sent |-> NoFirmware,
   fw |-> NoFirmware, inp |-> FALSE, out |-> FALSE, data |-> NoData]

LinkInit ==
  /\ boot = "access" /\ inbox = <<>> /\ acks = <<>> /\ ipi = FALSE /\ nokick = TRUE
  /\ poll = "sleep" /\ sent = 0 /\ answered = 0 /\ lost = 0 /\ unmapped = FALSE
  /\ host = FreshHost

Init ==
  /\ work \in Workloads /\ LinkInit /\ AccInit /\ FlashInit /\ losses = 0

-----------------------------------------------------------------------------
(* The application comes up.                                               *)

\* The steps of rpmsg_init, in their order.
AfterStep ==
  [access |-> "bind", bind |-> "ctrl", ctrl |-> "ept", ept |-> "name",
   name |-> "open", open |-> "hello"]

\* A step that fails ends rpmsg_init and with it main.
RpmsgInit ==
  /\ boot \in DOMAIN AfterStep
  /\ boot' \in {AfterStep[boot], "exited"}
  /\ UNCHANGED <<accVars, flashVars, work, inbox, acks, ipi, nokick, poll, sent,
                 answered, lost, unmapped, host, losses>>

\* write to the endpoint, which was opened O_NONBLOCK: a full ring refuses.
Write(msg) ==
  IF Len(acks) < AckCap
  THEN acks' = Append(acks, msg) /\ ipi' = TRUE /\ UNCHANGED lost
  ELSE lost' = lost + 1 /\ UNCHANGED <<acks, ipi>>

\* The first message: from it the RPU learns the address of the endpoint.
Hello ==
  /\ boot = "hello" /\ boot' = "ready"
  /\ Write([id |-> 0, data |-> FALSE, head |-> "none"])
  /\ UNCHANGED <<accVars, flashVars, work, inbox, nokick, poll, sent, answered,
                 unmapped, host, losses>>

-----------------------------------------------------------------------------
(* The main loop: a command is read, handled and acknowledged.             *)

Up == boot = "ready" /\ ~crashed
Cmd == Head(inbox).cmd
Command(f) == Up /\ inbox # <<>> /\ Cmd.f = f

send_ack(data, head) ==
  /\ Write([id |-> Head(inbox).id, data |-> data, head |-> head])
  /\ inbox' = Tail(inbox)
  /\ UNCHANGED <<work, boot, nokick, poll, sent, answered, host, losses>>

Ack == send_ack(FALSE, "none") /\ UNCHANGED unmapped

\* Commands that come with a length: those with data in the RPU's memory, and those
\* without whose length is not zero all the same, like a commit (address 0 is mapped).
HasBuffer == {"SendFw", "Download", "Status", "Identify", "Commit", "ReadFw"}

\* mmap_buffer fails: the command is not handled, and acknowledged like one that was.
CannotMap ==
  /\ \E f \in HasBuffer : Command(f)
  /\ send_ack(FALSE, "none") /\ unmapped' = TRUE
  /\ UNCHANGED <<accVars, flashVars>>

HandleSendFw   == Command("SendFw") /\ io_cmd_send_fw(Cmd.fw) /\ Ack /\ UNCHANGED flashVars
HandleReadLba  == Command("ReadLba") /\ io_cmd_read_lba /\ Ack /\ UNCHANGED flashVars
HandleWriteLba == Command("WriteLba") /\ io_cmd_write_lba /\ Ack /\ UNCHANGED flashVars
HandleSetFw    == Command("SetFw") /\ addFirmware /\ Ack /\ UNCHANGED flashVars
HandleStart    == Command("Start") /\ start /\ Ack /\ UNCHANGED flashVars

\* READ_FW, SEND_DATA and READ_DATA are handled as CTL: the id of a firmware to read
\* is where CTL has its operation, and 0 is the reset.
HandleReset ==
  /\ Command("Reset") \/ Command("ReadFw")
  /\ Reset /\ Ack /\ UNCHANGED flashVars

\* STOP, an id or an operation that does not exist, enabling and disabling (nothing
\* reads global_enable), an opcode that is not known.
HandleNothing == Command("Nothing") /\ Ack /\ UNCHANGED <<accVars, flashVars>>

\* Mutant: the case runs on into the default, which acknowledges as well.
HandleIdentifyTwice ==
  /\ Command("Identify")
  /\ LET m == [id |-> Head(inbox).id, data |-> TRUE, head |-> "none"] IN
       IF Len(acks) + 2 <= AckCap
       THEN acks' = acks \o <<m, m>> /\ UNCHANGED lost
       ELSE acks' = SubSeq(acks \o <<m, m>>, 1, AckCap) /\ lost' = lost + 1
  /\ ipi' = TRUE /\ inbox' = Tail(inbox)
  /\ UNCHANGED <<accVars, flashVars, work, boot, nokick, poll, sent, answered, unmapped,
                 host, losses>>

\* The whole of identify_struct, made once and never changed.
HandleIdentify ==
  /\ Command("Identify") /\ send_ack(TRUE, "none")
  /\ UNCHANGED <<accVars, flashVars, unmapped>>

\* A buffer larger than the record is not written at all.
HandleStatus ==
  /\ Command("Status") /\ adm_cmd_status(Cmd.rae)
  /\ send_ack(TRUE, IF Cmd.large THEN "unwritten" ELSE heads')
  /\ UNCHANGED <<flashVars, unmapped>>

HandleDownload ==
  /\ Command("Download") /\ adm_cmd_fw_download(Cmd.off, Cmd.words)
  /\ Ack /\ UNCHANGED accVars

\* Waits for the commit before; the main loop reads nothing else meanwhile.
HandleCommit ==
  /\ Command("Commit") /\ adm_cmd_fw_commit /\ Ack /\ UNCHANGED accVars

MainLoop ==
  \/ CannotMap \/ HandleSendFw \/ HandleReadLba \/ HandleWriteLba \/ HandleSetFw
  \/ HandleStart \/ HandleReset \/ HandleNothing \/ HandleIdentify \/ HandleStatus
  \/ HandleDownload \/ HandleCommit

\* The threads of the application.
AccThread(r) ==
  /\ Up /\ RunStep(r)
  /\ UNCHANGED <<flashVars, work, linkVars, host, losses>>

AccThreadCrashes(r) ==
  /\ Up /\ RunCannotMap(r)
  /\ UNCHANGED <<flashVars, work, linkVars, host, losses>>

FlashThread ==
  /\ Up /\ FlashStep
  /\ UNCHANGED <<accVars, work, linkVars, host, losses>>

-----------------------------------------------------------------------------
(* The RPU.                                                                *)

\* The mailbox interrupt.
IrqHandler ==
  /\ ipi /\ ipi' = FALSE /\ nokick' = FALSE
  /\ UNCHANGED <<accVars, flashVars, work, boot, inbox, acks, poll, sent, answered,
                 lost, unmapped, host, losses>>

\* platform_poll: test and set, then the notification.
PlatformPoll ==
  /\ poll = "sleep" /\ ~nokick
  /\ nokick' = TRUE /\ poll' = "drain"
  /\ UNCHANGED <<accVars, flashVars, work, boot, inbox, acks, ipi, sent, answered,
                 lost, unmapped, host, losses>>

\* What the host learns from a completion: a state other than idle and running,
\* if it was asked for after the start.
Learns(h, msg) ==
  [h EXCEPT
    !.linked = @ \/ msg.id = 0,
    !.acc = IF msg.head \in {"done", "fail"} /\ @ = "started" /\ msg.id > h.asked
            THEN msg.head ELSE @]

\* rpmsg_endpoint_cb on the next message of the ring.
EndpointCb ==
  /\ poll = "drain" /\ acks # <<>>
  /\ acks' = Tail(acks)
  /\ answered' = IF Head(acks).id = 0 THEN answered ELSE answered + 1
  /\ host' = Learns(host, Head(acks))
  /\ UNCHANGED <<accVars, flashVars, work, boot, inbox, ipi, nokick, poll, sent,
                 lost, unmapped, losses>>

\* Mutant: one message for every notification.
PollEndsEarly ==
  /\ poll = "drain" /\ poll' = "sleep"
  /\ UNCHANGED <<accVars, flashVars, work, boot, inbox, acks, ipi, nokick, sent,
                 answered, lost, unmapped, host, losses>>

PollEnds ==
  /\ poll = "drain" /\ acks = <<>> /\ poll' = "sleep"
  /\ UNCHANGED <<accVars, flashVars, work, boot, inbox, acks, ipi, nokick, sent,
                 answered, lost, unmapped, host, losses>>

-----------------------------------------------------------------------------
(* The host.                                                               *)

\* A careful host sets an accelerator up only when it is new, starts it once,
\* and resets it when it has been told that the run is over.
Careful(c) ==
  CASE c.f \in {"SetFw", "ReadLba", "WriteLba", "Start"} -> host.acc = "fresh"
    [] c.f = "Reset"  -> host.acc # "started"
    [] c.f = "Status" -> ~c.rae
    [] c.f = "ReadFw" -> FALSE
    [] OTHER -> TRUE

Waiting(f) == Len(SelectSeq(inbox, LAMBDA m : m.cmd.f \in f))
InBounds(c) ==
  /\ c.f = "Start" => Len(runs) + Waiting({"Start"}) < MaxRun
  /\ c.f \in {"Reset", "ReadFw"} => Len(objs) + Waiting({"Reset", "ReadFw"}) < MaxAcc

\* What the host takes note of when it sends a command.
Noted(c) ==
  CASE c.f = "SendFw"   -> [host EXCEPT !.sent = c.fw]
    [] c.f = "SetFw"    -> [host EXCEPT !.fw = host.sent]
    [] c.f = "ReadLba"  -> [host EXCEPT !.inp = TRUE]
    [] c.f = "WriteLba" -> [host EXCEPT !.out = TRUE]
    [] c.f = "Start"    -> [host EXCEPT !.acc = "started", !.asked = sent + 1,
                                        !.data = IF host.inp THEN ramdisk.inp ELSE NoData]
    [] c.f = "Reset"    -> [FreshHost EXCEPT !.linked = TRUE, !.sent = host.sent]
    [] OTHER            -> host

HostSends(c) ==
  /\ host.linked /\ sent - answered < work.out
  /\ (work.resets => Careful(c)) /\ InBounds(c)
  /\ sent' = sent + 1 /\ inbox' = Append(inbox, [id |-> sent + 1, cmd |-> c])
  /\ host' = Noted(c)
  /\ UNCHANGED <<accVars, flashVars, work, boot, acks, ipi, nokick, poll, answered,
                 lost, unmapped, losses>>

\* A write of the input blocks, by the RPU (see NvmeCmd).
HostWrites(d) ==
  /\ host.inp /\ ramdisk.inp # d /\ (work.resets => host.acc # "started")
  /\ ramdisk' = [ramdisk EXCEPT !.inp = d]
  /\ UNCHANGED <<objs, runs, fw_map, heads, misuse, crashed, flashVars, work, linkVars,
                 host, losses>>

\* Only the flash device keeps its contents.
PowerLoss ==
  /\ losses < MaxLoss /\ losses' = losses + 1
  /\ fw_thread.pc # "none"
  /\ objs' = <<NewAcc>> /\ runs' = <<>> /\ fw_map' = NoFirmware
  /\ ramdisk' = [inp |-> NoData, out |-> NoData] /\ misuse' = {} /\ crashed' = FALSE
  /\ heads' = "uninitialised"
  /\ fw_buffer' = <<>> /\ fw_thread' = NoThread /\ UNCHANGED <<flash, committed>>
  /\ boot' = "access" /\ inbox' = <<>> /\ acks' = <<>> /\ ipi' = FALSE /\ nokick' = TRUE
  /\ poll' = "sleep" /\ sent' = 0 /\ answered' = 0 /\ lost' = 0 /\ unmapped' = FALSE
  /\ host' = FreshHost /\ UNCHANGED work

Rpu == IrqHandler \/ PlatformPoll \/ EndpointCb \/ PollEnds

Next ==
  \/ RpmsgInit \/ Hello \/ MainLoop \/ FlashThread
  \/ \E r \in 1..MaxRun : r \in DOMAIN runs /\ (AccThread(r) \/ AccThreadCrashes(r))
  \/ Rpu
  \/ sent < Len(work.script) /\ \E c \in work.script[sent + 1] : HostSends(c)
  \/ \E d \in Data : HostWrites(d)
  \/ PowerLoss

\* The threads of the application are scheduled, the RPU polls, and its interrupts
\* are delivered; the host need not send anything.
Spec ==
  /\ Init /\ [][Next]_vars
  /\ WF_vars(RpmsgInit) /\ WF_vars(Hello) /\ WF_vars(MainLoop) /\ WF_vars(FlashThread)
  /\ WF_vars(IrqHandler) /\ WF_vars(PlatformPoll \/ EndpointCb \/ PollEnds)

-----------------------------------------------------------------------------
(* Properties.                                                             *)

Messages == [id : Nat, data : BOOLEAN, head : Heads]

Hosts ==
  [linked : BOOLEAN, acc : {"fresh", "started", "done", "fail"}, asked : Nat,
   sent : Firmware \cup {NoFirmware}, fw : Firmware \cup {NoFirmware},
   inp : BOOLEAN, out : BOOLEAN, data : Data \cup {NoData}]

LinkTypeOK ==
  /\ work \in Workloads /\ losses \in 0..MaxLoss
  /\ boot \in DOMAIN AfterStep \cup {"hello", "ready", "exited"}
  /\ inbox \in Seq([id : Nat, cmd : Commands])
  /\ acks \in Seq(Messages) /\ Len(acks) <= AckCap
  /\ poll \in {"sleep", "drain"} /\ {ipi, nokick, unmapped} \subseteq BOOLEAN
  /\ answered \in 0..sent /\ sent \in 0..Len(work.script) /\ lost \in Nat
  /\ host \in Hosts

TypeOK == AccTypeOK /\ FlashTypeOK /\ LinkTypeOK

\* The first message, which answers no command, is in front of the answers.
Greeting == IF acks # <<>> /\ Head(acks).id = 0 THEN 1 ELSE 0

\* Commands are answered once each and in the order in which they were sent: what
\* is between the host's last command and its last completion is in the ring or
\* has not been read yet, or its answer was lost.  As long as the ring holds as many
\* messages as commands are under way, send_ack is not refused; it would not send
\* again.
AnsweredInOrder ==
  LET answers == Len(acks) - Greeting
  IN  /\ TypeOK
      /\ answered + lost + answers + Len(inbox) = sent
      /\ work.out <= AckCap => lost = 0
      /\ lost = 0 => \A i \in 1..answers : acks[Greeting + i].id = answered + i
      /\ \A i \in 1..Len(inbox) : inbox[i].id = sent - Len(inbox) + i

\* When a careful host has been told that the accelerator is done, the RAM disk
\* holds what the firmware it set makes of the data it wrote; unless the execution
\* failed, which the state does not tell, or a firmware was not received, which
\* its acknowledgement does not tell.
DoneMeansWritten ==
  (work.resets /\ host.acc = "done" /\ host.out /\ ~unmapped /\ runs[Len(runs)].ok) =>
    ramdisk.out = Result(host.fw, host.data)

\* With a careful host no accelerator is set up or started while it runs, and a
\* run uses a deleted one for nothing but the id in its last line of the log.
NoUseAfterDelete == work.resets => misuse \subseteq {"log"}

\* The flash device never holds words of two images: at any time, a loss of power
\* while it is erased or written included, all of it is erased but one piece of one of
\* the images committed, every word of the piece at its place.
FlashHoldsOneImage ==
  \E image \in committed, first \in 1..(DeviceSize + 1), last \in 0..DeviceSize :
    flash = Piece(image, first, last)

\* Every command is answered, unless its answer found the ring full or the application
\* has ended: no message waits in the ring for a kick that was taken for an earlier
\* one, and a commit that waits for the flashing thread of the one before does not
\* wait for ever.
EveryCommandAnswered ==
  sent > answered + lost ~> (sent = answered + lost \/ boot = "exited" \/ crashed)

=============================================================================
