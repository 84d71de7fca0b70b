------------------------------- MODULE ApuAcc -------------------------------
(***************************************************************************)
(* The accelerator of the APU application (acc.cpp, cmds/io_acc_ctl.cpp,   *)
(* cmds/lba.cpp, cmds/fw.cpp, cmds/status.cpp).  The main thread handles   *)
(* the commands that set an accelerator up, start it and ask for its       *)
(* state; a start makes a thread (a run) that loads the firmware into a    *)
(* virtual machine, reads the RAM disk, computes, and writes the RAM disk. *)
(* Nothing but the atomic field state is shared on purpose, and nothing is *)
(* locked: RESET deletes the object under a run that still uses it.        *)
(*   setup_acc makes one accelerator, so every valid id is 0.              *)
(***************************************************************************)
EXTENDS Integers, Sequences

CONSTANTS
  Firmware, NoFirmware,  \* firmware images; NoFirmware is an empty vector
  Data, NoData           \* contents of the input blocks of the RAM disk

VARIABLES
  objs,      \* the objects made so far; accelerators[0] is the last of them
  runs,      \* the threads made so far
  fw_map,    \* the firmware sent for id 0
  ramdisk,   \* the blocks the accelerator reads and those it writes
  heads,     \* the status record of accelerator 0
  misuse,    \* history: how an accelerator in use or a deleted one was touched
  crashed    \* the process was killed by a signal

accVars == <<objs, runs, fw_map, ramdisk, heads, misuse, crashed>>

AccState == {"idle", "running", "done", "fail"}

\* The contents of an output: what a firmware makes of an input, or what an
\* execution that failed left behind.
Result(fw, data) == <<"result", fw, data>>
Broken(fw) == <<"broken", fw, NoData>>

-----------------------------------------------------------------------------
(* The object.                                                             *)

NewAcc ==
  [live |-> TRUE, state |-> "idle", ramdisk_in |-> FALSE, ramdisk_out |-> FALSE,
   firmware |-> NoFirmware, ibuf |-> NoData, obuf |-> NoData]

acc0 == Len(objs)
Working(r) == runs[r].pc \notin {"log", "ended"}
InUse == \E r \in DOMAIN runs : runs[r].obj = acc0 /\ Working(r)

AccInit ==
  /\ objs = <<NewAcc>> /\ runs = <<>> /\ fw_map = NoFirmware
  /\ ramdisk = [inp |-> NoData, out |-> NoData]
  /\ heads = "uninitialised"
  /\ misuse = {} /\ crashed = FALSE

-----------------------------------------------------------------------------
(* What the main thread does with it.                                      *)

\* A change of the object; during a run that is a data race.
Configure(obj) ==
  /\ objs' = [objs EXCEPT ![acc0] = obj]
  /\ misuse' = IF InUse THEN misuse \cup {"configured in use"} ELSE misuse
  /\ UNCHANGED <<runs, fw_map, ramdisk, heads, crashed>>

io_cmd_read_lba  == Configure([objs[acc0] EXCEPT !.ramdisk_in = TRUE])
io_cmd_write_lba == Configure([objs[acc0] EXCEPT !.ramdisk_out = TRUE])
addFirmware      == Configure([objs[acc0] EXCEPT !.firmware = fw_map])

io_cmd_send_fw(fw) ==
  /\ fw_map' = fw
  /\ UNCHANGED <<objs, runs, ramdisk, heads, misuse, crashed>>

\* A new object takes the place of the old one, which is deleted.
Reset ==
  /\ objs' = Append([objs EXCEPT ![acc0].live = FALSE], NewAcc)
  /\ UNCHANGED <<runs, fw_map, ramdisk, heads, misuse, crashed>>

\* A thread is made whatever the state is; it is the thread that changes the state.
start ==
  /\ runs' = Append(runs, [obj |-> acc0, pc |-> "start", fw |-> NoFirmware, ok |-> TRUE])
  /\ misuse' = IF InUse THEN misuse \cup {"started twice"} ELSE misuse
  /\ UNCHANGED <<objs, fw_map, ramdisk, heads, crashed>>

CalculateStatus == heads' = objs[acc0].state

\* The answer is what is in heads; with rae nothing is brought up to date first.
adm_cmd_status(rae) ==
  /\ IF rae THEN UNCHANGED heads ELSE CalculateStatus
  /\ UNCHANGED <<objs, runs, fw_map, ramdisk, misuse, crashed>>

-----------------------------------------------------------------------------
(* Acc::runBPF, the body of a run.                                         *)

\* Run r goes from one point to the next; obj is its object after that.
Touch(r, from, to, obj) ==
  /\ runs[r].pc = from
  /\ runs' = [runs EXCEPT ![r].pc = to]
  /\ objs' = [objs EXCEPT ![runs[r].obj] = obj]
  /\ misuse' = IF objs[runs[r].obj].live THEN misuse ELSE misuse \cup {from}

Obj(r) == objs[runs[r].obj]

RunStart(r) ==
  /\ Touch(r, "start", "load", [Obj(r) EXCEPT !.state = "running"])
  /\ UNCHANGED <<fw_map, ramdisk, heads, crashed>>

\* No virtual machine, or no code it can load.
RunFails(r) ==
  /\ Touch(r, "load", "ended", [Obj(r) EXCEPT !.state = "fail"])
  /\ UNCHANGED <<fw_map, ramdisk, heads, crashed>>

\* Mutant: the state is done as soon as the firmware is loaded.
RunLoadsDone(r) ==
  /\ Obj(r).firmware # NoFirmware
  /\ runs[r].pc = "load"
  /\ runs' = [runs EXCEPT ![r].pc = "in", ![r].fw = Obj(r).firmware]
  /\ objs' = [objs EXCEPT ![runs[r].obj].state = "done"]
  /\ UNCHANGED <<fw_map, ramdisk, heads, misuse, crashed>>

RunLoads(r) ==
  /\ Obj(r).firmware # NoFirmware
  /\ runs[r].pc = "load"
  /\ runs' = [runs EXCEPT ![r].pc = "in", ![r].fw = Obj(r).firmware]
  /\ misuse' = IF Obj(r).live THEN misuse ELSE misuse \cup {"load"}
  /\ UNCHANGED <<objs, fw_map, ramdisk, heads, crashed>>

\* ramdiskToBuf
RunReads(r) ==
  /\ Touch(r, "in", "exec",
           IF Obj(r).ramdisk_in THEN [Obj(r) EXCEPT !.ibuf = ramdisk.inp] ELSE Obj(r))
  /\ UNCHANGED <<fw_map, ramdisk, heads, crashed>>

\* The execution; its failure is only logged.
RunExecutes(r) ==
  \E ok \in BOOLEAN :
    LET result == IF ok THEN Result(runs[r].fw, Obj(r).ibuf) ELSE Broken(runs[r].fw) IN
    /\ runs[r].pc = "exec"
    /\ runs' = [runs EXCEPT ![r].pc = "out", ![r].ok = ok]
    /\ objs' = [objs EXCEPT ![runs[r].obj].obuf = IF Obj(r).ramdisk_out THEN result ELSE @]
    /\ misuse' = IF Obj(r).live THEN misuse ELSE misuse \cup {"exec"}
    /\ UNCHANGED <<fw_map, ramdisk, heads, crashed>>

\* bufToRamdisk
RunWrites(r) ==
  /\ Touch(r, "out", "done", Obj(r))
  /\ ramdisk' = IF Obj(r).ramdisk_out THEN [ramdisk EXCEPT !.out = Obj(r).obuf] ELSE ramdisk
  /\ UNCHANGED <<fw_map, heads, crashed>>

RunDone(r) ==
  /\ Touch(r, "done", "log", [Obj(r) EXCEPT !.state = "done"])
  /\ UNCHANGED <<fw_map, ramdisk, heads, crashed>>

\* The last line of the log still reads the id of the object.
RunLogs(r) ==
  /\ Touch(r, "log", "ended", Obj(r))
  /\ UNCHANGED <<fw_map, ramdisk, heads, crashed>>

\* The result of mmap_buffer is not looked at: a run that cannot map the RAM disk
\* uses a pointer that was never set.
RunCannotMap(r) ==
  /\ \/ runs[r].pc = "in" /\ Obj(r).ramdisk_in
     \/ runs[r].pc = "out" /\ Obj(r).ramdisk_out
  /\ crashed' = TRUE
  /\ UNCHANGED <<objs, runs, fw_map, ramdisk, heads, misuse>>

RunStep(r) ==
  \/ RunStart(r) \/ RunFails(r) \/ RunLoads(r) \/ RunReads(r)
  \/ RunExecutes(r) \/ RunWrites(r) \/ RunDone(r) \/ RunLogs(r)

-----------------------------------------------------------------------------
Outputs == {NoData} \cup
  {"result", "broken"} \X (Firmware \cup {NoFirmware}) \X (Data \cup {NoData})
Heads == AccState \cup {"none", "uninitialised", "unwritten"}

Accs ==
  [live : BOOLEAN, state : AccState, ramdisk_in : BOOLEAN, ramdisk_out : BOOLEAN,
   firmware : Firmware \cup {NoFirmware}, ibuf : Data \cup {NoData}, obuf : Outputs]

Runs == [obj : Nat, pc : {"start", "load", "in", "exec", "out", "done", "log", "ended"},
         fw : Firmware \cup {NoFirmware}, ok : BOOLEAN]

\* The types; and of the objects only the last has not been deleted.
AccTypeOK ==
  /\ objs \in Seq(Accs) /\ objs # <<>>
  /\ \A i \in 1..Len(objs) : objs[i].live <=> i = acc0
  /\ runs \in Seq(Runs) /\ \A r \in 1..Len(runs) : runs[r].obj \in 1..Len(objs)
  /\ fw_map \in Firmware \cup {NoFirmware} /\ heads \in Heads
  /\ ramdisk \in [inp : Data \cup {NoData}, out : Outputs]
  /\ misuse \subseteq {"configured in use", "started twice", "start", "load", "in", "exec",
                       "out", "done", "log"}
  /\ crashed \in BOOLEAN
=============================================================================
