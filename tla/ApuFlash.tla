------------------------------ MODULE ApuFlash ------------------------------
(***************************************************************************)
(* Firmware update (cmds/qspi.cpp).  Downloads fill fw_buffer; a commit    *)
(* copies it and leaves the writing of the flash device to a thread, so    *)
(* that it is answered before the device has even been erased.             *)
(***************************************************************************)
EXTENDS Integers, Sequences

CONSTANTS
  Factory,     \* the image the device holds at first
  DeviceSize,  \* the words of the device ...
  EraseSize,   \* ... and of one of its erase blocks
  Erased       \* what an erased word reads as

Word == Nat    \* images are sequences of words
ASSUME FlashAssumption ==
  /\ Factory \in Seq(Word) /\ DeviceSize \in Nat /\ EraseSize \in Nat \ {0}
  /\ Erased \notin Word

VARIABLES
  fw_buffer,   \* the words downloaded
  fw_thread,   \* the thread that writes the device: where it is, its copy, and how
               \* many words it has erased or written
  flash,       \* the words of the device
  committed    \* history: the images committed since the device was made

flashVars == <<fw_buffer, fw_thread, flash, committed>>

NoThread == [pc |-> "none", buf |-> <<>>, at |-> 0]

\* The device when it holds of an image the words from first to last, in their
\* places, as far as it reaches, and nothing else.
Piece(image, first, last) ==
  [i \in 1..DeviceSize |->
     IF i \in first..last /\ i \in 1..Len(image) THEN image[i] ELSE Erased]

FlashInit ==
  /\ fw_buffer = <<>> /\ fw_thread = NoThread
  /\ flash = Piece(Factory, 1, DeviceSize) /\ committed = {Factory}

\* The buffer grows when it must and never shrinks; new words are zero.
adm_cmd_fw_download(off, words) ==
  LET n == Len(words)
      size == IF Len(fw_buffer) < off + n THEN off + n ELSE Len(fw_buffer)
  IN  /\ fw_buffer' = [i \in 1..size |->
           IF i \in (off + 1)..(off + n) THEN words[i - off]
           ELSE IF i \in DOMAIN fw_buffer THEN fw_buffer[i] ELSE 0]
      /\ UNCHANGED <<fw_thread, flash, committed>>

\* join returns once the thread has ended.
Joinable == fw_thread.pc \in {"none", "ended"}

\* A copy of the buffer goes to a new thread.
adm_cmd_fw_commit ==
  /\ Joinable
  /\ fw_thread' = [pc |-> "open", buf |-> fw_buffer, at |-> 0]
  /\ committed' = committed \cup {fw_buffer}
  /\ UNCHANGED <<fw_buffer, flash>>

-----------------------------------------------------------------------------
(* flash_fw, the body of that thread.                                      *)

\* open or MEMGETINFO fails and the device keeps what it holds; or MEMERASE fails,
\* and what it has erased is erased.
FlashFails ==
  /\ fw_thread.pc \in {"open", "erase"}
  /\ fw_thread' = [fw_thread EXCEPT !.pc = "ended"]
  /\ UNCHANGED <<fw_buffer, flash, committed>>

FlashOpens ==
  /\ fw_thread.pc = "open"
  /\ fw_thread' = [fw_thread EXCEPT !.pc = "erase"]
  /\ UNCHANGED <<fw_buffer, flash, committed>>

\* MEMERASE on the whole device: one erase block after the other from the start.
FlashErase ==
  /\ fw_thread.pc = "erase" /\ fw_thread.at < DeviceSize
  /\ LET erased == fw_thread.at + EraseSize IN
       /\ flash' = [i \in 1..DeviceSize |-> IF i <= erased THEN Erased ELSE flash[i]]
       /\ fw_thread' = [fw_thread EXCEPT !.at = erased]
  /\ UNCHANGED <<fw_buffer, committed>>

FlashErased ==
  /\ fw_thread.pc = "erase" /\ fw_thread.at >= DeviceSize
  /\ fw_thread' = [fw_thread EXCEPT !.pc = "write", !.at = 0]
  /\ UNCHANGED <<fw_buffer, flash, committed>>

\* The next word goes to its place, or write has come to its end: of the image, of
\* the device, or early, which is only logged.
Writes(words) ==
  /\ fw_thread.pc = "write"
  /\ LET next == fw_thread.at + 1 IN
       \/ /\ next <= Len(fw_thread.buf) /\ next <= DeviceSize
          /\ flash' = [flash EXCEPT ![next] = words[next]]
          /\ fw_thread' = [fw_thread EXCEPT !.at = next]
       \/ /\ fw_thread' = [fw_thread EXCEPT !.pc = "ended"]
          /\ UNCHANGED flash
  /\ UNCHANGED <<fw_buffer, committed>>

\* Mutant: the words are those of fw_buffer, of which no copy was made.
FlashWriteLive == Writes(fw_buffer)

FlashWrite == Writes(fw_thread.buf)

FlashStep == FlashFails \/ FlashOpens \/ FlashErase \/ FlashErased \/ FlashWrite

FlashTypeOK ==
  /\ fw_buffer \in Seq(Word) /\ flash \in [1..DeviceSize -> Word \cup {Erased}]
  /\ fw_thread \in [pc : {"none", "open", "erase", "write", "ended"}, buf : Seq(Word),
                    at : Nat]
  /\ committed \subseteq Seq(Word)
=============================================================================
