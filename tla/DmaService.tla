----------------------------- MODULE DmaService -----------------------------
(***************************************************************************)
(* What the RPU's DMA driver promises the rest of the firmware (the        *)
(* command handlers of cmd.c, tc.c and cmds/): on each of its two channels *)
(* the transfers move in the order in which they were submitted, and the   *)
(* callback of a transfer runs exactly once, after its data moved and      *)
(* before the callback of any later transfer of the same channel.          *)
(* Transfers of a channel are numbered 1, 2, 3, ... in submission order.   *)
(***************************************************************************)
EXTENDS Naturals

CONSTANT Channel        \* the independent channels

VARIABLES
  submitted,            \* number of the last transfer submitted
  moved,                \* number of the last transfer whose data moved
  delivered             \* number of the last transfer handed to its callback

vars == <<submitted, moved, delivered>>

Init ==
  /\ submitted = [c \in Channel |-> 0]
  /\ moved     = [c \in Channel |-> 0]
  /\ delivered = [c \in Channel |-> 0]

Submit(c) ==
  /\ submitted' = [submitted EXCEPT ![c] = @ + 1]
  /\ UNCHANGED <<moved, delivered>>

Move(c) ==
  /\ moved[c] < submitted[c]
  /\ moved' = [moved EXCEPT ![c] = @ + 1]
  /\ UNCHANGED <<submitted, delivered>>

Deliver(c) ==
  /\ delivered[c] < moved[c]
  /\ delivered' = [delivered EXCEPT ![c] = @ + 1]
  /\ UNCHANGED <<submitted, moved>>

Next == \E c \in Channel : Submit(c) \/ Move(c) \/ Deliver(c)

\* The safety half, which the proofs establish for the driver.
Safety == Init /\ [][Next]_vars

\* The whole promise: nothing that was submitted is left behind.
Spec == Safety /\ \A c \in Channel : WF_vars(Move(c)) /\ WF_vars(Deliver(c))
=============================================================================
