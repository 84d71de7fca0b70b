----------------------------- MODULE MCNvmeCmd ------------------------------
(* Commands and what they own on small instances.  The commands, with the  *)
(* number of chunks of their data:                                         *)
(*   r (3) a read, w3 (3) a write, n one without data;                     *)
(*   v, in (2), in3 (3), out (1), out2 (2), out3 (3) vendor commands;      *)
(*   fw (1) the commit of firmware.                                        *)
EXTENDS NvmeCmd

CONSTANTS r, w3, n, v, in, in3, out, out2, out3, fw

KindOf ==
  [c \in Cmd |-> CASE c = r                  -> "read"
                   [] c = w3                 -> "write"
                   [] c = n                  -> "none"
                   [] c = v                  -> "vendor"
                   [] c \in {in, in3}        -> "vendorIn"
                   [] c \in {out, out2, out3} -> "vendorOut"
                   [] c = fw                 -> "vendorOdd"]

PagesOf ==
  [c \in Cmd |-> CASE c \in {r, w3, in3, out3} -> 3
                   [] c \in {in, out2}         -> 2
                   [] OTHER                    -> 1]

\* The properties claim nothing once a block was reused too early (what they claim of
\* types and prp_slab after that is TypedInvariance): behaviours are followed up to
\* and with the first such state.
Followed == ~reused
=============================================================================
