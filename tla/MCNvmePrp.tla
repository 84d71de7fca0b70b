----------------------------- MODULE MCNvmePrp ------------------------------
(* The transfer of data along PRPs for small pages.  See MCNvmePrp.cfg.    *)
EXTENDS NvmePrp

\* Up to eight pages: five lists when the first starts in the last entry of
\* its page.
SomeLens == 1..(8 * Mps)
AllOffs  == 0..(Mps - 1)
EntryOffs == {o \in 0..(Mps - 1) : o % EntrySize = 0}
=============================================================================
