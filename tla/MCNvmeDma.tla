----------------------------- MODULE MCNvmeDma ------------------------------
(* The DMA driver on a small instance.  See MCNvmeDma.cfg.                 *)
EXTENDS NvmeDma
=============================================================================
