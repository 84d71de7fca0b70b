----------------------------- MODULE VtaMemory ------------------------------
(***************************************************************************)
(* The memory the device shares with the program: the page allocator of    *)
(* the simulated device (virtual_memory.cc) and the buffers the runtime    *)
(* makes of it (DataBuffer, vta_runtime.cc).  Operators from a memory to   *)
(* the memory after a call.  A block once made is never given back to the  *)
(* system: it is used again for any request it is large enough for.        *)
(***************************************************************************)
EXTENDS Integers, Sequences, FiniteSets, SequencesExt

CONSTANT PageBytes
ASSUME PageAssumption == PageBytes \in Nat \ {0}

\* pages[b]: the pages of block b.  free: the blocks in free_map_, in the order
\* they were freed.  live: the blocks behind a buffer the program still has.
EmptyMemory == [pages |-> <<>>, free |-> <<>>, live |-> {}]

NumPages(size) == (size + PageBytes - 1) \div PageBytes

\* free_map_.lower_bound: the smallest block that is large enough, of several
\* the one freed first.  0 if there is none.
BestFit(m, npage) ==
  LET fits == {i \in DOMAIN m.free : m.pages[m.free[i]] >= npage}
      best == CHOOSE i \in fits : \A j \in fits :
                \/ m.pages[m.free[i]] < m.pages[m.free[j]]
                \/ m.pages[m.free[i]] = m.pages[m.free[j]] /\ i <= j
  IN  IF fits = {} THEN 0 ELSE best

\* VirtualMemoryManager::Alloc: the block it answers with ...
AllocBlock(m, size) ==
  LET i == BestFit(m, NumPages(size))
  IN  IF i = 0 THEN Len(m.pages) + 1 ELSE m.free[i]

\* ... and the memory after it.
Alloc(m, size) ==
  LET i == BestFit(m, NumPages(size))
  IN  [pages |-> IF i = 0 THEN Append(m.pages, NumPages(size)) ELSE m.pages,
       free  |-> IF i = 0 THEN m.free ELSE RemoveAt(m.free, i),
       live  |-> m.live \cup {AllocBlock(m, size)}]

\* VirtualMemoryManager::Free, which does not ask whether the block is free.
Free(m, block) ==
  [m EXCEPT !.free = Append(@, block), !.live = @ \ {block}]

\* No block is free twice, or free while a buffer still stands on it.
Sound(m) ==
  /\ \A i, j \in DOMAIN m.free : i # j => m.free[i] # m.free[j]
  /\ ToSet(m.free) \cap m.live = {}
  /\ ToSet(m.free) \cup m.live \subseteq DOMAIN m.pages
=============================================================================
