------------------------------ MODULE NvmePrp -------------------------------
(***************************************************************************)
(* The transfer of one command's data (nvme_cmd_transfer_data in cmd.c).   *)
(* The host describes its buffer by physical region pages: PRP1 names the  *)
(* first page, at any offset; PRP2 names the second page or, when there    *)
(* are more, a list of them.  A list ends with its page; when pages remain *)
(* its last entry points to another list.  The RPU cuts the transfer into  *)
(* chunks, one for each page, and puts them on the DMA channel of their    *)
(* direction; the lists come by the channel from the host, and each is     *)
(* worked off in the callback of its fetch (prp_cb).                       *)
(*                                                                         *)
(* Everything here runs in interrupt context: while a handler is at work   *)
(* no callback starts.  The channels are first in, first out and report    *)
(* every transfer once (DmaService).                                       *)
(***************************************************************************)
EXTENDS Integers, Sequences

CONSTANTS
  Mps,         \* memory_page_size, which is also the size of a PRP buffer
  EntrySize,   \* sizeof(uint64_t), the size of an entry of a list
  Lens,        \* the lengths of the transfers
  Offs,        \* the offsets of PRP1 in its page
  ListOffs     \* the offsets of the first list in its page

ASSUME PageAssumption ==
  /\ Mps \in Nat \ {0} /\ EntrySize \in Nat \ {0}
  /\ Mps % EntrySize = 0 /\ 2 * EntrySize <= Mps
ASSUME RequestAssumption ==
  /\ Lens \subseteq Nat \ {0}
  /\ Offs \subseteq 0..(Mps - 1)
  /\ ListOffs \subseteq {o \in 0..(Mps - 1) : o % EntrySize = 0}

VARIABLES
  req,         \* what the host asks for, unchanged while it is served
  xfer_len,    \* how much is still to be queued
  xfer_buf,    \* how far into the local buffer that is
  prp_size,    \* the size of the list fetched last
  list,        \* where in host memory it starts
  i,           \* prp_cb: the next entry
  pc,          \* what the handler is doing; "idle": no handler runs
  held,        \* the entries of prp_slab in use: 0 or 1
  queue,       \* the transfers queued on each channel
  chunks,      \* history: the chunks queued so far
  moved,       \* history: how many of them have moved
  returned,    \* history: how often the command was completed ...
  starved      \* ... 1: because there was no PRP buffer

vars == <<req, xfer_len, xfer_buf, prp_size, list, i, pc, held, queue, chunks,
          moved, returned, starved>>

Min2(a, b) == IF a > b THEN b ELSE a
CeilDiv(a, b) == (a + b - 1) \div b

-----------------------------------------------------------------------------
(* The host's side: what it keeps where                                    *)

Data(page, off) == [kind |-> "data", page |-> page, off |-> off]
List(page, off) == [kind |-> "list", page |-> page, off |-> off]
Junk            == [kind |-> "junk", page |-> 0, off |-> 0]

\* Where byte p of the transfer is: page 0 is that of PRP1.
HostAddr(p) ==
  LET r == p - (Mps - req.off)
  IN  IF r < 0 THEN Data(0, req.off + p) ELSE Data(1 + r \div Mps, r % Mps)

\* The pages after the first, and the entries of list page n: how many, and
\* how many pages the lists before it name.
MorePages == CeilDiv(req.len - Min2(Mps - req.off, req.len), Mps)
Entries(n) == (Mps - (IF n = 0 THEN req.listOff ELSE 0)) \div EntrySize
Before(n)  == IF n = 0 THEN 0
              ELSE (Entries(0) - 1) + (n - 1) * (Entries(1) - 1)

\* Entry e of list page n.
HostEntry(n, e) ==
  IF e = Entries(n) - 1 /\ MorePages - Before(n) > Entries(n)
    THEN List(n + 1, 0)
    ELSE Data(1 + Before(n) + e, 0)

Prp1 == Data(0, req.off)
Prp2 == IF MorePages > 1 THEN List(0, req.listOff) ELSE Data(1, 0)

-----------------------------------------------------------------------------
Init ==
  /\ req \in [len : Lens, off : Offs, listOff : ListOffs, dir : {"rx", "tx"}]
  /\ xfer_len = req.len /\ xfer_buf = 0
  /\ prp_size = 0 /\ list = Junk /\ i = 0 /\ held = 0
  /\ pc = "first"
  /\ queue = [c \in {"rx", "tx"} |-> <<>>]
  /\ chunks = <<>> /\ moved = 0 /\ returned = 0 /\ starved = 0

\* Mutant: the last chunk is the one that leaves no whole page.
TransferChunkEarly(addr, len) ==
  LET chunk == [kind |-> "chunk", addr |-> addr, local |-> xfer_buf,
                len |-> len, last |-> xfer_len <= Mps]
  IN  /\ queue'    = [queue EXCEPT ![req.dir] = Append(@, chunk)]
      /\ chunks'   = Append(chunks, chunk)
      /\ xfer_len' = xfer_len - len
      /\ xfer_buf' = xfer_buf + len

\* Mutant: the last chunk is taken to be a whole page.
TransferChunkWhole(addr, len) ==
  LET chunk == [kind |-> "chunk", addr |-> addr, local |-> xfer_buf,
                len |-> len, last |-> xfer_len = Mps]
  IN  /\ queue'    = [queue EXCEPT ![req.dir] = Append(@, chunk)]
      /\ chunks'   = Append(chunks, chunk)
      /\ xfer_len' = xfer_len - len
      /\ xfer_buf' = xfer_buf + len

\* transfer_chunk: the chunk that completes the transfer carries the callback.
TransferChunk(addr, len) ==
  LET chunk == [kind |-> "chunk", addr |-> addr, local |-> xfer_buf,
                len |-> len, last |-> xfer_len = len]
  IN  /\ queue'    = [queue EXCEPT ![req.dir] = Append(@, chunk)]
      /\ chunks'   = Append(chunks, chunk)
      /\ xfer_len' = xfer_len - len
      /\ xfer_buf' = xfer_buf + len

\* Mutant: a list is taken to start at the beginning of its page.
CalcPrpSizeAligned(off, len) == Min2(Mps, CeilDiv(len, Mps) * EntrySize)

\* calc_prp_size: as many entries as pages, but not beyond the list's page.
CalcPrpSize(off, len) == Min2(Mps - off, CeilDiv(len, Mps) * EntrySize)

\* The fetch of a list, with prp_cb for its callback.
FetchList(addr) ==
  /\ prp_size' = CalcPrpSize(addr.off, xfer_len)
  /\ queue' = [queue EXCEPT !["rx"] =
                 Append(@, [kind |-> "list", addr |-> addr, size |-> prp_size'])]

-----------------------------------------------------------------------------
(* transfer_data_with_prps                                                 *)

\* Mutant: the offset of PRP1 is not taken into account.
FirstChunkWhole ==
  /\ pc = "first"
  /\ TransferChunk(Prp1, Min2(Mps, xfer_len))
  /\ pc' = "second"
  /\ UNCHANGED <<req, prp_size, list, i, held, moved, returned, starved>>

\* The part of the first page.
FirstChunk ==
  /\ pc = "first"
  /\ TransferChunk(Prp1, Min2(Mps - req.off, xfer_len))
  /\ pc' = "second"
  /\ UNCHANGED <<req, prp_size, list, i, held, moved, returned, starved>>

\* That was all.
OnePage ==
  /\ pc = "second" /\ xfer_len = 0
  /\ pc' = "idle"
  /\ UNCHANGED <<req, xfer_len, xfer_buf, prp_size, list, i, held, queue, chunks,
                 moved, returned, starved>>

\* The second page is in PRP2.
SecondChunk ==
  /\ pc = "second" /\ xfer_len > 0 /\ xfer_len <= Mps
  /\ TransferChunk(Prp2, xfer_len)
  /\ pc' = "idle"
  /\ UNCHANGED <<req, prp_size, list, i, held, moved, returned, starved>>

\* PRP2 points to a list.
FirstList ==
  /\ pc = "second" /\ xfer_len > Mps
  /\ held' = 1
  /\ FetchList(Prp2)
  /\ pc' = "idle"
  /\ UNCHANGED <<req, xfer_len, xfer_buf, list, i, chunks, moved, returned, starved>>

\* It does, and prp_slab is exhausted: the command is completed as it is.
NoPrpBuffer ==
  /\ pc = "second" /\ xfer_len > Mps
  /\ returned' = returned + 1 /\ starved' = 1
  /\ pc' = "idle"
  /\ UNCHANGED <<req, xfer_len, xfer_buf, prp_size, list, i, held, queue, chunks, moved>>

-----------------------------------------------------------------------------
(* prp_cb                                                                  *)

\* Entry e of the list in the buffer, which holds prp_size bytes of it.
PrpList(e) == IF (e + 1) * EntrySize <= prp_size THEN HostEntry(list.page, e) ELSE Junk

PrpLast == prp_size \div EntrySize - 1

\* More than the last entry's page remains: that entry points to a list.
Chains == i = PrpLast /\ xfer_len > Mps

WalkChunk ==
  /\ pc = "walk" /\ xfer_len > 0 /\ ~Chains
  /\ TransferChunk(PrpList(i), Min2(Mps, xfer_len))
  /\ i' = i + 1
  /\ UNCHANGED <<req, prp_size, list, pc, held, moved, returned, starved>>

WalkNextList ==
  /\ pc = "walk" /\ xfer_len > 0 /\ Chains
  /\ FetchList(PrpList(i))
  /\ pc' = "idle"
  /\ UNCHANGED <<req, xfer_len, xfer_buf, list, i, held, chunks, moved, returned, starved>>

WalkEnd ==
  /\ pc = "walk" /\ xfer_len = 0
  /\ held' = 0
  /\ pc' = "idle"
  /\ UNCHANGED <<req, xfer_len, xfer_buf, prp_size, list, i, queue, chunks, moved,
                 returned, starved>>

-----------------------------------------------------------------------------
(* The DMA channels: a transfer and its callback, if it has one            *)

DeliverChunk(c) ==
  /\ pc = "idle" /\ queue[c] # <<>> /\ Head(queue[c]).kind = "chunk"
  /\ queue' = [queue EXCEPT ![c] = Tail(@)]
  /\ moved' = moved + 1
  /\ returned' = IF Head(queue[c]).last THEN returned + 1 ELSE returned
  /\ UNCHANGED <<req, xfer_len, xfer_buf, prp_size, list, i, pc, held, chunks, starved>>

DeliverList(c) ==
  /\ pc = "idle" /\ queue[c] # <<>> /\ Head(queue[c]).kind = "list"
  /\ queue' = [queue EXCEPT ![c] = Tail(@)]
  /\ list' = Head(queue[c]).addr
  /\ i' = 0 /\ pc' = "walk"
  /\ UNCHANGED <<req, xfer_len, xfer_buf, prp_size, held, chunks, moved, returned, starved>>

-----------------------------------------------------------------------------
Transfer == FirstChunk \/ OnePage \/ SecondChunk \/ FirstList \/ NoPrpBuffer
Walk     == WalkChunk \/ WalkNextList \/ WalkEnd
Deliver  == \E c \in {"rx", "tx"} : DeliverChunk(c) \/ DeliverList(c)

Next == Transfer \/ Walk \/ Deliver

\* Handlers run to their end, and transfers end.
Spec == Init /\ [][Next]_vars /\ WF_vars(Next)

-----------------------------------------------------------------------------
(* Properties                                                              *)

Addr == [kind : {"data", "list", "junk"}, page : Nat, off : 0..(Mps - 1)]
Chunk == [kind : {"chunk"}, addr : Addr, local : Nat, len : Nat, last : BOOLEAN]
Fetch == [kind : {"list"}, addr : Addr, size : Nat]

TypeOK ==
  /\ req \in [len : Lens, off : Offs, listOff : ListOffs, dir : {"rx", "tx"}]
  /\ xfer_len \in Nat /\ xfer_buf \in Nat /\ prp_size \in 0..Mps
  /\ list \in Addr /\ i \in Nat /\ pc \in {"first", "second", "idle", "walk"}
  /\ held \in {0, 1} /\ starved \in {0, 1}
  /\ queue \in [{"rx", "tx"} -> Seq(Chunk \cup Fetch)]
  /\ chunks \in Seq(Chunk) /\ moved \in Nat /\ returned \in Nat

\* The chunks follow each other in the local buffer without gap or overlap,
\* each goes to where the host keeps that part of the data, whatever the
\* offsets of buffer and list and however many lists there are, and none
\* runs over the end of its page.
ChunksTile ==
  /\ xfer_buf + xfer_len = req.len
  /\ \A k \in 1..Len(chunks) :
       /\ chunks[k].local = IF k = 1 THEN 0 ELSE chunks[k-1].local + chunks[k-1].len
       /\ chunks[k].addr = HostAddr(chunks[k].local)
       /\ chunks[k].addr.off + chunks[k].len <= Mps
  /\ chunks # <<>> => xfer_buf = chunks[Len(chunks)].local + chunks[Len(chunks)].len

\* A list is fetched from where the host put one, without running over the
\* end of its page or of the buffer of prp_slab, which is in use until then.
ListsInBounds ==
  /\ TypeOK
  /\ \A k \in 1..Len(queue["rx"]) : queue["rx"][k].kind = "list" =>
       /\ queue["rx"][k].addr.kind = "list"
       /\ queue["rx"][k].addr.off + queue["rx"][k].size <= Mps
       /\ queue["rx"][k].size >= EntrySize
       /\ held = 1

\* The command is completed once, when all of its data have moved, unless
\* there was no PRP buffer, and no buffer of prp_slab is lost.
ReturnsAfterData ==
  /\ returned \in {0, 1}
  /\ returned = 1 /\ starved = 0 =>
       /\ xfer_len = 0 /\ moved = Len(chunks)
       /\ held = 0

\* Every command is completed: lists that are chained any number of times
\* come to an end.
Returns == <>(returned > 0)
=============================================================================
