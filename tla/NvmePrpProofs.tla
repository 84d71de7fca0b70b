--------------------------- MODULE NvmePrpProofs ----------------------------
(***************************************************************************)
(* Proofs about the transfer of one command's data, for every page size,   *)
(* every size of an entry that divides it, every length, every offset of   *)
(* buffer and list and any number of chained lists.                        *)
(***************************************************************************)
EXTENDS NvmePrp, SequenceTheorems, TLAPS

-----------------------------------------------------------------------------
(* The inductive invariant                                                 *)

\* What the first page takes, and where in its page list n starts.
FirstLen   == Min2(Mps - req.off, req.len)
ListOff(n) == IF n = 0 THEN req.listOff ELSE 0

\* A list is on its way: it is the last of its channel.
Rx       == queue["rx"]
Fetching == Rx # <<>> /\ Rx[Len(Rx)].kind = "list"

\* n whole pages have been queued after the first.
AtPage(n) == Mps - req.off <= req.len /\ xfer_buf = FirstLen + n * Mps

\* A list at address a is where the host put one, more than one of its pages
\* remains when it is fetched, and what is fetched are the entries in use.
ListAt(a) ==
  /\ a.kind = "list" /\ a.off = ListOff(a.page)
  /\ Before(a.page) + 1 < MorePages
  /\ prp_size = Min2(Mps - a.off, (MorePages - Before(a.page)) * EntrySize)

\* The channel of the transfer holds its chunks that have not moved, in order,
\* and behind them the list, if the channel is the receiving one.
InOrder ==
  /\ moved <= Len(chunks)
  /\ \A k \in 1..Len(Rx) : Rx[k].kind = "list" => k = Len(Rx)
  /\ \A k \in 1..Len(queue["tx"]) : queue["tx"][k].kind = "chunk"
  /\ \A c \in {"rx", "tx"} :
       /\ Len(queue[c]) = (IF c = req.dir THEN Len(chunks) - moved ELSE 0)
                            + (IF c = "rx" /\ Fetching THEN 1 ELSE 0)
       /\ \A k \in 1..Len(queue[c]) :
            queue[c][k].kind = "chunk" => queue[c][k] = chunks[moved + k]

\* The first chunk is the start of the local buffer; the callback is on the one
\* that leaves nothing to queue.
LastIsLast ==
  /\ chunks = <<>> => xfer_buf = 0
  /\ \A k \in 1..Len(chunks) : chunks[k].last <=> (k = Len(chunks) /\ xfer_len = 0)

\* How far the handlers are, in terms of pages and entries of lists.
Walked ==
  /\ pc = "first" => chunks = <<>> /\ ~Fetching
  /\ pc = "second" => xfer_buf = FirstLen /\ ~Fetching
  /\ pc = "walk" =>
       /\ ~Fetching /\ ListAt(list)
       /\ xfer_len > 0 => AtPage(Before(list.page) + i) /\ i <= PrpLast
  /\ Fetching =>
       /\ pc = "idle" /\ ListAt(Rx[Len(Rx)].addr) /\ Rx[Len(Rx)].size = prp_size
       /\ AtPage(Before(Rx[Len(Rx)].addr.page))

\* Who holds an entry of prp_slab, and what a completion means.
Ends ==
  /\ held = IF Fetching \/ pc = "walk" THEN 1 ELSE 0
  /\ returned = IF starved = 1 \/ (xfer_len = 0 /\ moved = Len(chunks)) THEN 1 ELSE 0
  /\ starved = 1 => pc = "idle" /\ ~Fetching /\ xfer_len > 0
  /\ pc = "idle" /\ ~Fetching /\ starved = 0 => xfer_len = 0
  /\ pc # "idle" /\ xfer_len = 0 => moved < Len(chunks)
  /\ Fetching => xfer_len > 0

IInv == TypeOK /\ ChunksTile /\ InOrder /\ LastIsLast /\ Walked /\ Ends

-----------------------------------------------------------------------------
(* Pages and entries                                                       *)

\* The quotient of a multiple, and what is left of it.
LEMMA Multiple ==
  ASSUME NEW b \in Nat \ {0}, NEW q \in Int
  PROVE  (q * b) \div b = q /\ (q * b) % b = 0
  OBVIOUS

\* The number of pages that a bytes take: one less for each whole page.
LEMMA PagesLeft ==
  ASSUME NEW a \in Nat, NEW q \in Nat, q * Mps <= a
  PROVE  /\ CeilDiv(a, Mps) \in Nat
         /\ CeilDiv(a - q * Mps, Mps) = CeilDiv(a, Mps) - q
         /\ CeilDiv(a, Mps) > 0 <=> a > 0
         /\ CeilDiv(a, Mps) > 1 <=> a > Mps
  BY PageAssumption DEF CeilDiv

\* What the host may ask for.
Request == [len : Lens, off : Offs, listOff : ListOffs, dir : {"rx", "tx"}]

\* The bounds of a request and of what it is cut into.
LEMMA RequestFacts ==
  ASSUME req \in Request
  PROVE  /\ req.len \in Nat \ {0} /\ req.off \in 0..(Mps - 1)
         /\ req.listOff \in 0..(Mps - 1) /\ req.listOff % EntrySize = 0
         /\ req.dir \in {"rx", "tx"}
         /\ FirstLen \in 1..req.len
         /\ MorePages \in Nat
  <1>1. /\ req.len \in Nat \ {0} /\ req.off \in 0..(Mps - 1)
        /\ req.listOff \in 0..(Mps - 1) /\ req.listOff % EntrySize = 0
        /\ req.dir \in {"rx", "tx"}
    BY RequestAssumption DEF Request
  <1>2. FirstLen \in 1..req.len
    BY <1>1, PageAssumption DEF FirstLen, Min2
  <1>3. MorePages = CeilDiv(req.len - FirstLen, Mps)
    BY DEF MorePages, FirstLen
  <1>4. req.len - FirstLen \in Nat /\ 0 * Mps <= req.len - FirstLen
    BY <1>1, <1>2, PageAssumption
  <1>5. MorePages \in Nat
    BY <1>3, <1>4, PagesLeft
  <1> QED
    BY <1>1, <1>2, <1>5

\* A list ends with its page, and has two entries at least unless it is the first.
LEMMA EntriesFacts ==
  ASSUME req \in Request, NEW n \in Nat
  PROVE  /\ Entries(n) \in Nat \ {0} /\ (n > 0 => Entries(n) >= 2)
         /\ ListOff(n) \in 0..(Mps - 1)
         /\ Entries(n) * EntrySize = Mps - ListOff(n)
  <1> DEFINE o == ListOff(n)
  <1>1. o \in 0..(Mps - 1) /\ o % EntrySize = 0 /\ (n > 0 => o = 0)
    BY RequestFacts, PageAssumption DEF ListOff
  <1>2. Entries(n) = (Mps - o) \div EntrySize
    BY DEF Entries, ListOff
  <1> HIDE DEF o
  <1>3. /\ (Mps - o) \div EntrySize \in Nat
        /\ ((Mps - o) \div EntrySize) * EntrySize = Mps - o
    <2> DEFINE p == Mps \div EntrySize
               q == o \div EntrySize
    <2>1. p \in Int /\ q \in Int /\ p * EntrySize = Mps /\ q * EntrySize = o
      BY <1>1, PageAssumption
    <2> HIDE DEF p, q
    <2>2. Mps - o = (p - q) * EntrySize
      BY <2>1, PageAssumption
    <2>3. (Mps - o) \div EntrySize = p - q
      <3>1. p - q \in Int
        BY <2>1
      <3> QED
        BY <2>2, <3>1, Multiple, PageAssumption
    <2>4. p - q >= 0
      BY <1>1, <2>1, <2>2, PageAssumption
    <2> QED
      BY <2>1, <2>2, <2>3, <2>4
  <1>4. Entries(n) \in Nat /\ Entries(n) * EntrySize = Mps - o
    BY <1>2, <1>3
  <1>5. Entries(n) # 0
    BY <1>1, <1>4, PageAssumption
  <1>6. n > 0 => Entries(n) >= 2
    BY <1>1, <1>4, PageAssumption
  <1> QED
    BY <1>1, <1>4, <1>5, <1>6 DEF o

\* The last entry of a list is not a page when it names the next list.
LEMMA BeforeFacts ==
  ASSUME req \in Request, NEW n \in Nat
  PROVE  Before(n) \in Nat /\ Before(n + 1) = Before(n) + Entries(n) - 1
  <1>1. Entries(0) \in Nat \ {0} /\ Entries(1) \in Nat \ {0} /\ Entries(n) \in Nat
    BY EntriesFacts
  <1>2. CASE n = 0
    BY <1>1, <1>2 DEF Before
  <1>3. CASE n > 0
    <2>1. Entries(n) = Entries(1)
      BY <1>3 DEF Entries
    <2>2. PICK m \in Nat : n = m + 1
      BY <1>3
    <2>3. Before(n) = (Entries(0) - 1) + m * (Entries(1) - 1)
      BY <2>2 DEF Before
    <2>4. Before(n + 1) = (Entries(0) - 1) + (m + 1) * (Entries(1) - 1)
      BY <2>2 DEF Before
    <2>5. m * (Entries(1) - 1) \in Nat
      BY <1>1
    <2>6. (m + 1) * (Entries(1) - 1) = m * (Entries(1) - 1) + (Entries(1) - 1)
      BY <1>1
    <2> QED
      BY <1>1, <2>1, <2>3, <2>4, <2>5, <2>6
  <1> QED
    BY <1>2, <1>3

\* calc_prp_size in terms of entries: those of the list, or those still needed.
LEMMA PrpEntries ==
  ASSUME req \in Request, NEW a \in Addr, ListAt(a)
  PROVE  /\ PrpLast = Min2(Entries(a.page), MorePages - Before(a.page)) - 1
         /\ PrpLast \in Nat
         /\ prp_size = (PrpLast + 1) * EntrySize
         /\ a.off + prp_size <= Mps
  <1> DEFINE e == Entries(a.page)
             m == MorePages - Before(a.page)
  <1>1. a.page \in Nat
    BY DEF Addr
  <1>2. e \in Nat \ {0} /\ e * EntrySize = Mps - a.off /\ a.off \in 0..(Mps - 1)
    BY <1>1, EntriesFacts DEF ListAt
  <1>3. m \in Nat \ {0, 1}
    BY <1>1, RequestFacts, BeforeFacts DEF ListAt
  <1>4. prp_size = Min2(e * EntrySize, m * EntrySize)
    BY <1>2 DEF ListAt
  <1> HIDE DEF e, m
  <1>5. prp_size = Min2(e, m) * EntrySize /\ Min2(e, m) \in Nat \ {0}
    BY <1>2, <1>3, <1>4, PageAssumption DEF Min2
  <1>6. prp_size \div EntrySize = Min2(e, m)
    BY <1>5, Multiple, PageAssumption
  <1>7. prp_size <= e * EntrySize
    BY <1>2, <1>3, <1>4, PageAssumption DEF Min2
  <1> QED
    BY <1>2, <1>5, <1>6, <1>7, PageAssumption DEF PrpLast, e, m

\* After n whole pages the rest starts at the beginning of page n + 1, and takes
\* the pages that the first n leave.
LEMMA RestFacts ==
  ASSUME req \in Request, xfer_len \in Nat, xfer_buf + xfer_len = req.len,
         NEW n \in Nat, AtPage(n)
  PROVE  /\ HostAddr(xfer_buf) = Data(1 + n, 0)
         /\ CeilDiv(xfer_len, Mps) = MorePages - n
         /\ xfer_len > 0 <=> MorePages > n
         /\ xfer_len > Mps <=> MorePages > n + 1
  <1>1. /\ req.len \in Nat /\ req.off \in 0..(Mps - 1) /\ FirstLen = Mps - req.off
        /\ FirstLen \in 1..req.len /\ MorePages \in Nat
    BY RequestFacts, PageAssumption DEF AtPage, FirstLen, Min2
  <1>2. xfer_buf - (Mps - req.off) = n * Mps /\ n * Mps \in Nat
    BY <1>1, PageAssumption DEF AtPage
  <1>3. HostAddr(xfer_buf) = Data(1 + n, 0)
    <2>1. (n * Mps) \div Mps = n /\ (n * Mps) % Mps = 0
      BY Multiple, PageAssumption
    <2> QED
      BY <1>2, <2>1 DEF HostAddr
  <1> DEFINE a == req.len - FirstLen
  <1>4. a \in Nat /\ n * Mps <= a /\ xfer_len = a - n * Mps
    BY <1>1, <1>2, PageAssumption DEF AtPage
  <1>5. MorePages = CeilDiv(a, Mps)
    BY DEF MorePages, FirstLen
  <1> HIDE DEF a
  <1>6. CeilDiv(xfer_len, Mps) = MorePages - n
    BY <1>4, <1>5, PagesLeft
  <1>7. (CeilDiv(xfer_len, Mps) > 0 <=> xfer_len > 0) /\ (CeilDiv(xfer_len, Mps) > 1 <=> xfer_len > Mps)
    <2>1. 0 * Mps <= xfer_len
      BY PageAssumption
    <2> QED
      BY <2>1, PagesLeft
  <1> QED
    BY <1>1, <1>3, <1>6, <1>7

-----------------------------------------------------------------------------
(* Pieces of the handlers                                                  *)

\* A sequence after Append, entry by entry.
LEMMA AppendEntries ==
  ASSUME NEW S, NEW s \in Seq(S), NEW x \in S
  PROVE  /\ Append(s, x) \in Seq(S) /\ Len(Append(s, x)) = Len(s) + 1
         /\ \A k \in 1..Len(s) : Append(s, x)[k] = s[k]
         /\ Append(s, x)[Len(s) + 1] = x
         /\ Append(s, x) # <<>>
  OBVIOUS

\* A sequence after Tail, entry by entry.
LEMMA TailEntries ==
  ASSUME NEW S, NEW s \in Seq(S), s # <<>>
  PROVE  /\ Len(s) \in Nat \ {0} /\ Head(s) = s[1] /\ Head(s) \in S
         /\ Tail(s) \in Seq(S) /\ Len(Tail(s)) = Len(s) - 1
         /\ \A k \in 1..(Len(s) - 1) : Tail(s)[k] = s[k + 1]
  <1>1. Len(s) \in Nat \ {0}
    BY EmptySeq
  <1> QED
    BY <1>1

\* HostAddr as a function of the offset of PRP1.
HostAt(off, p) ==
  LET r == p - (Mps - off)
  IN  IF r < 0 THEN Data(0, off + p) ELSE Data(1 + r \div Mps, r % Mps)

\* transfer_chunk, when it is given the place of the next byte and no more than
\* the rest of its page.
LEMMA ChunkStep ==
  ASSUME TypeOK, ChunksTile, InOrder, LastIsLast, ~Fetching,
         NEW addr \in Addr, NEW len \in Nat \ {0},
         TransferChunk(addr, len), UNCHANGED <<req, moved>>,
         addr = HostAddr(xfer_buf), len <= xfer_len, addr.off + len <= Mps
  PROVE  /\ xfer_len' \in Nat /\ xfer_buf' \in Nat
         /\ queue' \in [{"rx", "tx"} -> Seq(Chunk \cup Fetch)]
         /\ chunks' \in Seq(Chunk) /\ chunks' # <<>>
         /\ ChunksTile' /\ InOrder' /\ LastIsLast' /\ ~Fetching'
         /\ moved' < Len(chunks')
  <1> DEFINE chunk == [kind |-> "chunk", addr |-> addr, local |-> xfer_buf,
                       len |-> len, last |-> xfer_len = len]
  <1>1. /\ xfer_len \in Nat /\ xfer_buf \in Nat /\ moved \in Nat
        /\ queue \in [{"rx", "tx"} -> Seq(Chunk \cup Fetch)] /\ chunks \in Seq(Chunk)
        /\ req.dir \in {"rx", "tx"} /\ req \in Request
    BY RequestFacts DEF TypeOK, Request
  <1>2. /\ queue' = [queue EXCEPT ![req.dir] = Append(@, chunk)]
        /\ chunks' = Append(chunks, chunk)
        /\ xfer_len' = xfer_len - len /\ xfer_buf' = xfer_buf + len
        /\ req' = req /\ moved' = moved
    BY DEF TransferChunk
  <1>3. /\ chunk \in Chunk /\ chunk.kind = "chunk" /\ chunk.addr = addr /\ chunk.len = len
        /\ chunk.local = xfer_buf /\ (chunk.last <=> xfer_len = len)
    BY <1>1 DEF Chunk
  <1> HIDE DEF chunk
  <1>4. /\ chunks' \in Seq(Chunk) /\ Len(chunks') = Len(chunks) + 1 /\ chunks' # <<>>
        /\ \A k \in 1..Len(chunks) : chunks'[k] = chunks[k]
        /\ chunks'[Len(chunks) + 1] = chunk
    BY <1>1, <1>2, <1>3, AppendEntries
  <1>5. xfer_len' \in Nat /\ xfer_buf' \in Nat /\ xfer_buf' + xfer_len' = req'.len
    BY <1>1, <1>2 DEF ChunksTile
  <1>6. ChunksTile'
    <2>1. /\ addr = HostAt(req'.off, xfer_buf)
          /\ \A k \in 1..Len(chunks) : chunks[k].addr = HostAt(req'.off, chunks[k].local)
      BY <1>2 DEF ChunksTile, HostAddr, HostAt
    <2>2. xfer_buf = IF Len(chunks) = 0 THEN 0
                     ELSE chunks[Len(chunks)].local + chunks[Len(chunks)].len
      BY <1>1, EmptySeq DEF ChunksTile, LastIsLast
    <2>3. ASSUME NEW k \in 1..Len(chunks')
          PROVE  /\ chunks'[k].local = IF k = 1 THEN 0 ELSE chunks'[k-1].local + chunks'[k-1].len
                 /\ chunks'[k].addr = HostAt(req'.off, chunks'[k].local)
                 /\ chunks'[k].addr.off + chunks'[k].len <= Mps
      <3>1. CASE k <= Len(chunks)
        <4>1. k \in 1..Len(chunks) /\ (k # 1 => k - 1 \in 1..Len(chunks))
          BY <3>1, <1>1
        <4>2. chunks'[k] = chunks[k] /\ (k # 1 => chunks'[k-1] = chunks[k-1])
          BY <4>1, <1>4
        <4> QED
          BY <4>1, <4>2, <2>1 DEF ChunksTile
      <3>2. CASE k = Len(chunks) + 1
        <4>1. chunks'[k] = chunk /\ Len(chunks) \in Nat
          BY <3>2, <1>1, <1>4
        <4>2. /\ chunks'[k].local = xfer_buf /\ chunks'[k].addr = addr
              /\ chunks'[k].len = len
          BY <4>1, <1>3
        <4>3. CASE Len(chunks) = 0
          BY <3>2, <4>2, <4>3, <2>1, <2>2
        <4>4. CASE Len(chunks) # 0
          <5>1. k # 1 /\ k - 1 = Len(chunks) /\ k - 1 \in 1..Len(chunks)
            BY <3>2, <4>1, <4>4
          <5>2. chunks'[k - 1] = chunks[Len(chunks)]
            BY <5>1, <1>4
          <5> QED
            BY <4>2, <4>4, <5>1, <5>2, <2>1, <2>2
        <4> QED
          BY <4>3, <4>4
      <3> QED
        BY <3>1, <3>2, <1>1, <1>4, <2>3
    <2>4. xfer_buf' = chunks'[Len(chunks')].local + chunks'[Len(chunks')].len
      BY <1>1, <1>2, <1>3, <1>4
    <2>5. \A k \in 1..Len(chunks') : chunks'[k].addr = HostAddr(chunks[k].local)'
      BY <2>3 DEF HostAddr, HostAt
    <2> QED
      BY <1>5, <2>3, <2>4, <2>5 DEF ChunksTile
  <1>7. LastIsLast'
    BY <1>1, <1>2, <1>3, <1>4 DEF LastIsLast
  <1>8. /\ queue' \in [{"rx", "tx"} -> Seq(Chunk \cup Fetch)]
        /\ Len(queue'[req.dir]) = Len(queue[req.dir]) + 1
        /\ \A k \in 1..Len(queue[req.dir]) : queue'[req.dir][k] = queue[req.dir][k]
        /\ queue'[req.dir][Len(queue[req.dir]) + 1] = chunk
        /\ queue'[req.dir] # <<>>
        /\ \A c \in {"rx", "tx"} : c # req.dir => queue'[c] = queue[c]
    <2>1. queue[req.dir] \in Seq(Chunk \cup Fetch) /\ chunk \in Chunk \cup Fetch
      BY <1>1, <1>3
    <2>2. queue'[req.dir] = Append(queue[req.dir], chunk)
      BY <1>1, <1>2
    <2>3. /\ queue'[req.dir] \in Seq(Chunk \cup Fetch)
          /\ Len(queue'[req.dir]) = Len(queue[req.dir]) + 1
          /\ \A k \in 1..Len(queue[req.dir]) : queue'[req.dir][k] = queue[req.dir][k]
          /\ queue'[req.dir][Len(queue[req.dir]) + 1] = chunk
          /\ queue'[req.dir] # <<>>
      BY <2>1, <2>2, AppendEntries
    <2>4. /\ DOMAIN queue' = {"rx", "tx"}
          /\ \A c \in {"rx", "tx"} : c # req.dir => queue'[c] = queue[c]
      BY <1>1, <1>2
    <2>5. queue' \in [{"rx", "tx"} -> Seq(Chunk \cup Fetch)]
      BY <1>1, <1>2, <2>1, <2>2, <2>3
    <2> QED
      BY <2>3, <2>4, <2>5
  <1>9. ~Fetching'
    BY <1>1, <1>3, <1>8 DEF Fetching, Rx
  <1>10. \A k \in 1..Len(queue["rx"]) : queue["rx"][k].kind # "list"
    BY <1>1, EmptySeq DEF Fetching, Rx, InOrder
  <1>11. InOrder'
    <2> DEFINE d == req.dir
               n == Len(queue[d])
    <2>1. /\ req'.dir = d /\ moved' = moved /\ moved \in Nat
          /\ Len(chunks) \in Nat /\ n \in Nat /\ d \in {"rx", "tx"}
      BY <1>1, <1>2
    <2>2. /\ n = Len(chunks) - moved
          /\ \A k \in 1..n : queue[d][k].kind = "chunk" => queue[d][k] = chunks[moved + k]
      <3>1. n = (Len(chunks) - moved) + 0
        BY <2>1 DEF InOrder
      <3>2. n = Len(chunks) - moved
        BY <2>1, <3>1
      <3>3. \A k \in 1..n : queue[d][k].kind = "chunk" => queue[d][k] = chunks[moved + k]
        BY <2>1 DEF InOrder
      <3> QED
        BY <3>2, <3>3
    <2>3. \A c \in {"rx", "tx"} : c # d => Len(queue[c]) = 0
      BY <2>1 DEF InOrder
    <2>4. /\ Len(queue'[d]) = n + 1 /\ queue'[d][n + 1] = chunk
          /\ \A k \in 1..n : queue'[d][k] = queue[d][k]
          /\ \A c \in {"rx", "tx"} : c # d => queue'[c] = queue[c]
      BY <1>8
    <2>5. \A k \in 1..n : queue[d][k].kind = "chunk"
      <3>1. \A k \in 1..n : queue[d][k] \in Chunk \cup Fetch
        BY <1>1
      <3>2. \A k \in 1..n : queue[d][k].kind \in {"chunk", "list"}
        BY <3>1 DEF Chunk, Fetch
      <3>3. CASE d = "rx"
        BY <3>2, <3>3, <1>10
      <3>4. CASE d = "tx"
        BY <3>4 DEF InOrder
      <3> QED
        BY <2>1, <3>3, <3>4
    <2> HIDE DEF d, n
    <2>6. ASSUME NEW k \in 1..(n + 1)
          PROVE  queue'[d][k].kind = "chunk" /\ queue'[d][k] = chunks'[moved + k]
      <3>1. CASE k \in 1..n
        <4>1. queue'[d][k] = queue[d][k] /\ queue[d][k].kind = "chunk"
          BY <3>1, <2>4, <2>5
        <4>2. queue[d][k] = chunks[moved + k] /\ moved + k \in 1..Len(chunks)
          BY <3>1, <4>1, <2>1, <2>2
        <4> QED
          BY <4>1, <4>2, <1>4
      <3>2. CASE k = n + 1
        <4>1. moved + k = Len(chunks) + 1
          BY <3>2, <2>1, <2>2
        <4> QED
          BY <3>2, <4>1, <2>4, <1>3, <1>4
      <3> QED
        BY <3>1, <3>2, <2>1
    <2>7. Len(chunks') = Len(chunks) + 1
      BY <1>4
    <2>8. moved' <= Len(chunks')
      BY <2>1, <2>2, <2>7
    <2>9. ASSUME NEW c \in {"rx", "tx"}
          PROVE  /\ Len(queue'[c]) = IF c = req'.dir THEN Len(chunks') - moved' ELSE 0
                 /\ \A k \in 1..Len(queue'[c]) : queue'[c][k].kind = "chunk"
                 /\ \A k \in 1..Len(queue'[c]) : queue'[c][k] = chunks'[moved' + k]
      <3>1. CASE c = d
        <4>1. Len(queue'[d]) = Len(chunks') - moved'
          BY <2>1, <2>2, <2>4, <2>7
        <4> QED
          BY <3>1, <4>1, <2>1, <2>4, <2>6
      <3>2. CASE c # d
        BY <3>2, <2>1, <2>3, <2>4
      <3> QED
        BY <3>1, <3>2
    <2> QED
      BY <1>9, <2>8, <2>9 DEF InOrder, Rx
  <1>12. moved' < Len(chunks')
    BY <1>1, <1>2, <1>4 DEF InOrder
  <1> QED
    BY <1>4, <1>5, <1>6, <1>7, <1>8, <1>9, <1>11, <1>12

\* The request does not change, and nothing that is computed from it alone.
LEMMA SameRequest ==
  ASSUME req' = req
  PROVE  /\ FirstLen' = FirstLen /\ MorePages' = MorePages
         /\ \A n : Before(n)' = Before(n) /\ ListOff(n)' = ListOff(n)
         /\ \A n : Entries(n)' = Entries(n)
  BY DEF FirstLen, MorePages, Before, Entries, ListOff

\* Nor does the place of a list that was fetched.
LEMMA SameList ==
  ASSUME req' = req, prp_size' = prp_size
  PROVE  /\ \A a : ListAt(a)' <=> ListAt(a)
         /\ PrpLast' = PrpLast
  BY SameRequest DEF ListAt, PrpLast

\* Nor does the page reached, while nothing is queued.
LEMMA SamePage ==
  ASSUME req' = req, xfer_buf' = xfer_buf
  PROVE  \A n : AtPage(n)' <=> AtPage(n)
  BY SameRequest DEF AtPage

\* Steps that put nothing on a channel and take nothing off.
LEMMA SameQueues ==
  ASSUME UNCHANGED <<req, xfer_len, xfer_buf, queue, chunks, moved>>
  PROVE  /\ ChunksTile => ChunksTile'
         /\ InOrder => InOrder'
         /\ LastIsLast => LastIsLast'
         /\ Fetching' = Fetching /\ Rx' = Rx
  <1>1. \A p : HostAddr(p)' = HostAddr(p)
    BY DEF HostAddr
  <1>2. ChunksTile => ChunksTile'
    BY <1>1 DEF ChunksTile
  <1> QED
    BY <1>2 DEF InOrder, LastIsLast, Fetching, Rx

\* The fetch of a list, when it is the one that names the next page.
LEMMA FetchStep ==
  ASSUME TypeOK, ChunksTile, InOrder, ~Fetching,
         NEW addr \in Addr, FetchList(addr), xfer_len > Mps,
         addr.kind = "list", addr.off = ListOff(addr.page), AtPage(Before(addr.page)),
         UNCHANGED <<req, xfer_len, xfer_buf, chunks, moved>>
  PROVE  /\ prp_size' \in 0..Mps
         /\ queue' \in [{"rx", "tx"} -> Seq(Chunk \cup Fetch)]
         /\ InOrder' /\ Fetching' /\ ListAt(Rx[Len(Rx)].addr)'
         /\ (Rx[Len(Rx)].size)' = prp_size'
         /\ AtPage(Before(Rx[Len(Rx)].addr.page))'
  <1> DEFINE fetch == [kind |-> "list", addr |-> addr, size |-> prp_size']
  <1>1. /\ xfer_len \in Nat /\ xfer_buf \in Nat /\ moved \in Nat
        /\ queue \in [{"rx", "tx"} -> Seq(Chunk \cup Fetch)] /\ chunks \in Seq(Chunk)
        /\ req.dir \in {"rx", "tx"} /\ req \in Request
    BY RequestFacts DEF TypeOK, Request
  <1>2. addr.page \in Nat /\ addr.off \in 0..(Mps - 1) /\ Before(addr.page) \in Nat
    BY <1>1, BeforeFacts DEF Addr
  <1>3. /\ CeilDiv(xfer_len, Mps) = MorePages - Before(addr.page)
        /\ MorePages > Before(addr.page) + 1 /\ MorePages \in Nat
    BY <1>1, <1>2, RestFacts, RequestFacts DEF ChunksTile
  <1>4. prp_size' = Min2(Mps - addr.off, (MorePages - Before(addr.page)) * EntrySize)
    BY <1>3 DEF FetchList, CalcPrpSize
  <1>5. prp_size' \in 0..Mps
    <2>1. (MorePages - Before(addr.page)) * EntrySize \in Nat
      BY <1>2, <1>3, PageAssumption
    <2> QED
      BY <1>2, <1>4, <2>1, PageAssumption DEF Min2
  <1>6. ListAt(addr)'
    BY <1>3, <1>4, SameRequest DEF ListAt
  <1>7. queue' = [queue EXCEPT !["rx"] = Append(@, fetch)]
    BY DEF FetchList
  <1>8. fetch \in Fetch /\ fetch.kind = "list" /\ fetch.addr = addr /\ fetch.size = prp_size'
    BY <1>5 DEF Fetch
  <1> HIDE DEF fetch
  <1> DEFINE n == Len(queue["rx"])
  <1>9. /\ queue'["rx"] \in Seq(Chunk \cup Fetch)
        /\ Len(queue'["rx"]) = n + 1 /\ n \in Nat
        /\ \A k \in 1..n : queue'["rx"][k] = queue["rx"][k]
        /\ queue'["rx"][n + 1] = fetch
        /\ queue'["rx"] # <<>>
    <2>1. queue'["rx"] = Append(queue["rx"], fetch)
      BY <1>1, <1>7
    <2>2. queue["rx"] \in Seq(Chunk \cup Fetch) /\ fetch \in Chunk \cup Fetch
      BY <1>1, <1>8
    <2> QED
      BY <2>1, <2>2, AppendEntries
  <1>10. /\ queue' \in [{"rx", "tx"} -> Seq(Chunk \cup Fetch)]
         /\ queue'["tx"] = queue["tx"]
    BY <1>1, <1>7, <1>8, <1>9
  <1>11. Fetching' /\ Rx'[Len(Rx')] = fetch
    BY <1>8, <1>9 DEF Fetching, Rx
  <1>12. \A k \in 1..n : queue["rx"][k].kind # "list"
    BY <1>1, EmptySeq DEF Fetching, Rx, InOrder
  <1>13. InOrder'
    <2> HIDE DEF n
    <2>1. /\ Len(chunks) \in Nat /\ moved' = moved /\ chunks' = chunks /\ req' = req
          /\ moved \in Nat
      BY <1>1
    <2>2. /\ moved <= Len(chunks)
          /\ n = (IF "rx" = req.dir THEN Len(chunks) - moved ELSE 0) + 0
          /\ Len(queue["tx"]) = (IF "tx" = req.dir THEN Len(chunks) - moved ELSE 0) + 0
      BY DEF InOrder, n
    <2>3. /\ \A k \in 1..n : queue["rx"][k].kind = "chunk" => queue["rx"][k] = chunks[moved + k]
          /\ \A k \in 1..Len(queue["tx"]) :
               queue["tx"][k].kind = "chunk" /\ queue["tx"][k] = chunks[moved + k]
      BY DEF InOrder, n
    <2>4. \A k \in 1..Len(queue'["rx"]) : queue'["rx"][k].kind = "list" => k = Len(queue'["rx"])
      BY <1>9, <1>12
    <2>5. \A k \in 1..Len(queue'["rx"]) :
            queue'["rx"][k].kind = "chunk" => queue'["rx"][k] = chunks[moved + k]
      BY <1>8, <1>9, <2>3
    <2>6. Len(queue'["rx"]) = (IF "rx" = req.dir THEN Len(chunks) - moved ELSE 0) + 1
      BY <1>9, <2>1, <2>2
    <2> QED
      BY <1>10, <1>11, <2>1, <2>2, <2>3, <2>4, <2>5, <2>6 DEF InOrder, Rx
  <1>14. AtPage(Before(addr.page))'
    BY SamePage, SameRequest
  <1> QED
    BY <1>5, <1>6, <1>8, <1>10, <1>11, <1>13, <1>14

-----------------------------------------------------------------------------
(* Every step preserves the invariant                                      *)

\* While there is something to queue and the handlers go on, the command has
\* not been completed.
LEMMA NotReturned ==
  ASSUME Ends, xfer_len > 0, xfer_len \in Nat, starved \in {0, 1}, pc # "idle" \/ Fetching
  PROVE  returned = 0 /\ starved = 0
  BY DEF Ends

\* The first state: nothing queued, the whole request ahead.
LEMMA InitInv ==
  Init => IInv
  <1> SUFFICES ASSUME Init
               PROVE  IInv
    OBVIOUS
  <1>1. req \in Request /\ req.len \in Nat \ {0}
    BY RequestFacts DEF Init, Request
  <1>2. TypeOK
    BY <1>1, PageAssumption DEF Init, TypeOK, Request, Addr, Junk
  <1>3. ~Fetching
    BY DEF Init, Fetching, Rx
  <1>4. ChunksTile /\ LastIsLast
    BY <1>1 DEF Init, ChunksTile, LastIsLast
  <1>5. InOrder
    BY <1>3 DEF Init, InOrder, Rx
  <1>6. Walked
    BY <1>3 DEF Init, Walked
  <1>7. Ends
    BY <1>1, <1>3 DEF Init, Ends
  <1> QED
    BY <1>2, <1>4, <1>5, <1>6, <1>7 DEF IInv

\* transfer_data_with_prps, PRP1: the chunk is what the first page holds of the data.
LEMMA FirstChunkInv ==
  IInv /\ FirstChunk => IInv'
  <1> SUFFICES ASSUME IInv, FirstChunk
               PROVE  IInv'
    OBVIOUS
  <1> DEFINE len == Min2(Mps - req.off, xfer_len)
  <1>1. /\ TypeOK /\ ChunksTile /\ InOrder /\ LastIsLast /\ ~Fetching
        /\ pc = "first" /\ xfer_buf = 0
    BY DEF IInv, Walked, LastIsLast, FirstChunk
  <1>2. /\ req \in Request /\ xfer_len \in Nat /\ starved \in {0, 1} /\ held \in {0, 1}
        /\ returned \in Nat /\ prp_size \in 0..Mps /\ list \in Addr /\ i \in Nat
        /\ moved \in Nat
    BY <1>1 DEF TypeOK, Request
  <1>3. /\ TransferChunk(Prp1, len) /\ pc' = "second"
        /\ UNCHANGED <<req, prp_size, list, i, held, moved, returned, starved>>
    BY DEF FirstChunk
  <1>4. /\ req.len \in Nat \ {0} /\ req.off \in 0..(Mps - 1) /\ FirstLen \in 1..req.len
        /\ xfer_len = req.len /\ len = FirstLen
    BY <1>1, <1>2, RequestFacts DEF ChunksTile, FirstLen
  <1>5. Prp1 = HostAddr(xfer_buf) /\ Prp1 \in Addr /\ Prp1.off = req.off
    BY <1>1, <1>4, PageAssumption DEF Prp1, HostAddr, Data, Addr
  <1>6. len \in Nat \ {0} /\ len <= xfer_len /\ Prp1.off + len <= Mps
    BY <1>4, <1>5, PageAssumption DEF Min2
  <1> HIDE DEF len
  <1>7. /\ xfer_len' \in Nat /\ xfer_buf' \in Nat
        /\ queue' \in [{"rx", "tx"} -> Seq(Chunk \cup Fetch)]
        /\ chunks' \in Seq(Chunk) /\ chunks' # <<>>
        /\ ChunksTile' /\ InOrder' /\ LastIsLast' /\ ~Fetching'
        /\ moved' < Len(chunks')
    BY <1>1, <1>3, <1>5, <1>6, ChunkStep
  <1>8. xfer_buf' = FirstLen'
    BY <1>1, <1>3, <1>4, SameRequest DEF TransferChunk
  <1>9. returned = 0 /\ starved = 0 /\ held = 0
    BY <1>1, <1>2, <1>4, NotReturned DEF IInv, Ends
  <1>10. TypeOK'
    BY <1>2, <1>3, <1>7 DEF TypeOK, Request
  <1>11. Walked'
    BY <1>3, <1>7, <1>8 DEF Walked
  <1>12. Ends'
    BY <1>2, <1>3, <1>7, <1>9 DEF Ends
  <1> QED
    BY <1>7, <1>10, <1>11, <1>12 DEF IInv

\* transfer_data_with_prps returns after its first chunk.
LEMMA OnePageInv ==
  IInv /\ OnePage => IInv'
  <1> SUFFICES ASSUME IInv, OnePage
               PROVE  IInv'
    OBVIOUS
  <1>1. /\ TypeOK /\ ChunksTile /\ InOrder /\ LastIsLast /\ ~Fetching
        /\ pc = "second" /\ xfer_len = 0 /\ pc' = "idle"
        /\ UNCHANGED <<req, xfer_len, xfer_buf, prp_size, list, i, held, queue, chunks,
                       moved, returned, starved>>
    BY DEF IInv, Walked, OnePage
  <1>2. ChunksTile' /\ InOrder' /\ LastIsLast' /\ ~Fetching'
    BY <1>1, SameQueues
  <1>3. TypeOK'
    BY <1>1 DEF TypeOK
  <1>4. Walked'
    BY <1>1, <1>2 DEF Walked
  <1>5. Ends'
    BY <1>1, <1>2 DEF IInv, Ends
  <1> QED
    BY <1>2, <1>3, <1>4, <1>5 DEF IInv

\* PRP2, while something remains after the first page.
LEMMA SecondFacts ==
  ASSUME IInv, pc = "second", xfer_len > 0
  PROVE  AtPage(0) /\ (xfer_len > Mps <=> MorePages > 1) /\ Prp2 \in Addr
  <1>1. req \in Request /\ xfer_len \in Nat /\ xfer_buf + xfer_len = req.len /\ xfer_buf = FirstLen
    BY DEF IInv, TypeOK, Request, ChunksTile, Walked
  <1>2. /\ req.len \in Nat /\ req.off \in 0..(Mps - 1) /\ req.listOff \in 0..(Mps - 1)
        /\ MorePages \in Nat /\ FirstLen \in 1..req.len
    BY <1>1, RequestFacts
  <1>3. AtPage(0)
    BY <1>1, <1>2, PageAssumption DEF AtPage, FirstLen, Min2
  <1>4. xfer_len > Mps <=> MorePages > 1
    BY <1>1, <1>2, <1>3, RestFacts
  <1>5. Prp2 \in Addr
    BY <1>2, PageAssumption DEF Prp2, Data, List, Addr
  <1> QED
    BY <1>3, <1>4, <1>5

\* transfer_data_with_prps, PRP2 names the second page: it takes all that remains.
LEMMA SecondChunkInv ==
  IInv /\ SecondChunk => IInv'
  <1> SUFFICES ASSUME IInv, SecondChunk
               PROVE  IInv'
    OBVIOUS
  <1>1. /\ TypeOK /\ ChunksTile /\ InOrder /\ LastIsLast /\ ~Fetching
        /\ pc = "second" /\ xfer_len > 0 /\ xfer_len <= Mps
    BY DEF IInv, Walked, SecondChunk
  <1>2. /\ req \in Request /\ xfer_len \in Nat /\ starved \in {0, 1} /\ held \in {0, 1}
        /\ returned \in Nat /\ prp_size \in 0..Mps /\ list \in Addr /\ i \in Nat
        /\ moved \in Nat
    BY <1>1 DEF TypeOK, Request
  <1>3. /\ TransferChunk(Prp2, xfer_len) /\ pc' = "idle"
        /\ UNCHANGED <<req, prp_size, list, i, held, moved, returned, starved>>
    BY DEF SecondChunk
  <1>4. Prp2 = HostAddr(xfer_buf) /\ Prp2 \in Addr /\ Prp2.off + xfer_len <= Mps
    <2>1. Prp2 \in Addr /\ AtPage(0) /\ MorePages <= 1
      BY <1>1, <1>2, SecondFacts, RequestFacts, PageAssumption
    <2>2. Prp2 = Data(1, 0)
      BY <1>2, <2>1, RequestFacts DEF Prp2
    <2>3. HostAddr(xfer_buf) = Data(1 + 0, 0)
      BY <1>1, <1>2, <2>1, RestFacts DEF ChunksTile
    <2> QED
      BY <1>1, <1>2, <2>1, <2>2, <2>3 DEF Data
  <1>5. /\ xfer_len' \in Nat /\ xfer_buf' \in Nat
        /\ queue' \in [{"rx", "tx"} -> Seq(Chunk \cup Fetch)]
        /\ chunks' \in Seq(Chunk) /\ chunks' # <<>>
        /\ ChunksTile' /\ InOrder' /\ LastIsLast' /\ ~Fetching'
        /\ moved' < Len(chunks')
    BY <1>1, <1>2, <1>3, <1>4, ChunkStep
  <1>6. xfer_len' = 0
    BY <1>2, <1>3 DEF TransferChunk
  <1>7. returned = 0 /\ starved = 0 /\ held = 0
    BY <1>1, <1>2, NotReturned DEF IInv, Ends
  <1>8. TypeOK'
    BY <1>2, <1>3, <1>5 DEF TypeOK, Request
  <1>9. Walked'
    BY <1>3, <1>5 DEF Walked
  <1>10. Ends'
    BY <1>2, <1>3, <1>5, <1>6, <1>7 DEF Ends
  <1> QED
    BY <1>5, <1>8, <1>9, <1>10 DEF IInv

\* transfer_data_with_prps, PRP2 names a list: it is the list before which no page lies.
LEMMA FirstListInv ==
  IInv /\ FirstList => IInv'
  <1> SUFFICES ASSUME IInv, FirstList
               PROVE  IInv'
    OBVIOUS
  <1>1. /\ TypeOK /\ ChunksTile /\ InOrder /\ LastIsLast /\ ~Fetching
        /\ pc = "second" /\ xfer_len > Mps
    BY DEF IInv, Walked, FirstList
  <1>2. /\ req \in Request /\ xfer_len \in Nat /\ xfer_buf \in Nat /\ starved \in {0, 1}
        /\ returned \in Nat /\ list \in Addr /\ i \in Nat
        /\ moved \in Nat /\ chunks \in Seq(Chunk)
    BY <1>1 DEF TypeOK, Request
  <1>3. /\ held' = 1 /\ FetchList(Prp2) /\ pc' = "idle"
        /\ UNCHANGED <<req, xfer_len, xfer_buf, list, i, chunks, moved, returned, starved>>
    BY DEF FirstList
  <1>4. xfer_len > 0
    BY <1>1, <1>2, PageAssumption
  <1>5. /\ Prp2 \in Addr /\ Prp2.kind = "list" /\ Prp2.off = ListOff(Prp2.page)
        /\ AtPage(Before(Prp2.page))
    BY <1>1, <1>4, SecondFacts DEF Prp2, List, ListOff, Before
  <1>6. /\ prp_size' \in 0..Mps
        /\ queue' \in [{"rx", "tx"} -> Seq(Chunk \cup Fetch)]
        /\ InOrder' /\ Fetching' /\ ListAt(Rx[Len(Rx)].addr)'
        /\ (Rx[Len(Rx)].size)' = prp_size'
        /\ AtPage(Before(Rx[Len(Rx)].addr.page))'
    BY <1>1, <1>3, <1>5, FetchStep
  <1>7. returned = 0 /\ starved = 0
    BY <1>1, <1>2, <1>4, NotReturned DEF IInv
  <1>8. TypeOK'
    BY <1>2, <1>3, <1>6 DEF TypeOK, Request
  <1>9. ChunksTile'
    <2>1. \A p : HostAddr(p)' = HostAddr(p)
      BY <1>3 DEF HostAddr
    <2> QED
      BY <1>1, <1>3, <2>1 DEF ChunksTile
  <1>10. LastIsLast'
    BY <1>1, <1>3 DEF LastIsLast
  <1>11. Walked'
    BY <1>3, <1>6 DEF Walked
  <1>12. Ends'
    BY <1>2, <1>3, <1>4, <1>6, <1>7 DEF Ends
  <1> QED
    BY <1>6, <1>8, <1>9, <1>10, <1>11, <1>12 DEF IInv

\* transfer_data_with_prps without a PRP buffer: the one completion is this one.
LEMMA NoPrpBufferInv ==
  IInv /\ NoPrpBuffer => IInv'
  <1> SUFFICES ASSUME IInv, NoPrpBuffer
               PROVE  IInv'
    OBVIOUS
  <1>1. /\ TypeOK /\ ChunksTile /\ InOrder /\ LastIsLast /\ ~Fetching
        /\ pc = "second" /\ xfer_len > Mps /\ pc' = "idle"
        /\ returned' = returned + 1 /\ starved' = 1
        /\ UNCHANGED <<req, xfer_len, xfer_buf, prp_size, list, i, held, queue, chunks, moved>>
    BY DEF IInv, Walked, NoPrpBuffer
  <1>2. ChunksTile' /\ InOrder' /\ LastIsLast' /\ ~Fetching'
    BY <1>1, SameQueues
  <1>3. xfer_len \in Nat /\ xfer_len > 0 /\ starved \in {0, 1}
    BY <1>1, PageAssumption DEF TypeOK
  <1>4. returned = 0 /\ starved = 0
    BY <1>1, <1>3, NotReturned DEF IInv
  <1>5. TypeOK'
    BY <1>1, <1>4 DEF TypeOK
  <1>6. Walked'
    BY <1>1, <1>2 DEF Walked
  <1>7. Ends'
    BY <1>1, <1>2, <1>3, <1>4 DEF IInv, Ends
  <1> QED
    BY <1>2, <1>5, <1>6, <1>7 DEF IInv

\* The entry that prp_cb is at: a page, or the next list exactly where the code
\* takes it for one.
LEMMA WalkFacts ==
  ASSUME IInv, pc = "walk", xfer_len > 0
  PROVE  /\ AtPage(Before(list.page) + i) /\ i <= PrpLast
         /\ PrpLast \in Nat /\ list.page \in Nat /\ Before(list.page) \in Nat
         /\ ~Chains => PrpList(i) = Data(1 + Before(list.page) + i, 0)
         /\ Chains => /\ PrpList(i) = List(list.page + 1, 0)
                      /\ Before(list.page + 1) = Before(list.page) + i
  <1> DEFINE n == list.page
             e == Entries(n)
             m == MorePages - Before(n)
  <1>1. /\ req \in Request /\ list \in Addr /\ i \in Nat /\ xfer_len \in Nat
        /\ xfer_buf + xfer_len = req.len
        /\ ListAt(list) /\ AtPage(Before(n) + i) /\ i <= PrpLast
    BY DEF IInv, TypeOK, Request, ChunksTile, Walked
  <1>2. /\ n \in Nat /\ e \in Nat \ {0} /\ Before(n) \in Nat /\ MorePages \in Nat /\ m \in Int
        /\ Before(n + 1) = Before(n) + e - 1
    <2>1. n \in Nat
      BY <1>1 DEF Addr
    <2>2. e \in Nat \ {0}
      BY <1>1, <2>1, EntriesFacts
    <2>3. Before(n) \in Nat /\ Before(n + 1) = Before(n) + e - 1
      BY <1>1, <2>1, BeforeFacts
    <2>4. MorePages \in Nat
      BY <1>1, RequestFacts
    <2> HIDE DEF n, e
    <2> QED
      BY <2>1, <2>2, <2>3, <2>4
  <1>3. /\ PrpLast = Min2(e, m) - 1 /\ PrpLast \in Nat /\ prp_size = (PrpLast + 1) * EntrySize
    BY <1>1, PrpEntries
  <1>4. xfer_len > Mps <=> MorePages > Before(n) + i + 1
    BY <1>1, <1>2, RestFacts
  <1>5. Chains <=> i = PrpLast /\ m > i + 1
    BY <1>1, <1>2, <1>4 DEF Chains
  <1>6. (i + 1) * EntrySize <= prp_size
    BY <1>1, <1>3, PageAssumption
  <1>7. PrpList(i) = IF i = e - 1 /\ m > e THEN List(n + 1, 0) ELSE Data(1 + Before(n) + i, 0)
    BY <1>6 DEF PrpList, HostEntry
  <1> HIDE DEF m, e
  <1>8. Chains <=> i = e - 1 /\ m > e
    BY <1>1, <1>2, <1>3, <1>5 DEF Min2
  <1> QED
    BY <1>1, <1>2, <1>3, <1>7, <1>8

\* prp_cb, an entry that names a page.
LEMMA WalkChunkInv ==
  IInv /\ WalkChunk => IInv'
  <1> SUFFICES ASSUME IInv, WalkChunk
               PROVE  IInv'
    OBVIOUS
  <1> DEFINE len == Min2(Mps, xfer_len)
             n   == Before(list.page) + i
  <1>1. /\ TypeOK /\ ChunksTile /\ InOrder /\ LastIsLast /\ ~Fetching /\ ListAt(list)
        /\ pc = "walk" /\ xfer_len > 0 /\ ~Chains
    BY DEF IInv, Walked, WalkChunk
  <1>2. /\ req \in Request /\ xfer_len \in Nat /\ xfer_buf \in Nat /\ starved \in {0, 1}
        /\ held \in {0, 1} /\ returned \in Nat /\ prp_size \in 0..Mps /\ list \in Addr
        /\ i \in Nat /\ moved \in Nat
    BY <1>1 DEF TypeOK, Request
  <1>3. /\ TransferChunk(PrpList(i), len) /\ i' = i + 1 /\ pc' = pc
        /\ UNCHANGED <<req, prp_size, list, held, moved, returned, starved>>
    BY DEF WalkChunk
  <1>4. /\ AtPage(n) /\ i <= PrpLast /\ PrpLast \in Nat /\ n \in Nat
        /\ PrpList(i) = Data(1 + n, 0)
    <2>1. 1 + Before(list.page) + i = 1 + n /\ n \in Nat
      BY <1>1, <1>2, WalkFacts
    <2> QED
      BY <1>1, <2>1, WalkFacts
  <1>5. PrpList(i) = HostAddr(xfer_buf) /\ PrpList(i) \in Addr /\ PrpList(i).off = 0
    <2>1. HostAddr(xfer_buf) = Data(1 + n, 0)
      BY <1>1, <1>2, <1>4, RestFacts DEF ChunksTile
    <2> QED
      BY <1>4, <2>1, PageAssumption DEF Data, Addr
  <1>6. len \in Nat \ {0} /\ len <= xfer_len /\ len <= Mps /\ PrpList(i).off + len <= Mps
    BY <1>1, <1>2, <1>5, PageAssumption DEF Min2
  <1>7. xfer_len - len > 0 => len = Mps /\ xfer_len > Mps
    BY <1>2, PageAssumption DEF Min2
  <1> HIDE DEF len
  <1>8. /\ xfer_len' \in Nat /\ xfer_buf' \in Nat
        /\ queue' \in [{"rx", "tx"} -> Seq(Chunk \cup Fetch)]
        /\ chunks' \in Seq(Chunk) /\ chunks' # <<>>
        /\ ChunksTile' /\ InOrder' /\ LastIsLast' /\ ~Fetching'
        /\ moved' < Len(chunks')
    BY <1>1, <1>3, <1>5, <1>6, ChunkStep
  <1>9. ASSUME xfer_len' > 0
        PROVE  AtPage(Before(list.page) + i)' /\ i' <= PrpLast'
    <2>1. xfer_len' = xfer_len - len /\ xfer_buf' = xfer_buf + len
      BY <1>3 DEF TransferChunk
    <2>2. len = Mps /\ xfer_len > Mps
      BY <1>7, <1>9, <2>1
    <2>3. i + 1 <= PrpLast
      BY <1>1, <1>2, <1>4, <2>2 DEF Chains
    <2>4. n * Mps + Mps = (n + 1) * Mps /\ n * Mps \in Nat
      BY <1>4, PageAssumption
    <2>5. FirstLen \in Nat
      BY <1>2, RequestFacts
    <2>6. xfer_buf' = FirstLen + (n + 1) * Mps
      BY <1>2, <1>4, <2>1, <2>2, <2>4, <2>5, PageAssumption DEF AtPage
    <2>7. Before(list.page)' + i' = n + 1
      <3>1. Before(list.page)' = Before(list.page)
        BY <1>3, SameRequest
      <3>2. Before(list.page) \in Nat
        BY <1>1, WalkFacts
      <3> QED
        BY <1>2, <1>3, <3>1, <3>2
    <2>8. AtPage(Before(list.page) + i)'
      BY <1>3, <1>4, <2>6, <2>7, SameRequest DEF AtPage
    <2> QED
      BY <1>3, <2>3, <2>8, SameList
  <1>10. Walked'
    BY <1>1, <1>3, <1>8, <1>9, SameList DEF Walked
  <1>11. returned = 0 /\ starved = 0 /\ held = 1
    BY <1>1, <1>2, NotReturned DEF IInv, Ends
  <1>12. TypeOK'
    BY <1>1, <1>2, <1>3, <1>8 DEF TypeOK, Request
  <1>13. Ends'
    BY <1>1, <1>2, <1>3, <1>8, <1>11 DEF Ends
  <1> QED
    BY <1>8, <1>10, <1>12, <1>13 DEF IInv

\* prp_cb, the entry that names the next list: the position carries over.
LEMMA WalkNextListInv ==
  IInv /\ WalkNextList => IInv'
  <1> SUFFICES ASSUME IInv, WalkNextList
               PROVE  IInv'
    OBVIOUS
  <1> DEFINE addr == PrpList(i)
  <1>1. /\ TypeOK /\ ChunksTile /\ InOrder /\ LastIsLast /\ ~Fetching
        /\ pc = "walk" /\ xfer_len > 0 /\ Chains
    BY DEF IInv, Walked, WalkNextList
  <1>2. /\ req \in Request /\ xfer_len \in Nat /\ xfer_buf \in Nat /\ starved \in {0, 1}
        /\ held \in {0, 1} /\ returned \in Nat /\ list \in Addr /\ i \in Nat
        /\ moved \in Nat /\ chunks \in Seq(Chunk)
    BY <1>1 DEF TypeOK, Request
  <1>3. /\ FetchList(addr) /\ pc' = "idle"
        /\ UNCHANGED <<req, xfer_len, xfer_buf, list, i, held, chunks, moved, returned, starved>>
    BY DEF WalkNextList
  <1>4. /\ addr = List(list.page + 1, 0) /\ list.page \in Nat
        /\ AtPage(Before(list.page + 1))
    BY <1>1, WalkFacts
  <1>5. /\ addr \in Addr /\ addr.kind = "list" /\ addr.off = ListOff(addr.page)
        /\ AtPage(Before(addr.page)) /\ xfer_len > Mps
    BY <1>1, <1>4, PageAssumption DEF List, Addr, ListOff, Chains
  <1> HIDE DEF addr
  <1>6. /\ prp_size' \in 0..Mps
        /\ queue' \in [{"rx", "tx"} -> Seq(Chunk \cup Fetch)]
        /\ InOrder' /\ Fetching' /\ ListAt(Rx[Len(Rx)].addr)'
        /\ (Rx[Len(Rx)].size)' = prp_size'
        /\ AtPage(Before(Rx[Len(Rx)].addr.page))'
    BY <1>1, <1>3, <1>5, FetchStep
  <1>7. returned = 0 /\ starved = 0 /\ held = 1
    BY <1>1, <1>2, NotReturned DEF IInv, Ends
  <1>8. TypeOK'
    BY <1>2, <1>3, <1>6 DEF TypeOK, Request
  <1>9. ChunksTile'
    <2>1. \A p : HostAddr(p)' = HostAddr(p)
      BY <1>3 DEF HostAddr
    <2> QED
      BY <1>1, <1>3, <2>1 DEF ChunksTile
  <1>10. LastIsLast'
    BY <1>1, <1>3 DEF LastIsLast
  <1>11. Walked'
    BY <1>3, <1>6 DEF Walked
  <1>12. Ends'
    BY <1>1, <1>2, <1>3, <1>6, <1>7 DEF Ends
  <1> QED
    BY <1>6, <1>8, <1>9, <1>10, <1>11, <1>12 DEF IInv

\* prp_cb at its end gives the PRP buffer back.
LEMMA WalkEndInv ==
  IInv /\ WalkEnd => IInv'
  <1> SUFFICES ASSUME IInv, WalkEnd
               PROVE  IInv'
    OBVIOUS
  <1>1. /\ TypeOK /\ ChunksTile /\ InOrder /\ LastIsLast /\ ~Fetching
        /\ pc = "walk" /\ xfer_len = 0 /\ pc' = "idle" /\ held' = 0
        /\ UNCHANGED <<req, xfer_len, xfer_buf, prp_size, list, i, queue, chunks,
                       moved, returned, starved>>
    BY DEF IInv, Walked, WalkEnd
  <1>2. ChunksTile' /\ InOrder' /\ LastIsLast' /\ ~Fetching'
    BY <1>1, SameQueues
  <1>3. TypeOK'
    BY <1>1 DEF TypeOK
  <1>4. Walked'
    BY <1>1, <1>2 DEF Walked
  <1>5. Ends'
    BY <1>1, <1>2 DEF IInv, Ends
  <1> QED
    BY <1>2, <1>3, <1>4, <1>5 DEF IInv

\* What a channel that has something to deliver holds.
LEMMA ChannelFacts ==
  ASSUME TypeOK, InOrder, NEW c \in {"rx", "tx"}, queue[c] # <<>>
  PROVE  /\ queue[c] \in Seq(Chunk \cup Fetch) /\ Len(queue[c]) \in Nat \ {0}
         /\ Head(queue[c]) = queue[c][1] /\ Head(queue[c]) \in Chunk \cup Fetch
         /\ Head(queue[c]).kind = "list" => c = "rx" /\ Fetching /\ Len(Rx) = 1
         /\ Head(queue[c]).kind = "chunk" =>
              /\ c = req.dir /\ moved + 1 \in 1..Len(chunks)
              /\ Head(queue[c]) = chunks[moved + 1]
              /\ c = "rx" /\ Fetching => Len(Rx) > 1
  <1>1. /\ queue \in [{"rx", "tx"} -> Seq(Chunk \cup Fetch)] /\ moved \in Nat
        /\ Len(chunks) \in Nat
    BY DEF TypeOK
  <1>2. /\ queue[c] \in Seq(Chunk \cup Fetch) /\ Len(queue[c]) \in Nat \ {0}
        /\ Head(queue[c]) = queue[c][1] /\ Head(queue[c]) \in Chunk \cup Fetch
    BY <1>1, TailEntries
  <1>3. ASSUME Head(queue[c]).kind = "list"
        PROVE  c = "rx" /\ Fetching /\ Len(Rx) = 1
    <2>1. c = "rx"
      BY <1>2, <1>3 DEF InOrder
    <2>2. Rx # <<>> /\ 1 \in 1..Len(Rx) /\ Rx[1].kind = "list"
      BY <1>2, <1>3, <2>1 DEF Rx
    <2>3. Len(Rx) = 1
      BY <2>2 DEF InOrder
    <2> QED
      BY <2>1, <2>2, <2>3 DEF Fetching
  <1>4. ASSUME Head(queue[c]).kind = "chunk"
        PROVE  /\ c = req.dir /\ moved + 1 \in 1..Len(chunks)
               /\ Head(queue[c]) = chunks[moved + 1]
               /\ c = "rx" /\ Fetching => Len(Rx) > 1
    <2>1. c = "rx" /\ Fetching => Len(queue[c]) > 1
      BY <1>2, <1>4 DEF Fetching, Rx
    <2>2. Len(queue[c]) = (IF c = req.dir THEN Len(chunks) - moved ELSE 0)
                            + (IF c = "rx" /\ Fetching THEN 1 ELSE 0)
      BY DEF InOrder
    <2>3. moved <= Len(chunks)
      BY DEF InOrder
    <2>4. c = req.dir /\ moved + 1 \in 1..Len(chunks)
      <3> DEFINE n == Len(queue[c])
                 m == Len(chunks)
      <3>0. n \in Nat \ {0} /\ m \in Nat
        BY <1>1, <1>2
      <3>1. CASE c = "rx" /\ Fetching
        <4>1. n > 1 /\ n = (IF c = req.dir THEN m - moved ELSE 0) + 1
          BY <3>1, <2>1, <2>2
        <4> HIDE DEF n, m
        <4>2. c = req.dir /\ moved + 1 \in 1..m
          BY <4>1, <3>0, <1>1
        <4> QED
          BY <4>2 DEF m
      <3>2. CASE ~(c = "rx" /\ Fetching)
        <4>1. n = (IF c = req.dir THEN m - moved ELSE 0) + 0
          BY <3>2, <2>2
        <4> HIDE DEF n, m
        <4>2. c = req.dir /\ moved + 1 \in 1..m
          BY <4>1, <3>0, <1>1
        <4> QED
          BY <4>2 DEF m
      <3> QED
        BY <3>1, <3>2
    <2>5. queue[c][1] = chunks[moved + 1]
      <3>1. 1 \in 1..Len(queue[c]) /\ queue[c][1].kind = "chunk"
        BY <1>2, <1>4
      <3> QED
        BY <3>1 DEF InOrder
    <2> QED
      BY <1>2, <2>1, <2>4, <2>5 DEF Rx
  <1> QED
    BY <1>2, <1>3, <1>4

\* The first of a channel is gone: what that leaves.
LEMMA DeliverQueue ==
  ASSUME TypeOK, InOrder, NEW c \in {"rx", "tx"}, queue[c] # <<>>,
         queue' = [queue EXCEPT ![c] = Tail(@)]
  PROVE  /\ queue' \in [{"rx", "tx"} -> Seq(Chunk \cup Fetch)]
         /\ Len(queue'[c]) = Len(queue[c]) - 1
         /\ \A k \in 1..(Len(queue[c]) - 1) : queue'[c][k] = queue[c][k + 1]
         /\ \A d \in {"rx", "tx"} : d # c => queue'[d] = queue[d]
  <1>1. queue \in [{"rx", "tx"} -> Seq(Chunk \cup Fetch)]
    BY DEF TypeOK
  <1>2. /\ Tail(queue[c]) \in Seq(Chunk \cup Fetch)
        /\ Len(Tail(queue[c])) = Len(queue[c]) - 1
        /\ \A k \in 1..(Len(queue[c]) - 1) : Tail(queue[c])[k] = queue[c][k + 1]
    BY <1>1, TailEntries
  <1>3. queue'[c] = Tail(queue[c])
    BY <1>1
  <1>4. queue' \in [{"rx", "tx"} -> Seq(Chunk \cup Fetch)]
    BY <1>1, <1>2
  <1>5. \A d \in {"rx", "tx"} : d # c => queue'[d] = queue[d]
    BY <1>1
  <1> QED
    BY <1>2, <1>3, <1>4, <1>5

\* A chunk moves; the last one completes the command.
LEMMA DeliverChunkInv ==
  ASSUME IInv, NEW c \in {"rx", "tx"}, DeliverChunk(c)
  PROVE  IInv'
  <1>1. /\ TypeOK /\ ChunksTile /\ InOrder /\ LastIsLast /\ Walked /\ Ends
        /\ pc = "idle" /\ queue[c] # <<>> /\ Head(queue[c]).kind = "chunk"
    BY DEF IInv, DeliverChunk
  <1>2. /\ req \in Request /\ xfer_len \in Nat /\ moved \in Nat /\ returned \in Nat
        /\ Len(chunks) \in Nat /\ starved \in {0, 1} /\ held \in {0, 1}
    BY <1>1 DEF TypeOK, Request
  <1>3. /\ queue' = [queue EXCEPT ![c] = Tail(@)] /\ moved' = moved + 1
        /\ returned' = IF Head(queue[c]).last THEN returned + 1 ELSE returned
        /\ UNCHANGED <<req, xfer_len, xfer_buf, prp_size, list, i, pc, held, chunks, starved>>
    BY DEF DeliverChunk
  <1>4. /\ Len(queue[c]) \in Nat \ {0} /\ c = req.dir /\ moved + 1 \in 1..Len(chunks)
        /\ Head(queue[c]) = chunks[moved + 1]
        /\ c = "rx" /\ Fetching => Len(Rx) > 1
    BY <1>1, ChannelFacts
  <1> DEFINE n == Len(queue[c])
  <1>5. /\ queue' \in [{"rx", "tx"} -> Seq(Chunk \cup Fetch)]
        /\ Len(queue'[c]) = n - 1
        /\ \A k \in 1..(n - 1) : queue'[c][k] = queue[c][k + 1]
        /\ \A d \in {"rx", "tx"} : d # c => queue'[d] = queue[d]
    BY <1>1, <1>3, DeliverQueue
  <1>6. Fetching' = Fetching /\ (Fetching => Rx'[Len(Rx')] = Rx[Len(Rx)])
    <2>1. CASE c = "tx"
      BY <2>1, <1>5 DEF Fetching, Rx
    <2>2. CASE c = "rx" /\ n = 1
      <3>1. queue'["rx"] = <<>>
        BY <2>2, <1>4, <1>5, EmptySeq
      <3> QED
        BY <2>2, <3>1, <1>4 DEF Fetching, Rx
    <2>3. CASE c = "rx" /\ n > 1
      <3>1. n - 1 \in 1..(n - 1)
        BY <2>3, <1>4
      <3>2. queue'["rx"][Len(queue'["rx"])] = queue["rx"][n]
        BY <2>3, <3>1, <1>4, <1>5
      <3>3. queue'["rx"] # <<>>
        BY <2>3, <3>1, <1>5
      <3> QED
        BY <2>3, <3>2, <3>3, <1>1 DEF Fetching, Rx
    <2>4. n \in Nat \ {0}
      BY <1>4
    <2> HIDE DEF n
    <2>5. n = 1 \/ n > 1
      BY <2>4
    <2> QED
      BY <2>1, <2>2, <2>3, <2>5
  <1>7. InOrder'
    <2>1. moved' <= Len(chunks')
      BY <1>2, <1>3, <1>4
    <2>2. \A k \in 1..Len(queue'["rx"]) : queue'["rx"][k].kind = "list" => k = Len(queue'["rx"])
      <3>1. CASE c = "tx"
        BY <3>1, <1>1, <1>5 DEF InOrder, Rx
      <3>2. CASE c = "rx"
        <4>1. ASSUME NEW k \in 1..(n - 1), queue'[c][k].kind = "list"
              PROVE  k = n - 1
          <5>1. k + 1 \in 1..n
            BY <1>4
          <5>2. queue[c][k + 1].kind = "list"
            BY <4>1, <1>5
          <5>3. k + 1 = n
            BY <3>2, <5>1, <5>2, <1>1 DEF InOrder, Rx
          <5> QED
            BY <5>3, <1>4
        <4> QED
          BY <3>2, <4>1, <1>5
      <3> QED
        BY <3>1, <3>2
    <2>3. \A k \in 1..Len(queue'["tx"]) : queue'["tx"][k].kind = "chunk"
      <3>1. CASE c = "rx"
        BY <3>1, <1>1, <1>5 DEF InOrder
      <3>2. CASE c = "tx"
        <4>1. ASSUME NEW k \in 1..(n - 1)
              PROVE  queue'[c][k].kind = "chunk"
          <5>1. k + 1 \in 1..n
            BY <1>4
          <5>2. queue[c][k + 1].kind = "chunk"
            BY <3>2, <5>1, <1>1 DEF InOrder
          <5> QED
            BY <5>2, <1>5
        <4> QED
          BY <3>2, <4>1, <1>5
      <3> QED
        BY <3>1, <3>2
    <2>4. ASSUME NEW d \in {"rx", "tx"}
          PROVE  /\ Len(queue'[d]) = (IF d = req'.dir THEN Len(chunks') - moved' ELSE 0)
                                       + (IF d = "rx" /\ Fetching' THEN 1 ELSE 0)
                 /\ \A k \in 1..Len(queue'[d]) :
                      queue'[d][k].kind = "chunk" => queue'[d][k] = chunks'[moved' + k]
      <3>1. /\ Len(queue[d]) = (IF d = req.dir THEN Len(chunks) - moved ELSE 0)
                                 + (IF d = "rx" /\ Fetching THEN 1 ELSE 0)
            /\ \A k \in 1..Len(queue[d]) :
                 queue[d][k].kind = "chunk" => queue[d][k] = chunks[moved + k]
        BY <1>1 DEF InOrder
      <3>2. CASE d # c
        <4>1. Len(queue'[d]) = IF d = "rx" /\ Fetching' THEN 1 ELSE 0
          BY <3>1, <3>2, <1>4, <1>5, <1>6
        <4>2. \A k \in 1..Len(queue'[d]) : queue'[d][k].kind # "chunk"
          <5>1. CASE d = "rx" /\ Fetching
            BY <5>1, <4>1, <3>2, <1>5, <1>6 DEF Fetching, Rx
          <5>2. CASE ~(d = "rx" /\ Fetching)
            BY <5>2, <4>1, <1>6
          <5> QED
            BY <5>1, <5>2
        <4> QED
          BY <3>2, <4>1, <4>2, <1>3, <1>4
      <3>3. CASE d = c
        <4>1. n = (Len(chunks) - moved) + (IF d = "rx" /\ Fetching THEN 1 ELSE 0)
          BY <3>1, <3>3, <1>4
        <4>2. Len(queue'[d]) = (Len(chunks) - (moved + 1)) + (IF d = "rx" /\ Fetching' THEN 1 ELSE 0)
          BY <4>1, <3>3, <1>2, <1>4, <1>5, <1>6
        <4>3. ASSUME NEW k \in 1..(n - 1), queue'[d][k].kind = "chunk"
              PROVE  queue'[d][k] = chunks[(moved + 1) + k]
          <5>1. queue'[d][k] = queue[d][k + 1] /\ k + 1 \in 1..n
            BY <3>3, <1>4, <1>5
          <5>2. queue[d][k + 1] = chunks[moved + (k + 1)]
            BY <5>1, <4>3, <3>1, <3>3
          <5>3. moved + (k + 1) = (moved + 1) + k
            BY <1>2
          <5> QED
            BY <5>1, <5>2, <5>3
        <4> QED
          BY <3>3, <4>2, <4>3, <1>3, <1>4, <1>5
      <3> QED
        BY <3>2, <3>3
    <2> QED
      BY <2>1, <2>2, <2>3, <2>4 DEF InOrder, Rx
  <1>8. ChunksTile' /\ LastIsLast'
    <2>1. \A p : HostAddr(p)' = HostAddr(p)
      BY <1>3 DEF HostAddr
    <2> QED
      BY <1>1, <1>3, <2>1 DEF ChunksTile, LastIsLast
  <1>9. TypeOK'
    BY <1>1, <1>2, <1>3, <1>5 DEF TypeOK
  <1>10. Walked'
    <2>1. ASSUME Fetching
          PROVE  /\ ListAt(Rx[Len(Rx)].addr)' /\ (Rx[Len(Rx)].size)' = prp_size'
                 /\ AtPage(Before(Rx[Len(Rx)].addr.page))'
      BY <2>1, <1>1, <1>3, <1>6, SameList, SamePage, SameRequest DEF Walked
    <2> QED
      BY <1>1, <1>3, <1>6, <2>1 DEF Walked
  <1>11. Ends'
    <2>1. Head(queue[c]).last <=> (moved + 1 = Len(chunks) /\ xfer_len = 0)
      BY <1>1, <1>4 DEF LastIsLast
    <2>2. starved = 1 => ~Head(queue[c]).last
      BY <1>1, <2>1 DEF Ends
    <2>3. moved # Len(chunks)
      BY <1>2, <1>4
    <2>4. returned' = IF starved = 1 \/ (xfer_len = 0 /\ moved + 1 = Len(chunks)) THEN 1 ELSE 0
      BY <1>1, <1>3, <2>1, <2>2, <2>3 DEF Ends
    <2> QED
      BY <1>1, <1>3, <1>6, <2>4 DEF Ends
  <1> QED
    BY <1>7, <1>8, <1>9, <1>10, <1>11 DEF IInv

\* A list arrives: it was the only one, and prp_cb starts at its first entry.
LEMMA DeliverListInv ==
  ASSUME IInv, NEW c \in {"rx", "tx"}, DeliverList(c)
  PROVE  IInv'
  <1>1. /\ TypeOK /\ ChunksTile /\ InOrder /\ LastIsLast /\ Walked /\ Ends
        /\ pc = "idle" /\ queue[c] # <<>> /\ Head(queue[c]).kind = "list"
    BY DEF IInv, DeliverList
  <1>2. /\ req \in Request /\ xfer_len \in Nat /\ xfer_buf \in Nat /\ moved \in Nat
        /\ returned \in Nat /\ Len(chunks) \in Nat /\ starved \in {0, 1}
    BY <1>1 DEF TypeOK, Request
  <1>3. /\ queue' = [queue EXCEPT ![c] = Tail(@)] /\ list' = Head(queue[c]).addr
        /\ i' = 0 /\ pc' = "walk"
        /\ UNCHANGED <<req, xfer_len, xfer_buf, prp_size, held, chunks, moved, returned, starved>>
    BY DEF DeliverList
  <1>4. /\ c = "rx" /\ Fetching /\ Len(Rx) = 1 /\ Head(queue[c]) = Rx[1]
        /\ Head(queue[c]) \in Chunk \cup Fetch
    BY <1>1, ChannelFacts DEF Rx
  <1>5. /\ queue' \in [{"rx", "tx"} -> Seq(Chunk \cup Fetch)]
        /\ Len(queue'["rx"]) = 0 /\ queue'["tx"] = queue["tx"]
    BY <1>1, <1>3, <1>4, DeliverQueue DEF Rx
  <1>6. queue'["rx"] = <<>> /\ ~Fetching'
    BY <1>5, EmptySeq DEF Fetching, Rx
  <1>7. list' \in Addr
    BY <1>1, <1>3, <1>4 DEF Chunk, Fetch
  <1>8. ListAt(list') /\ AtPage(Before(list'.page))
    BY <1>1, <1>3, <1>4 DEF Walked
  <1>9. PrpLast \in Nat
    BY <1>2, <1>7, <1>8, PrpEntries
  <1>10. AtPage(Before(list.page) + i)'
    <2>1. Before(list'.page) \in Nat
      BY <1>2, <1>7, BeforeFacts DEF Addr
    <2>2. Before(list.page)' = Before(list'.page)
      BY <1>3, SameRequest
    <2>3. Before(list.page)' + i' = Before(list'.page)
      BY <1>3, <2>1, <2>2
    <2>4. AtPage(Before(list'.page) + 0)
      BY <1>8, <2>1
    <2> QED
      BY <1>3, <1>8, <2>3, SamePage
  <1>11. Walked'
    BY <1>3, <1>6, <1>8, <1>9, <1>10, SameList DEF Walked
  <1>12. InOrder'
    <2>1. /\ moved <= Len(chunks)
          /\ \A k \in 1..Len(queue["tx"]) :
               queue["tx"][k].kind = "chunk" /\ queue["tx"][k] = chunks[moved + k]
          /\ Len(queue["tx"]) = (IF "tx" = req.dir THEN Len(chunks) - moved ELSE 0) + 0
      BY <1>1 DEF InOrder
    <2>2. 1 = (IF "rx" = req.dir THEN Len(chunks) - moved ELSE 0) + 1
      BY <1>1, <1>4 DEF InOrder, Rx
    <2>3. 0 = (IF "rx" = req.dir THEN Len(chunks) - moved ELSE 0) + 0
      BY <1>2, <2>2
    <2> QED
      BY <1>3, <1>5, <1>6, <2>1, <2>3 DEF InOrder, Rx
  <1>13. ChunksTile' /\ LastIsLast'
    <2>1. \A p : HostAddr(p)' = HostAddr(p)
      BY <1>3 DEF HostAddr
    <2> QED
      BY <1>1, <1>3, <2>1 DEF ChunksTile, LastIsLast
  <1>14. TypeOK'
    BY <1>1, <1>3, <1>5, <1>7 DEF TypeOK
  <1>15. Ends'
    BY <1>1, <1>2, <1>3, <1>4, <1>6 DEF Ends
  <1> QED
    BY <1>11, <1>12, <1>13, <1>14, <1>15 DEF IInv

-----------------------------------------------------------------------------
(* The theorems                                                            *)

\* Every step of the handlers and of the channels preserves the invariant.
LEMMA StepInv ==
  IInv /\ [Next]_vars => IInv'
  <1> SUFFICES ASSUME IInv, [Next]_vars
               PROVE  IInv'
    OBVIOUS
  <1>1. CASE FirstChunk
    BY <1>1, FirstChunkInv
  <1>2. CASE OnePage
    BY <1>2, OnePageInv
  <1>3. CASE SecondChunk
    BY <1>3, SecondChunkInv
  <1>4. CASE FirstList
    BY <1>4, FirstListInv
  <1>5. CASE NoPrpBuffer
    BY <1>5, NoPrpBufferInv
  <1>6. CASE WalkChunk
    BY <1>6, WalkChunkInv
  <1>7. CASE WalkNextList
    BY <1>7, WalkNextListInv
  <1>8. CASE WalkEnd
    BY <1>8, WalkEndInv
  <1>9. CASE Deliver
    BY <1>9, DeliverChunkInv, DeliverListInv DEF Deliver
  <1>10. CASE UNCHANGED vars
    <2>1. UNCHANGED <<req, xfer_len, xfer_buf, prp_size, list, i, pc, held, queue, chunks,
                      moved, returned, starved>>
      BY <1>10 DEF vars
    <2>2. ChunksTile' /\ InOrder' /\ LastIsLast' /\ Fetching' = Fetching /\ Rx' = Rx
      BY <2>1, SameQueues DEF IInv
    <2>3. Walked'
      BY <2>1, <2>2, SameList, SamePage, SameRequest DEF IInv, Walked
    <2>4. TypeOK'
      BY <2>1 DEF IInv, TypeOK
    <2>5. Ends'
      BY <2>1, <2>2 DEF IInv, Ends
    <2> QED
      BY <2>2, <2>3, <2>4, <2>5 DEF IInv
  <1> QED
    BY <1>1, <1>2, <1>3, <1>4, <1>5, <1>6, <1>7, <1>8, <1>9, <1>10
       DEF Next, Transfer, Walk

\* So it always holds.
LEMMA Invariance ==
  Spec => []IInv
  BY InitInv, StepInv, PTL DEF Spec

\* transfer_data_with_prps and prp_cb cut the data as the host's PRPs say: the
\* chunks tile the local buffer, and each goes to where the host keeps that part,
\* whatever the page size, the length, the offsets and the number of lists.
THEOREM TilingHolds ==
  Spec => []ChunksTile
  <1>1. IInv => ChunksTile
    BY DEF IInv
  <1> QED
    BY <1>1, Invariance, PTL

\* Every list is fetched from where the host put one, within its page and within
\* the buffer of prp_slab, which is held until then.
THEOREM ListBoundsHold ==
  Spec => []ListsInBounds
  <1>1. IInv => ListsInBounds
    <2> SUFFICES ASSUME IInv, NEW k \in 1..Len(queue["rx"]), queue["rx"][k].kind = "list"
                 PROVE  /\ queue["rx"][k].addr.kind = "list"
                        /\ queue["rx"][k].addr.off + queue["rx"][k].size <= Mps
                        /\ queue["rx"][k].size >= EntrySize
                        /\ held = 1
      BY DEF ListsInBounds, IInv
    <2> DEFINE f == queue["rx"][k]
    <2>1. k = Len(queue["rx"]) /\ Fetching
      <3>1. k = Len(queue["rx"])
        BY DEF IInv, InOrder, Rx
      <3> QED
        BY <3>1 DEF Fetching, Rx
    <2>2. ListAt(f.addr) /\ f.size = prp_size /\ held = 1
      BY <2>1 DEF IInv, Walked, Ends, Rx
    <2>3. req \in Request /\ f \in Chunk \cup Fetch
      BY DEF IInv, TypeOK, Request
    <2>4. f.addr \in Addr
      BY <2>3 DEF Chunk, Fetch
    <2>5. /\ PrpLast \in Nat /\ prp_size = (PrpLast + 1) * EntrySize
          /\ f.addr.off + prp_size <= Mps
      BY <2>2, <2>3, <2>4, PrpEntries
    <2>6. prp_size >= EntrySize
      BY <2>5, PageAssumption
    <2> QED
      BY <2>2, <2>5, <2>6 DEF ListAt
  <1> QED
    BY <1>1, Invariance, PTL

\* The callback that completes the command runs once, after all of its data have
\* moved and with prp_slab's buffer given back, unless there was none to be had.
THEOREM ReturnsAfterDataHolds ==
  Spec => []ReturnsAfterData
  <1>1. IInv => ReturnsAfterData
    <2> SUFFICES ASSUME IInv
                 PROVE  ReturnsAfterData
      OBVIOUS
    <2>1. Ends /\ Walked /\ starved \in {0, 1}
      BY DEF IInv, TypeOK
    <2>2. returned \in {0, 1}
      BY <2>1 DEF Ends
    <2>3. ASSUME returned = 1, starved = 0
          PROVE  xfer_len = 0 /\ moved = Len(chunks) /\ held = 0
      <3>1. xfer_len = 0 /\ moved = Len(chunks)
        BY <2>1, <2>3 DEF Ends
      <3>2. moved \in Nat /\ ~Fetching /\ pc = "idle"
        BY <3>1, <2>1 DEF IInv, TypeOK, Ends
      <3> QED
        BY <3>1, <3>2, <2>1 DEF Ends
    <2> QED
      BY <2>2, <2>3 DEF ReturnsAfterData
  <1> QED
    BY <1>1, Invariance, PTL
=============================================================================
