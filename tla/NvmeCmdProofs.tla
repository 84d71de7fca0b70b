--------------------------- MODULE NvmeCmdProofs ----------------------------
(***************************************************************************)
(* Proofs about the life of commands, for any number of commands, blocks,  *)
(* buffers and lists, with messages that fail and lists that cannot be had *)
(* and with the main thread interrupted wherever it can be.  That it may   *)
(* use a block that has been given to another command meanwhile (reused;   *)
(* the run cmd_stale shows it) the types and prp_slab survive; all the     *)
(* rest is shown of the states before that.                                *)
(***************************************************************************)
EXTENDS NvmeCmd, SequenceTheorems, FiniteSetTheorems, TLAPS

-----------------------------------------------------------------------------
(* The inductive invariant                                                 *)

Chans    == {"rx", "tx"}
Channels == [Chans -> Seq(Transfers)]
Answers  == [id : {"return", "return_data"}, block : Block, buf : Buffer \cup {Null}, len : 1..3]

\* An entry t of a channel goes on with the command of block b when it is done:
\* it has a callback.
Carries(t, b) == t.last /\ t.block = b
CarriedOn(d, c, b) == \E k \in 1..Len(d[c]) : Carries(d[c][k], b)
NotCarried(d, b) == \A c \in Chans : \A k \in 1..Len(d[c]) : ~Carries(d[c][k], b)

\* At most one entry goes on with a command.
OneCarries(d) ==
  \A c1, c2 \in Chans : \A k1 \in 1..Len(d[c1]), k2 \in 1..Len(d[c2]) :
    /\ d[c1][k1].last /\ d[c2][k2].last
    /\ d[c1][k1].block = d[c2][k2].block
    => c1 = c2 /\ k1 = k2

\* Behind the chunk with the callback there is none of its block.
NoneBehind(d) ==
  \A c \in Chans : \A j, k \in 1..Len(d[c]) :
    /\ d[c][j].kind = "chunk" /\ d[c][j].last /\ d[c][k].kind = "chunk"
    /\ d[c][k].block = d[c][j].block
    => k <= j

\* What an entry t of channel c says of its block.  A chunk without callback may
\* be left from a command that was completed early; its buffer has been leaked.
EntryOK(c, t) ==
  /\ t.kind # "chunk" => t.last
  /\ t.last => t.cmd = cmd[t.block]
  /\ t.kind = "cq" => c = "tx" /\ stage[t.block] = "posted"
  /\ t.kind \in {"fetch", "list"} =>
       c = "rx" /\ stage[t.block] = "run" /\ thread.block # t.block
  /\ t.kind = "fetch" => data[t.block] = Null
  /\ t.kind = "list" =>
       /\ xfer[t.block].len = 2 /\ xfer[t.block].cb # "none"
       /\ xfer[t.block].buf \in {Null, Disk, data[t.block]}
  /\ t.kind = "chunk" /\ t.last =>
       stage[t.block] = "run" /\ xfer[t.block].cb # "none" /\ xfer[t.block].dir = c
  /\ t.kind = "chunk" /\ t.buf \in Buffer =>
       \/ t.buf \in leaked
       \/ stage[t.block] = "run" /\ data[t.block] = t.buf /\ xfer[t.block].dir = c

EntriesOK == \A c \in Chans : \A k \in 1..Len(dma[c]) : EntryOK(c, dma[c][k])

\* An answer is that of one command, which waits for it.
RepliesOK ==
  /\ \A k \in 1..Len(replies) :
       stage[replies[k].block] = "replied" /\ replies[k].buf = data[replies[k].block]
  /\ \A j, k \in 1..Len(replies) : replies[j].block = replies[k].block => j = k

\* The main thread is in transfer_data_with_prps and has more to queue.
Working ==
  \/ thread.pc = "count" /\ xfer[thread.block].len \in {2, 3}
  \/ thread.pc = "test" /\ xfer[thread.block].len \in {1, 2}

\* What the main thread is doing; when it has queued the last chunk the command
\* may be completed and its block free before the thread is done with it.
ThreadOK ==
  /\ thread.pc = "idle" <=> thread.block = NoBlock
  /\ thread.pc # "idle" => thread.block \in Block
  /\ thread.pc = "free" => stage[thread.block] \in {"posted", "free"}
  /\ thread.pc \in {"count", "test", "count2"} =>
       /\ stage[thread.block] \in {"run", "posted", "free"}
       /\ xfer[thread.block].cb = "rpmsg" /\ xfer[thread.block].dir = "tx"
       /\ stage[thread.block] = "run" => xfer[thread.block].buf = data[thread.block]
  /\ thread.pc = "count" => xfer[thread.block].len \in {1, 2, 3}
  /\ thread.pc = "test" => xfer[thread.block].len \in {0, 1, 2}
  /\ thread.pc = "count2" => xfer[thread.block].len = 1
  /\ Working => stage[thread.block] = "run" /\ NotCarried(dma, thread.block)

\* Whoever goes on with the command of block b.
BlockOK(b) ==
  /\ stage[b] # "free" => cmd[b] \in Cmd
  /\ stage[b] = "run" /\ xfer[b].cb = "return" => data[b] = Null
  /\ stage[b] = "run" => \/ \E c \in Chans : CarriedOn(dma, c, b)
                         \/ Working /\ thread.block = b
  /\ stage[b] = "posted" => CarriedOn(dma, "tx", b)
  /\ stage[b] = "replied" => \E k \in 1..Len(replies) : replies[k].block = b
  /\ stage[b] = "stuck" => cmd[b] \in lost

BlocksOK == \A b \in Block : BlockOK(b)

\* A command that is not lost is in the queue or in a block.
Placed ==
  \A c \in outstanding \ lost :
    \/ \E k \in 1..Len(sq) : sq[k] = c
    \/ \E b \in Block : cmd[b] = c /\ stage[b] # "free"

IInv ==
  /\ StateTypeOK /\ BuffersAccounted /\ PrpsAccounted
  /\ OneCarries(dma) /\ NoneBehind(dma) /\ EntriesOK
  /\ RepliesOK /\ ThreadOK /\ BlocksOK /\ Placed

-----------------------------------------------------------------------------
(* The channels                                                            *)

\* A channel after Put, entry by entry.
LEMMA PutFacts ==
  ASSUME NEW d \in Channels, NEW c \in Chans, NEW x \in Transfers
  PROVE  /\ Put(d, c, x) \in Channels
         /\ Len(d[c]) \in Nat /\ Len(Put(d, c, x)[c]) = Len(d[c]) + 1
         /\ \A k \in 1..Len(d[c]) : Put(d, c, x)[c][k] = d[c][k]
         /\ Put(d, c, x)[c][Len(d[c]) + 1] = x
         /\ \A e \in Chans : e # c => Put(d, c, x)[e] = d[e]
  <1>1. d[c] \in Seq(Transfers)
    BY DEF Channels
  <1>2. Put(d, c, x)[c] = Append(d[c], x)
    BY DEF Put, Channels
  <1>3. \A e \in Chans : e # c => Put(d, c, x)[e] = d[e]
    BY DEF Put, Channels
  <1>4. /\ Append(d[c], x) \in Seq(Transfers) /\ Len(d[c]) \in Nat
        /\ Len(Append(d[c], x)) = Len(d[c]) + 1
        /\ \A k \in 1..Len(d[c]) : Append(d[c], x)[k] = d[c][k]
        /\ Append(d[c], x)[Len(d[c]) + 1] = x
    BY <1>1
  <1>5. Put(d, c, x) \in Channels
    BY <1>4 DEF Put, Channels
  <1> QED
    BY <1>2, <1>3, <1>4, <1>5

\* Channel c of d without its first entry.
Popped(d, c) == [d EXCEPT ![c] = Tail(@)]

\* A channel after its first entry was taken off, entry by entry.
LEMMA PoppedFacts ==
  ASSUME NEW d \in Channels, NEW c \in Chans, d[c] # <<>>
  PROVE  /\ Popped(d, c) \in Channels
         /\ Len(d[c]) \in Nat \ {0} /\ Len(Popped(d, c)[c]) = Len(d[c]) - 1
         /\ Head(d[c]) = d[c][1] /\ Head(d[c]) \in Transfers
         /\ \A k \in 1..(Len(d[c]) - 1) : Popped(d, c)[c][k] = d[c][k + 1]
         /\ \A e \in Chans : e # c => Popped(d, c)[e] = d[e]
  <1>1. d[c] \in Seq(Transfers)
    BY DEF Channels
  <1>2. Popped(d, c)[c] = Tail(d[c])
    BY DEF Popped, Channels
  <1>3. \A e \in Chans : e # c => Popped(d, c)[e] = d[e]
    BY DEF Popped, Channels
  <1>4. Len(d[c]) \in Nat \ {0}
    BY <1>1, EmptySeq
  <1>5. /\ Tail(d[c]) \in Seq(Transfers) /\ Len(Tail(d[c])) = Len(d[c]) - 1
        /\ Head(d[c]) = d[c][1] /\ Head(d[c]) \in Transfers
        /\ \A k \in 1..(Len(d[c]) - 1) : Tail(d[c])[k] = d[c][k + 1]
    BY <1>1, <1>4
  <1>6. Popped(d, c) \in Channels
    BY <1>5 DEF Popped, Channels
  <1> QED
    BY <1>2, <1>3, <1>4, <1>5, <1>6

\* The entries of e are entries of d.
Within(e, d) ==
  \A c \in Chans : \A k \in 1..Len(e[c]) : \E j \in 1..Len(d[c]) : e[c][k] = d[c][j]

\* The other blocks are carried in e as they are in d.
CarriesOthers(e, d, b) ==
  \A b2 \in Block \ {b} :
    /\ \A c \in Chans : CarriedOn(d, c, b2) => CarriedOn(e, c, b2)
    /\ NotCarried(d, b2) => NotCarried(e, b2)

\* The structure of the channels.
Orderly(d) == d \in Channels /\ OneCarries(d) /\ NoneBehind(d)

\* Put keeps the channels orderly when nothing else goes on with the command, and
\* leaves the other commands alone.
LEMMA PutOrderly ==
  ASSUME NEW d, Orderly(d), NEW c \in Chans, NEW x \in Transfers, NotCarried(d, x.block)
  PROVE  /\ Orderly(Put(d, c, x))
         /\ CarriesOthers(Put(d, c, x), d, x.block)
         /\ x.last => CarriedOn(Put(d, c, x), c, x.block)
         /\ ~x.last => NotCarried(Put(d, c, x), x.block)
  <1> DEFINE e == Put(d, c, x)
             n == Len(d[c])
  <1>1. /\ e \in Channels /\ n \in Nat /\ Len(e[c]) = n + 1 /\ e[c][n + 1] = x
        /\ \A k \in 1..n : e[c][k] = d[c][k]
        /\ \A f \in Chans : f # c => e[f] = d[f]
    BY PutFacts DEF Orderly
  <1> HIDE DEF e, n
  <1>2. \A f \in Chans : \A k \in 1..Len(e[f]) :
          \/ k \in 1..Len(d[f]) /\ e[f][k] = d[f][k]
          \/ f = c /\ k = n + 1 /\ e[f][k] = x
    BY <1>1 DEF n
  <1>3. \A f \in Chans : \A k \in 1..Len(d[f]) : k \in 1..Len(e[f]) /\ e[f][k] = d[f][k]
    BY <1>1 DEF n
  <1>4. \A f \in Chans : \A k \in 1..Len(d[f]) : ~(d[f][k].last /\ d[f][k].block = x.block)
    BY DEF NotCarried, Carries
  <1>5. OneCarries(e)
    <2> SUFFICES ASSUME NEW c1 \in Chans, NEW c2 \in Chans,
                        NEW k1 \in 1..Len(e[c1]), NEW k2 \in 1..Len(e[c2]),
                        e[c1][k1].last, e[c2][k2].last, e[c1][k1].block = e[c2][k2].block
                 PROVE  c1 = c2 /\ k1 = k2
      BY DEF OneCarries
    <2>1. CASE k1 \in 1..Len(d[c1]) /\ e[c1][k1] = d[c1][k1]
      <3>1. CASE k2 \in 1..Len(d[c2]) /\ e[c2][k2] = d[c2][k2]
        BY <2>1, <3>1 DEF Orderly, OneCarries
      <3>2. CASE e[c2][k2] = x
        BY <2>1, <3>2, <1>4
      <3> QED
        BY <3>1, <3>2, <1>2
    <2>2. CASE c1 = c /\ k1 = n + 1 /\ e[c1][k1] = x
      <3>1. CASE k2 \in 1..Len(d[c2]) /\ e[c2][k2] = d[c2][k2]
        BY <2>2, <3>1, <1>4
      <3>2. CASE c2 = c /\ k2 = n + 1
        BY <2>2, <3>2
      <3> QED
        BY <3>1, <3>2, <1>2
    <2> QED
      BY <2>1, <2>2, <1>2
  <1>6. NoneBehind(e)
    <2> SUFFICES ASSUME NEW f \in Chans, NEW j \in 1..Len(e[f]), NEW k \in 1..Len(e[f]),
                        e[f][j].kind = "chunk", e[f][j].last, e[f][k].kind = "chunk",
                        e[f][k].block = e[f][j].block
                 PROVE  k <= j
      BY DEF NoneBehind
    <2>1. CASE j \in 1..Len(d[f]) /\ e[f][j] = d[f][j]
      <3>1. CASE k \in 1..Len(d[f]) /\ e[f][k] = d[f][k]
        BY <2>1, <3>1 DEF Orderly, NoneBehind
      <3>2. CASE e[f][k] = x
        BY <2>1, <3>2, <1>4
      <3> QED
        BY <3>1, <3>2, <1>2
    <2>2. CASE f = c /\ j = n + 1
      BY <2>2, <1>1
    <2> QED
      BY <2>1, <2>2, <1>2
  <1>7. CarriesOthers(e, d, x.block)
    <2> SUFFICES ASSUME NEW b2 \in Block \ {x.block}
                 PROVE  /\ \A f \in Chans : CarriedOn(d, f, b2) => CarriedOn(e, f, b2)
                        /\ NotCarried(d, b2) => NotCarried(e, b2)
      BY DEF CarriesOthers
    <2>1. \A f \in Chans : CarriedOn(d, f, b2) => CarriedOn(e, f, b2)
      BY <1>3 DEF CarriedOn
    <2>2. NotCarried(d, b2) => NotCarried(e, b2)
      BY <1>2 DEF NotCarried, Carries
    <2> QED
      BY <2>1, <2>2
  <1>8. x.last => CarriedOn(e, c, x.block)
    BY <1>1 DEF CarriedOn, Carries
  <1>9. ~x.last => NotCarried(e, x.block)
    BY <1>2, <1>4 DEF NotCarried, Carries
  <1> QED
    BY <1>1, <1>5, <1>6, <1>7, <1>8, <1>9 DEF Orderly, e

\* An entry is taken off: its command, if it had a callback, is carried no more,
\* the others are, and behind the last chunk of a command there is none of its.
LEMMA PoppedOrderly ==
  ASSUME NEW d, Orderly(d), NEW c \in Chans, d[c] # <<>>
  PROVE  /\ Orderly(Popped(d, c))
         /\ Within(Popped(d, c), d)
         /\ CarriesOthers(Popped(d, c), d, Head(d[c]).block)
         /\ Head(d[c]).last => NotCarried(Popped(d, c), Head(d[c]).block)
         /\ ~Head(d[c]).last => \A b \in Block : \A f \in Chans : 
              CarriedOn(d, f, b) => CarriedOn(Popped(d, c), f, b)
         /\ \A b : NotCarried(d, b) => NotCarried(Popped(d, c), b)
         /\ Head(d[c]).last /\ Head(d[c]).kind = "chunk" =>
              \A k \in 1..Len(Popped(d, c)[c]) :
                Popped(d, c)[c][k].kind = "chunk" =>
                  Popped(d, c)[c][k].block # Head(d[c]).block
  <1> DEFINE e == Popped(d, c)
             n == Len(d[c])
             x == Head(d[c])
             Old(f, k) == IF f = c THEN k + 1 ELSE k
  <1>1. /\ e \in Channels /\ n \in Nat \ {0} /\ Len(e[c]) = n - 1 /\ x = d[c][1]
        /\ \A k \in 1..(n - 1) : e[c][k] = d[c][k + 1]
        /\ \A f \in Chans : f # c => e[f] = d[f]
    BY PoppedFacts DEF Orderly
  <1> HIDE DEF e, n, x
  <1>2. \A f \in Chans : \A k \in 1..Len(e[f]) :
          /\ Old(f, k) \in 1..Len(d[f]) /\ e[f][k] = d[f][Old(f, k)]
          /\ f = c => Old(f, k) # 1
    BY <1>1 DEF n
  <1>3. \A f \in Chans : \A j \in 1..Len(d[f]) :
          \/ f = c /\ j = 1 /\ d[f][j] = x
          \/ \E k \in 1..Len(e[f]) : e[f][k] = d[f][j]
    <2> SUFFICES ASSUME NEW f \in Chans, NEW j \in 1..Len(d[f]), ~(f = c /\ j = 1)
                 PROVE  \E k \in 1..Len(e[f]) : e[f][k] = d[f][j]
      BY <1>1
    <2>1. CASE f # c
      BY <2>1, <1>1
    <2>2. CASE f = c
      <3>1. j - 1 \in 1..(n - 1) /\ (j - 1) + 1 = j
        BY <2>2, <1>1 DEF n
      <3>2. e[f][j - 1] = d[f][j]
        BY <2>2, <3>1, <1>1
      <3> QED
        BY <2>2, <3>1, <3>2, <1>1
    <2> QED
      BY <2>1, <2>2
  <1>4. \A f \in Chans : \A j, k \in 1..Len(e[f]) :
          (Old(f, j) = Old(f, k) => j = k) /\ (Old(f, j) <= Old(f, k) => j <= k)
    BY <1>1
  <1> HIDE DEF Old
  <1>5. OneCarries(e)
    <2> SUFFICES ASSUME NEW c1 \in Chans, NEW c2 \in Chans,
                        NEW k1 \in 1..Len(e[c1]), NEW k2 \in 1..Len(e[c2]),
                        e[c1][k1].last, e[c2][k2].last, e[c1][k1].block = e[c2][k2].block
                 PROVE  c1 = c2 /\ k1 = k2
      BY DEF OneCarries
    <2>1. /\ Old(c1, k1) \in 1..Len(d[c1]) /\ e[c1][k1] = d[c1][Old(c1, k1)]
          /\ Old(c2, k2) \in 1..Len(d[c2]) /\ e[c2][k2] = d[c2][Old(c2, k2)]
      BY <1>2
    <2>2. c1 = c2 /\ Old(c1, k1) = Old(c2, k2)
      BY <2>1 DEF Orderly, OneCarries
    <2> QED
      BY <2>2, <1>4
  <1>6. NoneBehind(e)
    <2> SUFFICES ASSUME NEW f \in Chans, NEW j \in 1..Len(e[f]), NEW k \in 1..Len(e[f]),
                        e[f][j].kind = "chunk", e[f][j].last, e[f][k].kind = "chunk",
                        e[f][k].block = e[f][j].block
                 PROVE  k <= j
      BY DEF NoneBehind
    <2>1. /\ Old(f, j) \in 1..Len(d[f]) /\ e[f][j] = d[f][Old(f, j)]
          /\ Old(f, k) \in 1..Len(d[f]) /\ e[f][k] = d[f][Old(f, k)]
      BY <1>2
    <2>2. Old(f, k) <= Old(f, j)
      BY <2>1 DEF Orderly, NoneBehind
    <2> QED
      BY <2>2, <1>4
  <1>7. \A b2 : (b2 # x.block \/ ~x.last) => \A f \in Chans : CarriedOn(d, f, b2) => CarriedOn(e, f, b2)
    <2> SUFFICES ASSUME NEW b2, b2 # x.block \/ ~x.last, NEW f \in Chans,
                        NEW j \in 1..Len(d[f]), Carries(d[f][j], b2)
                 PROVE  CarriedOn(e, f, b2)
      BY DEF CarriedOn
    <2>1. ~(d[f][j] = x)
      BY DEF Carries
    <2> QED
      BY <2>1, <1>3 DEF CarriedOn
  <1>8. \A b : NotCarried(d, b) => NotCarried(e, b)
    BY <1>2 DEF NotCarried
  <1>9. x.last => NotCarried(e, x.block)
    <2> SUFFICES ASSUME x.last, NEW f \in Chans, NEW k \in 1..Len(e[f]), e[f][k].last,
                        e[f][k].block = x.block
                 PROVE  FALSE
      BY DEF NotCarried, Carries
    <2>1. 1 \in 1..Len(d[c])
      BY <1>1 DEF n
    <2>2. /\ Old(f, k) \in 1..Len(d[f]) /\ e[f][k] = d[f][Old(f, k)]
          /\ f = c => Old(f, k) # 1
      BY <1>2
    <2>3. x = d[c][1]
      BY <1>1
    <2>4. f = c /\ Old(f, k) = 1
      BY <2>1, <2>2, <2>3 DEF Orderly, OneCarries
    <2> QED
      BY <2>2, <2>4
  <1>10. x.last /\ x.kind = "chunk" =>
           \A k \in 1..Len(e[c]) : e[c][k].kind = "chunk" => e[c][k].block # x.block
    <2> SUFFICES ASSUME x.last, x.kind = "chunk", NEW k \in 1..Len(e[c]),
                        e[c][k].kind = "chunk", e[c][k].block = x.block
                 PROVE  FALSE
      OBVIOUS
    <2>1. 1 \in 1..Len(d[c])
      BY <1>1 DEF n
    <2>2. Old(c, k) \in 1..Len(d[c]) /\ Old(c, k) # 1 /\ e[c][k] = d[c][Old(c, k)]
      BY <1>2
    <2>3. x = d[c][1]
      BY <1>1
    <2>4. Old(c, k) <= 1
      BY <2>1, <2>2, <2>3 DEF Orderly, NoneBehind
    <2> QED
      BY <2>2, <2>4
  <1>11. CarriesOthers(e, d, x.block)
    BY <1>7, <1>8 DEF CarriesOthers
  <1>12. Within(e, d)
    BY <1>2 DEF Within
  <1> QED
    BY <1>1, <1>5, <1>6, <1>7, <1>8, <1>9, <1>10, <1>11, <1>12 DEF Orderly, e, x

\* The lists under way, by their place on the receiving channel.
Lists(d) == {n \in 1..Len(d["rx"]) : d["rx"][n].kind = "list"}

\* They are finitely many.
LEMMA ListsFinite ==
  ASSUME NEW d \in Channels
  PROVE  IsFiniteSet(Lists(d)) /\ Cardinality(Lists(d)) \in Nat
  <1>1. Len(d["rx"]) \in Nat
    BY DEF Channels, Chans
  <1>2. IsFiniteSet(1..Len(d["rx"]))
    BY <1>1, FS_Interval
  <1>3. Lists(d) \in SUBSET (1..Len(d["rx"]))
    BY DEF Lists
  <1> QED
    BY <1>2, <1>3, FS_Subset, FS_CardinalityType

\* Put adds a list or none.
LEMMA ListsPut ==
  ASSUME NEW d \in Channels, NEW c \in Chans, NEW x \in Transfers
  PROVE  Cardinality(Lists(Put(d, c, x))) =
           Cardinality(Lists(d)) + (IF c = "rx" /\ x.kind = "list" THEN 1 ELSE 0)
  <1> DEFINE e == Put(d, c, x)
             n == Len(d["rx"])
  <1>1. Cardinality(Lists(d)) \in Nat /\ IsFiniteSet(Lists(d)) /\ n \in Nat
    BY ListsFinite DEF Channels, Chans
  <1>2. CASE c # "rx"
    <2>1. e["rx"] = d["rx"]
      BY <1>2, PutFacts DEF Chans
    <2>2. Lists(e) = Lists(d)
      BY <2>1 DEF Lists
    <2> QED
      BY <1>1, <1>2, <2>2
  <1>3. CASE c = "rx"
    <2>1. /\ Len(e["rx"]) = n + 1 /\ e["rx"][n + 1] = x
          /\ \A k \in 1..n : e["rx"][k] = d["rx"][k]
      BY <1>3, PutFacts
    <2> HIDE DEF e
    <2>2. CASE x.kind = "list"
      <3>1. Lists(e) = Lists(d) \cup {n + 1}
        BY <1>1, <2>1, <2>2 DEF Lists
      <3>2. n + 1 \notin Lists(d)
        BY <1>1 DEF Lists
      <3>3. Cardinality(Lists(e)) = Cardinality(Lists(d)) + 1
        BY <1>1, <3>1, <3>2, FS_AddElement
      <3> QED
        BY <1>3, <2>2, <3>3 DEF e
    <2>3. CASE x.kind # "list"
      <3>1. Lists(e) = Lists(d)
        BY <1>1, <2>1, <2>3 DEF Lists
      <3> QED
        BY <1>1, <2>3, <3>1 DEF e
    <2> QED
      BY <2>2, <2>3
  <1> QED
    BY <1>2, <1>3

\* The first entry of a channel was a list or none.
LEMMA ListsPopped ==
  ASSUME NEW d \in Channels, NEW c \in Chans, d[c] # <<>>
  PROVE  Cardinality(Lists(Popped(d, c))) =
           Cardinality(Lists(d)) - (IF c = "rx" /\ Head(d[c]).kind = "list" THEN 1 ELSE 0)
  <1> DEFINE e == Popped(d, c)
             n == Len(d["rx"])
  <1>1. Cardinality(Lists(d)) \in Nat /\ IsFiniteSet(Lists(d)) /\ e \in Channels
    BY ListsFinite, PoppedFacts
  <1>2. CASE c # "rx"
    <2>1. e["rx"] = d["rx"]
      BY <1>2, PoppedFacts DEF Chans
    <2>2. Lists(e) = Lists(d)
      BY <2>1 DEF Lists
    <2> QED
      BY <1>1, <1>2, <2>2
  <1>3. CASE c = "rx"
    <2>1. /\ n \in Nat \ {0} /\ Len(e["rx"]) = n - 1 /\ Head(d[c]) = d["rx"][1]
          /\ \A k \in 1..(n - 1) : e["rx"][k] = d["rx"][k + 1]
      BY <1>3, PoppedFacts
    <2>2. IsFiniteSet(Lists(e))
      BY <1>1, ListsFinite
    <2> HIDE DEF e, n
    <2> DEFINE T == Lists(d) \ {1}
               f == [k \in Lists(e) |-> k + 1]
    <2>3. \A k \in Lists(e) : k \in 1..(n - 1) /\ k + 1 \in T
      BY <2>1 DEF Lists, n
    <2>4. \A j \in T : j - 1 \in Lists(e) /\ (j - 1) + 1 = j
      <3> SUFFICES ASSUME NEW j \in T
                   PROVE  j - 1 \in Lists(e) /\ (j - 1) + 1 = j
        OBVIOUS
      <3>1. j \in 2..n /\ d["rx"][j].kind = "list"
        BY <2>1 DEF Lists, n
      <3>2. j - 1 \in 1..(n - 1) /\ (j - 1) + 1 = j
        BY <2>1, <3>1
      <3> QED
        BY <2>1, <3>1, <3>2 DEF Lists
    <2>5. f \in Bijection(Lists(e), T)
      <3>1. f \in [Lists(e) -> T]
        BY <2>3
      <3>2. \A a, b \in Lists(e) : f[a] = f[b] => a = b
        BY <2>3
      <3>3. \A j \in T : \E a \in Lists(e) : f[a] = j
        BY <2>4
      <3> QED
        BY <3>1, <3>2, <3>3 DEF Bijection, Injection, Surjection, IsInjective
    <2>6. Cardinality(T) = Cardinality(Lists(e))
      BY <2>2, <2>5, FS_Bijection DEF ExistsBijection
    <2>7. Cardinality(T) = IF 1 \in Lists(d) THEN Cardinality(Lists(d)) - 1 ELSE Cardinality(Lists(d))
      BY <1>1, FS_RemoveElement
    <2>8. 1 \in Lists(d) <=> Head(d[c]).kind = "list"
      BY <2>1 DEF Lists, n
    <2> QED
      BY <1>1, <1>3, <2>6, <2>7, <2>8 DEF e
  <1> QED
    BY <1>2, <1>3

-----------------------------------------------------------------------------
(* A step of one block                                                     *)

\* d is what the channels hold when the handler of block b has them: what goes on
\* with its command was taken off.
Taken(d, b) ==
  Orderly(d) /\ NotCarried(d, b) /\ Within(d, dma) /\ CarriesOthers(d, dma, b)

\* e is d and behind it the entries New of block b, each with its channel.
Grown(e, d, b, New) ==
  /\ Orderly(e) /\ CarriesOthers(e, d, b)
  /\ \A c \in Chans : \A k \in 1..Len(e[c]) :
       (\E j \in 1..Len(d[c]) : e[c][k] = d[c][j]) \/ <<c, e[c][k]>> \in New

\* Nothing was put.
LEMMA GrownSelf ==
  ASSUME NEW d, Orderly(d), NEW b
  PROVE  Grown(d, d, b, {})
  BY DEF Grown, CarriesOthers

\* One more was put.
LEMMA GrownPut ==
  ASSUME NEW d, NEW e, NEW b, NEW New, Grown(e, d, b, New), NotCarried(e, b),
         NEW c \in Chans, NEW x \in Transfers, x.block = b
  PROVE  /\ Grown(Put(e, c, x), d, b, New \cup {<<c, x>>})
         /\ x.last => CarriedOn(Put(e, c, x), c, b)
         /\ ~x.last => NotCarried(Put(e, c, x), b)
  <1> DEFINE p == Put(e, c, x)
  <1>1. Orderly(e) /\ e \in Channels
    BY DEF Grown, Orderly
  <1>2. /\ Orderly(p) /\ CarriesOthers(p, e, b)
        /\ x.last => CarriedOn(p, c, b)
        /\ ~x.last => NotCarried(p, b)
    BY <1>1, PutOrderly
  <1>3. CarriesOthers(p, d, b)
    BY <1>2 DEF Grown, CarriesOthers
  <1>4. ASSUME NEW f \in Chans, NEW k \in 1..Len(p[f])
        PROVE  (\E j \in 1..Len(d[f]) : p[f][k] = d[f][j]) \/ <<f, p[f][k]>> \in New \cup {<<c, x>>}
    <2>1. \/ k \in 1..Len(e[f]) /\ p[f][k] = e[f][k]
          \/ f = c /\ p[f][k] = x
      BY <1>1, PutFacts
    <2>2. CASE k \in 1..Len(e[f]) /\ p[f][k] = e[f][k]
      BY <2>2 DEF Grown
    <2>3. CASE f = c /\ p[f][k] = x
      BY <2>3
    <2> QED
      BY <2>1, <2>2, <2>3
  <1> QED
    BY <1>2, <1>3, <1>4 DEF Grown

\* Every other block stays as it is.
SameOthers(b) ==
  \A o \in Block \ {b} :
    /\ stage'[o] = stage[o] /\ xfer'[o] = xfer[o] /\ data'[o] = data[o]
    /\ cmd'[o] = cmd[o]

\* What an entry says of its block holds as long as the block stays as it is and
\* no buffer is taken back from those leaked.
LEMMA EntryKept ==
  ASSUME NEW b, SameOthers(b), leaked \subseteq leaked', NEW c, NEW t \in Transfers, EntryOK(c, t),
         t.block # b, thread'.block \in {thread.block, NoBlock, b}
  PROVE  EntryOK(c, t)'
  <1>1. t.block \in Block \ {b}
    BY DEF Transfers
  <1>2. /\ stage'[t.block] = stage[t.block] /\ xfer'[t.block] = xfer[t.block]
        /\ data'[t.block] = data[t.block] /\ cmd'[t.block] = cmd[t.block]
    BY <1>1 DEF SameOthers
  <1>3. thread.block # t.block => thread'.block # t.block
    BY <1>1, CmdAssumption
  <1> QED
    BY <1>2, <1>3 DEF EntryOK

\* A step that works on block b: nothing goes on with its command at first (d),
\* then what it puts; the rest of the channels and the other blocks stay.
LEMMA EntriesStep ==
  ASSUME IInv, NEW b \in Block, NEW d, Taken(d, b), NEW New, Grown(dma', d, b, New),
         \A p \in New : p[2].block = b /\ EntryOK(p[1], p[2])',
         SameOthers(b), leaked \subseteq leaked', lost \subseteq lost',
         thread'.block \in {thread.block, NoBlock, b},
         thread' = thread \/ thread.block \in {b, NoBlock},
         \A o \in Block \ {b} : (\E k \in 1..Len(replies) : replies[k].block = o)
                                  => \E k \in 1..Len(replies') : replies'[k].block = o,
         \A c \in Chans : \A k \in 1..Len(d[c]) :
           d[c][k].block = b /\ d[c][k].kind = "chunk" /\ d[c][k].buf \in Buffer =>
             \/ d[c][k].buf \in leaked'
             \/ stage'[b] = "run" /\ data'[b] = d[c][k].buf /\ xfer'[b].dir = c,
         BlockOK(b)'
  PROVE  OneCarries(dma)' /\ NoneBehind(dma)' /\ EntriesOK' /\ BlocksOK'
  <1>1. /\ dma \in Channels /\ EntriesOK /\ BlocksOK /\ Placed /\ ThreadOK
    BY DEF IInv, StateTypeOK, Channels, Chans
  <1>2. OneCarries(dma)' /\ NoneBehind(dma)'
    BY DEF Grown, Orderly
  <1>3. ASSUME NEW c \in Chans, NEW k \in 1..Len(d[c]), NEW t, t = d[c][k]
        PROVE  EntryOK(c, t)'
    <2>1. PICK j \in 1..Len(dma[c]) : d[c][k] = dma[c][j]
      BY DEF Taken, Within
    <2>2. EntryOK(c, t)
      BY <1>1, <1>3, <2>1 DEF EntriesOK
    <2>3. t \in Transfers
      BY <1>3 DEF Taken, Orderly, Channels
    <2>4. CASE t.block # b
      BY <2>2, <2>3, <2>4, EntryKept
    <2>5. CASE t.block = b
      <3>1. ~t.last
        BY <1>3, <2>5 DEF Taken, NotCarried, Carries
      <3>2. t.kind = "chunk"
        BY <2>2, <3>1 DEF EntryOK
      <3>3. t.buf \in Buffer =>
              \/ t.buf \in leaked'
              \/ stage'[b] = "run" /\ data'[b] = t.buf /\ xfer'[b].dir = c
        BY <1>3, <2>5, <3>2
      <3> QED
        BY <2>5, <3>1, <3>2, <3>3 DEF EntryOK
    <2> QED
      BY <2>4, <2>5
  <1>4. EntriesOK'
    <2> SUFFICES ASSUME NEW c \in Chans, NEW k \in 1..Len(dma'[c]), NEW t, t = dma'[c][k]
                 PROVE  EntryOK(c, t)'
      BY DEF EntriesOK
    <2>1. (\E j \in 1..Len(d[c]) : t = d[c][j]) \/ <<c, t>> \in New
      BY DEF Grown
    <2>2. CASE \E j \in 1..Len(d[c]) : t = d[c][j]
      BY <2>2, <1>3
    <2>3. CASE <<c, t>> \in New
      BY <2>3
    <2> QED
      BY <2>1, <2>2, <2>3
  <1>5. ASSUME NEW o \in Block, o # b
        PROVE  BlockOK(o)'
    <2>1. /\ stage'[o] = stage[o] /\ xfer'[o] = xfer[o] /\ data'[o] = data[o] /\ cmd'[o] = cmd[o]
      BY <1>5 DEF SameOthers
    <2>2. BlockOK(o)
      BY <1>1 DEF BlocksOK
    <2>3. \A c \in Chans : CarriedOn(dma, c, o) => CarriedOn(dma', c, o)
      BY <1>5 DEF Taken, Grown, CarriesOthers
    <2>4. Working /\ thread.block = o => Working' /\ thread'.block = o
      <3> SUFFICES ASSUME Working, thread.block = o
                   PROVE  Working' /\ thread'.block = o
        OBVIOUS
      <3>1. thread' = thread
        BY <1>5, CmdAssumption
      <3> QED
        BY <3>1, <2>1 DEF Working
    <2>5. stage'[o] = "run" => (\E c \in Chans : CarriedOn(dma', c, o)) \/ (Working' /\ thread'.block = o)
      BY <2>1, <2>2, <2>3, <2>4 DEF BlockOK
    <2>6. stage'[o] = "posted" => CarriedOn(dma', "tx", o)
      BY <2>1, <2>2, <2>3 DEF BlockOK, Chans
    <2>7. stage'[o] = "replied" => \E k \in 1..Len(replies') : replies'[k].block = o
      BY <1>5, <2>1, <2>2 DEF BlockOK
    <2> QED
      BY <2>1, <2>2, <2>5, <2>6, <2>7 DEF BlockOK, CarriedOn
  <1>6. BlocksOK'
    BY <1>5 DEF BlocksOK
  <1> QED
    BY <1>2, <1>4, <1>6

\* The same where the command stays in its block.
LEMMA BlockStep ==
  ASSUME IInv, NEW b \in Block, NEW d, Taken(d, b), NEW New, Grown(dma', d, b, New),
         \A p \in New : p[2].block = b /\ EntryOK(p[1], p[2])',
         SameOthers(b), leaked \subseteq leaked', lost \subseteq lost',
         UNCHANGED <<cmd, outstanding, sq>>,
         thread'.block \in {thread.block, NoBlock, b},
         thread' = thread \/ thread.block \in {b, NoBlock},
         \A o \in Block \ {b} : (\E k \in 1..Len(replies) : replies[k].block = o)
                                  => \E k \in 1..Len(replies') : replies'[k].block = o,
         \A c \in Chans : \A k \in 1..Len(d[c]) :
           d[c][k].block = b /\ d[c][k].kind = "chunk" /\ d[c][k].buf \in Buffer =>
             \/ d[c][k].buf \in leaked'
             \/ stage'[b] = "run" /\ data'[b] = d[c][k].buf /\ xfer'[b].dir = c,
         BlockOK(b)', stage'[b] # "free"
  PROVE  /\ OneCarries(dma)' /\ NoneBehind(dma)' /\ EntriesOK' /\ BlocksOK' /\ Placed'
  <1>1. Placed
    BY DEF IInv
  <1>2. OneCarries(dma)' /\ NoneBehind(dma)' /\ EntriesOK' /\ BlocksOK'
    BY EntriesStep
  <1>3. Placed'
    <2> SUFFICES ASSUME NEW c \in outstanding \ lost'
                 PROVE  \/ \E k \in 1..Len(sq) : sq[k] = c
                        \/ \E o \in Block : cmd[o] = c /\ stage'[o] # "free"
      BY DEF Placed
    <2>1. CASE \E o \in Block : cmd[o] = c /\ stage[o] # "free"
      BY <2>1 DEF SameOthers
    <2> QED
      BY <2>1, <1>1 DEF Placed
  <1> QED
    BY <1>2, <1>3

\* Nothing that an entry speaks of changes.
LEMMA EntriesSame ==
  ASSUME EntriesOK, UNCHANGED <<dma, cmd, stage, xfer, data, thread, leaked>>
  PROVE  EntriesOK'
  <1> SUFFICES ASSUME NEW c \in Chans, NEW k \in 1..Len(dma[c]), NEW t, t = dma[c][k]
               PROVE  EntryOK(c, t)'
    BY DEF EntriesOK
  <1>1. EntryOK(c, t)
    BY DEF EntriesOK
  <1> QED
    BY <1>1 DEF EntryOK

\* The main thread is not concerned.
LEMMA ThreadKept ==
  ASSUME IInv, NEW b \in Block, NEW d, Taken(d, b), NEW New, Grown(dma', d, b, New),
         SameOthers(b), thread' = thread, thread.block # b
  PROVE  ThreadOK'
  <1>1. ThreadOK
    BY DEF IInv
  <1>2. CASE thread.pc = "idle"
    BY <1>1, <1>2 DEF ThreadOK, Working
  <1>3. CASE thread.pc # "idle"
    <2>1. thread.block \in Block \ {b}
      BY <1>1, <1>3 DEF ThreadOK
    <2>2. /\ stage'[thread.block] = stage[thread.block] /\ xfer'[thread.block] = xfer[thread.block]
          /\ data'[thread.block] = data[thread.block]
      BY <2>1 DEF SameOthers
    <2>3. NotCarried(dma, thread.block) => NotCarried(dma', thread.block)
      BY <2>1 DEF Taken, Grown, CarriesOthers
    <2>4. Working' <=> Working
      BY <2>2 DEF Working
    <2> QED
      BY <1>1, <1>3, <2>2, <2>3, <2>4 DEF ThreadOK, NotCarried
  <1> QED
    BY <1>2, <1>3

\* The answers are not concerned.
LEMMA RepliesKept ==
  ASSUME IInv, NEW b \in Block, SameOthers(b), replies' = replies, stage[b] # "replied"
  PROVE  RepliesOK'
  <1>1. RepliesOK /\ replies \in Seq(Answers)
    BY DEF IInv, StateTypeOK, Answers
  <1>2. ASSUME NEW k \in 1..Len(replies)
        PROVE  stage'[replies[k].block] = "replied" /\ replies[k].buf = data'[replies[k].block]
    <2>1. stage[replies[k].block] = "replied" /\ replies[k].buf = data[replies[k].block]
      BY <1>1 DEF RepliesOK
    <2>2. replies[k] \in Answers
      BY <1>1
    <2>3. replies[k].block \in Block \ {b}
      BY <2>1, <2>2 DEF Answers
    <2> QED
      BY <2>1, <2>3 DEF SameOthers
  <1> QED
    BY <1>1, <1>2 DEF RepliesOK

-----------------------------------------------------------------------------
(* The buffers                                                             *)

\* The buffers that the blocks of H hold, the free ones and those leaked are all
\* there are, and no two of the same.
Account(H, dt, free, gone) ==
  /\ \A b1, b2 \in H : dt[b1] = dt[b2] /\ dt[b1] # Null => b1 = b2
  /\ \A b \in H : dt[b] \in Buffer => dt[b] \notin free /\ dt[b] \notin gone
  /\ free \cap gone = {}
  /\ \A x \in Buffer : x \in free \/ x \in gone \/ \E b \in H : dt[b] = x

Owners == [Block -> Buffer \cup {Null}]

\* A chunk's buffer is not free: it is leaked, or its block holds it.
LEMMA AccountIs ==
  ASSUME StateTypeOK
  PROVE  /\ BuffersAccounted => Account(Holders, data, pool, leaked)
         /\ Account(Holders, data, pool, leaked) /\ EntriesOK => BuffersAccounted
  <1>1. /\ data \in Owners /\ pool \subseteq Buffer /\ leaked \subseteq Buffer
        /\ Holders \subseteq Block /\ dma \in Channels
    BY DEF StateTypeOK, Owners, Holders, Channels, Chans
  <1> DEFINE held == {data[b] : b \in Holders} \cap Buffer
  <1>2. ASSUME BuffersAccounted
        PROVE  Account(Holders, data, pool, leaked)
    <2>1. /\ \A b1, b2 \in Holders : data[b1] = data[b2] /\ data[b1] # Null => b1 = b2
          /\ held \cap pool = {} /\ held \cap leaked = {} /\ pool \cap leaked = {}
          /\ held \cup pool \cup leaked = Buffer
      BY <1>2 DEF BuffersAccounted
    <2>2. \A b \in Holders : data[b] \in Buffer => data[b] \notin pool /\ data[b] \notin leaked
      BY <2>1
    <2>3. \A x \in Buffer : x \in pool \/ x \in leaked \/ \E b \in Holders : data[b] = x
      BY <2>1
    <2> QED
      BY <2>1, <2>2, <2>3 DEF Account
  <1>3. ASSUME Account(Holders, data, pool, leaked), EntriesOK
        PROVE  BuffersAccounted
    <2>1. held \cap pool = {} /\ held \cap leaked = {}
      BY <1>3 DEF Account
    <2>2. held \cup pool \cup leaked = Buffer
      BY <1>1, <1>3 DEF Account
    <2>3. ASSUME NEW c \in Chans, NEW k \in 1..Len(dma[c]), dma[c][k].kind = "chunk",
                 dma[c][k].buf \in pool
          PROVE  FALSE
      <3>1. dma[c][k] \in Transfers /\ EntryOK(c, dma[c][k])
        BY <1>1, <1>3 DEF EntriesOK, Channels
      <3>2. dma[c][k].block \in Block /\ dma[c][k].buf \in Buffer
        BY <1>1, <2>3, <3>1 DEF Transfers
      <3>3. dma[c][k].buf \notin leaked
        BY <1>3, <2>3 DEF Account
      <3>4. stage[dma[c][k].block] = "run" /\ data[dma[c][k].block] = dma[c][k].buf
        BY <2>3, <3>1, <3>2, <3>3 DEF EntryOK
      <3>5. dma[c][k].block \in Holders
        BY <3>2, <3>4 DEF Holders
      <3> QED
        BY <1>3, <2>3, <3>2, <3>4, <3>5 DEF Account
    <2>4. \A t \in Queued : t.kind = "chunk" => t.buf \notin pool
      BY <2>3 DEF Queued, Chans
    <2> QED
      BY <1>3, <2>1, <2>2, <2>4 DEF Account, BuffersAccounted
  <1> QED
    BY <1>2, <1>3

\* A buffer is allocated.
LEMMA AccountTake ==
  ASSUME NEW H \in SUBSET Block, NEW dt \in Owners, NEW free \in SUBSET Buffer, NEW gone,
         Account(H, dt, free, gone), NEW b \in H, dt[b] = Null, NEW x \in free
  PROVE  Account(H, [dt EXCEPT ![b] = x], free \ {x}, gone)
  <1> DEFINE e == [dt EXCEPT ![b] = x]
  <1>1. e[b] = x /\ \A o \in Block : o # b => e[o] = dt[o]
    BY DEF Owners
  <1>2. x \in Buffer /\ x # Null /\ Null \notin Buffer
    BY ResourceAssumption
  <1>3. \A o \in H : dt[o] # x
    BY <1>2 DEF Account
  <1> HIDE DEF e
  <1>4. \A b1, b2 \in H : e[b1] = e[b2] /\ e[b1] # Null => b1 = b2
    BY <1>1, <1>2, <1>3 DEF Account
  <1>5. \A o \in H : e[o] \in Buffer => e[o] \notin free \ {x} /\ e[o] \notin gone
    BY <1>1, <1>2, <1>3 DEF Account
  <1>6. \A y \in Buffer : y \in free \ {x} \/ y \in gone \/ \E o \in H : e[o] = y
    <2> SUFFICES ASSUME NEW y \in Buffer, y \notin free \ {x}, y \notin gone
                 PROVE  \E o \in H : e[o] = y
      OBVIOUS
    <2>1. CASE y = x
      BY <2>1, <1>1
    <2>2. CASE y # x
      <3>1. PICK o \in H : dt[o] = y
        BY <2>2 DEF Account
      <3>2. o # b /\ o \in Block
        BY <3>1, <1>2
      <3> QED
        BY <3>1, <3>2, <1>1
    <2> QED
      BY <2>1, <2>2
  <1> QED
    BY <1>4, <1>5, <1>6 DEF Account, e

\* A block is done with its buffer, which is left behind.
LEMMA AccountLeak ==
  ASSUME NEW H \in SUBSET Block, NEW dt \in Owners, NEW free, NEW gone,
         Account(H, dt, free, gone), NEW b \in H
  PROVE  Account(H \ {b}, dt, free, gone \cup ({dt[b]} \cap Buffer))
  BY ResourceAssumption DEF Account

\* A block is done with its buffer, which is freed.
LEMMA AccountFree ==
  ASSUME NEW H \in SUBSET Block, NEW dt \in Owners, NEW free, NEW gone,
         Account(H, dt, free, gone), NEW b \in H
  PROVE  Account(H \ {b}, dt, free \cup ({dt[b]} \cap Buffer), gone)
  BY ResourceAssumption DEF Account

\* A block is done and has no buffer.
LEMMA AccountDrop ==
  ASSUME NEW H \in SUBSET Block, NEW dt \in Owners, NEW free, NEW gone,
         Account(H, dt, free, gone), NEW b \in H, dt[b] = Null
  PROVE  Account(H \ {b}, dt, free, gone)
  BY ResourceAssumption DEF Account

\* A block is given to a command.
LEMMA AccountJoin ==
  ASSUME NEW H \in SUBSET Block, NEW dt \in Owners, NEW free, NEW gone,
         Account(H, dt, free, gone), NEW b \in Block, b \notin H
  PROVE  Account(H \cup {b}, [dt EXCEPT ![b] = Null], free, gone)
  <1> DEFINE e == [dt EXCEPT ![b] = Null]
  <1>1. e[b] = Null /\ Null \notin Buffer /\ \A o \in H : e[o] = dt[o]
    BY ResourceAssumption DEF Owners
  <1> HIDE DEF e
  <1> QED
    BY <1>1 DEF Account, e

-----------------------------------------------------------------------------
(* Pieces of the handlers                                                  *)

Xfers == [len : 0..(Wrap - 1), buf : Buffer \cup {Null, Disk},
          cb : {"none", "return", "vendor", "rpmsg"}, dir : {"rx", "tx"}]
Stages == {"free", "run", "apu", "replied", "posted", "stuck"}
Busy   == {"run", "apu", "replied"}

\* The types of what the steps change.
LEMMA Types ==
  ASSUME StateTypeOK
  PROVE  /\ dma \in Channels /\ cmd \in [Block -> Cmd \cup {NoCmd}] /\ stage \in [Block -> Stages]
         /\ xfer \in [Block -> Xfers] /\ data \in Owners /\ pool \subseteq Buffer
         /\ prps \in Nat /\ replies \in Seq(Answers) /\ leaked \subseteq Buffer
         /\ lost \subseteq Cmd /\ starved \subseteq Cmd /\ Holders \subseteq Block
  BY ResourceAssumption
     DEF StateTypeOK, Channels, Chans, Stages, Xfers, Owners, Answers, Holders

\* So the accounts are right after a step.
LEMMA AccountNext ==
  StateTypeOK' /\ Account(Holders', data', pool', leaked') /\ EntriesOK' => BuffersAccounted'
  <1>1. StateTypeOK /\ Account(Holders, data, pool, leaked) /\ EntriesOK => BuffersAccounted
    BY AccountIs
  <1>2. (StateTypeOK /\ Account(Holders, data, pool, leaked) /\ EntriesOK => BuffersAccounted)'
    BY <1>1, PTL
  <1> QED
    BY <1>2

\* What a step has to show for the invariant.
LEMMA Assemble ==
  ASSUME StateTypeOK', Account(Holders', data', pool', leaked'), PrpsAccounted',
         OneCarries(dma)', NoneBehind(dma)', EntriesOK', RepliesOK', ThreadOK', BlocksOK', Placed'
  PROVE  IInv'
  BY AccountNext DEF IInv

\* An entry with a callback is taken off its channel by the handler it calls.
LEMMA PopTaken ==
  ASSUME IInv, NEW c \in Chans, dma[c] # <<>>, Head(dma[c]).last
  PROVE  /\ Taken(Pop(c), First(c)) /\ First(c) \in Block
         /\ EntryOK(c, Head(dma[c])) /\ Head(dma[c]) \in Transfers
         /\ prps + Cardinality(Lists(Pop(c))) =
              PrpSlab - (IF c = "rx" /\ Head(dma[c]).kind = "list" THEN 1 ELSE 0)
         /\ Cardinality(Lists(Pop(c))) \in Nat
         /\ Head(dma[c]).kind = "chunk" =>
              \A k \in 1..Len(Pop(c)[c]) :
                Pop(c)[c][k].kind = "chunk" => Pop(c)[c][k].block # First(c)
  <1>1. /\ dma \in Channels /\ Orderly(dma) /\ EntriesOK /\ prps \in Nat
        /\ prps + Cardinality(Lists(dma)) = PrpSlab
    BY Types DEF IInv, Orderly, PrpsAccounted, Lists
  <1>2. Pop(c) = Popped(dma, c) /\ First(c) = Head(dma[c]).block
    BY DEF Pop, Popped, First
  <1>3. /\ Orderly(Popped(dma, c)) /\ Within(Popped(dma, c), dma)
        /\ CarriesOthers(Popped(dma, c), dma, First(c)) /\ NotCarried(Popped(dma, c), First(c))
        /\ Head(dma[c]).kind = "chunk" =>
             \A k \in 1..Len(Popped(dma, c)[c]) :
               Popped(dma, c)[c][k].kind = "chunk" => Popped(dma, c)[c][k].block # First(c)
    BY <1>1, <1>2, PoppedOrderly
  <1>4. /\ Len(dma[c]) \in Nat \ {0} /\ Head(dma[c]) = dma[c][1] /\ Head(dma[c]) \in Transfers
        /\ Popped(dma, c) \in Channels
    BY <1>1, PoppedFacts
  <1>5. EntryOK(c, Head(dma[c]))
    <2>1. 1 \in 1..Len(dma[c])
      BY <1>4
    <2> QED
      BY <1>1, <1>4, <2>1 DEF EntriesOK
  <1>6. First(c) \in Block
    BY <1>2, <1>4 DEF Transfers
  <1>7. /\ Cardinality(Lists(Popped(dma, c))) =
            Cardinality(Lists(dma)) - (IF c = "rx" /\ Head(dma[c]).kind = "list" THEN 1 ELSE 0)
        /\ Cardinality(Lists(Popped(dma, c))) \in Nat /\ Cardinality(Lists(dma)) \in Nat
    BY <1>1, <1>4, ListsPopped, ListsFinite
  <1>8. prps + Cardinality(Lists(Popped(dma, c))) =
          PrpSlab - (IF c = "rx" /\ Head(dma[c]).kind = "list" THEN 1 ELSE 0)
    BY <1>1, <1>7
  <1> QED
    BY <1>2, <1>3, <1>4, <1>5, <1>6, <1>7, <1>8 DEF Taken

\* A command that waits for the APU or for the main thread is carried by no entry.
LEMMA NotCarriedTaken ==
  ASSUME IInv, NEW b \in Block, stage[b] \notin {"run", "posted"} \/ NotCarried(dma, b)
  PROVE  Taken(dma, b)
  <1>1. dma \in Channels /\ Orderly(dma) /\ EntriesOK
    BY Types DEF IInv, Orderly
  <1>2. NotCarried(dma, b)
    <2> SUFFICES ASSUME stage[b] \notin {"run", "posted"}, NEW c \in Chans,
                        NEW k \in 1..Len(dma[c]), dma[c][k].last, dma[c][k].block = b
                 PROVE  FALSE
      BY DEF NotCarried, Carries
    <2>1. EntryOK(c, dma[c][k]) /\ dma[c][k] \in Transfers
      BY <1>1 DEF EntriesOK, Channels
    <2>2. dma[c][k].kind \in {"fetch", "chunk", "list", "cq"}
      BY <2>1 DEF Transfers
    <2> QED
      BY <2>1, <2>2 DEF EntryOK
  <1>3. Within(dma, dma) /\ CarriesOthers(dma, dma, b)
    BY DEF Within, CarriesOthers
  <1> QED
    BY <1>1, <1>2, <1>3 DEF Taken

\* A new chunk, while the command goes on or its buffer was leaked.
LEMMA NewChunk ==
  ASSUME NEW c, NEW t, t.kind = "chunk",
         t.last => /\ t.cmd = cmd'[t.block] /\ stage'[t.block] = "run"
                   /\ xfer'[t.block].cb # "none" /\ xfer'[t.block].dir = c,
         t.buf \in Buffer => \/ t.buf \in leaked'
                             \/ /\ stage'[t.block] = "run" /\ data'[t.block] = t.buf
                                /\ xfer'[t.block].dir = c
  PROVE  EntryOK(c, t)'
  BY DEF EntryOK

\* The types of the entries.
LEMMA EntryTypes ==
  ASSUME NEW b \in Block, cmd[b] \in Cmd
  PROVE  /\ \A x, last : x.buf \in Buffer \cup {Null, Disk} /\ last \in BOOLEAN =>
              /\ Chunk(b, x, last) \in Transfers /\ Chunk(b, x, last).kind = "chunk"
              /\ Chunk(b, x, last).block = b /\ Chunk(b, x, last).cmd = cmd[b]
              /\ Chunk(b, x, last).buf = x.buf /\ Chunk(b, x, last).last = last
         /\ \A kind \in {"fetch", "list", "cq"} :
              /\ Fetch(kind, b) \in Transfers /\ Fetch(kind, b).kind = kind
              /\ Fetch(kind, b).block = b /\ Fetch(kind, b).cmd = cmd[b] /\ Fetch(kind, b).last
  BY DEF Chunk, Fetch, Transfers

-----------------------------------------------------------------------------
(* Steps                                                                   *)

\* The main thread is about to free the buffer of block b.
Freeing(b) == thread = [pc |-> "free", block |-> b]

\* Whether b gives its buffer back is a matter of its stage, but for what the main
\* thread is about to free.
LEMMA HoldersNext ==
  ASSUME NEW b \in Block, ThreadOK, SameOthers(b), \A o \in Block : Freeing(o)' <=> Freeing(o)
  PROVE  /\ stage[b] \in Busy => b \in Holders
         /\ stage[b] \in Busy /\ stage'[b] \in Busy => Holders' = Holders
         /\ stage[b] \in Busy /\ stage'[b] \notin Busy => Holders' = Holders \ {b}
         /\ stage[b] \notin Busy /\ stage'[b] \notin Busy => Holders' = Holders
         /\ stage[b] \notin Busy /\ stage'[b] \in Busy => Holders' = Holders \cup {b}
  <1>1. \A o \in Block : o \in Holders <=> stage[o] \in Busy \/ Freeing(o)
    BY DEF Holders, Busy, Freeing
  <1>2. \A o \in Block : o \in Holders' <=> stage'[o] \in Busy \/ Freeing(o)'
    BY DEF Holders, Busy, Freeing
  <1>3. Holders \subseteq Block /\ Holders' \subseteq Block
    BY DEF Holders
  <1>4. stage[b] \in Busy => ~Freeing(b)
    BY DEF ThreadOK, Freeing, Busy
  <1>5. \A o \in Block : o # b => stage'[o] = stage[o]
    BY DEF SameOthers
  <1> HIDE DEF Holders, Freeing, Busy
  <1>6. \A o \in Block : o # b => (o \in Holders' <=> o \in Holders)
    BY <1>1, <1>2, <1>5
  <1>7. stage[b] \in Busy => ~Freeing(b)'
    BY <1>4
  <1> QED
    BY <1>1, <1>2, <1>3, <1>4, <1>6, <1>7

\* The types after a step.
LEMMA TypeNext ==
  ASSUME outstanding' \subseteq Cmd, sq' \in Seq(Cmd), cmd' \in [Block -> Cmd \cup {NoCmd}],
         stage' \in [Block -> Stages], xfer' \in [Block -> Xfers], data' \in Owners,
         pool' \subseteq Buffer, prps' \in Nat, dma' \in Channels,
         prps' + Cardinality(Lists(dma')) = PrpSlab,
         replies' \in Seq(Answers),
         thread' \in [pc : {"idle", "free", "count", "test", "count2"}, block : Block \cup {NoBlock}],
         lost' \subseteq Cmd, starved' \subseteq Cmd, leaked' \subseteq Buffer
  PROVE  StateTypeOK' /\ PrpsAccounted'
  <1>1. Cardinality(Lists(dma')) \in Nat
    BY ListsFinite
  <1>2. prps' \in 0..PrpSlab
    BY <1>1, ResourceAssumption
  <1>3. StateTypeOK'
    BY <1>2 DEF StateTypeOK, Stages, Xfers, Owners, Channels, Chans, Answers
  <1>4. PrpsAccounted'
    BY DEF PrpsAccounted, Lists
  <1> QED
    BY <1>3, <1>4

\* A step of a handler of the DMA interrupt, on a block the main thread does not
\* work with.
LEMMA HandlerStep ==
  ASSUME IInv, NEW b \in Block, NEW d, Taken(d, b), NEW New, Grown(dma', d, b, New),
         \A p \in New : p[2].block = b /\ EntryOK(p[1], p[2])',
         \A c \in Chans : \A k \in 1..Len(d[c]) :
           d[c][k].block = b /\ d[c][k].kind = "chunk" /\ d[c][k].buf \in Buffer =>
             \/ d[c][k].buf \in leaked'
             \/ stage'[b] = "run" /\ data'[b] = d[c][k].buf /\ xfer'[b].dir = c,
         UNCHANGED <<outstanding, sq, cmd, replies, thread>>, SameOthers(b),
         stage' \in [Block -> Stages], xfer' \in [Block -> Xfers], data' \in Owners,
         pool' \subseteq Buffer, prps' \in Nat, prps' + Cardinality(Lists(dma')) = PrpSlab,
         leaked \subseteq leaked', leaked' \subseteq Buffer, lost \subseteq lost', lost' \subseteq Cmd,
         starved' \subseteq Cmd,
         thread.block # b, stage[b] # "replied", stage'[b] # "free", BlockOK(b)',
         Account(Holders', data', pool', leaked')
  PROVE  IInv'
  <1>1. StateTypeOK
    BY DEF IInv
  <1>2. dma' \in Channels
    BY DEF Grown, Orderly
  <1>3. StateTypeOK' /\ PrpsAccounted'
    BY <1>1, <1>2, Types, TypeNext DEF StateTypeOK
  <1>4. OneCarries(dma)' /\ NoneBehind(dma)' /\ EntriesOK' /\ BlocksOK' /\ Placed'
    BY BlockStep
  <1>5. ThreadOK'
    BY ThreadKept
  <1>6. RepliesOK'
    BY RepliesKept
  <1> QED
    BY <1>3, <1>4, <1>5, <1>6, Assemble

\* What transfer_data_with_prps does when there is more than PRP2 can name: the
\* fetch of a list or the completion, behind what was queued before.
LEMMA ListStep ==
  ASSUME NEW b \in Block, cmd[b] \in Cmd, NEW d, NEW e, NEW New, Grown(e, d, b, New),
         NotCarried(e, b), ListOrReturn(b, e), prps \in Nat,
         prps + Cardinality(Lists(e)) = PrpSlab
  PROVE  \E c \in Chans, t \in Transfers :
           /\ t.block = b /\ t.last /\ t.cmd = cmd[b]
           /\ Grown(dma', d, b, New \cup {<<c, t>>}) /\ CarriedOn(dma', c, b)
           /\ prps' \in Nat /\ prps' + Cardinality(Lists(dma')) = PrpSlab
           /\ \/ c = "rx" /\ t.kind = "list" /\ UNCHANGED <<stage, starved, leaked>>
              \/ /\ c = "tx" /\ t.kind = "cq" /\ At(b, "posted")
                 /\ starved' = starved \cup {cmd[b]} /\ leaked' = leaked \cup Held(b)
  <1>1. e \in Channels /\ Cardinality(Lists(e)) \in Nat
    BY ListsFinite DEF Grown, Orderly
  <1>2. CASE /\ prps > 0 /\ prps' = prps - 1 /\ dma' = FetchList(b, e)
             /\ UNCHANGED <<stage, starved, leaked>>
    <2> DEFINE t == Fetch("list", b)
    <2>1. t \in Transfers /\ t.kind = "list" /\ t.block = b /\ t.cmd = cmd[b] /\ t.last
      BY EntryTypes
    <2>2. dma' = Put(e, "rx", t)
      BY <1>2 DEF FetchList
    <2> HIDE DEF t
    <2>3. Grown(dma', d, b, New \cup {<<"rx", t>>}) /\ CarriedOn(dma', "rx", b)
      BY <2>1, <2>2, GrownPut DEF Chans
    <2>4. Cardinality(Lists(dma')) = Cardinality(Lists(e)) + 1
      BY <1>1, <2>1, <2>2, ListsPut DEF Chans
    <2>5. prps' \in Nat /\ prps' + Cardinality(Lists(dma')) = PrpSlab
      BY <1>1, <1>2, <2>4, ResourceAssumption
    <2> QED
      BY <1>2, <2>1, <2>3, <2>5 DEF Chans
  <1>3. CASE /\ prps = 0 /\ Return(b, e) /\ UNCHANGED prps
             /\ starved' = starved \cup {cmd[b]} /\ leaked' = leaked \cup Held(b)
    <2> DEFINE t == Fetch("cq", b)
    <2>1. t \in Transfers /\ t.kind = "cq" /\ t.block = b /\ t.cmd = cmd[b] /\ t.last
      BY EntryTypes
    <2>2. dma' = Put(e, "tx", t) /\ At(b, "posted")
      BY <1>3 DEF Return
    <2> HIDE DEF t
    <2>3. Grown(dma', d, b, New \cup {<<"tx", t>>}) /\ CarriedOn(dma', "tx", b)
      BY <2>1, <2>2, GrownPut DEF Chans
    <2>4. Cardinality(Lists(dma')) = Cardinality(Lists(e)) + 0
      BY <1>1, <2>1, <2>2, ListsPut DEF Chans
    <2>5. prps' \in Nat /\ prps' + Cardinality(Lists(dma')) = PrpSlab
      BY <1>1, <1>3, <2>4
    <2> QED
      BY <1>3, <2>1, <2>2, <2>3, <2>5 DEF Chans
  <1> QED
    BY <1>2, <1>3 DEF ListOrReturn

\* The chunk with the callback and those without.
LastChunk(b, x)  == Chunk(b, x, TRUE)
OtherChunk(b, x) == Chunk(b, x, FALSE)

\* Chunks are entries of their block.
LEMMA ChunkIs ==
  ASSUME NEW b \in Block, cmd[b] \in Cmd, NEW x \in Xfers
  PROVE  /\ \E t \in Transfers :
              /\ t = LastChunk(b, x) /\ t.last
              /\ t.kind = "chunk" /\ t.block = b /\ t.cmd = cmd[b] /\ t.buf = x.buf
         /\ \E t \in Transfers :
              /\ t = OtherChunk(b, x) /\ ~t.last
              /\ t.kind = "chunk" /\ t.block = b /\ t.cmd = cmd[b] /\ t.buf = x.buf
  <1>1. LastChunk(b, x) \in Transfers /\ OtherChunk(b, x) \in Transfers
    BY DEF LastChunk, OtherChunk, Chunk, Transfers, Xfers
  <1>2. /\ LastChunk(b, x).last
        /\ LastChunk(b, x).kind = "chunk" /\ LastChunk(b, x).block = b
        /\ LastChunk(b, x).cmd = cmd[b] /\ LastChunk(b, x).buf = x.buf
    BY DEF LastChunk, Chunk
  <1>3. /\ ~OtherChunk(b, x).last
        /\ OtherChunk(b, x).kind = "chunk" /\ OtherChunk(b, x).block = b
        /\ OtherChunk(b, x).cmd = cmd[b] /\ OtherChunk(b, x).buf = x.buf
    BY DEF OtherChunk, Chunk
  <1> QED
    BY <1>1, <1>2, <1>3

\* What remains of a transfer after its first chunks.
Rest(x) == [x EXCEPT !.len = IF x.len < 3 THEN 0 ELSE x.len - 1]

\* The cases of Transfer.
LEMMA TransferIs ==
  ASSUME NEW b, NEW x \in Xfers, x.len \in 1..3, NEW d, Transfer(b, x, d)
  PROVE  /\ xfer' = [xfer EXCEPT ![b] = Rest(x)]
         /\ x.len = 1 => /\ dma' = Put(d, x.dir, LastChunk(b, x))
                         /\ UNCHANGED <<stage, prps, starved, leaked>>
         /\ x.len = 2 => /\ dma' = Put(Put(d, x.dir, OtherChunk(b, x)), x.dir, LastChunk(b, x))
                         /\ UNCHANGED <<stage, prps, starved, leaked>>
         /\ x.len = 3 => ListOrReturn(b, Put(d, x.dir, OtherChunk(b, x)))
  <1> DEFINE t1 == Chunk(b, x, x.len = 1)
             d1 == Put(d, x.dir, t1)
  <1>1. xfer' = [xfer EXCEPT ![b] = Rest(x)]
    BY DEF Transfer, Rest
  <1>2. \/ /\ x.len < 3
           /\ dma' = IF x.len = 1 THEN d1 ELSE Put(d1, x.dir, LastChunk(b, x))
           /\ UNCHANGED <<stage, prps, starved, leaked>>
        \/ x.len >= 3 /\ ListOrReturn(b, d1)
    BY Zenon DEF Transfer, LastChunk
  <1>3. (x.len = 1 => t1 = LastChunk(b, x)) /\ (x.len # 1 => t1 = OtherChunk(b, x))
    BY DEF Chunk, LastChunk, OtherChunk
  <1> HIDE DEF t1
  <1>4. x.len \in {1, 2, 3}
    OBVIOUS
  <1> QED
    BY <1>1, <1>2, <1>3, <1>4

\* A transfer is begun in interrupt context, when the buffer has been seen to.
LEMMA TransferStep ==
  ASSUME IInv, NEW b \in Block, NEW x \in Xfers, NEW d, Taken(d, b), Transfer(b, x, d),
         x.len \in 1..3, x.cb \in {"return", "vendor"}, x.buf \in {Null, Disk, data'[b]},
         x.cb = "return" => data'[b] = Null,
         prps + Cardinality(Lists(d)) = PrpSlab,
         stage[b] = "run", cmd[b] \in Cmd, thread.block # b,
         \A c \in Chans : \A k \in 1..Len(d[c]) :
           d[c][k].block = b /\ d[c][k].kind = "chunk" /\ d[c][k].buf \in Buffer =>
             d[c][k].buf \in leaked,
         UNCHANGED <<outstanding, sq, cmd, replies, thread, lost>>,
         data' \in Owners, \A o \in Block \ {b} : data'[o] = data[o], pool' \subseteq Buffer,
         Account(Holders, data', pool', leaked)
  PROVE  IInv'
  <1>1. /\ StateTypeOK /\ ThreadOK /\ stage \in [Block -> Stages] /\ xfer \in [Block -> Xfers]
        /\ prps \in Nat /\ leaked \subseteq Buffer /\ lost \subseteq Cmd /\ starved \subseteq Cmd
        /\ Holders \subseteq Block
    BY Types DEF IInv
  <1> DEFINE y == Rest(x)
  <1>2. /\ y \in Xfers /\ y.cb = x.cb /\ y.buf = x.buf /\ y.dir = x.dir /\ x.dir \in Chans
        /\ x.buf \in Buffer \cup {Null, Disk}
        /\ x.len = 3 => y.len = 2
    BY DEF Rest, Xfers, Wrap, Chans
  <1>3. xfer' = [xfer EXCEPT ![b] = y]
    BY TransferIs
  <1>4. xfer' \in [Block -> Xfers] /\ xfer'[b] = y /\ \A o \in Block \ {b} : xfer'[o] = xfer[o]
    BY <1>1, <1>2, <1>3
  <1>5. Freeing(b)' = Freeing(b) /\ \A o \in Block : Freeing(o)' <=> Freeing(o)
    BY DEF Freeing
  <1>6. PICK t1 \in Transfers :
          /\ x.len = 1 => t1 = LastChunk(b, x)
          /\ x.len # 1 => t1 = OtherChunk(b, x)
          /\ t1.kind = "chunk" /\ t1.block = b /\ t1.cmd = cmd[b] /\ t1.buf = x.buf
          /\ (x.len = 1 => t1.last) /\ (x.len # 1 => ~t1.last)
    <2>1. CASE x.len = 1
      BY <2>1, ChunkIs
    <2>2. CASE x.len # 1
      BY <2>2, ChunkIs
    <2> QED
      BY <2>1, <2>2
  <1> DEFINE d1 == Put(d, x.dir, t1)
  <1>7. Orderly(d) /\ NotCarried(d, b) /\ Grown(d, d, b, {})
    BY GrownSelf DEF Taken
  <1>8. /\ Grown(d1, d, b, {<<x.dir, t1>>})
        /\ x.len = 1 => CarriedOn(d1, x.dir, b)
        /\ x.len # 1 => NotCarried(d1, b)
    <2>1. /\ Grown(d1, d, b, {} \cup {<<x.dir, t1>>})
          /\ t1.last => CarriedOn(d1, x.dir, b)
          /\ ~t1.last => NotCarried(d1, b)
      BY <1>2, <1>6, <1>7, GrownPut
    <2>2. {} \cup {<<x.dir, t1>>} = {<<x.dir, t1>>}
      OBVIOUS
    <2> QED
      BY <1>6, <2>1, <2>2
  <1>9. d1 \in Channels /\ Cardinality(Lists(d1)) = Cardinality(Lists(d)) + 0 /\ Cardinality(Lists(d)) \in Nat
    <2>1. d \in Channels
      BY <1>7 DEF Orderly
    <2>2. Cardinality(Lists(d)) \in Nat
      BY <2>1, ListsFinite
    <2>3. Cardinality(Lists(d1)) = Cardinality(Lists(d)) + 0
      BY <1>2, <1>6, <2>1, ListsPut
    <2>4. d1 \in Channels
      BY <1>8 DEF Grown, Orderly
    <2> QED
      BY <2>2, <2>3, <2>4
  <1> HIDE DEF y, d1
  <1>10. CASE x.len < 3
    <2>1. /\ dma' = IF x.len = 1 THEN d1 ELSE Put(d1, x.dir, LastChunk(b, x))
          /\ UNCHANGED <<stage, prps, starved, leaked>>
      BY <1>6, <1>10, TransferIs DEF d1
    <2>2. SameOthers(b) /\ Holders' = Holders
      <3>1. SameOthers(b)
        BY <1>4, <2>1 DEF SameOthers
      <3> QED
        BY <1>1, <1>5, <2>1, <3>1, HoldersNext DEF Busy
    <2>3. ASSUME NEW t \in Transfers, t.kind = "chunk", t.block = b, t.cmd = cmd[b], t.buf = x.buf
          PROVE  EntryOK(x.dir, t)'
      <3>1. t.last => /\ t.cmd = cmd'[t.block] /\ stage'[t.block] = "run"
                      /\ xfer'[t.block].cb # "none" /\ xfer'[t.block].dir = x.dir
        BY <1>2, <1>4, <2>1, <2>3
      <3>2. t.buf \in Buffer => stage'[t.block] = "run" /\ data'[t.block] = t.buf /\ xfer'[t.block].dir = x.dir
        BY <1>2, <1>4, <2>1, <2>3, ResourceAssumption
      <3> QED
        BY <2>3, <3>1, <3>2, NewChunk
    <2>4. ASSUME NEW New, Grown(dma', d, b, New), CarriedOn(dma', x.dir, b),
                 \A p \in New : p[2].block = b /\ EntryOK(p[1], p[2])',
                 Cardinality(Lists(dma')) = Cardinality(Lists(d))
          PROVE  IInv'
      <3>1. BlockOK(b)'
        <4>1. \E c \in Chans : CarriedOn(dma', c, b)
          BY <1>2, <2>4
        <4>2. /\ stage'[b] = "run" /\ cmd'[b] \in Cmd
              /\ xfer'[b].cb = "return" => data'[b] = Null
          BY <1>2, <1>4, <2>1
        <4> QED
          BY <4>1, <4>2 DEF BlockOK, CarriedOn
      <3>2. stage[b] # "replied" /\ stage'[b] # "free" /\ prps' + Cardinality(Lists(dma')) = PrpSlab
        BY <2>1, <2>4
      <3>3. /\ stage' \in [Block -> Stages] /\ prps' \in Nat /\ leaked \subseteq leaked'
            /\ leaked' \subseteq Buffer /\ starved' \subseteq Cmd /\ lost \subseteq lost' /\ lost' \subseteq Cmd
            /\ Account(Holders', data', pool', leaked')
        BY <1>1, <2>1, <2>2
      <3>4. \A c \in Chans : \A k \in 1..Len(d[c]) :
              d[c][k].block = b /\ d[c][k].kind = "chunk" /\ d[c][k].buf \in Buffer =>
                d[c][k].buf \in leaked'
        BY <2>1
      <3> QED
        BY <1>4, <2>2, <2>4, <3>1, <3>2, <3>3, <3>4, HandlerStep
    <2>5. CASE x.len = 1
      <3>1. dma' = d1
        BY <2>1, <2>5
      <3>2. EntryOK(x.dir, t1)'
        BY <1>6, <2>3
      <3>3. \A p \in {<<x.dir, t1>>} : p[2].block = b /\ EntryOK(p[1], p[2])'
        BY <1>6, <3>2
      <3> QED
        BY <1>8, <1>9, <2>4, <2>5, <3>1, <3>3
    <2>6. CASE x.len # 1
      <3>2. PICK t2 \in Transfers :
              /\ t2 = LastChunk(b, x)
              /\ t2.kind = "chunk" /\ t2.block = b /\ t2.cmd = cmd[b] /\ t2.buf = x.buf /\ t2.last
        BY ChunkIs
      <3>1. dma' = Put(d1, x.dir, t2)
        BY <2>1, <2>6, <3>2
      <3>3. /\ Grown(dma', d, b, {<<x.dir, t1>>} \cup {<<x.dir, t2>>})
            /\ CarriedOn(dma', x.dir, b)
        BY <1>2, <1>8, <2>6, <3>1, <3>2, GrownPut
      <3>4. EntryOK(x.dir, t1)'
        BY <1>6, <2>3
      <3>5. EntryOK(x.dir, t2)'
        BY <2>3, <3>2
      <3>6. \A p \in {<<x.dir, t1>>} \cup {<<x.dir, t2>>} : p[2].block = b /\ EntryOK(p[1], p[2])'
        BY <1>6, <3>2, <3>4, <3>5
      <3>7. Cardinality(Lists(dma')) = Cardinality(Lists(d))
        <4>1. Cardinality(Lists(dma')) = Cardinality(Lists(d1)) + 0
          BY <1>2, <1>9, <3>1, <3>2, ListsPut
        <4> QED
          BY <1>9, <4>1
      <3> QED
        BY <2>4, <3>3, <3>6, <3>7
    <2> QED
      BY <2>5, <2>6
  <1>11. CASE x.len = 3
    <2>1. ListOrReturn(b, d1) /\ NotCarried(d1, b) /\ y.len = 2
      BY <1>2, <1>6, <1>8, <1>11, TransferIs DEF d1
    <2>2. prps + Cardinality(Lists(d1)) = PrpSlab
      BY <1>9
    <2>3. PICK c \in Chans, t \in Transfers :
            /\ t.block = b /\ t.last /\ t.cmd = cmd[b]
            /\ Grown(dma', d, b, {<<x.dir, t1>>} \cup {<<c, t>>}) /\ CarriedOn(dma', c, b)
            /\ prps' \in Nat /\ prps' + Cardinality(Lists(dma')) = PrpSlab
            /\ \/ c = "rx" /\ t.kind = "list" /\ UNCHANGED <<stage, starved, leaked>>
               \/ /\ c = "tx" /\ t.kind = "cq" /\ At(b, "posted")
                  /\ starved' = starved \cup {cmd[b]} /\ leaked' = leaked \cup Held(b)
      BY <1>1, <1>8, <2>1, <2>2, ListStep
    <2> DEFINE New == {<<x.dir, t1>>} \cup {<<c, t>>}
    <2>4. ASSUME SameOthers(b), stage' \in [Block -> Stages], stage'[b] \in {"run", "posted"},
                 leaked \subseteq leaked', leaked' \subseteq Buffer, starved' \subseteq Cmd,
                 EntryOK(x.dir, t1)', EntryOK(c, t)', BlockOK(b)',
                 Account(Holders', data', pool', leaked')
          PROVE  IInv'
      <3>1. \A p \in New : p[2].block = b /\ EntryOK(p[1], p[2])'
        BY <1>6, <2>3, <2>4
      <3>2. Grown(dma', d, b, New) /\ prps' \in Nat /\ prps' + Cardinality(Lists(dma')) = PrpSlab
        BY <2>3
      <3>3. lost \subseteq lost' /\ lost' \subseteq Cmd /\ stage[b] # "replied" /\ stage'[b] # "free"
        BY <1>1, <2>4
      <3>4. \A f \in Chans : \A k \in 1..Len(d[f]) :
              d[f][k].block = b /\ d[f][k].kind = "chunk" /\ d[f][k].buf \in Buffer =>
                d[f][k].buf \in leaked'
        BY <2>4
      <3> HIDE DEF New
      <3> QED
        BY <1>4, <2>4, <3>1, <3>2, <3>3, <3>4, HandlerStep
    <2>5. CASE c = "rx" /\ t.kind = "list" /\ UNCHANGED <<stage, starved, leaked>>
      <3>1. SameOthers(b)
        BY <1>4, <2>5 DEF SameOthers
      <3>2. Holders' = Holders /\ Account(Holders', data', pool', leaked')
        BY <1>1, <1>5, <2>5, <3>1, HoldersNext DEF Busy
      <3>3. stage'[b] = "run" /\ xfer'[b].len = 2 /\ xfer'[b].cb = x.cb /\ xfer'[b].buf = x.buf /\ xfer'[b].dir = x.dir
        BY <1>2, <1>4, <2>1, <2>5
      <3>4. EntryOK(x.dir, t1)'
        <4>1. ~t1.last
          BY <1>6, <1>11
        <4>2. t1.buf \in Buffer => stage'[t1.block] = "run" /\ data'[t1.block] = t1.buf /\ xfer'[t1.block].dir = x.dir
          BY <1>6, <3>3, ResourceAssumption
        <4> QED
          BY <1>6, <4>1, <4>2, NewChunk
      <3>5. EntryOK(c, t)'
        BY <2>3, <2>5, <3>3 DEF EntryOK
      <3>6. BlockOK(b)'
        BY <2>3, <3>3 DEF BlockOK, CarriedOn
      <3> QED
        BY <1>1, <2>4, <2>5, <3>1, <3>2, <3>3, <3>4, <3>5, <3>6
    <2>6. CASE /\ c = "tx" /\ t.kind = "cq" /\ At(b, "posted")
               /\ starved' = starved \cup {cmd[b]} /\ leaked' = leaked \cup Held(b)
      <3>1. SameOthers(b) /\ stage' \in [Block -> Stages] /\ stage'[b] = "posted"
        BY <1>1, <1>4, <2>6 DEF SameOthers, At, Stages
      <3>2. leaked' = leaked \cup ({data'[b]} \cap Buffer)
        BY <2>6 DEF Held
      <3>3. Holders' = Holders \ {b} /\ b \in Holders
        BY <1>1, <1>5, <3>1, HoldersNext DEF Busy
      <3>4. Account(Holders', data', pool', leaked')
        BY <1>1, <3>2, <3>3, AccountLeak
      <3>5. EntryOK(x.dir, t1)'
        <4>1. ~t1.last
          BY <1>6, <1>11
        <4>2. t1.buf \in Buffer => t1.buf \in leaked'
          BY <1>6, <3>2, ResourceAssumption
        <4> QED
          BY <1>6, <4>1, <4>2, NewChunk
      <3>6. EntryOK(c, t)'
        BY <2>3, <2>6, <3>1 DEF EntryOK
      <3>7. BlockOK(b)'
        BY <2>3, <2>6, <3>1 DEF BlockOK, CarriedOn
      <3>8. leaked \subseteq leaked' /\ leaked' \subseteq Buffer /\ starved' \subseteq Cmd
        BY <1>1, <2>6, <3>2
      <3> QED
        BY <2>4, <3>1, <3>4, <3>5, <3>6, <3>7, <3>8
    <2> QED
      BY <2>3, <2>5, <2>6
  <1> QED
    BY <1>10, <1>11

\* The handler of a command that has been fetched: nothing else goes on with the
\* command, and what is queued for its block was left by an earlier one.
LEMMA FetchFacts ==
  ASSUME IInv, Done("rx", "fetch")
  PROVE  \E b \in Block, d \in Channels :
           /\ b = First("rx") /\ d = Pop("rx") /\ Taken(d, b)
           /\ stage[b] = "run" /\ thread.block # b /\ data[b] = Null /\ cmd[b] \in Cmd
           /\ prps + Cardinality(Lists(d)) = PrpSlab
           /\ \A c \in Chans : \A k \in 1..Len(d[c]) :
                d[c][k].block = b /\ d[c][k].kind = "chunk" /\ d[c][k].buf \in Buffer =>
                  d[c][k].buf \in leaked
  <1> DEFINE h == Head(dma["rx"])
             b == First("rx")
             d == Pop("rx")
  <1>1. dma["rx"] # <<>> /\ h.kind = "fetch" /\ "rx" \in Chans /\ b = h.block
    BY DEF Done, Chans, First
  <1>2. EntriesOK /\ BlocksOK /\ dma \in Channels /\ Len(dma["rx"]) \in Nat \ {0} /\ h = dma["rx"][1]
    <2>1. dma \in Channels /\ EntriesOK /\ BlocksOK
      BY Types DEF IInv
    <2> QED
      BY <1>1, <2>1, PoppedFacts
  <1>3. EntryOK("rx", h)
    <2>1. 1 \in 1..Len(dma["rx"])
      BY <1>2
    <2> QED
      BY <1>1, <1>2, <2>1 DEF EntriesOK
  <1>4. h.last
    BY <1>1, <1>3 DEF EntryOK
  <1>5. /\ Taken(d, b) /\ b \in Block
        /\ prps + Cardinality(Lists(d)) = PrpSlab - (IF "rx" = "rx" /\ h.kind = "list" THEN 1 ELSE 0)
    BY <1>1, <1>4, PopTaken
  <1>6. prps + Cardinality(Lists(d)) = PrpSlab
    BY <1>1, <1>5, ResourceAssumption
  <1>7. stage[b] = "run" /\ thread.block # b /\ data[b] = Null
    BY <1>1, <1>3 DEF EntryOK
  <1>8. cmd[b] \in Cmd
    BY <1>2, <1>5, <1>7 DEF BlocksOK, BlockOK
  <1>9. ASSUME NEW c \in Chans, NEW k \in 1..Len(d[c]), NEW t, t = d[c][k],
               t.block = b, t.kind = "chunk", t.buf \in Buffer
        PROVE  t.buf \in leaked
    <2>1. PICK j \in 1..Len(dma[c]) : d[c][k] = dma[c][j]
      BY <1>5 DEF Taken, Within
    <2>2. EntryOK(c, t)
      BY <1>2, <1>9, <2>1 DEF EntriesOK
    <2> QED
      BY <1>7, <1>9, <2>2, ResourceAssumption DEF EntryOK
  <1>10. d \in Channels
    BY <1>5 DEF Taken, Orderly
  <1> HIDE DEF b, d, h
  <1> QED
    BY <1>5, <1>6, <1>7, <1>8, <1>9, <1>10 DEF b, d

\* The completion of a command is queued.
LEMMA ReturnStep ==
  ASSUME StateTypeOK, NEW b \in Block, cmd[b] \in Cmd, cmd' = cmd, NEW d, Taken(d, b), Return(b, d)
  PROVE  /\ \E New : Grown(dma', d, b, New) /\ \A p \in New : p[2].block = b /\ EntryOK(p[1], p[2])'
         /\ Cardinality(Lists(dma')) = Cardinality(Lists(d))
         /\ BlockOK(b)'
         /\ stage' \in [Block -> Stages] /\ stage'[b] = "posted"
         /\ \A o \in Block \ {b} : stage'[o] = stage[o]
  <1>1. PICK t \in Transfers : t = Fetch("cq", b) /\ t.kind = "cq" /\ t.block = b /\ t.cmd = cmd[b] /\ t.last
    BY EntryTypes
  <1>2. dma' = Put(d, "tx", t) /\ stage' = [stage EXCEPT ![b] = "posted"]
    BY <1>1 DEF Return, At
  <1>3. /\ stage' \in [Block -> Stages] /\ stage'[b] = "posted"
        /\ \A o \in Block \ {b} : stage'[o] = stage[o]
    BY <1>2, Types DEF Stages
  <1>4. d \in Channels /\ Orderly(d) /\ NotCarried(d, b) /\ Grown(d, d, b, {})
    BY GrownSelf DEF Taken, Orderly
  <1>5. Grown(dma', d, b, {} \cup {<<"tx", t>>}) /\ CarriedOn(dma', "tx", b)
    BY <1>1, <1>2, <1>4, GrownPut DEF Chans
  <1>6. EntryOK("tx", t)'
    BY <1>1, <1>3 DEF EntryOK
  <1>7. \A p \in {} \cup {<<"tx", t>>} : p[2].block = b /\ EntryOK(p[1], p[2])'
    BY <1>1, <1>6
  <1>8. Cardinality(Lists(d)) \in Nat /\ Cardinality(Lists(dma')) = Cardinality(Lists(d)) + 0
    BY <1>1, <1>2, <1>4, ListsFinite, ListsPut DEF Chans
  <1>9. BlockOK(b)'
    BY <1>3, <1>5 DEF BlockOK, CarriedOn
  <1> QED
    BY <1>3, <1>5, <1>7, <1>8, <1>9

\* HandleHere keeps the invariant.
LEMMA HandleHereInv == IInv /\ HandleHere => IInv'
  <1> SUFFICES ASSUME IInv, HandleHere
               PROVE  IInv'
    OBVIOUS
  <1>1. PICK b \in Block, d \in Channels :
          /\ b = First("rx") /\ d = Pop("rx") /\ Taken(d, b)
          /\ stage[b] = "run" /\ thread.block # b /\ data[b] = Null /\ cmd[b] \in Cmd
          /\ prps + Cardinality(Lists(d)) = PrpSlab
          /\ \A c \in Chans : \A n \in 1..Len(d[c]) :
               d[c][n].block = b /\ d[c][n].kind = "chunk" /\ d[c][n].buf \in Buffer =>
                 d[c][n].buf \in leaked
    BY FetchFacts DEF HandleHere
  <1> DEFINE k == Kind[cmd[b]]
  <1>2. UNCHANGED <<outstanding, sq, cmd, pool, replies, thread, lost>>
    BY DEF HandleHere
  <1>3. /\ StateTypeOK /\ ThreadOK /\ data \in Owners /\ pool \subseteq Buffer /\ prps \in Nat
        /\ xfer \in [Block -> Xfers] /\ lost \subseteq Cmd /\ leaked \subseteq Buffer
        /\ starved \subseteq Cmd /\ Holders \subseteq Block
        /\ Account(Holders, data, pool, leaked)
    BY Types, AccountIs DEF IInv
  <1>4. \/ Return(b, d) /\ UNCHANGED <<xfer, data, prps, starved, leaked>>
        \/ /\ data' = data
           /\ Transfer(b, [len |-> Pages[cmd[b]], buf |-> Disk, cb |-> "return",
                           dir |-> IF k = "read" THEN "tx" ELSE "rx"], d)
    BY <1>1, Zenon DEF HandleHere
  <1> HIDE DEF k
  <1>5. CASE Return(b, d) /\ UNCHANGED <<xfer, data, prps, starved, leaked>>
    <2>1. PICK New : Grown(dma', d, b, New) /\ \A p \in New : p[2].block = b /\ EntryOK(p[1], p[2])'
      BY <1>1, <1>2, <1>3, <1>5, ReturnStep
    <2>2. /\ Cardinality(Lists(dma')) = Cardinality(Lists(d))
          /\ BlockOK(b)' /\ stage' \in [Block -> Stages] /\ stage'[b] = "posted"
          /\ \A o \in Block \ {b} : stage'[o] = stage[o]
      BY <1>1, <1>2, <1>3, <1>5, ReturnStep
    <2>3. SameOthers(b)
      BY <1>2, <1>5, <2>2 DEF SameOthers
    <2>4. \A o \in Block : Freeing(o)' <=> Freeing(o)
      BY <1>2 DEF Freeing
    <2>5. b \in Holders /\ Holders' = Holders \ {b}
      BY <1>1, <1>3, <2>2, <2>3, <2>4, HoldersNext DEF Busy
    <2>6. Account(Holders', data', pool', leaked')
      BY <1>1, <1>2, <1>3, <1>5, <2>5, AccountDrop
    <2>7. /\ data' \in Owners /\ xfer' \in [Block -> Xfers] /\ pool' \subseteq Buffer /\ prps' \in Nat
          /\ prps' + Cardinality(Lists(dma')) = PrpSlab
          /\ leaked \subseteq leaked' /\ leaked' \subseteq Buffer
          /\ lost \subseteq lost' /\ lost' \subseteq Cmd /\ starved' \subseteq Cmd
          /\ stage[b] # "replied" /\ stage'[b] # "free"
      BY <1>1, <1>2, <1>3, <1>5, <2>2
    <2>8. \A c \in Chans : \A n \in 1..Len(d[c]) :
            d[c][n].block = b /\ d[c][n].kind = "chunk" /\ d[c][n].buf \in Buffer =>
              d[c][n].buf \in leaked'
      BY <1>1, <1>5
    <2> QED
      BY <1>1, <1>2, <2>1, <2>2, <2>3, <2>6, <2>7, <2>8, HandlerStep
  <1>6. CASE /\ data' = data
             /\ Transfer(b, [len |-> Pages[cmd[b]], buf |-> Disk, cb |-> "return",
                             dir |-> IF k = "read" THEN "tx" ELSE "rx"], d)
    <2> DEFINE x == [len |-> Pages[cmd[b]], buf |-> Disk, cb |-> "return",
                     dir |-> IF k = "read" THEN "tx" ELSE "rx"]
    <2>1. x \in Xfers /\ x.len \in 1..3 /\ x.cb = "return" /\ x.buf = Disk
      BY <1>1, CmdAssumption DEF Xfers, Wrap
    <2>2. PICK z \in Xfers : z = x
      BY <2>1
    <2>3. Transfer(b, z, d) /\ data' = data
      BY <1>6, <2>2, Zenon
    <2>4. z.len \in 1..3 /\ z.cb = "return" /\ z.buf = Disk
      BY <2>1, <2>2
    <2> HIDE DEF x
    <2>5. /\ z.cb \in {"return", "vendor"} /\ z.buf \in {Null, Disk, data'[b]}
          /\ z.cb = "return" => data'[b] = Null
          /\ data' \in Owners /\ (\A o \in Block \ {b} : data'[o] = data[o]) /\ pool' \subseteq Buffer
          /\ Account(Holders, data', pool', leaked)
      BY <1>1, <1>2, <1>3, <2>3, <2>4
    <2> QED
      BY <1>1, <1>2, <2>3, <2>4, <2>5, TransferStep
  <1> QED
    BY <1>4, <1>5, <1>6

\* The command has its buffer and is given to the APU, or dropped.
LEMMA SendStep ==
  ASSUME IInv, NEW b \in Block, NEW d, Taken(d, b), dma' = d,
         prps + Cardinality(Lists(d)) = PrpSlab,
         stage[b] = "run", cmd[b] \in Cmd, thread.block # b,
         \A c \in Chans : \A k \in 1..Len(d[c]) :
           d[c][k].block = b /\ d[c][k].kind = "chunk" /\ d[c][k].buf \in Buffer =>
             d[c][k].buf \in leaked,
         UNCHANGED <<outstanding, sq, cmd, xfer, prps, replies, thread, starved>>,
         data' \in Owners, \A o \in Block \ {b} : data'[o] = data[o], pool' \subseteq Buffer,
         Account(Holders, data', pool', leaked),
         \/ At(b, "apu") /\ UNCHANGED <<lost, leaked>>
         \/ /\ At(b, "stuck") /\ lost' = lost \cup {cmd[b]}
            /\ leaked' = leaked \cup ({data'[b]} \cap Buffer)
  PROVE  IInv'
  <1>1. /\ StateTypeOK /\ ThreadOK /\ stage \in [Block -> Stages] /\ xfer \in [Block -> Xfers]
        /\ prps \in Nat /\ leaked \subseteq Buffer /\ lost \subseteq Cmd /\ starved \subseteq Cmd
        /\ Holders \subseteq Block
    BY Types DEF IInv
  <1>2. Grown(dma', d, b, {}) /\ \A p \in {} : p[2].block = b /\ EntryOK(p[1], p[2])'
    BY GrownSelf DEF Taken
  <1>3. \A o \in Block : Freeing(o)' <=> Freeing(o)
    BY DEF Freeing
  <1>4. /\ leaked \subseteq leaked' /\ leaked' \subseteq Buffer /\ lost \subseteq lost' /\ lost' \subseteq Cmd
        /\ prps' \in Nat /\ prps' + Cardinality(Lists(dma')) = PrpSlab /\ starved' \subseteq Cmd
        /\ xfer' \in [Block -> Xfers]
    BY <1>1
  <1>5. /\ stage' \in [Block -> Stages] /\ stage'[b] \in {"apu", "stuck"}
        /\ \A o \in Block \ {b} : stage'[o] = stage[o]
    BY <1>1 DEF At, Stages
  <1>6. SameOthers(b)
    BY <1>5 DEF SameOthers
  <1>7. Account(Holders', data', pool', leaked')
    <2>1. CASE At(b, "apu") /\ UNCHANGED <<lost, leaked>>
      <3>1. stage'[b] = "apu"
        BY <1>1, <2>1 DEF At
      <3>2. Holders' = Holders
        BY <1>1, <1>3, <1>6, <3>1, HoldersNext DEF Busy
      <3> QED
        BY <2>1, <3>2
    <2>2. CASE At(b, "stuck") /\ leaked' = leaked \cup ({data'[b]} \cap Buffer)
      <3>1. stage'[b] = "stuck"
        BY <1>1, <2>2 DEF At
      <3>2. Holders' = Holders \ {b} /\ b \in Holders
        BY <1>1, <1>3, <1>6, <3>1, HoldersNext DEF Busy
      <3> QED
        BY <1>1, <2>2, <3>2, AccountLeak
    <2> QED
      BY <2>1, <2>2
  <1>8. BlockOK(b)'
    <2>1. stage'[b] = "stuck" => cmd'[b] \in lost'
      BY <1>1 DEF At
    <2> QED
      BY <1>5, <2>1 DEF BlockOK
  <1>9. /\ stage[b] # "replied" /\ stage'[b] # "free"
        /\ \A c \in Chans : \A k \in 1..Len(d[c]) :
             d[c][k].block = b /\ d[c][k].kind = "chunk" /\ d[c][k].buf \in Buffer =>
               d[c][k].buf \in leaked'
    BY <1>4, <1>5
  <1> QED
    BY <1>2, <1>4, <1>5, <1>6, <1>7, <1>8, <1>9, HandlerStep

\* VendorNoBuffer keeps the invariant.
LEMMA VendorNoBufferInv == IInv /\ VendorNoBuffer => IInv'
  <1> SUFFICES ASSUME IInv, VendorNoBuffer
               PROVE  IInv'
    OBVIOUS
  <1>1. PICK b \in Block, d \in Channels :
          /\ b = First("rx") /\ d = Pop("rx") /\ Taken(d, b)
          /\ stage[b] = "run" /\ thread.block # b /\ data[b] = Null /\ cmd[b] \in Cmd
          /\ prps + Cardinality(Lists(d)) = PrpSlab
          /\ \A c \in Chans : \A n \in 1..Len(d[c]) :
               d[c][n].block = b /\ d[c][n].kind = "chunk" /\ d[c][n].buf \in Buffer =>
                 d[c][n].buf \in leaked
    BY FetchFacts DEF VendorNoBuffer
  <1>2. /\ At(b, "stuck") /\ lost' = lost \cup {cmd[b]} /\ dma' = d
        /\ UNCHANGED <<outstanding, sq, cmd, xfer, data, pool, prps, replies, thread, starved, leaked>>
    BY <1>1 DEF VendorNoBuffer, slabs
  <1>3. /\ data \in Owners /\ pool \subseteq Buffer /\ Account(Holders, data, pool, leaked)
    BY Types, AccountIs DEF IInv
  <1>4. leaked' = leaked \cup ({data'[b]} \cap Buffer)
    BY <1>1, <1>2, ResourceAssumption
  <1>5. /\ data' \in Owners /\ (\A o \in Block \ {b} : data'[o] = data[o]) /\ pool' \subseteq Buffer
        /\ Account(Holders, data', pool', leaked)
    BY <1>2, <1>3
  <1>6. UNCHANGED <<outstanding, sq, cmd, xfer, prps, replies, thread, starved>>
    BY <1>2
  <1>7. /\ dma' = d
        /\ At(b, "stuck") /\ lost' = lost \cup {cmd[b]} /\ leaked' = leaked \cup ({data'[b]} \cap Buffer)
    BY <1>2, <1>4
  <1> QED
    BY <1>1, <1>5, <1>6, <1>7, SendStep

\* A buffer is allocated where one is needed.
LEMMA VendorBufferStep ==
  ASSUME IInv, NEW b \in Block, stage[b] = "run", data[b] = Null, VendorBuffer(b)
  PROVE  /\ data' \in Owners /\ (\A o \in Block \ {b} : data'[o] = data[o])
         /\ pool' \subseteq Buffer /\ Account(Holders, data', pool', leaked)
  <1>1. /\ data \in Owners /\ pool \subseteq Buffer /\ Account(Holders, data, pool, leaked)
        /\ Holders \subseteq Block
    BY Types, AccountIs DEF IInv
  <1>2. b \in Holders
    BY DEF Holders
  <1>3. CASE UNCHANGED <<pool, data>>
    BY <1>1, <1>3
  <1>4. CASE \E x \in pool : pool' = pool \ {x} /\ data' = [data EXCEPT ![b] = x]
    <2>1. PICK x \in pool : pool' = pool \ {x} /\ data' = [data EXCEPT ![b] = x]
      BY <1>4
    <2>2. Account(Holders, data', pool', leaked)
      BY <1>1, <1>2, <2>1, AccountTake
    <2>3. data' \in Owners /\ (\A o \in Block \ {b} : data'[o] = data[o]) /\ pool' \subseteq Buffer
      BY <1>1, <2>1 DEF Owners
    <2> QED
      BY <2>2, <2>3
  <1>5. \/ UNCHANGED <<pool, data>>
        \/ \E x \in pool : pool' = pool \ {x} /\ data' = [data EXCEPT ![b] = x]
    <2> DEFINE y == CHOOSE x \in pool : TRUE
    <2>1. \/ pool # {} /\ pool' = pool \ {y} /\ data' = [data EXCEPT ![b] = y]
          \/ UNCHANGED <<pool, data>>
      BY Zenon DEF VendorBuffer
    <2>2. pool # {} => y \in pool
      BY Zenon
    <2> HIDE DEF y
    <2> QED
      BY <2>1, <2>2
  <1> QED
    BY <1>3, <1>4, <1>5

\* VendorSend keeps the invariant.
LEMMA VendorSendInv == IInv /\ VendorSend => IInv'
  <1> SUFFICES ASSUME IInv, VendorSend
               PROVE  IInv'
    OBVIOUS
  <1>1. PICK b \in Block, d \in Channels :
          /\ b = First("rx") /\ d = Pop("rx") /\ Taken(d, b)
          /\ stage[b] = "run" /\ thread.block # b /\ data[b] = Null /\ cmd[b] \in Cmd
          /\ prps + Cardinality(Lists(d)) = PrpSlab
          /\ \A c \in Chans : \A n \in 1..Len(d[c]) :
               d[c][n].block = b /\ d[c][n].kind = "chunk" /\ d[c][n].buf \in Buffer =>
                 d[c][n].buf \in leaked
    BY FetchFacts DEF VendorSend
  <1>2. /\ VendorBuffer(b) /\ Send(b, d)
        /\ UNCHANGED <<outstanding, sq, cmd, xfer, prps, replies, thread, starved>>
    BY <1>1 DEF VendorSend
  <1>3. /\ data' \in Owners /\ (\A o \in Block \ {b} : data'[o] = data[o])
        /\ pool' \subseteq Buffer /\ Account(Holders, data', pool', leaked)
    BY <1>1, <1>2, VendorBufferStep
  <1>4. /\ dma' = d
        /\ \/ At(b, "apu") /\ UNCHANGED <<lost, leaked>>
           \/ /\ At(b, "stuck") /\ lost' = lost \cup {cmd[b]}
              /\ leaked' = leaked \cup ({data'[b]} \cap Buffer)
    BY <1>2 DEF Send, Held
  <1> QED
    BY <1>1, <1>2, <1>3, <1>4, SendStep

\* VendorTransfer keeps the invariant.
LEMMA VendorTransferInv == IInv /\ VendorTransfer => IInv'
  <1> SUFFICES ASSUME IInv, VendorTransfer
               PROVE  IInv'
    OBVIOUS
  <1>1. PICK b \in Block, d \in Channels :
          /\ b = First("rx") /\ d = Pop("rx") /\ Taken(d, b)
          /\ stage[b] = "run" /\ thread.block # b /\ data[b] = Null /\ cmd[b] \in Cmd
          /\ prps + Cardinality(Lists(d)) = PrpSlab
          /\ \A c \in Chans : \A n \in 1..Len(d[c]) :
               d[c][n].block = b /\ d[c][n].kind = "chunk" /\ d[c][n].buf \in Buffer =>
                 d[c][n].buf \in leaked
    BY FetchFacts DEF VendorTransfer
  <1>2. VendorBuffer(b) /\ UNCHANGED <<outstanding, sq, cmd, replies, thread>>
    BY <1>1 DEF VendorTransfer
  <1>3. /\ data' \in Owners /\ (\A o \in Block \ {b} : data'[o] = data[o])
        /\ pool' \subseteq Buffer /\ Account(Holders, data', pool', leaked)
    BY <1>1, <1>2, VendorBufferStep
  <1>4. \/ /\ Transfer(b, [len |-> Pages[cmd[b]], buf |-> data'[b], cb |-> "vendor", dir |-> "rx"], d)
           /\ UNCHANGED lost
        \/ /\ At(b, "stuck") /\ dma' = d /\ lost' = lost \cup {cmd[b]} /\ leaked' = leaked \cup Held(b)
           /\ UNCHANGED <<xfer, prps, starved>>
    BY <1>1, Zenon DEF VendorTransfer
  <1>5. CASE /\ Transfer(b, [len |-> Pages[cmd[b]], buf |-> data'[b], cb |-> "vendor", dir |-> "rx"], d)
             /\ UNCHANGED lost
    <2> DEFINE x == [len |-> Pages[cmd[b]], buf |-> data'[b], cb |-> "vendor", dir |-> "rx"]
    <2>1. x \in Xfers /\ x.len \in 1..3 /\ x.cb = "vendor" /\ x.buf = data'[b]
      BY <1>1, <1>3, CmdAssumption DEF Xfers, Wrap, Owners
    <2>2. PICK z \in Xfers : z = x
      BY <2>1
    <2>3. Transfer(b, z, d) /\ UNCHANGED lost
      BY <1>5, <2>2, Zenon
    <2>4. /\ z.len \in 1..3 /\ z.cb \in {"return", "vendor"} /\ z.buf \in {Null, Disk, data'[b]}
          /\ z.cb = "return" => data'[b] = Null
      BY <2>1, <2>2
    <2> HIDE DEF x
    <2>5. UNCHANGED <<outstanding, sq, cmd, replies, thread, lost>>
      BY <1>2, <2>3
    <2> QED
      BY <1>1, <1>3, <2>3, <2>4, <2>5, TransferStep
  <1>6. CASE /\ At(b, "stuck") /\ dma' = d /\ lost' = lost \cup {cmd[b]} /\ leaked' = leaked \cup Held(b)
             /\ UNCHANGED <<xfer, prps, starved>>
    <2>1. leaked' = leaked \cup ({data'[b]} \cap Buffer)
      BY <1>6 DEF Held
    <2>2. UNCHANGED <<outstanding, sq, cmd, xfer, prps, replies, thread, starved>>
      BY <1>2, <1>6
    <2> QED
      BY <1>1, <1>3, <1>6, <2>1, <2>2, SendStep
  <1> QED
    BY <1>4, <1>5, <1>6

\* Submit keeps the invariant.
LEMMA SubmitInv == ASSUME NEW c \in Cmd PROVE IInv /\ Submit(c) => IInv'
  <1> SUFFICES ASSUME IInv, Submit(c)
               PROVE  IInv'
    OBVIOUS
  <1>1. /\ outstanding' = outstanding \cup {c} /\ sq' = Append(sq, c) /\ starved' = starved \ {c}
        /\ UNCHANGED <<cmd, stage, xfer, data, pool, prps, dma, replies, thread, lost, leaked>>
    BY DEF Submit, slabs
  <1>2. /\ StateTypeOK /\ BuffersAccounted /\ PrpsAccounted /\ OneCarries(dma) /\ NoneBehind(dma)
        /\ EntriesOK /\ RepliesOK /\ ThreadOK /\ BlocksOK /\ Placed
    BY DEF IInv
  <1>3. StateTypeOK'
    BY <1>1, <1>2 DEF StateTypeOK
  <1>4. Holders' = Holders /\ Queued' = Queued
    BY <1>1 DEF Holders, Queued
  <1>5. BuffersAccounted' /\ PrpsAccounted' /\ OneCarries(dma)' /\ NoneBehind(dma)'
    <2>1. BuffersAccounted'
      BY <1>1, <1>2, <1>4 DEF BuffersAccounted
    <2>2. PrpsAccounted'
      BY <1>1, <1>2 DEF PrpsAccounted
    <2> QED
      BY <1>1, <1>2, <2>1, <2>2
  <1>6. EntriesOK'
    BY <1>1, <1>2, EntriesSame
  <1>7. RepliesOK' /\ ThreadOK'
    BY <1>1, <1>2 DEF RepliesOK, ThreadOK, Working, NotCarried
  <1>8. BlocksOK'
    BY <1>1, <1>2 DEF BlocksOK, BlockOK, CarriedOn, Working
  <1>9. Placed'
    <2>1. sq \in Seq(Cmd)
      BY <1>2 DEF StateTypeOK
    <2>2. Len(sq') = Len(sq) + 1 /\ Len(sq) \in Nat /\ sq'[Len(sq) + 1] = c
      BY <1>1, <2>1
    <2>3. \A k \in 1..Len(sq) : k \in 1..Len(sq') /\ sq'[k] = sq[k]
      BY <1>1, <2>1
    <2>4. Len(sq) + 1 \in 1..Len(sq')
      BY <2>2
    <2> SUFFICES ASSUME NEW e \in outstanding' \ lost'
                 PROVE  \/ \E k \in 1..Len(sq') : sq'[k] = e
                        \/ \E b \in Block : cmd'[b] = e /\ stage'[b] # "free"
      BY DEF Placed
    <2>5. CASE e = c
      BY <2>2, <2>4, <2>5
    <2>6. CASE e \in outstanding \ lost
      BY <1>1, <1>2, <2>3, <2>6 DEF Placed
    <2> QED
      BY <1>1, <2>5, <2>6
  <1> QED
    BY <1>3, <1>5, <1>6, <1>7, <1>8, <1>9 DEF IInv

\* A command that is taken from the queue, and where it goes.
LEMMA PlacedTail ==
  ASSUME StateTypeOK, Placed, sq # <<>>, sq' = Tail(sq), outstanding' = outstanding, lost \subseteq lost',
         \A o \in Block : stage[o] # "free" => stage'[o] # "free" /\ cmd'[o] = cmd[o],
         Head(sq) \in lost' \/ \E b \in Block : cmd'[b] = Head(sq) /\ stage'[b] # "free"
  PROVE  Placed'
  <1>1. sq \in Seq(Cmd)
    BY DEF StateTypeOK
  <1>2. Len(sq) \in Nat \ {0}
    BY <1>1, EmptySeq
  <1>3. /\ Head(sq) = sq[1] /\ Len(sq') = Len(sq) - 1
        /\ \A k \in 1..(Len(sq) - 1) : sq'[k] = sq[k + 1]
    BY <1>1, <1>2
  <1> SUFFICES ASSUME NEW e \in outstanding' \ lost'
               PROVE  \/ \E k \in 1..Len(sq') : sq'[k] = e
                      \/ \E b \in Block : cmd'[b] = e /\ stage'[b] # "free"
    BY DEF Placed
  <1>4. e \in outstanding \ lost
    OBVIOUS
  <1>5. CASE e = Head(sq)
    BY <1>5
  <1>6. CASE e # Head(sq) /\ \E k \in 1..Len(sq) : sq[k] = e
    <2>1. PICK k \in 1..Len(sq) : sq[k] = e
      BY <1>6
    <2>2. k # 1
      BY <1>3, <1>6, <2>1
    <2>3. k - 1 \in 1..Len(sq') /\ (k - 1) + 1 = k
      BY <1>2, <1>3, <2>2
    <2>4. sq'[k - 1] = e
      BY <1>3, <2>1, <2>3
    <2> QED
      BY <2>3, <2>4
  <1>7. CASE \E b \in Block : cmd[b] = e /\ stage[b] # "free"
    BY <1>7
  <1> QED
    BY <1>4, <1>5, <1>6, <1>7 DEF Placed

\* The fetch of a command h into block b.
FetchOf(b, h) == [Fetch("fetch", b) EXCEPT !.cmd = h]

\* It is an entry of its block.
LEMMA FetchOfIs ==
  ASSUME NEW b \in Block, NEW h \in Cmd, cmd \in [Block -> Cmd \cup {NoCmd}]
  PROVE  \E t \in Transfers : /\ t = FetchOf(b, h)
                               /\ t.kind = "fetch" /\ t.block = b /\ t.cmd = h /\ t.last
  <1> DEFINE R == [kind : {"fetch"}, block : Block, cmd : Cmd \cup {NoCmd}, buf : {Null}, last : BOOLEAN]
  <1>1. PICK r \in R : r = Fetch("fetch", b) /\ r.kind = "fetch" /\ r.block = b /\ r.last
    <2> DEFINE f == Fetch("fetch", b)
    <2>1. f \in R
      BY DEF Fetch
    <2>2. f.kind = "fetch" /\ f.block = b /\ f.last
      BY DEF Fetch
    <2> HIDE DEF f
    <2> QED
      BY <2>1, <2>2 DEF f
  <1> DEFINE t == [r EXCEPT !.cmd = h]
  <1>2. t \in Transfers
    BY DEF Transfers
  <1>3. t.kind = r.kind /\ t.block = r.block
    OBVIOUS
  <1>4. t.cmd = h
    OBVIOUS
  <1>5. t.last = r.last
    OBVIOUS
  <1>6. FetchOf(b, h) = t
    BY <1>1, Zenon DEF FetchOf
  <1> HIDE DEF t
  <1> QED
    BY <1>1, <1>2, <1>3, <1>4, <1>5, <1>6

\* TailHandler keeps the invariant.
LEMMA TailHandlerInv == IInv /\ TailHandler /\ ~reused' => IInv'
  <1> SUFFICES ASSUME IInv, TailHandler, ~reused'
               PROVE  IInv'
    OBVIOUS
  <1>1. /\ StateTypeOK /\ BuffersAccounted /\ PrpsAccounted /\ OneCarries(dma) /\ NoneBehind(dma)
        /\ EntriesOK /\ RepliesOK /\ ThreadOK /\ BlocksOK /\ Placed
    BY DEF IInv
  <1>2. /\ sq # <<>> /\ sq' = Tail(sq)
        /\ UNCHANGED <<outstanding, pool, prps, replies, thread, starved, leaked>>
    BY DEF TailHandler, slabs
  <1>3. PICK h \in Cmd : h = Head(sq)
    BY <1>1, <1>2 DEF StateTypeOK
  <1>4. sq' \in Seq(Cmd)
    BY <1>1, <1>2 DEF StateTypeOK
  <1>5. CASE lost' = lost \cup {h} /\ UNCHANGED <<cmd, stage, xfer, data, dma>>
    <2>1. StateTypeOK'
      BY <1>1, <1>2, <1>4, <1>5 DEF StateTypeOK
    <2>2. Holders' = Holders /\ Queued' = Queued
      BY <1>2, <1>5 DEF Holders, Queued
    <2>3. BuffersAccounted'
      BY <1>1, <1>2, <1>5, <2>2 DEF BuffersAccounted
    <2>4. PrpsAccounted' /\ OneCarries(dma)' /\ NoneBehind(dma)'
      BY <1>1, <1>2, <1>5 DEF PrpsAccounted
    <2>5. EntriesOK'
      BY <1>1, <1>2, <1>5, EntriesSame
    <2>6. RepliesOK' /\ ThreadOK'
      BY <1>1, <1>2, <1>5 DEF RepliesOK, ThreadOK, Working, NotCarried
    <2>7. BlocksOK'
      BY <1>1, <1>2, <1>5 DEF BlocksOK, BlockOK, CarriedOn, Working
    <2>8. Placed'
      BY <1>1, <1>2, <1>3, <1>5, PlacedTail
    <2> QED
      BY <2>1, <2>3, <2>4, <2>5, <2>6, <2>7, <2>8 DEF IInv
  <1>6. CASE \E b \in Block :
               /\ stage[b] = "free" /\ b # thread.block
               /\ At(b, "run") /\ cmd' = [cmd EXCEPT ![b] = h]
               /\ xfer' = [xfer EXCEPT ![b] = NoXfer] /\ data' = [data EXCEPT ![b] = Null]
               /\ dma' = Put(dma, "rx", FetchOf(b, h))
               /\ UNCHANGED lost
    <2>1. PICK b \in Block :
               /\ stage[b] = "free" /\ b # thread.block
               /\ At(b, "run") /\ cmd' = [cmd EXCEPT ![b] = h]
               /\ xfer' = [xfer EXCEPT ![b] = NoXfer] /\ data' = [data EXCEPT ![b] = Null]
               /\ dma' = Put(dma, "rx", FetchOf(b, h))
               /\ UNCHANGED lost
      BY <1>6
    <2>2. PICK t \in Transfers : /\ t = FetchOf(b, h)
                                 /\ t.kind = "fetch" /\ t.block = b /\ t.cmd = h /\ t.last
      BY <1>1, FetchOfIs DEF StateTypeOK
    <2>3. /\ dma \in Channels /\ stage \in [Block -> Stages] /\ xfer \in [Block -> Xfers]
          /\ data \in Owners /\ cmd \in [Block -> Cmd \cup {NoCmd}] /\ prps \in Nat
          /\ replies \in Seq(Answers) /\ Holders \subseteq Block
      BY <1>1, Types
    <2>4. /\ stage'[b] = "run" /\ cmd'[b] = h /\ xfer'[b] = NoXfer /\ data'[b] = Null
          /\ dma' = Put(dma, "rx", t)
      BY <2>1, <2>2, <2>3 DEF At, Owners
    <2>5. SameOthers(b)
      BY <2>1, <2>3 DEF At, Owners, SameOthers
    <2>6. NoXfer \in Xfers /\ NoXfer.cb = "none"
      BY DEF NoXfer, Xfers, Wrap
    <2>7. /\ stage' \in [Block -> Stages] /\ xfer' \in [Block -> Xfers] /\ data' \in Owners
          /\ cmd' \in [Block -> Cmd \cup {NoCmd}]
      BY <2>1, <2>3, <2>6 DEF At, Stages, Owners
    <2>8. Taken(dma, b)
      BY <2>1, NotCarriedTaken
    <2>9. Grown(dma, dma, b, {}) /\ NotCarried(dma, b)
      BY <2>8, GrownSelf DEF Taken
    <2>10. Grown(dma', dma, b, {} \cup {<<"rx", t>>}) /\ CarriedOn(dma', "rx", b)
      BY <2>2, <2>4, <2>9, GrownPut DEF Chans
    <2>11. thread' = thread /\ thread'.block # b /\ leaked' = leaked /\ replies' = replies
      BY <1>2, <2>1
    <2>12. EntryOK("rx", t)'
      <3>1. t.last /\ t.kind = "fetch" /\ t.block = b /\ t.cmd = cmd'[b]
        BY <2>2, <2>4
      <3> QED
        BY <2>4, <2>11, <3>1 DEF EntryOK
    <2>13. \A p \in {} \cup {<<"rx", t>>} : p[2].block = b /\ EntryOK(p[1], p[2])'
      BY <2>2, <2>12
    <2>14. BlockOK(b)'
      <3>1. \E c \in Chans : CarriedOn(dma', c, b)
        BY <2>10 DEF Chans
      <3> QED
        BY <2>4, <2>6, <3>1 DEF BlockOK, CarriedOn
    <2>15. ASSUME NEW c \in Chans, NEW k \in 1..Len(dma[c]), NEW u, u = dma[c][k],
                  u.block = b, u.kind = "chunk", u.buf \in Buffer
           PROVE  u.buf \in leaked'
      <3>1. EntryOK(c, u)
        BY <1>1, <2>15 DEF EntriesOK
      <3> QED
        BY <2>1, <2>11, <2>15, <3>1 DEF EntryOK
    <2>16. leaked \subseteq leaked' /\ lost \subseteq lost'
           /\ thread'.block \in {thread.block, NoBlock, b}
           /\ \A o \in Block \ {b} : (\E k \in 1..Len(replies) : replies[k].block = o)
                                       => \E k \in 1..Len(replies') : replies'[k].block = o
      BY <2>1, <2>11
    <2>17. \A c \in Chans : \A k \in 1..Len(dma[c]) :
             dma[c][k].block = b /\ dma[c][k].kind = "chunk" /\ dma[c][k].buf \in Buffer =>
               dma[c][k].buf \in leaked'
      BY <2>15
    <2>18. OneCarries(dma)' /\ NoneBehind(dma)' /\ EntriesOK' /\ BlocksOK'
      BY <2>5, <2>8, <2>10, <2>11, <2>13, <2>14, <2>16, <2>17, EntriesStep
    <2>19. Placed'
      <3>1. \A o \in Block : stage[o] # "free" => stage'[o] # "free" /\ cmd'[o] = cmd[o]
        BY <2>1, <2>5 DEF SameOthers
      <3> QED
        BY <1>1, <1>2, <1>3, <2>4, <2>16, <3>1, PlacedTail
    <2>20. ThreadOK'
      BY <2>1, <2>5, <2>8, <2>10, <2>11, ThreadKept
    <2>21. RepliesOK'
      BY <2>1, <2>5, <2>11, RepliesKept
    <2>22. Account(Holders', data', pool', leaked')
      <3>1. \A o \in Block : Freeing(o)' <=> Freeing(o)
        BY <2>11 DEF Freeing
      <3>2. Holders' = Holders \cup {b}
        BY <1>1, <2>1, <2>4, <2>5, <3>1, HoldersNext DEF Busy
      <3>3. b \notin Holders
        <4>1. ~(thread = [pc |-> "free", block |-> b])
          BY <2>1
        <4> QED
          BY <2>1, <4>1 DEF Holders
      <3>4. Account(Holders, data, pool, leaked)
        BY <1>1, AccountIs
      <3> QED
        BY <1>2, <2>1, <2>3, <3>2, <3>3, <3>4, AccountJoin
    <2>23. dma' \in Channels /\ prps' \in Nat /\ prps' + Cardinality(Lists(dma')) = PrpSlab
      <3>1. dma' \in Channels
        BY <2>10 DEF Grown, Orderly
      <3>2. Cardinality(Lists(dma')) = Cardinality(Lists(dma)) + 0 /\ Cardinality(Lists(dma)) \in Nat
        BY <2>2, <2>3, <2>4, ListsPut, ListsFinite DEF Chans
      <3>3. prps + Cardinality(Lists(dma)) = PrpSlab
        BY <1>1 DEF PrpsAccounted, Lists
      <3> QED
        BY <1>2, <2>3, <3>1, <3>2, <3>3
    <2>24. StateTypeOK' /\ PrpsAccounted'
      <3>1. /\ outstanding' \subseteq Cmd /\ pool' \subseteq Buffer /\ replies' \in Seq(Answers)
            /\ thread' \in [pc : {"idle", "free", "count", "test", "count2"}, block : Block \cup {NoBlock}]
            /\ lost' \subseteq Cmd /\ starved' \subseteq Cmd /\ leaked' \subseteq Buffer
        BY <1>1, <1>2, <2>1, <2>3 DEF StateTypeOK
      <3> QED
        BY <1>4, <2>7, <2>23, <3>1, TypeNext
    <2> QED
      BY <2>18, <2>19, <2>20, <2>21, <2>22, <2>24, Assemble
  <1>7. \/ lost' = lost \cup {h} /\ UNCHANGED <<cmd, stage, xfer, data, dma>>
        \/ \E b \in Block :
             /\ stage[b] = "free" /\ b # thread.block
             /\ At(b, "run") /\ cmd' = [cmd EXCEPT ![b] = h]
             /\ xfer' = [xfer EXCEPT ![b] = NoXfer] /\ data' = [data EXCEPT ![b] = Null]
             /\ dma' = Put(dma, "rx", FetchOf(b, h))
             /\ UNCHANGED lost
    <2>1. ASSUME NEW b \in Free, reused' = (reused \/ b = thread.block)
          PROVE  b \in Block /\ stage[b] = "free" /\ b # thread.block
      BY <2>1 DEF Free
    <2> QED
      BY <1>3, <2>1, Zenon DEF TailHandler, FetchOf
  <1> QED
    BY <1>5, <1>6, <1>7

\* ChunkDone keeps the invariant.
LEMMA ChunkDoneInv == ASSUME NEW c \in Chans PROVE IInv /\ ChunkDone(c) => IInv'
  <1> SUFFICES ASSUME IInv, ChunkDone(c)
               PROVE  IInv'
    OBVIOUS
  <1>1. /\ StateTypeOK /\ BuffersAccounted /\ PrpsAccounted /\ Orderly(dma)
        /\ EntriesOK /\ RepliesOK /\ ThreadOK /\ BlocksOK /\ Placed /\ dma \in Channels
    BY Types DEF IInv, Orderly
  <1>2. /\ dma[c] # <<>> /\ Head(dma[c]).kind = "chunk" /\ ~Head(dma[c]).last /\ dma' = Popped(dma, c)
        /\ UNCHANGED <<outstanding, sq, cmd, stage, xfer, data, pool, prps, replies, thread,
                       lost, starved, leaked>>
    BY DEF ChunkDone, Done, Pop, Popped, slabs, history
  <1>3. /\ Orderly(dma') /\ Within(dma', dma)
        /\ \A b \in Block : \A f \in Chans : CarriedOn(dma, f, b) => CarriedOn(dma', f, b)
        /\ \A b : NotCarried(dma, b) => NotCarried(dma', b)
    BY <1>1, <1>2, PoppedOrderly
  <1>4. OneCarries(dma)' /\ NoneBehind(dma)' /\ dma' \in Channels
    BY <1>3 DEF Orderly
  <1>5. StateTypeOK'
    BY <1>1, <1>2, <1>4 DEF StateTypeOK, Channels, Chans
  <1>6. EntriesOK'
    <2> SUFFICES ASSUME NEW f \in Chans, NEW k \in 1..Len(dma'[f]), NEW t, t = dma'[f][k]
                 PROVE  EntryOK(f, t)'
      BY DEF EntriesOK
    <2>1. PICK j \in 1..Len(dma[f]) : dma'[f][k] = dma[f][j]
      BY <1>3 DEF Within
    <2>2. EntryOK(f, t)
      BY <1>1, <2>1 DEF EntriesOK
    <2> QED
      BY <1>2, <2>2 DEF EntryOK
  <1>7. PrpsAccounted'
    <2>1. Cardinality(Lists(dma')) = Cardinality(Lists(dma)) - 0 /\ Cardinality(Lists(dma)) \in Nat
      BY <1>1, <1>2, ListsPopped, ListsFinite
    <2>2. prps + Cardinality(Lists(dma)) = PrpSlab
      BY <1>1 DEF PrpsAccounted, Lists
    <2>3. prps' + Cardinality(Lists(dma')) = PrpSlab
      BY <1>2, <2>1, <2>2
    <2> QED
      BY <2>3 DEF PrpsAccounted, Lists
  <1>8. ThreadOK'
    <2>1. NotCarried(dma, thread.block) => NotCarried(dma', thread.block)
      BY <1>3
    <2>2. Working' <=> Working
      BY <1>2 DEF Working
    <2> QED
      BY <1>1, <1>2, <2>1, <2>2 DEF ThreadOK, NotCarried
  <1>9. BlocksOK'
    <2> SUFFICES ASSUME NEW b \in Block
                 PROVE  BlockOK(b)'
      BY DEF BlocksOK
    <2>1. BlockOK(b) /\ \A f \in Chans : CarriedOn(dma, f, b) => CarriedOn(dma', f, b)
      BY <1>1, <1>3 DEF BlocksOK
    <2>2. Working' <=> Working
      BY <1>2 DEF Working
    <2>3. stage'[b] = "run" => (\E f \in Chans : CarriedOn(dma', f, b)) \/ (Working' /\ thread'.block = b)
      BY <1>2, <2>1, <2>2 DEF BlockOK
    <2>4. stage'[b] = "posted" => CarriedOn(dma', "tx", b)
      BY <1>2, <2>1 DEF BlockOK, Chans
    <2> QED
      BY <1>2, <2>1, <2>3, <2>4 DEF BlockOK, CarriedOn
  <1>10. RepliesOK' /\ Placed'
    BY <1>1, <1>2 DEF RepliesOK, Placed
  <1>11. Account(Holders', data', pool', leaked')
    <2>1. Holders' = Holders
      BY <1>2 DEF Holders
    <2> QED
      BY <1>1, <1>2, <2>1, AccountIs
  <1> QED
    BY <1>4, <1>5, <1>6, <1>7, <1>8, <1>9, <1>10, <1>11, Assemble

\* The handler of the last chunk of a transfer: what is left of its block was left
\* by an earlier command.
LEMMA LastFacts ==
  ASSUME IInv, NEW c \in Chans, Done(c, "chunk"), Head(dma[c]).last
  PROVE  \E b \in Block, d \in Channels :
           /\ b = First(c) /\ d = Pop(c) /\ Taken(d, b)
           /\ stage[b] = "run" /\ cmd[b] \in Cmd /\ xfer[b].cb \in {"return", "vendor", "rpmsg"}
           /\ xfer[b].cb = "return" => data[b] = Null
           /\ thread.block = b => ~Working /\ xfer[b].cb = "rpmsg"
           /\ prps + Cardinality(Lists(d)) = PrpSlab
           /\ \A f \in Chans : \A k \in 1..Len(d[f]) :
                d[f][k].block = b /\ d[f][k].kind = "chunk" /\ d[f][k].buf \in Buffer =>
                  d[f][k].buf \in leaked
  <1> DEFINE h == Head(dma[c])
             b == First(c)
             d == Pop(c)
  <1>1. dma[c] # <<>> /\ h.kind = "chunk" /\ h.last /\ b = h.block
    BY DEF Done, First
  <1>2. EntriesOK /\ BlocksOK /\ ThreadOK /\ dma \in Channels /\ xfer \in [Block -> Xfers] /\ prps \in Nat
    BY Types DEF IInv
  <1>3. /\ Taken(d, b) /\ b \in Block /\ EntryOK(c, h)
        /\ prps + Cardinality(Lists(d)) = PrpSlab - (IF c = "rx" /\ h.kind = "list" THEN 1 ELSE 0)
        /\ \A k \in 1..Len(d[c]) : d[c][k].kind = "chunk" => d[c][k].block # b
    BY <1>1, PopTaken
  <1>4. prps + Cardinality(Lists(d)) = PrpSlab
    BY <1>1, <1>3, ResourceAssumption
  <1>5. stage[b] = "run" /\ xfer[b].cb # "none" /\ xfer[b].dir = c
    BY <1>1, <1>3 DEF EntryOK
  <1>6. BlockOK(b)
    BY <1>2, <1>3 DEF BlocksOK
  <1>7. cmd[b] \in Cmd /\ (xfer[b].cb = "return" => data[b] = Null)
    BY <1>5, <1>6 DEF BlockOK
  <1>8. xfer[b].cb \in {"return", "vendor", "rpmsg"}
    BY <1>2, <1>3, <1>5 DEF Xfers
  <1>9. ASSUME thread.block = b
        PROVE  ~Working /\ xfer[b].cb = "rpmsg"
    <2>1. thread.pc \in {"count", "test", "count2"}
      <3>1. thread.pc \in {"idle", "free", "count", "test", "count2"}
        BY DEF IInv, StateTypeOK
      <3>2. thread.pc # "idle"
        BY <1>2, <1>3, <1>9, CmdAssumption DEF ThreadOK
      <3>3. thread.pc # "free"
        BY <1>2, <1>5, <1>9 DEF ThreadOK
      <3> QED
        BY <3>1, <3>2, <3>3
    <2>2. xfer[b].cb = "rpmsg"
      BY <1>2, <1>9, <2>1 DEF ThreadOK
    <2>3. ~NotCarried(dma, b)
      <3>1. Len(dma[c]) \in Nat \ {0} /\ h = dma[c][1]
        BY <1>1, <1>2, PoppedFacts
      <3>2. 1 \in 1..Len(dma[c])
        BY <3>1
      <3> QED
        BY <1>1, <3>1, <3>2 DEF NotCarried, Carries
    <2> QED
      BY <1>2, <1>9, <2>2, <2>3 DEF ThreadOK
  <1>10. ASSUME NEW f \in Chans, NEW k \in 1..Len(d[f]), NEW t, t = d[f][k],
                t.block = b, t.kind = "chunk", t.buf \in Buffer
         PROVE  t.buf \in leaked
    <2>1. PICK j \in 1..Len(dma[f]) : d[f][k] = dma[f][j]
      BY <1>3 DEF Taken, Within
    <2>2. EntryOK(f, t)
      BY <1>2, <1>10, <2>1 DEF EntriesOK
    <2>3. f # c
      BY <1>3, <1>10
    <2> QED
      BY <1>5, <1>10, <2>2, <2>3 DEF EntryOK
  <1>11. d \in Channels
    BY <1>3 DEF Taken, Orderly
  <1> HIDE DEF b, d, h
  <1> QED
    BY <1>3, <1>4, <1>5, <1>7, <1>8, <1>9, <1>10, <1>11 DEF b, d

\* DataDone keeps the invariant.
LEMMA DataDoneInv == ASSUME NEW c \in Chans PROVE IInv /\ DataDone(c) => IInv'
  <1> SUFFICES ASSUME IInv, DataDone(c)
               PROVE  IInv'
    OBVIOUS
  <1>1. PICK b \in Block, d \in Channels :
           /\ b = First(c) /\ d = Pop(c) /\ Taken(d, b)
           /\ stage[b] = "run" /\ cmd[b] \in Cmd /\ xfer[b].cb \in {"return", "vendor", "rpmsg"}
           /\ xfer[b].cb = "return" => data[b] = Null
           /\ thread.block = b => ~Working /\ xfer[b].cb = "rpmsg"
           /\ prps + Cardinality(Lists(d)) = PrpSlab
           /\ \A f \in Chans : \A k \in 1..Len(d[f]) :
                d[f][k].block = b /\ d[f][k].kind = "chunk" /\ d[f][k].buf \in Buffer =>
                  d[f][k].buf \in leaked
    BY LastFacts DEF DataDone
  <1>2. UNCHANGED <<outstanding, sq, cmd, xfer, prps, replies, thread, starved>> /\ data' = data
    BY DEF DataDone
  <1>3. /\ StateTypeOK /\ ThreadOK /\ data \in Owners /\ pool \subseteq Buffer /\ prps \in Nat
        /\ xfer \in [Block -> Xfers] /\ lost \subseteq Cmd /\ leaked \subseteq Buffer
        /\ starved \subseteq Cmd /\ Holders \subseteq Block /\ Account(Holders, data, pool, leaked)
    BY Types, AccountIs DEF IInv
  <1>4. \/ xfer[b].cb = "vendor" /\ Send(b, d) /\ UNCHANGED pool
        \/ /\ xfer[b].cb # "vendor" /\ Return(b, d) /\ UNCHANGED <<lost, leaked>>
           /\ pool' = IF xfer[b].cb = "rpmsg" THEN pool \cup Held(b) ELSE pool
    BY <1>1 DEF DataDone
  <1>5. CASE xfer[b].cb = "vendor" /\ Send(b, d) /\ UNCHANGED pool
    <2>1. /\ dma' = d
          /\ \/ At(b, "apu") /\ UNCHANGED <<lost, leaked>>
             \/ /\ At(b, "stuck") /\ lost' = lost \cup {cmd[b]}
                /\ leaked' = leaked \cup ({data'[b]} \cap Buffer)
      BY <1>5 DEF Send, Held
    <2>2. /\ data' \in Owners /\ (\A o \in Block \ {b} : data'[o] = data[o]) /\ pool' \subseteq Buffer
          /\ Account(Holders, data', pool', leaked) /\ thread.block # b
      BY <1>1, <1>2, <1>3, <1>5
    <2> QED
      BY <1>1, <1>2, <2>1, <2>2, SendStep
  <1>6. CASE /\ xfer[b].cb # "vendor" /\ Return(b, d) /\ UNCHANGED <<lost, leaked>>
             /\ pool' = IF xfer[b].cb = "rpmsg" THEN pool \cup Held(b) ELSE pool
    <2>1. PICK New : Grown(dma', d, b, New) /\ \A p \in New : p[2].block = b /\ EntryOK(p[1], p[2])'
      BY <1>1, <1>2, <1>3, <1>6, ReturnStep
    <2>2. /\ Cardinality(Lists(dma')) = Cardinality(Lists(d))
          /\ BlockOK(b)' /\ stage' \in [Block -> Stages] /\ stage'[b] = "posted"
          /\ \A o \in Block \ {b} : stage'[o] = stage[o]
      BY <1>1, <1>2, <1>3, <1>6, ReturnStep
    <2>3. SameOthers(b)
      BY <1>2, <1>6, <2>2 DEF SameOthers
    <2>4. \A o \in Block : Freeing(o)' <=> Freeing(o)
      BY <1>2 DEF Freeing
    <2>5. b \in Holders /\ Holders' = Holders \ {b}
      BY <1>1, <1>3, <2>2, <2>3, <2>4, HoldersNext DEF Busy
    <2>6. Account(Holders', data', pool', leaked')
      <3>1. CASE xfer[b].cb = "rpmsg"
        <4>1. pool' = pool \cup ({data[b]} \cap Buffer) /\ data' = data /\ leaked' = leaked
          BY <1>2, <1>6, <3>1 DEF Held
        <4> QED
          BY <1>3, <2>5, <4>1, AccountFree
      <3>2. CASE xfer[b].cb = "return"
        <4>1. pool' = pool /\ data' = data /\ leaked' = leaked /\ data[b] = Null
          BY <1>1, <1>2, <1>6, <3>2
        <4> QED
          BY <1>3, <2>5, <4>1, AccountDrop
      <3> QED
        BY <1>1, <1>6, <3>1, <3>2
    <2>7. pool' \subseteq Buffer
      BY <1>3, <1>6 DEF Held
    <2>8. /\ leaked \subseteq leaked' /\ lost \subseteq lost' /\ stage'[b] # "free"
          /\ thread' = thread /\ thread'.block \in {thread.block, NoBlock, b}
          /\ UNCHANGED <<cmd, outstanding, sq>> /\ replies' = replies
          /\ \A o \in Block \ {b} : (\E k \in 1..Len(replies) : replies[k].block = o)
                                      => \E k \in 1..Len(replies') : replies'[k].block = o
      BY <1>2, <1>6, <2>2
    <2>9. \A f \in Chans : \A n \in 1..Len(d[f]) :
            d[f][n].block = b /\ d[f][n].kind = "chunk" /\ d[f][n].buf \in Buffer =>
              d[f][n].buf \in leaked'
      BY <1>1, <1>6
    <2>10. OneCarries(dma)' /\ NoneBehind(dma)' /\ EntriesOK' /\ BlocksOK' /\ Placed'
      BY <1>1, <2>1, <2>2, <2>3, <2>8, <2>9, BlockStep
    <2>11. RepliesOK'
      BY <1>1, <2>3, <2>8, RepliesKept
    <2>12. ThreadOK'
      <3>1. CASE thread.block # b
        BY <1>1, <2>1, <2>3, <2>8, <3>1, ThreadKept
      <3>2. CASE thread.block = b
        <4>1. ~Working /\ xfer' = xfer /\ thread' = thread /\ data' = data
          BY <1>1, <1>2, <3>2
        <4>2. ~Working'
          BY <4>1 DEF Working
        <4>3. thread.pc # "free"
          BY <1>1, <1>3, <3>2 DEF ThreadOK
        <4> QED
          BY <1>3, <2>2, <3>2, <4>1, <4>2, <4>3 DEF ThreadOK
      <3> QED
        BY <3>1, <3>2
    <2>13. StateTypeOK' /\ PrpsAccounted'
      <3>1. /\ outstanding' \subseteq Cmd /\ sq' \in Seq(Cmd) /\ cmd' \in [Block -> Cmd \cup {NoCmd}]
            /\ xfer' \in [Block -> Xfers] /\ data' \in Owners /\ replies' \in Seq(Answers)
            /\ thread' \in [pc : {"idle", "free", "count", "test", "count2"}, block : Block \cup {NoBlock}]
            /\ lost' \subseteq Cmd /\ starved' \subseteq Cmd /\ leaked' \subseteq Buffer
        BY <1>2, <1>3, <1>6, Types DEF StateTypeOK
      <3>2. dma' \in Channels /\ prps' \in Nat /\ prps' + Cardinality(Lists(dma')) = PrpSlab
        BY <1>1, <1>2, <1>3, <2>1, <2>2 DEF Grown, Orderly
      <3> QED
        BY <2>2, <2>7, <3>1, <3>2, TypeNext
    <2> QED
      BY <2>6, <2>10, <2>11, <2>12, <2>13, Assemble
  <1> QED
    BY <1>4, <1>5, <1>6

\* The chunks of a list.
ListChunks(b, x) == [n \in 1..x.len |-> Chunk(b, x, n = x.len)]
PutList(d, f, b, x) == [d EXCEPT ![f] = @ \o ListChunks(b, x)]

\* The two chunks of a list, one behind the other.
LEMMA PutTwo ==
  ASSUME NEW d \in Channels, NEW f \in Chans, NEW b, NEW x, x.len = 2
  PROVE  PutList(d, f, b, x) =
           Put(Put(d, f, OtherChunk(b, x)), f, LastChunk(b, x))
  <1> DEFINE s == d[f]
             p == OtherChunk(b, x)
             q == LastChunk(b, x)
             w == [n \in 1..x.len |-> Chunk(b, x, n = x.len)]
  <1>1. w = <<p, q>>
    <2>1. w[1] = p /\ w[2] = q
      <3>1. 1 \in 1..x.len /\ 2 \in 1..x.len /\ 1 # x.len /\ 2 = x.len
        OBVIOUS
      <3>2. w[1] = Chunk(b, x, 1 = x.len) /\ w[2] = Chunk(b, x, 2 = x.len)
        BY <3>1, Zenon
      <3>3. Chunk(b, x, 1 = x.len) = p
        BY <3>1 DEF Chunk, OtherChunk
      <3>4. Chunk(b, x, 2 = x.len) = q
        BY <3>1 DEF Chunk, LastChunk
      <3> QED
        BY <3>2, <3>3, <3>4, Zenon
    <2>2. w = [n \in 1..x.len |-> w[n]]
      BY Zenon
    <2> HIDE DEF w, p, q
    <2>3. \A n \in 1..2 : w[n] = <<p, q>>[n]
      BY <2>1
    <2> QED
      BY <2>2, <2>3
  <1>2. s \in Seq(Transfers)
    BY DEF Channels
  <1> HIDE DEF p, q, w, s
  <1>3. s \o <<p, q>> = Append(Append(s, p), q)
    BY <1>2
  <1>4. Put(d, f, p) = [d EXCEPT ![f] = Append(s, p)]
    BY DEF Put, s
  <1>5. /\ d \in [Chans -> Seq(Transfers)]
    BY DEF Channels
  <1>6. Put(Put(d, f, p), f, q) = [d EXCEPT ![f] = Append(Append(s, p), q)]
    BY <1>4, <1>5 DEF Put
  <1>7. [d EXCEPT ![f] = @ \o w] = [d EXCEPT ![f] = Append(Append(s, p), q)]
    BY <1>1, <1>3, <1>5 DEF s
  <1>8. ListChunks(b, x) = w
    BY Zenon DEF ListChunks, w
  <1> QED
    BY <1>6, <1>7, <1>8 DEF p, q, PutList

\* ListDone keeps the invariant.
LEMMA ListDoneInv == ASSUME NEW c \in Chans PROVE IInv /\ ListDone(c) => IInv'
  <1> SUFFICES ASSUME IInv, ListDone(c)
               PROVE  IInv'
    OBVIOUS
  <1> DEFINE h == Head(dma[c])
  <1>1. dma[c] # <<>> /\ h.kind = "list" /\ First(c) = h.block
    BY Zenon DEF ListDone, Done, First
  <1>2. /\ EntriesOK /\ BlocksOK /\ StateTypeOK /\ ThreadOK /\ dma \in Channels /\ xfer \in [Block -> Xfers]
        /\ prps \in Nat /\ stage \in [Block -> Stages] /\ data \in Owners /\ pool \subseteq Buffer
        /\ leaked \subseteq Buffer /\ lost \subseteq Cmd /\ starved \subseteq Cmd
        /\ Account(Holders, data, pool, leaked)
    BY Types, AccountIs DEF IInv
  <1>3. EntryOK(c, h)
    <2>1. Len(dma[c]) \in Nat \ {0} /\ h = dma[c][1]
      BY <1>1, <1>2, PoppedFacts
    <2>2. 1 \in 1..Len(dma[c])
      BY <2>1
    <2> QED
      BY <1>2, <2>1, <2>2 DEF EntriesOK
  <1>4. h.last /\ c = "rx"
    BY <1>1, <1>3 DEF EntryOK
  <1>5. PICK b \in Block, d \in Channels :
          /\ b = First(c) /\ d = Pop(c) /\ Taken(d, b)
          /\ prps + Cardinality(Lists(d)) = PrpSlab - 1
    <2>1. /\ Taken(Pop(c), First(c)) /\ First(c) \in Block
          /\ prps + Cardinality(Lists(Pop(c))) = PrpSlab - (IF c = "rx" /\ h.kind = "list" THEN 1 ELSE 0)
      BY <1>1, <1>4, PopTaken
    <2>2. Pop(c) \in Channels
      BY <2>1 DEF Taken, Orderly
    <2> QED
      BY <1>1, <1>4, <2>1, <2>2
  <1>6. /\ stage[b] = "run" /\ thread.block # b /\ xfer[b].len = 2 /\ xfer[b].cb # "none"
        /\ xfer[b].buf \in {Null, Disk, data[b]}
    BY <1>1, <1>3, <1>5 DEF EntryOK
  <1>7. BlockOK(b)
    BY <1>2 DEF BlocksOK
  <1>8. cmd[b] \in Cmd /\ (xfer[b].cb = "return" => data[b] = Null)
    BY <1>6, <1>7 DEF BlockOK
  <1>9. PICK x \in Xfers : x = xfer[b]
    BY <1>2
  <1>10. PICK y \in Xfers : /\ y = [x EXCEPT !.len = 0] /\ y.buf = x.buf /\ y.cb = x.cb /\ y.dir = x.dir
    <2> DEFINE y == [x EXCEPT !.len = 0]
    <2>1. y \in Xfers
      BY DEF Xfers, Wrap
    <2>2. y.buf = x.buf /\ y.cb = x.cb /\ y.dir = x.dir
      BY DEF Xfers
    <2> QED
      BY <2>1, <2>2
  <1>11. /\ dma' = PutList(d, x.dir, b, x)
         /\ xfer' = [xfer EXCEPT ![b].len = 0] /\ prps' = prps + 1
         /\ UNCHANGED <<outstanding, sq, cmd, stage, data, pool, replies, thread, lost, starved, leaked>>
    BY <1>5, <1>9, Zenon DEF ListDone, history, ListChunks, PutList
  <1>12. xfer' = [xfer EXCEPT ![b] = y]
    BY <1>2, <1>9, <1>10, <1>11
  <1>13. /\ xfer' \in [Block -> Xfers] /\ xfer'[b] = y /\ \A o \in Block \ {b} : xfer'[o] = xfer[o]
    BY <1>2, <1>12
  <1>14. x.dir \in Chans /\ x.len = 2
    BY <1>6, <1>9 DEF Xfers, Chans
  <1>15. PICK p \in Transfers :
           /\ p = OtherChunk(b, x) /\ ~p.last
           /\ p.kind = "chunk" /\ p.block = b /\ p.cmd = cmd[b] /\ p.buf = x.buf
    BY <1>8, ChunkIs
  <1>16. PICK q \in Transfers :
           /\ q = LastChunk(b, x) /\ q.last
           /\ q.kind = "chunk" /\ q.block = b /\ q.cmd = cmd[b] /\ q.buf = x.buf
    BY <1>8, ChunkIs
  <1>17. dma' = Put(Put(d, x.dir, p), x.dir, q)
    <2>1. PutList(d, x.dir, b, x) =
            Put(Put(d, x.dir, OtherChunk(b, x)), x.dir, LastChunk(b, x))
      BY <1>14, PutTwo
    <2> QED
      BY <1>11, <1>15, <1>16, <2>1, Zenon
  <1> DEFINE e == Put(d, x.dir, p)
  <1>18. Grown(d, d, b, {}) /\ NotCarried(d, b)
    BY <1>5, GrownSelf DEF Taken
  <1>19. Grown(e, d, b, {} \cup {<<x.dir, p>>}) /\ NotCarried(e, b)
    BY <1>14, <1>15, <1>18, GrownPut
  <1> HIDE DEF e, h
  <1>20. dma' = Put(e, x.dir, q)
    BY <1>17 DEF e
  <1>21. /\ Grown(dma', d, b, {} \cup {<<x.dir, p>>} \cup {<<x.dir, q>>})
         /\ CarriedOn(dma', x.dir, b)
    BY <1>14, <1>16, <1>19, <1>20, GrownPut
  <1>22. /\ stage'[b] = "run" /\ xfer'[b].cb # "none" /\ xfer'[b].dir = x.dir /\ cmd' = cmd
         /\ xfer'[b].cb = xfer[b].cb /\ data' = data
    BY <1>6, <1>9, <1>10, <1>11, <1>13
  <1>23. ASSUME NEW t \in Transfers, t.kind = "chunk", t.block = b, t.cmd = cmd[b], t.buf = x.buf
         PROVE  EntryOK(x.dir, t)'
    <2>1. t.last => /\ t.cmd = cmd'[t.block] /\ stage'[t.block] = "run"
                    /\ xfer'[t.block].cb # "none" /\ xfer'[t.block].dir = x.dir
      BY <1>22, <1>23
    <2>2. t.buf \in Buffer => stage'[t.block] = "run" /\ data'[t.block] = t.buf /\ xfer'[t.block].dir = x.dir
      BY <1>6, <1>9, <1>22, <1>23, ResourceAssumption
    <2> QED
      BY <1>23, <2>1, <2>2, NewChunk
  <1>24. EntryOK(x.dir, p)' /\ EntryOK(x.dir, q)'
    BY <1>15, <1>16, <1>23
  <1>25. \A r \in {} \cup {<<x.dir, p>>} \cup {<<x.dir, q>>} : r[2].block = b /\ EntryOK(r[1], r[2])'
    BY <1>15, <1>16, <1>24
  <1>26. SameOthers(b)
    BY <1>11, <1>13 DEF SameOthers
  <1>27. Account(Holders', data', pool', leaked')
    <2>1. Holders' = Holders
      BY <1>11 DEF Holders
    <2> QED
      BY <1>2, <1>11, <2>1
  <1>28. BlockOK(b)'
    <2>1. \E f \in Chans : CarriedOn(dma', f, b)
      BY <1>14, <1>21
    <2> QED
      BY <1>8, <1>22, <2>1 DEF BlockOK, CarriedOn
  <1>29. prps' \in Nat /\ prps' + Cardinality(Lists(dma')) = PrpSlab
    <2>1. e \in Channels /\ d \in Channels
      BY <1>19 DEF Grown, Orderly
    <2>2. Cardinality(Lists(d)) \in Nat
      BY ListsFinite
    <2>3. Cardinality(Lists(e)) = Cardinality(Lists(d)) + 0
      BY <1>14, <1>15, ListsPut DEF e
    <2>4. Cardinality(Lists(dma')) = Cardinality(Lists(e)) + 0
      BY <1>14, <1>16, <1>20, <2>1, ListsPut
    <2> QED
      BY <1>2, <1>5, <1>11, <2>2, <2>3, <2>4, ResourceAssumption
  <1>30. ASSUME NEW f \in Chans, NEW k \in 1..Len(d[f]), NEW t, t = d[f][k],
                t.block = b, t.kind = "chunk", t.buf \in Buffer
         PROVE  \/ t.buf \in leaked'
                \/ stage'[b] = "run" /\ data'[b] = t.buf /\ xfer'[b].dir = f
    <2>1. PICK j \in 1..Len(dma[f]) : d[f][k] = dma[f][j]
      BY <1>5 DEF Taken, Within
    <2>2. EntryOK(f, t)
      BY <1>2, <1>30, <2>1 DEF EntriesOK
    <2>3. leaked' = leaked
      BY <1>11
    <2> QED
      BY <1>9, <1>22, <1>30, <2>2, <2>3 DEF EntryOK
  <1>31. /\ UNCHANGED <<outstanding, sq, cmd, replies, thread>>
         /\ stage' \in [Block -> Stages] /\ data' \in Owners /\ pool' \subseteq Buffer
         /\ leaked \subseteq leaked' /\ leaked' \subseteq Buffer /\ lost \subseteq lost' /\ lost' \subseteq Cmd
         /\ starved' \subseteq Cmd /\ stage[b] # "replied" /\ stage'[b] # "free"
    BY <1>2, <1>6, <1>11
  <1>32. \A f \in Chans : \A k \in 1..Len(d[f]) :
           d[f][k].block = b /\ d[f][k].kind = "chunk" /\ d[f][k].buf \in Buffer =>
             \/ d[f][k].buf \in leaked'
             \/ stage'[b] = "run" /\ data'[b] = d[f][k].buf /\ xfer'[b].dir = f
    BY <1>30
  <1>33. Taken(d, b) /\ thread.block # b /\ xfer' \in [Block -> Xfers]
    BY <1>5, <1>6, <1>13
  <1> QED
    BY <1>21, <1>25, <1>26, <1>27, <1>28, <1>29, <1>31, <1>32, <1>33, HandlerStep, SMTT(30)

\* CqCb keeps the invariant.
LEMMA CqCbInv == IInv /\ CqCb => IInv'
  <1> SUFFICES ASSUME IInv, CqCb
               PROVE  IInv'
    OBVIOUS
  <1> DEFINE h == Head(dma["tx"])
  <1>1. dma["tx"] # <<>> /\ h.kind = "cq" /\ First("tx") = h.block /\ "tx" \in Chans
    BY DEF CqCb, Done, First, Chans
  <1>2. /\ EntriesOK /\ BlocksOK /\ StateTypeOK /\ ThreadOK /\ Placed /\ dma \in Channels
        /\ xfer \in [Block -> Xfers]
        /\ prps \in Nat /\ stage \in [Block -> Stages] /\ data \in Owners /\ pool \subseteq Buffer
        /\ leaked \subseteq Buffer /\ lost \subseteq Cmd /\ starved \subseteq Cmd
        /\ Account(Holders, data, pool, leaked)
    BY Types, AccountIs DEF IInv
  <1>3. EntryOK("tx", h)
    <2>1. Len(dma["tx"]) \in Nat \ {0} /\ h = dma["tx"][1]
      BY <1>1, <1>2, PoppedFacts
    <2>2. 1 \in 1..Len(dma["tx"])
      BY <2>1
    <2> QED
      BY <1>1, <1>2, <2>1, <2>2 DEF EntriesOK
  <1>4. h.last
    BY <1>1, <1>3 DEF EntryOK
  <1>5. PICK b \in Block, d \in Channels :
          b = First("tx") /\ d = Pop("tx") /\ Taken(d, b) /\ prps + Cardinality(Lists(d)) = PrpSlab
    <2>1. /\ Taken(Pop("tx"), First("tx")) /\ First("tx") \in Block
          /\ prps + Cardinality(Lists(Pop("tx"))) = PrpSlab - (IF "tx" = "rx" /\ h.kind = "list" THEN 1 ELSE 0)
      BY <1>1, <1>4, PopTaken
    <2>2. Pop("tx") \in Channels
      BY <2>1 DEF Taken, Orderly
    <2>3. prps + Cardinality(Lists(Pop("tx"))) = PrpSlab
      BY <2>1, ResourceAssumption
    <2> QED
      BY <2>1, <2>2, <2>3
  <1>6. stage[b] = "posted" /\ h.cmd = cmd[b]
    BY <1>1, <1>3, <1>4, <1>5 DEF EntryOK
  <1>7. /\ dma' = d /\ outstanding' = outstanding \ {cmd[b]} /\ stage' = [stage EXCEPT ![b] = "free"]
        /\ UNCHANGED <<sq, cmd, xfer, data, pool, prps, replies, thread, lost, starved, leaked>>
    BY <1>5, <1>6 DEF CqCb, At, slabs, history
  <1>8. /\ stage' \in [Block -> Stages] /\ stage'[b] = "free" /\ \A o \in Block \ {b} : stage'[o] = stage[o]
    BY <1>2, <1>7 DEF Stages
  <1>9. SameOthers(b)
    BY <1>7, <1>8 DEF SameOthers
  <1>10. Grown(dma', d, b, {}) /\ \A p \in {} : p[2].block = b /\ EntryOK(p[1], p[2])'
    BY <1>5, <1>7, GrownSelf DEF Taken
  <1>11. ASSUME NEW f \in Chans, NEW k \in 1..Len(d[f]), NEW t, t = d[f][k],
                t.block = b, t.kind = "chunk", t.buf \in Buffer
         PROVE  t.buf \in leaked'
    <2>1. PICK j \in 1..Len(dma[f]) : d[f][k] = dma[f][j]
      BY <1>5 DEF Taken, Within
    <2>2. EntryOK(f, t)
      BY <1>2, <1>11, <2>1 DEF EntriesOK
    <2> QED
      BY <1>6, <1>7, <1>11, <2>2 DEF EntryOK
  <1>12. \A f \in Chans : \A k \in 1..Len(d[f]) :
           d[f][k].block = b /\ d[f][k].kind = "chunk" /\ d[f][k].buf \in Buffer =>
             d[f][k].buf \in leaked'
    BY <1>11
  <1>13. BlockOK(b)'
    BY <1>8 DEF BlockOK
  <1>14. /\ leaked \subseteq leaked' /\ lost \subseteq lost' /\ thread' = thread /\ replies' = replies
         /\ thread'.block \in {thread.block, NoBlock, b}
         /\ \A o \in Block \ {b} : (\E k \in 1..Len(replies) : replies[k].block = o)
                                     => \E k \in 1..Len(replies') : replies'[k].block = o
    BY <1>7
  <1>15. OneCarries(dma)' /\ NoneBehind(dma)' /\ EntriesOK' /\ BlocksOK'
    BY <1>5, <1>9, <1>10, <1>12, <1>13, <1>14, EntriesStep
  <1>16. Placed'
    BY <1>2, <1>7, <1>8 DEF Placed
  <1>17. RepliesOK'
    BY <1>6, <1>9, <1>14, RepliesKept
  <1>18. ThreadOK'
    <2>1. CASE thread.block # b
      BY <1>5, <1>9, <1>10, <1>14, <2>1, ThreadKept
    <2>2. CASE thread.block = b
      <3>1. ~Working /\ xfer' = xfer /\ thread' = thread /\ data' = data
        BY <1>2, <1>6, <1>7, <2>2 DEF ThreadOK
      <3>2. ~Working'
        BY <3>1 DEF Working
      <3> QED
        BY <1>2, <1>8, <2>2, <3>1, <3>2 DEF ThreadOK
    <2> QED
      BY <2>1, <2>2
  <1>19. Account(Holders', data', pool', leaked')
    <2>1. \A o \in Block : Freeing(o)' <=> Freeing(o)
      BY <1>14 DEF Freeing
    <2>2. Holders' = Holders
      BY <1>2, <1>6, <1>8, <1>9, <2>1, HoldersNext DEF Busy
    <2> QED
      BY <1>2, <1>7, <2>2
  <1>20. StateTypeOK' /\ PrpsAccounted'
    <2>1. /\ outstanding' \subseteq Cmd /\ sq' \in Seq(Cmd) /\ cmd' \in [Block -> Cmd \cup {NoCmd}]
          /\ xfer' \in [Block -> Xfers] /\ data' \in Owners /\ replies' \in Seq(Answers)
          /\ thread' \in [pc : {"idle", "free", "count", "test", "count2"}, block : Block \cup {NoBlock}]
          /\ lost' \subseteq Cmd /\ starved' \subseteq Cmd /\ leaked' \subseteq Buffer
      BY <1>2, <1>7, Types DEF StateTypeOK
    <2>2. dma' \in Channels /\ prps' \in Nat /\ prps' + Cardinality(Lists(dma')) = PrpSlab /\ pool' \subseteq Buffer
      BY <1>2, <1>5, <1>7
    <2> QED
      BY <1>8, <2>1, <2>2, TypeNext
  <1> QED
    BY <1>15, <1>16, <1>17, <1>18, <1>19, <1>20, Assemble

\* A step of the APU or of the main thread that goes on with the command of b.
LEMMA ThreadStep ==
  ASSUME IInv, NEW b \in Block, Taken(dma, b), NEW New, Grown(dma', dma, b, New),
         \A p \in New : p[2].block = b /\ EntryOK(p[1], p[2])',
         \A c \in Chans : \A k \in 1..Len(dma[c]) :
           dma[c][k].block = b /\ dma[c][k].kind = "chunk" /\ dma[c][k].buf \in Buffer =>
             \/ dma[c][k].buf \in leaked'
             \/ stage'[b] = "run" /\ data'[b] = dma[c][k].buf /\ xfer'[b].dir = c,
         UNCHANGED <<outstanding, sq, cmd, data, pool, lost>>, SameOthers(b),
         stage' \in [Block -> Stages], xfer' \in [Block -> Xfers],
         prps' \in Nat, prps' + Cardinality(Lists(dma')) = PrpSlab,
         leaked \subseteq leaked', leaked' \subseteq Buffer, starved' \subseteq Cmd,
         replies' \in Seq(Answers),
         \A o \in Block \ {b} : (\E k \in 1..Len(replies) : replies[k].block = o)
                                  => \E k \in 1..Len(replies') : replies'[k].block = o,
         thread' \in [pc : {"idle", "free", "count", "test", "count2"}, block : Block \cup {NoBlock}],
         thread'.block \in {thread.block, NoBlock, b},
         thread' = thread \/ thread.block \in {b, NoBlock},
         stage'[b] # "free", BlockOK(b)', RepliesOK', ThreadOK',
         Account(Holders', data', pool', leaked')
  PROVE  IInv'
  <1>1. StateTypeOK
    BY DEF IInv
  <1>2. dma' \in Channels
    BY DEF Grown, Orderly
  <1>3. StateTypeOK' /\ PrpsAccounted'
    <2>1. /\ outstanding' \subseteq Cmd /\ sq' \in Seq(Cmd) /\ cmd' \in [Block -> Cmd \cup {NoCmd}]
          /\ data' \in Owners /\ pool' \subseteq Buffer /\ lost' \subseteq Cmd
      BY <1>1, Types DEF StateTypeOK
    <2> QED
      BY <1>2, <2>1, TypeNext
  <1>4. lost \subseteq lost' /\ UNCHANGED <<cmd, outstanding, sq>>
    OBVIOUS
  <1>5. OneCarries(dma)' /\ NoneBehind(dma)' /\ EntriesOK' /\ BlocksOK' /\ Placed'
    BY <1>4, BlockStep
  <1> QED
    BY <1>3, <1>5, Assemble

\* What is queued of a block whose command is not under way was left by an earlier
\* command.
LEMMA StaleLeaked ==
  ASSUME IInv, NEW b \in Block, stage[b] # "run", leaked \subseteq leaked'
  PROVE  \A c \in Chans : \A k \in 1..Len(dma[c]) :
           dma[c][k].block = b /\ dma[c][k].kind = "chunk" /\ dma[c][k].buf \in Buffer =>
             dma[c][k].buf \in leaked'
  <1> SUFFICES ASSUME NEW c \in Chans, NEW k \in 1..Len(dma[c]), NEW t, t = dma[c][k],
                      t.block = b, t.kind = "chunk", t.buf \in Buffer
               PROVE  t.buf \in leaked'
    OBVIOUS
  <1>1. EntryOK(c, t)
    BY DEF IInv, EntriesOK
  <1> QED
    BY <1>1 DEF EntryOK

\* ApuReply keeps the invariant.
LEMMA ApuReplyInv == ASSUME NEW b \in Block PROVE IInv /\ ApuReply(b) => IInv'
  <1> SUFFICES ASSUME IInv, ApuReply(b)
               PROVE  IInv'
    OBVIOUS
  <1>1. /\ EntriesOK /\ BlocksOK /\ StateTypeOK /\ ThreadOK /\ RepliesOK /\ dma \in Channels
        /\ xfer \in [Block -> Xfers] /\ replies \in Seq(Answers)
        /\ prps \in Nat /\ stage \in [Block -> Stages] /\ data \in Owners
        /\ leaked \subseteq Buffer /\ starved \subseteq Cmd
        /\ Account(Holders, data, pool, leaked) /\ prps + Cardinality(Lists(dma)) = PrpSlab
        /\ thread \in [pc : {"idle", "free", "count", "test", "count2"}, block : Block \cup {NoBlock}]
    BY Types, AccountIs DEF IInv, PrpsAccounted, Lists, StateTypeOK
  <1>2. /\ stage[b] = "apu" /\ stage' = [stage EXCEPT ![b] = "replied"]
        /\ UNCHANGED <<outstanding, sq, cmd, xfer, data, pool, prps, dma, thread, lost, starved, leaked>>
    BY DEF ApuReply, At, slabs, history
  <1>3. cmd[b] \in Cmd
    BY <1>1, <1>2 DEF BlocksOK, BlockOK
  <1>4. PICK m \in Answers : replies' = Append(replies, m) /\ m.block = b /\ m.buf = data[b]
    <2>1. PICK id \in {"return", "return_data"} :
            replies' = Append(replies, [id |-> id, block |-> b, buf |-> data[b], len |-> Pages[cmd[b]]])
      BY DEF ApuReply
    <2> DEFINE r == [id |-> id, block |-> b, buf |-> data[b], len |-> Pages[cmd[b]]]
    <2>2. r \in Answers
      BY <1>1, <1>3, CmdAssumption DEF Answers, Owners
    <2>3. r.block = b /\ r.buf = data[b]
      OBVIOUS
    <2> QED
      BY <2>1, <2>2, <2>3
  <1>5. /\ replies' \in Seq(Answers) /\ Len(replies') = Len(replies) + 1 /\ Len(replies) \in Nat
        /\ replies'[Len(replies) + 1] = m
        /\ \A k \in 1..Len(replies) : replies'[k] = replies[k]
    BY <1>1, <1>4
  <1>6. /\ stage' \in [Block -> Stages] /\ stage'[b] = "replied"
        /\ \A o \in Block \ {b} : stage'[o] = stage[o]
    BY <1>1, <1>2 DEF Stages
  <1>7. SameOthers(b)
    BY <1>2, <1>6 DEF SameOthers
  <1>8. thread.block # b
    <2>1. thread.pc = "idle" => thread.block = NoBlock
      BY <1>1 DEF ThreadOK
    <2>2. thread.pc # "idle" => stage[thread.block] # "apu"
      BY <1>1 DEF ThreadOK
    <2> QED
      BY <1>2, <2>1, <2>2, CmdAssumption
  <1>9. Taken(dma, b) /\ Grown(dma', dma, b, {})
    <2>1. Taken(dma, b)
      BY <1>2, NotCarriedTaken
    <2>2. Grown(dma, dma, b, {})
      BY <2>1, GrownSelf DEF Taken
    <2> QED
      BY <1>2, <2>1, <2>2
  <1>10. \A p \in {} : p[2].block = b /\ EntryOK(p[1], p[2])'
    OBVIOUS
  <1>11. \A c \in Chans : \A k \in 1..Len(dma[c]) :
           dma[c][k].block = b /\ dma[c][k].kind = "chunk" /\ dma[c][k].buf \in Buffer =>
             dma[c][k].buf \in leaked'
    <2>1. leaked \subseteq leaked' /\ stage[b] # "run"
      BY <1>2
    <2> QED
      BY <2>1, StaleLeaked
  <1>12. ThreadOK'
    BY <1>2, <1>7, <1>8, <1>9, ThreadKept
  <1>13. \A k \in 1..Len(replies) : replies[k].block \in Block \ {b}
    <2> SUFFICES ASSUME NEW k \in 1..Len(replies)
                 PROVE  replies[k].block \in Block \ {b}
      OBVIOUS
    <2>1. replies[k] \in Answers /\ stage[replies[k].block] = "replied"
      BY <1>1 DEF RepliesOK
    <2> QED
      BY <1>2, <2>1 DEF Answers
  <1>14. RepliesOK'
    <2>1. \A k \in 1..Len(replies') :
            \/ k \in 1..Len(replies) /\ replies'[k] = replies[k]
            \/ k = Len(replies) + 1 /\ replies'[k] = m
      BY <1>5
    <2>2. ASSUME NEW k \in 1..Len(replies')
          PROVE  stage'[replies'[k].block] = "replied" /\ replies'[k].buf = data'[replies'[k].block]
      <3>1. CASE k \in 1..Len(replies) /\ replies'[k] = replies[k]
        BY <1>1, <1>2, <1>6, <1>13, <3>1 DEF RepliesOK
      <3>2. CASE replies'[k] = m
        BY <1>2, <1>4, <1>6, <3>2
      <3> QED
        BY <2>1, <3>1, <3>2
    <2>3. \A j, k \in 1..Len(replies') : replies'[j].block = replies'[k].block => j = k
      BY <1>1, <1>4, <1>13, <2>1 DEF RepliesOK
    <2> QED
      BY <2>2, <2>3 DEF RepliesOK
  <1>15. BlockOK(b)'
    <2>1. Len(replies) + 1 \in 1..Len(replies') /\ replies'[Len(replies) + 1].block = b
      BY <1>4, <1>5
    <2>2. \E k \in 1..Len(replies') : replies'[k].block = b
      BY <2>1
    <2> QED
      BY <1>2, <1>3, <1>6, <2>2 DEF BlockOK
  <1>16. Account(Holders', data', pool', leaked')
    <2>1. \A o \in Block : Freeing(o)' <=> Freeing(o)
      BY <1>2 DEF Freeing
    <2>2. Holders' = Holders
      BY <1>1, <1>2, <1>6, <1>7, <2>1, HoldersNext DEF Busy
    <2> QED
      BY <1>1, <1>2, <2>2
  <1>17. /\ UNCHANGED <<outstanding, sq, cmd, data, pool, lost>> /\ xfer' \in [Block -> Xfers]
         /\ prps' \in Nat /\ prps' + Cardinality(Lists(dma')) = PrpSlab
         /\ leaked \subseteq leaked' /\ leaked' \subseteq Buffer /\ starved' \subseteq Cmd
         /\ thread' \in [pc : {"idle", "free", "count", "test", "count2"}, block : Block \cup {NoBlock}]
         /\ thread'.block \in {thread.block, NoBlock, b} /\ thread' = thread /\ stage'[b] # "free"
    BY <1>1, <1>2, <1>6
  <1>18. \A o \in Block \ {b} : (\E k \in 1..Len(replies) : replies[k].block = o)
                                  => \E k \in 1..Len(replies') : replies'[k].block = o
    <2>1. \A k \in 1..Len(replies) : k \in 1..Len(replies') /\ replies'[k] = replies[k]
      BY <1>5
    <2> QED
      BY <2>1
  <1> QED
    BY <1>5, <1>6, <1>7, <1>9, <1>10, <1>11, <1>12, <1>14, <1>15, <1>16, <1>17, <1>18, ThreadStep

\* The main thread receives an answer.
LEMMA ReceiveFacts ==
  ASSUME IInv, NEW id, Receive(id)
  PROVE  \E b \in Block, m \in Answers :
           /\ m = Head(replies) /\ b = m.block /\ m.buf = data[b]
           /\ stage[b] = "replied" /\ cmd[b] \in Cmd /\ Taken(dma, b)
           /\ thread = Idle
           /\ replies' \in Seq(Answers)
           /\ \A o \in Block \ {b} : (\E k \in 1..Len(replies) : replies[k].block = o)
                                       => \E k \in 1..Len(replies') : replies'[k].block = o
           /\ data' = data /\ (\A o \in Block \ {b} : stage'[o] = stage[o]) => RepliesOK'
  <1>1. thread.pc = "idle" /\ replies # <<>> /\ replies' = Tail(replies)
    BY DEF Receive
  <1>2. /\ StateTypeOK /\ RepliesOK /\ ThreadOK /\ BlocksOK /\ replies \in Seq(Answers)
        /\ thread \in [pc : {"idle", "free", "count", "test", "count2"}, block : Block \cup {NoBlock}]
    BY Types DEF IInv, StateTypeOK
  <1>3. thread = Idle
    BY <1>1, <1>2 DEF ThreadOK, Idle
  <1>4. Len(replies) \in Nat \ {0}
    BY <1>1, <1>2, EmptySeq
  <1>5. /\ replies' \in Seq(Answers) /\ Len(replies') = Len(replies) - 1
        /\ Head(replies) = replies[1] /\ Head(replies) \in Answers
        /\ \A k \in 1..Len(replies') : replies'[k] = replies[k + 1]
    BY <1>1, <1>2, <1>4
  <1>6. PICK m \in Answers : m = Head(replies)
    BY <1>5
  <1>7. PICK b \in Block : b = m.block
    BY DEF Answers
  <1>8. 1 \in 1..Len(replies) /\ replies[1].block = b
    BY <1>4, <1>5, <1>6, <1>7
  <1>9. m.buf = data[b] /\ stage[b] = "replied"
    BY <1>2, <1>5, <1>6, <1>7, <1>8 DEF RepliesOK
  <1>10. cmd[b] \in Cmd
    BY <1>2, <1>9 DEF BlocksOK, BlockOK
  <1>11. Taken(dma, b)
    BY <1>9, NotCarriedTaken
  <1>12. ASSUME NEW k \in 1..Len(replies)
         PROVE  k = 1 \/ (k - 1 \in 1..Len(replies') /\ replies'[k - 1] = replies[k])
    <2>1. CASE k # 1
      <3>1. k - 1 \in 1..Len(replies') /\ (k - 1) + 1 = k
        BY <1>4, <1>5, <2>1
      <3> QED
        BY <1>5, <3>1
    <2> QED
      BY <2>1
  <1>13. \A o \in Block \ {b} : (\E k \in 1..Len(replies) : replies[k].block = o)
                                  => \E k \in 1..Len(replies') : replies'[k].block = o
    BY <1>8, <1>12
  <1>14. ASSUME data' = data, \A o \in Block \ {b} : stage'[o] = stage[o]
         PROVE  RepliesOK'
    <2>1. \A k \in 1..Len(replies') : k + 1 \in 1..Len(replies) /\ k + 1 # 1 /\ replies'[k] = replies[k + 1]
      BY <1>4, <1>5
    <2>2. ASSUME NEW k \in 1..Len(replies')
          PROVE  stage'[replies'[k].block] = "replied" /\ replies'[k].buf = data'[replies'[k].block]
      <3>1. replies[k + 1] \in Answers
        BY <1>2, <2>1
      <3>2. replies[k + 1].block \in Block \ {b}
        BY <1>2, <1>8, <2>1, <3>1 DEF RepliesOK, Answers
      <3>3. /\ stage[replies[k + 1].block] = "replied"
            /\ replies[k + 1].buf = data[replies[k + 1].block]
        BY <1>2, <2>1 DEF RepliesOK
      <3> QED
        BY <1>14, <2>1, <3>2, <3>3
    <2>3. \A j, k \in 1..Len(replies') : replies'[j].block = replies'[k].block => j = k
      <3> SUFFICES ASSUME NEW j \in 1..Len(replies'), NEW k \in 1..Len(replies'),
                          replies'[j].block = replies'[k].block
                   PROVE  j = k
        OBVIOUS
      <3>1. j + 1 = k + 1
        BY <1>2, <2>1 DEF RepliesOK
      <3> QED
        BY <1>4, <1>5, <3>1
    <2> QED
      BY <2>2, <2>3 DEF RepliesOK
  <1> QED
    BY <1>3, <1>5, <1>6, <1>7, <1>9, <1>10, <1>11, <1>13, <1>14

\* What the proofs about the main thread take from the invariant.
LEMMA ThreadContext ==
  ASSUME IInv
  PROVE  /\ EntriesOK /\ BlocksOK /\ StateTypeOK /\ ThreadOK /\ RepliesOK /\ Placed /\ dma \in Channels
         /\ xfer \in [Block -> Xfers] /\ replies \in Seq(Answers)
         /\ prps \in Nat /\ stage \in [Block -> Stages] /\ data \in Owners /\ Holders \subseteq Block
         /\ leaked \subseteq Buffer /\ starved \subseteq Cmd /\ pool \subseteq Buffer
         /\ Account(Holders, data, pool, leaked) /\ prps + Cardinality(Lists(dma)) = PrpSlab
         /\ Cardinality(Lists(dma)) \in Nat
         /\ thread \in [pc : {"idle", "free", "count", "test", "count2"}, block : Block \cup {NoBlock}]
  BY Types, AccountIs, ListsFinite DEF IInv, PrpsAccounted, Lists, StateTypeOK

\* ThreadReturn keeps the invariant: now the main thread holds the buffer.
LEMMA ThreadReturnInv == IInv /\ ThreadReturn => IInv'
  <1> SUFFICES ASSUME IInv, ThreadReturn
               PROVE  IInv'
    OBVIOUS
  <1>1. PICK b \in Block, m \in Answers :
          /\ m = Head(replies) /\ b = m.block /\ m.buf = data[b]
          /\ stage[b] = "replied" /\ cmd[b] \in Cmd /\ Taken(dma, b)
          /\ thread = Idle
          /\ replies' \in Seq(Answers)
          /\ \A o \in Block \ {b} : (\E k \in 1..Len(replies) : replies[k].block = o)
                                      => \E k \in 1..Len(replies') : replies'[k].block = o
          /\ data' = data /\ (\A o \in Block \ {b} : stage'[o] = stage[o]) => RepliesOK'
    BY ReceiveFacts DEF ThreadReturn
  <1>2. /\ Return(b, dma) /\ thread' = [pc |-> "free", block |-> b]
        /\ UNCHANGED <<outstanding, sq, cmd, xfer, data, pool, prps, lost, starved, leaked>>
    BY <1>1 DEF ThreadReturn, slabs, history
  <1>3. /\ StateTypeOK /\ ThreadOK /\ xfer \in [Block -> Xfers] /\ prps \in Nat /\ leaked \subseteq Buffer
        /\ starved \subseteq Cmd /\ Account(Holders, data, pool, leaked)
        /\ prps + Cardinality(Lists(dma)) = PrpSlab
    BY ThreadContext
  <1>4. PICK New : Grown(dma', dma, b, New) /\ \A p \in New : p[2].block = b /\ EntryOK(p[1], p[2])'
    BY <1>1, <1>2, <1>3, ReturnStep
  <1>5. /\ Cardinality(Lists(dma')) = Cardinality(Lists(dma)) /\ BlockOK(b)'
        /\ stage' \in [Block -> Stages] /\ stage'[b] = "posted"
        /\ \A o \in Block \ {b} : stage'[o] = stage[o]
    BY <1>1, <1>2, <1>3, ReturnStep
  <1>6. SameOthers(b)
    BY <1>2, <1>5 DEF SameOthers
  <1>7. leaked \subseteq leaked' /\ stage[b] # "run"
    BY <1>1, <1>2
  <1>8. \A c \in Chans : \A k \in 1..Len(dma[c]) :
          dma[c][k].block = b /\ dma[c][k].kind = "chunk" /\ dma[c][k].buf \in Buffer =>
            dma[c][k].buf \in leaked'
    BY <1>7, StaleLeaked
  <1>9. RepliesOK'
    BY <1>1, <1>2, <1>5
  <1>10. thread'.pc = "free" /\ thread'.block = b
    BY <1>2
  <1>11. ThreadOK'
    BY <1>5, <1>10, CmdAssumption DEF ThreadOK, Working
  <1>12. Account(Holders', data', pool', leaked')
    <2>1. \A o \in Block : o \in Holders' <=> o \in Holders
      <3> SUFFICES ASSUME NEW o \in Block
                   PROVE  o \in Holders' <=> o \in Holders
        OBVIOUS
      <3>1. o \in Holders <=> stage[o] \in Busy
        BY <1>1 DEF Holders, Busy, Idle
      <3>2. o \in Holders' <=> stage'[o] \in Busy \/ o = b
        BY <1>2 DEF Holders, Busy
      <3> QED
        BY <1>1, <1>5, <3>1, <3>2 DEF Busy
    <2>2. Holders \subseteq Block /\ Holders' \subseteq Block
      BY DEF Holders
    <2>3. Holders' = Holders
      BY <2>1, <2>2
    <2> QED
      BY <1>2, <1>3, <2>3
  <1>13. /\ UNCHANGED <<outstanding, sq, cmd, data, pool, lost>> /\ xfer' \in [Block -> Xfers]
         /\ prps' \in Nat /\ prps' + Cardinality(Lists(dma')) = PrpSlab
         /\ leaked' \subseteq Buffer /\ starved' \subseteq Cmd /\ stage'[b] # "free"
    BY <1>2, <1>3, <1>5
  <1>14. /\ thread' \in [pc : {"idle", "free", "count", "test", "count2"}, block : Block \cup {NoBlock}]
         /\ thread'.block \in {thread.block, NoBlock, b} /\ thread.block \in {b, NoBlock}
    BY <1>1, <1>2 DEF Idle
  <1> QED
    BY <1>1, <1>4, <1>5, <1>6, <1>7, <1>8, <1>9, <1>11, <1>12, <1>13, <1>14, ThreadStep

\* ThreadFree keeps the invariant.
LEMMA ThreadFreeInv == IInv /\ ThreadFree => IInv'
  <1> SUFFICES ASSUME IInv, ThreadFree
               PROVE  IInv'
    OBVIOUS
  <1>1. /\ EntriesOK /\ BlocksOK /\ StateTypeOK /\ ThreadOK /\ RepliesOK /\ Placed /\ data \in Owners
        /\ Holders \subseteq Block /\ Account(Holders, data, pool, leaked)
        /\ OneCarries(dma) /\ NoneBehind(dma) /\ PrpsAccounted /\ pool \subseteq Buffer
        /\ thread \in [pc : {"idle", "free", "count", "test", "count2"}, block : Block \cup {NoBlock}]
    BY ThreadContext DEF IInv
  <1>2. PICK b \in Block : b = thread.block
    BY <1>1 DEF ThreadFree, ThreadOK
  <1>3. /\ thread.pc = "free" /\ pool' = pool \cup ({data[b]} \cap Buffer) /\ thread' = Idle
        /\ UNCHANGED <<outstanding, sq, cmd, stage, xfer, data, prps, dma, replies, lost, starved, leaked>>
    BY <1>2 DEF ThreadFree, history
  <1>4. thread'.pc = "idle" /\ thread'.block = NoBlock
    BY <1>3 DEF Idle
  <1>5. StateTypeOK'
    BY <1>1, <1>3 DEF StateTypeOK, Idle
  <1>6. EntriesOK'
    <2> SUFFICES ASSUME NEW c \in Chans, NEW k \in 1..Len(dma[c]), NEW t, t = dma[c][k]
                 PROVE  EntryOK(c, t)'
      BY <1>3 DEF EntriesOK
    <2>1. EntryOK(c, t) /\ t \in Transfers
      BY <1>1, ThreadContext DEF EntriesOK, Channels
    <2>2. t.block # NoBlock
      BY <2>1, CmdAssumption DEF Transfers
    <2> QED
      BY <1>3, <1>4, <2>1, <2>2 DEF EntryOK
  <1>7. ThreadOK'
    BY <1>4 DEF ThreadOK, Working
  <1>8. RepliesOK' /\ Placed' /\ PrpsAccounted' /\ OneCarries(dma)' /\ NoneBehind(dma)'
    BY <1>1, <1>3 DEF RepliesOK, Placed, PrpsAccounted
  <1>9. BlocksOK'
    <2>1. ~Working /\ ~Working'
      BY <1>3, <1>4 DEF Working
    <2> QED
      BY <1>1, <1>3, <2>1 DEF BlocksOK, BlockOK, CarriedOn
  <1>10. Account(Holders', data', pool', leaked')
    <2>1. stage[b] \notin Busy
      BY <1>1, <1>2, <1>3 DEF ThreadOK, Busy
    <2>2. \A o \in Block : o \in Holders <=> stage[o] \in Busy \/ o = b
      BY <1>1, <1>2, <1>3 DEF Holders, Busy
    <2>3. \A o \in Block : o \in Holders' <=> stage[o] \in Busy
      BY <1>3 DEF Holders, Busy, Idle
    <2>4. Holders' \subseteq Block
      BY DEF Holders
    <2>5. Holders' = Holders \ {b} /\ b \in Holders
      BY <1>1, <2>1, <2>2, <2>3, <2>4
    <2> QED
      BY <1>1, <1>3, <2>5, AccountFree
  <1> QED
    BY <1>5, <1>6, <1>7, <1>8, <1>9, <1>10, Assemble

\* ThreadBadPsdt keeps the invariant.
LEMMA ThreadBadPsdtInv == IInv /\ ThreadBadPsdt => IInv'
  <1> SUFFICES ASSUME IInv, ThreadBadPsdt
               PROVE  IInv'
    OBVIOUS
  <1>1. PICK b \in Block, m \in Answers :
          /\ m = Head(replies) /\ b = m.block /\ m.buf = data[b]
          /\ stage[b] = "replied" /\ cmd[b] \in Cmd /\ Taken(dma, b)
          /\ thread = Idle
          /\ replies' \in Seq(Answers)
          /\ \A o \in Block \ {b} : (\E k \in 1..Len(replies) : replies[k].block = o)
                                      => \E k \in 1..Len(replies') : replies'[k].block = o
          /\ data' = data /\ (\A o \in Block \ {b} : stage'[o] = stage[o]) => RepliesOK'
    BY ReceiveFacts DEF ThreadBadPsdt
  <1>2. /\ Return(b, dma) /\ leaked' = leaked \cup ({data[b]} \cap Buffer)
        /\ UNCHANGED <<outstanding, sq, cmd, xfer, data, pool, prps, thread, lost, starved>>
    BY <1>1 DEF ThreadBadPsdt, slabs
  <1>3. /\ StateTypeOK /\ ThreadOK /\ xfer \in [Block -> Xfers] /\ prps \in Nat /\ leaked \subseteq Buffer
        /\ starved \subseteq Cmd /\ Account(Holders, data, pool, leaked) /\ data \in Owners
        /\ prps + Cardinality(Lists(dma)) = PrpSlab /\ Holders \subseteq Block
        /\ thread \in [pc : {"idle", "free", "count", "test", "count2"}, block : Block \cup {NoBlock}]
    BY ThreadContext
  <1>4. PICK New : Grown(dma', dma, b, New) /\ \A p \in New : p[2].block = b /\ EntryOK(p[1], p[2])'
    BY <1>1, <1>2, <1>3, ReturnStep
  <1>5. /\ Cardinality(Lists(dma')) = Cardinality(Lists(dma)) /\ BlockOK(b)'
        /\ stage' \in [Block -> Stages] /\ stage'[b] = "posted"
        /\ \A o \in Block \ {b} : stage'[o] = stage[o]
    BY <1>1, <1>2, <1>3, ReturnStep
  <1>6. SameOthers(b)
    BY <1>2, <1>5 DEF SameOthers
  <1>7. leaked \subseteq leaked' /\ stage[b] # "run" /\ leaked' \subseteq Buffer
    BY <1>1, <1>2, <1>3
  <1>8. \A c \in Chans : \A k \in 1..Len(dma[c]) :
          dma[c][k].block = b /\ dma[c][k].kind = "chunk" /\ dma[c][k].buf \in Buffer =>
            dma[c][k].buf \in leaked'
    BY <1>7, StaleLeaked
  <1>9. RepliesOK'
    BY <1>1, <1>2, <1>5
  <1>10. thread.block # b /\ thread.block = NoBlock
    BY <1>1, CmdAssumption DEF Idle
  <1>11. ThreadOK'
    BY <1>1, <1>2, <1>4, <1>6, <1>10, ThreadKept
  <1>12. Account(Holders', data', pool', leaked')
    <2>1. \A o \in Block : Freeing(o)' <=> Freeing(o)
      BY <1>2 DEF Freeing
    <2>2. Holders' = Holders \ {b} /\ b \in Holders
      BY <1>1, <1>3, <1>5, <1>6, <2>1, HoldersNext DEF Busy
    <2> QED
      BY <1>2, <1>3, <2>2, AccountLeak
  <1>13. /\ UNCHANGED <<outstanding, sq, cmd, data, pool, lost>> /\ xfer' \in [Block -> Xfers]
         /\ prps' \in Nat /\ prps' + Cardinality(Lists(dma')) = PrpSlab
         /\ starved' \subseteq Cmd /\ stage'[b] # "free"
    BY <1>2, <1>3, <1>5
  <1>14. /\ thread' \in [pc : {"idle", "free", "count", "test", "count2"}, block : Block \cup {NoBlock}]
         /\ thread'.block \in {thread.block, NoBlock, b} /\ thread' = thread
    BY <1>2, <1>3
  <1> QED
    BY <1>1, <1>4, <1>5, <1>6, <1>7, <1>8, <1>9, <1>11, <1>12, <1>13, <1>14, ThreadStep

\* ThreadFirstChunk keeps the invariant: with one chunk its callback goes on with
\* the command, else the main thread does.
LEMMA ThreadFirstChunkInv == IInv /\ ThreadFirstChunk => IInv'
  <1> SUFFICES ASSUME IInv, ThreadFirstChunk
               PROVE  IInv'
    OBVIOUS
  <1>1. PICK b \in Block, m \in Answers :
          /\ m = Head(replies) /\ b = m.block /\ m.buf = data[b]
          /\ stage[b] = "replied" /\ cmd[b] \in Cmd /\ Taken(dma, b)
          /\ thread = Idle
          /\ replies' \in Seq(Answers)
          /\ \A o \in Block \ {b} : (\E k \in 1..Len(replies) : replies[k].block = o)
                                      => \E k \in 1..Len(replies') : replies'[k].block = o
          /\ data' = data /\ (\A o \in Block \ {b} : stage'[o] = stage[o]) => RepliesOK'
    BY ReceiveFacts DEF ThreadFirstChunk
  <1> DEFINE r == [len |-> m.len, buf |-> m.buf, cb |-> "rpmsg", dir |-> "tx"]
  <1>2. /\ xfer' = [xfer EXCEPT ![b] = r] /\ dma' = Put(dma, "tx", Chunk(b, r, r.len = 1))
        /\ At(b, "run") /\ thread' = [pc |-> "count", block |-> b]
        /\ UNCHANGED <<outstanding, sq, cmd, data, pool, prps, lost, starved, leaked>>
    BY <1>1, Zenon DEF ThreadFirstChunk, slabs, history
  <1>3. /\ StateTypeOK /\ ThreadOK /\ xfer \in [Block -> Xfers] /\ prps \in Nat /\ leaked \subseteq Buffer
        /\ starved \subseteq Cmd /\ Account(Holders, data, pool, leaked) /\ stage \in [Block -> Stages]
        /\ prps + Cardinality(Lists(dma)) = PrpSlab /\ Cardinality(Lists(dma)) \in Nat
        /\ dma \in Channels
    BY ThreadContext
  <1>4. /\ r \in Xfers /\ r.len \in {1, 2, 3} /\ r.buf = data[b] /\ r.cb = "rpmsg" /\ r.dir = "tx"
    BY <1>1 DEF Answers, Xfers, Wrap
  <1>5. PICK x \in Xfers : x = r
    BY <1>4
  <1>6. x.len \in {1, 2, 3} /\ x.buf = data[b] /\ x.cb = "rpmsg" /\ x.dir = "tx"
    BY <1>4, <1>5
  <1>7. xfer' = [xfer EXCEPT ![b] = x] /\ dma' = Put(dma, "tx", Chunk(b, x, x.len = 1))
    BY <1>2, <1>5, Zenon
  <1> HIDE DEF r
  <1>8. PICK t \in Transfers :
          /\ dma' = Put(dma, "tx", t) /\ (x.len = 1 => t.last) /\ (x.len # 1 => ~t.last)
          /\ t.kind = "chunk" /\ t.block = b /\ t.cmd = cmd[b] /\ t.buf = x.buf
    <2> DEFINE u == Chunk(b, x, x.len = 1)
    <2>1. (x.len = 1 => u = LastChunk(b, x)) /\ (x.len # 1 => u = OtherChunk(b, x))
      BY DEF Chunk, LastChunk, OtherChunk
    <2>2. dma' = Put(dma, "tx", u)
      BY <1>7, Zenon
    <2> HIDE DEF u
    <2> QED
      BY <1>1, <2>1, <2>2, ChunkIs
  <1>9. /\ stage' \in [Block -> Stages] /\ stage'[b] = "run" /\ \A o \in Block \ {b} : stage'[o] = stage[o]
    BY <1>2, <1>3 DEF At, Stages
  <1>10. /\ xfer' \in [Block -> Xfers] /\ xfer'[b] = x /\ \A o \in Block \ {b} : xfer'[o] = xfer[o]
    BY <1>3, <1>7
  <1>11. SameOthers(b)
    BY <1>2, <1>9, <1>10 DEF SameOthers
  <1>12. Grown(dma, dma, b, {}) /\ NotCarried(dma, b)
    BY <1>1, GrownSelf DEF Taken
  <1>13. /\ Grown(dma', dma, b, {} \cup {<<"tx", t>>})
         /\ t.last => CarriedOn(dma', "tx", b)
         /\ ~t.last => NotCarried(dma', b)
    BY <1>8, <1>12, GrownPut DEF Chans
  <1>14. EntryOK("tx", t)'
    <2>1. t.last => /\ t.cmd = cmd'[t.block] /\ stage'[t.block] = "run"
                    /\ xfer'[t.block].cb # "none" /\ xfer'[t.block].dir = "tx"
      BY <1>2, <1>6, <1>8, <1>9, <1>10
    <2>2. t.buf \in Buffer => stage'[t.block] = "run" /\ data'[t.block] = t.buf /\ xfer'[t.block].dir = "tx"
      BY <1>2, <1>6, <1>8, <1>9, <1>10
    <2> QED
      BY <1>8, <2>1, <2>2, NewChunk
  <1>15. \A p \in {} \cup {<<"tx", t>>} : p[2].block = b /\ EntryOK(p[1], p[2])'
    BY <1>8, <1>14
  <1>16. thread'.pc = "count" /\ thread'.block = b
    BY <1>2
  <1>17. Working' <=> x.len # 1
    BY <1>6, <1>10, <1>16 DEF Working
  <1>18. BlockOK(b)'
    <2>1. (\E c \in Chans : CarriedOn(dma', c, b)) \/ (Working' /\ thread'.block = b)
      BY <1>8, <1>13, <1>16, <1>17 DEF Chans
    <2>2. cmd'[b] \in Cmd /\ xfer'[b].cb # "return"
      BY <1>1, <1>2, <1>6, <1>10
    <2> QED
      BY <1>9, <2>1, <2>2 DEF BlockOK, CarriedOn
  <1>19. ThreadOK'
    <2>1. Working' => stage'[b] = "run" /\ NotCarried(dma', b)
      BY <1>8, <1>9, <1>13, <1>17
    <2>2. xfer'[b].buf = data'[b] /\ xfer'[b].cb = "rpmsg" /\ xfer'[b].dir = "tx" /\ xfer'[b].len \in {1, 2, 3}
      BY <1>2, <1>6, <1>10
    <2> QED
      BY <1>9, <1>16, <2>1, <2>2, CmdAssumption DEF ThreadOK, NotCarried
  <1>20. leaked \subseteq leaked' /\ stage[b] # "run"
    BY <1>1, <1>2
  <1>21. \A c \in Chans : \A k \in 1..Len(dma[c]) :
           dma[c][k].block = b /\ dma[c][k].kind = "chunk" /\ dma[c][k].buf \in Buffer =>
             dma[c][k].buf \in leaked'
    BY <1>20, StaleLeaked
  <1>22. RepliesOK'
    BY <1>1, <1>2, <1>9
  <1>23. Account(Holders', data', pool', leaked')
    <2>1. \A o \in Block : ~Freeing(o)' /\ ~Freeing(o)
      BY <1>1, <1>2 DEF Freeing, Idle
    <2>2. Holders' = Holders
      BY <1>1, <1>3, <1>9, <1>11, <2>1, HoldersNext DEF Busy
    <2> QED
      BY <1>2, <1>3, <2>2
  <1>24. prps' \in Nat /\ prps' + Cardinality(Lists(dma')) = PrpSlab
    <2>1. Cardinality(Lists(dma')) = Cardinality(Lists(dma)) + 0
      BY <1>3, <1>8, ListsPut DEF Chans
    <2> QED
      BY <1>2, <1>3, <2>1
  <1>25. /\ UNCHANGED <<outstanding, sq, cmd, data, pool, lost>>
         /\ leaked' \subseteq Buffer /\ starved' \subseteq Cmd /\ stage'[b] # "free"
    BY <1>2, <1>3, <1>9
  <1>26. /\ thread' \in [pc : {"idle", "free", "count", "test", "count2"}, block : Block \cup {NoBlock}]
         /\ thread'.block \in {thread.block, NoBlock, b} /\ thread.block \in {b, NoBlock}
    BY <1>1, <1>2 DEF Idle
  <1> QED
    BY <1>1, <1>9, <1>10, <1>11, <1>13, <1>15, <1>18, <1>19, <1>20, <1>21, <1>22, <1>23, <1>24,
       <1>25, <1>26, ThreadStep

\* The main thread goes on with its own affairs: nothing is queued, and of its
\* block the length at most changes.
LEMMA ThreadOnly ==
  ASSUME IInv, NEW b \in Block, b = thread.block,
         thread.pc \in {"count", "test", "count2"},
         UNCHANGED <<outstanding, sq, cmd, stage, data, pool, prps, dma, replies, lost, starved, leaked>>,
         xfer' \in [Block -> Xfers], \A o \in Block \ {b} : xfer'[o] = xfer[o],
         xfer'[b].cb = xfer[b].cb, xfer'[b].dir = xfer[b].dir, xfer'[b].buf = xfer[b].buf,
         thread' \in [pc : {"idle", "test"}, block : {b, NoBlock}],
         Working' <=> Working, Working => thread'.block = b,
         thread'.pc = "idle" <=> thread'.block = NoBlock,
         thread'.pc = "test" => xfer'[b].len \in {0, 1, 2}
  PROVE  IInv'
  <1>1. /\ EntriesOK /\ BlocksOK /\ StateTypeOK /\ ThreadOK /\ RepliesOK /\ Placed
        /\ OneCarries(dma) /\ NoneBehind(dma) /\ PrpsAccounted /\ BuffersAccounted /\ dma \in Channels
        /\ Account(Holders, data, pool, leaked)
    BY ThreadContext DEF IInv
  <1>2. StateTypeOK'
    <2>1. thread' \in [pc : {"idle", "free", "count", "test", "count2"}, block : Block \cup {NoBlock}]
      OBVIOUS
    <2> QED
      BY <1>1, <2>1 DEF StateTypeOK, Xfers
  <1>3. EntriesOK'
    <2> SUFFICES ASSUME NEW c \in Chans, NEW k \in 1..Len(dma[c]), NEW t, t = dma[c][k]
                 PROVE  EntryOK(c, t)'
      BY DEF EntriesOK
    <2>1. EntryOK(c, t) /\ t \in Transfers
      BY <1>1 DEF EntriesOK, Channels
    <2>2. t.block # NoBlock /\ t.block \in Block
      BY <2>1, CmdAssumption DEF Transfers
    <2>3. t.kind \in {"fetch", "list"} => t.block # b /\ thread'.block # t.block
      BY <2>1, <2>2 DEF EntryOK
    <2>4. /\ xfer'[t.block].cb = xfer[t.block].cb /\ xfer'[t.block].dir = xfer[t.block].dir
          /\ t.block # b => xfer'[t.block] = xfer[t.block]
      BY <2>2
    <2> QED
      BY <2>1, <2>3, <2>4 DEF EntryOK
  <1>4. ThreadOK'
    BY <1>1 DEF ThreadOK, NotCarried
  <1>5. RepliesOK' /\ Placed' /\ PrpsAccounted' /\ OneCarries(dma)' /\ NoneBehind(dma)'
    BY <1>1 DEF RepliesOK, Placed, PrpsAccounted
  <1>6. BlocksOK'
    <2> SUFFICES ASSUME NEW o \in Block
                 PROVE  BlockOK(o)'
      BY DEF BlocksOK
    <2>1. BlockOK(o) /\ xfer'[o].cb = xfer[o].cb
      BY <1>1 DEF BlocksOK
    <2>2. Working /\ thread.block = o => Working' /\ thread'.block = o
      OBVIOUS
    <2> QED
      BY <2>1, <2>2 DEF BlockOK, CarriedOn
  <1>7. Account(Holders', data', pool', leaked')
    <2>1. \A o \in Block : ~Freeing(o)' /\ ~Freeing(o)
      BY DEF Freeing
    <2>2. Holders' = Holders
      BY <2>1 DEF Holders, Freeing
    <2> QED
      BY <1>1, <2>2
  <1> QED
    BY <1>2, <1>3, <1>4, <1>5, <1>6, <1>7, Assemble

\* ThreadCount keeps the invariant: the length does not fall below 0 as long as the
\* thread works on its own command.
LEMMA ThreadCountInv == IInv /\ ThreadCount => IInv'
  <1> SUFFICES ASSUME IInv, ThreadCount
               PROVE  IInv'
    OBVIOUS
  <1>1. ThreadOK /\ xfer \in [Block -> Xfers]
        /\ thread \in [pc : {"idle", "free", "count", "test", "count2"}, block : Block \cup {NoBlock}]
    BY ThreadContext
  <1>2. /\ thread.pc \in {"count", "count2"}
        /\ xfer' = [xfer EXCEPT ![thread.block].len = (@ - 1) % Wrap]
        /\ thread' = IF thread.pc = "count" THEN [thread EXCEPT !.pc = "test"] ELSE Idle
        /\ UNCHANGED <<outstanding, sq, cmd, stage, data, pool, prps, dma, replies, lost, starved, leaked>>
    BY Zenon DEF ThreadCount, slabs, history
  <1>3. PICK b \in Block : b = thread.block
    BY <1>1, <1>2 DEF ThreadOK
  <1>4. PICK n \in {1, 2, 3} : n = xfer[b].len
    BY <1>1, <1>2, <1>3 DEF ThreadOK
  <1>5. (n - 1) % Wrap = n - 1 /\ n - 1 \in {0, 1, 2}
    BY DEF Wrap
  <1>6. PICK x \in Xfers : x = xfer[b]
    BY <1>1
  <1>7. PICK y \in Xfers : /\ y = [x EXCEPT !.len = n - 1] /\ y.len = n - 1
                           /\ y.buf = x.buf /\ y.cb = x.cb /\ y.dir = x.dir
    <2> DEFINE z == [x EXCEPT !.len = n - 1]
    <2>1. z \in Xfers
      BY <1>5 DEF Xfers, Wrap
    <2>2. z.len = n - 1 /\ z.buf = x.buf /\ z.cb = x.cb /\ z.dir = x.dir
      BY DEF Xfers
    <2> QED
      BY <2>1, <2>2
  <1>8. xfer' = [xfer EXCEPT ![b] = y]
    <2>1. xfer' = [xfer EXCEPT ![b].len = (@ - 1) % Wrap]
      BY <1>2, <1>3, Zenon
    <2>2. xfer' = [xfer EXCEPT ![b] = [xfer[b] EXCEPT !.len = (xfer[b].len - 1) % Wrap]]
      BY <2>1
    <2>3. (xfer[b].len - 1) % Wrap = n - 1
      BY <1>4, <1>5
    <2> QED
      BY <1>6, <1>7, <2>2, <2>3, Zenon
  <1>9. /\ xfer' \in [Block -> Xfers] /\ xfer'[b] = y /\ \A o \in Block \ {b} : xfer'[o] = xfer[o]
    BY <1>1, <1>8
  <1>10. \/ thread.pc = "count" /\ thread'.pc = "test" /\ thread'.block = b
         \/ thread.pc = "count2" /\ thread' = Idle /\ n = 1
    BY <1>1, <1>2, <1>3, <1>4 DEF ThreadOK
  <1>11. thread' \in [pc : {"idle", "test"}, block : {b, NoBlock}]
    BY <1>1, <1>2, <1>3 DEF Idle
  <1>12. Working' <=> Working
    <2>1. thread.pc = "count" /\ thread'.pc = "test" /\ thread'.block = b => (Working' <=> Working)
      <3> SUFFICES ASSUME thread.pc = "count", thread'.pc = "test", thread'.block = b
                   PROVE  Working' <=> Working
        OBVIOUS
      <3>1. Working <=> n \in {2, 3}
        BY <1>3, <1>4 DEF Working
      <3>2. xfer'[thread'.block].len = n - 1
        BY <1>7, <1>9
      <3>3. Working' <=> n - 1 \in {1, 2}
        BY <3>2 DEF Working
      <3> QED
        BY <3>1, <3>3
    <2>2. thread.pc = "count2" /\ thread' = Idle => (Working' <=> Working)
      BY DEF Working, Idle
    <2> QED
      BY <1>10, <2>1, <2>2
  <1>13. Working => thread'.block = b
    BY <1>10 DEF Working
  <1>14. thread'.pc = "idle" <=> thread'.block = NoBlock
    BY <1>10, CmdAssumption DEF Idle
  <1>15. thread'.pc = "test" => xfer'[b].len \in {0, 1, 2}
    BY <1>5, <1>7, <1>9
  <1>16. /\ xfer'[b].cb = xfer[b].cb /\ xfer'[b].dir = xfer[b].dir /\ xfer'[b].buf = xfer[b].buf
         /\ thread.pc \in {"count", "test", "count2"}
    BY <1>2, <1>6, <1>7, <1>9
  <1>17. UNCHANGED <<outstanding, sq, cmd, stage, data, pool, prps, dma, replies, lost, starved, leaked>>
    BY <1>2
  <1> QED
    BY <1>3, <1>9, <1>11, <1>12, <1>13, <1>14, <1>15, <1>16, <1>17, ThreadOnly

\* ThreadOnePage keeps the invariant.
LEMMA ThreadOnePageInv == IInv /\ ThreadOnePage => IInv'
  <1> SUFFICES ASSUME IInv, ThreadOnePage
               PROVE  IInv'
    OBVIOUS
  <1>1. ThreadOK /\ xfer \in [Block -> Xfers]
    BY ThreadContext
  <1>2. /\ thread.pc = "test" /\ xfer[thread.block].len = 0 /\ thread' = Idle /\ xfer' = xfer
        /\ UNCHANGED <<outstanding, sq, cmd, stage, data, pool, prps, dma, replies, lost, starved, leaked>>
    BY DEF ThreadOnePage, slabs, history
  <1>3. PICK b \in Block : b = thread.block
    BY <1>1, <1>2 DEF ThreadOK
  <1>4. ~Working /\ ~Working'
    BY <1>2 DEF Working, Idle
  <1>5. /\ thread' \in [pc : {"idle", "test"}, block : {b, NoBlock}]
        /\ thread'.pc = "idle" /\ thread'.block = NoBlock
    BY <1>2 DEF Idle
  <1> QED
    BY <1>1, <1>2, <1>3, <1>4, <1>5, ThreadOnly

\* The main thread has more to queue: nothing else goes on with the command, which
\* is still its own.
LEMMA WorkingFacts ==
  ASSUME IInv, Working
  PROVE  \E b \in Block, x \in Xfers :
           /\ b = thread.block /\ x = xfer[b] /\ x.cb = "rpmsg" /\ x.dir = "tx" /\ x.buf = data[b]
           /\ stage[b] = "run" /\ cmd[b] \in Cmd /\ Taken(dma, b)
           /\ \A c \in Chans : \A k \in 1..Len(dma[c]) :
                dma[c][k].block = b /\ dma[c][k].kind = "chunk" /\ dma[c][k].buf \in Buffer =>
                  dma[c][k].buf \in leaked \/ (data[b] = dma[c][k].buf /\ x.dir = c)
  <1>1. /\ ThreadOK /\ BlocksOK /\ EntriesOK /\ xfer \in [Block -> Xfers]
    BY ThreadContext
  <1>2. thread.pc \in {"count", "test", "count2"}
    BY DEF Working
  <1>3. PICK b \in Block : b = thread.block
    BY <1>1, <1>2 DEF ThreadOK
  <1>4. PICK x \in Xfers : x = xfer[b]
    BY <1>1
  <1>5. /\ stage[b] = "run" /\ NotCarried(dma, b) /\ x.cb = "rpmsg" /\ x.dir = "tx" /\ x.buf = data[b]
    BY <1>1, <1>2, <1>3, <1>4 DEF ThreadOK
  <1>6. cmd[b] \in Cmd
    BY <1>1, <1>5 DEF BlocksOK, BlockOK
  <1>7. Taken(dma, b)
    BY <1>5, NotCarriedTaken
  <1>8. ASSUME NEW c \in Chans, NEW k \in 1..Len(dma[c]), NEW t, t = dma[c][k],
               t.block = b, t.kind = "chunk", t.buf \in Buffer
        PROVE  t.buf \in leaked \/ (data[b] = t.buf /\ x.dir = c)
    <2>1. EntryOK(c, t)
      BY <1>1, <1>8 DEF EntriesOK
    <2> QED
      BY <1>4, <1>8, <2>1 DEF EntryOK
  <1> QED
    BY <1>3, <1>4, <1>5, <1>6, <1>7, <1>8

\* ThreadSecondChunk keeps the invariant: from here on the callback goes on with the
\* command, though the main thread has yet to count the chunk.
LEMMA ThreadSecondChunkInv == IInv /\ ThreadSecondChunk => IInv'
  <1> SUFFICES ASSUME IInv, ThreadSecondChunk
               PROVE  IInv'
    OBVIOUS
  <1>1. /\ thread.pc = "test" /\ xfer[thread.block].len = 1
        /\ dma' = Put(dma, xfer[thread.block].dir, LastChunk(thread.block, xfer[thread.block]))
        /\ thread' = [thread EXCEPT !.pc = "count2"]
        /\ UNCHANGED <<outstanding, sq, cmd, stage, xfer, data, pool, prps, replies, lost, starved, leaked>>
    BY Zenon DEF ThreadSecondChunk, slabs, history, LastChunk
  <1>2. Working
    BY <1>1 DEF Working
  <1>3. PICK b \in Block, x \in Xfers :
          /\ b = thread.block /\ x = xfer[b] /\ x.cb = "rpmsg" /\ x.dir = "tx" /\ x.buf = data[b]
          /\ stage[b] = "run" /\ cmd[b] \in Cmd /\ Taken(dma, b)
          /\ \A c \in Chans : \A k \in 1..Len(dma[c]) :
               dma[c][k].block = b /\ dma[c][k].kind = "chunk" /\ dma[c][k].buf \in Buffer =>
                 dma[c][k].buf \in leaked \/ (data[b] = dma[c][k].buf /\ x.dir = c)
    BY <1>2, WorkingFacts
  <1>4. /\ StateTypeOK /\ ThreadOK /\ xfer \in [Block -> Xfers] /\ prps \in Nat /\ leaked \subseteq Buffer
        /\ starved \subseteq Cmd /\ Account(Holders, data, pool, leaked) /\ stage \in [Block -> Stages]
        /\ prps + Cardinality(Lists(dma)) = PrpSlab /\ Cardinality(Lists(dma)) \in Nat
        /\ dma \in Channels /\ replies \in Seq(Answers)
        /\ thread \in [pc : {"idle", "free", "count", "test", "count2"}, block : Block \cup {NoBlock}]
    BY ThreadContext
  <1>5. PICK t \in Transfers :
          /\ dma' = Put(dma, "tx", t) /\ t.last
          /\ t.kind = "chunk" /\ t.block = b /\ t.cmd = cmd[b] /\ t.buf = x.buf
    BY <1>1, <1>3, ChunkIs
  <1>6. SameOthers(b)
    BY <1>1 DEF SameOthers
  <1>7. Grown(dma, dma, b, {}) /\ NotCarried(dma, b)
    BY <1>3, GrownSelf DEF Taken
  <1>8. Grown(dma', dma, b, {} \cup {<<"tx", t>>}) /\ CarriedOn(dma', "tx", b)
    BY <1>5, <1>7, GrownPut DEF Chans
  <1>9. /\ xfer'[b] = x /\ stage'[b] = "run" /\ data'[b] = data[b] /\ cmd'[b] = cmd[b]
    BY <1>1, <1>3
  <1>10. EntryOK("tx", t)'
    <2>1. t.last => /\ t.cmd = cmd'[t.block] /\ stage'[t.block] = "run"
                    /\ xfer'[t.block].cb # "none" /\ xfer'[t.block].dir = "tx"
      BY <1>3, <1>5, <1>9
    <2>2. t.buf \in Buffer => stage'[t.block] = "run" /\ data'[t.block] = t.buf /\ xfer'[t.block].dir = "tx"
      BY <1>3, <1>5, <1>9
    <2> QED
      BY <1>5, <2>1, <2>2, NewChunk
  <1>11. \A p \in {} \cup {<<"tx", t>>} : p[2].block = b /\ EntryOK(p[1], p[2])'
    BY <1>5, <1>10
  <1>12. thread'.pc = "count2" /\ thread'.block = b
    BY <1>1, <1>3, <1>4
  <1>13. BlockOK(b)'
    <2>1. \E c \in Chans : CarriedOn(dma', c, b)
      BY <1>8 DEF Chans
    <2>2. cmd'[b] \in Cmd /\ xfer'[b].cb # "return"
      BY <1>3, <1>9
    <2> QED
      BY <1>9, <2>1, <2>2 DEF BlockOK, CarriedOn
  <1>14. ThreadOK'
    <2>1. ~Working'
      BY <1>12 DEF Working
    <2>2. xfer'[b].buf = data'[b] /\ xfer'[b].cb = "rpmsg" /\ xfer'[b].dir = "tx" /\ xfer'[b].len = 1
      BY <1>1, <1>3, <1>9
    <2> QED
      BY <1>9, <1>12, <2>1, <2>2, CmdAssumption DEF ThreadOK, NotCarried
  <1>15. \A c \in Chans : \A k \in 1..Len(dma[c]) :
           dma[c][k].block = b /\ dma[c][k].kind = "chunk" /\ dma[c][k].buf \in Buffer =>
             \/ dma[c][k].buf \in leaked'
             \/ stage'[b] = "run" /\ data'[b] = dma[c][k].buf /\ xfer'[b].dir = c
    BY <1>1, <1>3, <1>9
  <1>16. RepliesOK'
    BY <1>1, <1>3, <1>6, RepliesKept
  <1>17. Account(Holders', data', pool', leaked')
    <2>1. \A o \in Block : ~Freeing(o)' /\ ~Freeing(o)
      BY <1>1, <1>12 DEF Freeing
    <2>2. Holders' = Holders
      BY <1>3, <1>4, <1>6, <1>9, <2>1, HoldersNext DEF Busy
    <2> QED
      BY <1>1, <1>4, <2>2
  <1>18. prps' \in Nat /\ prps' + Cardinality(Lists(dma')) = PrpSlab
    <2>1. Cardinality(Lists(dma')) = Cardinality(Lists(dma)) + 0
      BY <1>4, <1>5, ListsPut DEF Chans
    <2> QED
      BY <1>1, <1>4, <2>1
  <1>19. /\ UNCHANGED <<outstanding, sq, cmd, data, pool, lost>> /\ leaked \subseteq leaked'
         /\ leaked' \subseteq Buffer /\ starved' \subseteq Cmd /\ stage'[b] # "free"
         /\ stage' \in [Block -> Stages] /\ xfer' \in [Block -> Xfers] /\ replies' \in Seq(Answers)
         /\ replies' = replies
    BY <1>1, <1>4, <1>9
  <1>20. /\ thread' \in [pc : {"idle", "free", "count", "test", "count2"}, block : Block \cup {NoBlock}]
         /\ thread'.block \in {thread.block, NoBlock, b} /\ thread.block \in {b, NoBlock}
    BY <1>1, <1>3, <1>4, <1>12
  <1> QED
    BY <1>3, <1>6, <1>8, <1>11, <1>13, <1>14, <1>15, <1>16, <1>17, <1>18, <1>19, <1>20, ThreadStep, SMTT(30)

\* ThreadList keeps the invariant: prp_cb goes on with the command, or it is completed
\* and its buffer stays allocated.
LEMMA ThreadListInv == IInv /\ ThreadList => IInv'
  <1> SUFFICES ASSUME IInv, ThreadList
               PROVE  IInv'
    OBVIOUS
  <1>1. /\ thread.pc = "test" /\ xfer[thread.block].len > 1
        /\ ListOrReturn(thread.block, dma) /\ thread' = Idle
        /\ UNCHANGED <<outstanding, sq, cmd, xfer, data, pool, replies, lost>>
    BY DEF ThreadList
  <1>2. /\ StateTypeOK /\ ThreadOK /\ xfer \in [Block -> Xfers] /\ prps \in Nat /\ leaked \subseteq Buffer
        /\ starved \subseteq Cmd /\ Account(Holders, data, pool, leaked) /\ stage \in [Block -> Stages]
        /\ prps + Cardinality(Lists(dma)) = PrpSlab /\ data \in Owners /\ Holders \subseteq Block
        /\ replies \in Seq(Answers)
    BY ThreadContext
  <1>3. xfer[thread.block].len = 2 /\ Working
    BY <1>1, <1>2 DEF ThreadOK, Working
  <1>4. PICK b \in Block, x \in Xfers :
          /\ b = thread.block /\ x = xfer[b] /\ x.cb = "rpmsg" /\ x.dir = "tx" /\ x.buf = data[b]
          /\ stage[b] = "run" /\ cmd[b] \in Cmd /\ Taken(dma, b)
          /\ \A c \in Chans : \A k \in 1..Len(dma[c]) :
               dma[c][k].block = b /\ dma[c][k].kind = "chunk" /\ dma[c][k].buf \in Buffer =>
                 dma[c][k].buf \in leaked \/ (data[b] = dma[c][k].buf /\ x.dir = c)
    BY <1>3, WorkingFacts
  <1>5. Grown(dma, dma, b, {}) /\ NotCarried(dma, b)
    BY <1>4, GrownSelf DEF Taken
  <1>6. ListOrReturn(b, dma)
    BY <1>1, <1>4
  <1>7. PICK f \in Chans, t \in Transfers :
          /\ t.block = b /\ t.last /\ t.cmd = cmd[b]
          /\ Grown(dma', dma, b, {} \cup {<<f, t>>}) /\ CarriedOn(dma', f, b)
          /\ prps' \in Nat /\ prps' + Cardinality(Lists(dma')) = PrpSlab
          /\ \/ f = "rx" /\ t.kind = "list" /\ UNCHANGED <<stage, starved, leaked>>
             \/ /\ f = "tx" /\ t.kind = "cq" /\ At(b, "posted")
                /\ starved' = starved \cup {cmd[b]} /\ leaked' = leaked \cup Held(b)
    BY <1>2, <1>4, <1>5, <1>6, ListStep
  <1>8. /\ thread'.pc = "idle" /\ thread'.block = NoBlock /\ ~Working'
    BY <1>1 DEF Idle, Working
  <1>9. /\ xfer'[b] = x /\ x.len = 2 /\ data'[b] = data[b] /\ cmd'[b] = cmd[b]
    BY <1>1, <1>3, <1>4
  <1>10. /\ \A o \in Block : ~Freeing(o)' /\ ~Freeing(o)
    BY <1>1 DEF Freeing, Idle
  <1>11. \/ f = "rx" /\ t.kind = "list" /\ UNCHANGED <<stage, starved, leaked>>
         \/ /\ f = "tx" /\ t.kind = "cq" /\ stage' = [stage EXCEPT ![b] = "posted"]
            /\ starved' = starved \cup {cmd[b]} /\ leaked' = leaked \cup ({data[b]} \cap Buffer)
    BY <1>7, <1>9 DEF At, Held
  <1>12. /\ stage' \in [Block -> Stages] /\ \A o \in Block \ {b} : stage'[o] = stage[o]
    BY <1>2, <1>11 DEF Stages
  <1>13. leaked \subseteq leaked' /\ leaked' \subseteq Buffer /\ starved' \subseteq Cmd
    BY <1>2, <1>4, <1>11
  <1>14. \/ f = "rx" /\ t.kind = "list" /\ stage'[b] = "run"
         \/ /\ f = "tx" /\ t.kind = "cq" /\ stage'[b] = "posted"
            /\ \A y \in Buffer : data[b] = y => y \in leaked'
    BY <1>2, <1>4, <1>11
  <1>15. SameOthers(b)
    BY <1>1, <1>12 DEF SameOthers
  <1>16. EntryOK(f, t)'
    <2>1. t.cmd = cmd'[t.block] /\ thread'.block # t.block
      BY <1>7, <1>8, <1>9, CmdAssumption
    <2>2. xfer'[t.block].len = 2 /\ xfer'[t.block].cb # "none" /\ xfer'[t.block].buf = data'[t.block]
      BY <1>4, <1>7, <1>9
    <2>3. \/ f = "rx" /\ t.kind = "list" /\ stage'[t.block] = "run"
          \/ f = "tx" /\ t.kind = "cq" /\ stage'[t.block] = "posted"
      BY <1>7, <1>14
    <2> QED
      BY <1>7, <2>1, <2>2, <2>3 DEF EntryOK
  <1>17. \A p \in {} \cup {<<f, t>>} : p[2].block = b /\ EntryOK(p[1], p[2])'
    BY <1>7, <1>16
  <1>18. BlockOK(b)'
    <2>1. CarriedOn(dma', f, b) /\ cmd'[b] \in Cmd /\ xfer'[b].cb # "return"
      BY <1>4, <1>7, <1>9
    <2> QED
      BY <1>14, <2>1 DEF BlockOK, CarriedOn, Chans
  <1>19. ThreadOK'
    BY <1>8 DEF ThreadOK
  <1>20. \A c \in Chans : \A k \in 1..Len(dma[c]) :
           dma[c][k].block = b /\ dma[c][k].kind = "chunk" /\ dma[c][k].buf \in Buffer =>
             \/ dma[c][k].buf \in leaked'
             \/ stage'[b] = "run" /\ data'[b] = dma[c][k].buf /\ xfer'[b].dir = c
    BY <1>4, <1>9, <1>13, <1>14
  <1>21. RepliesOK'
    BY <1>1, <1>4, <1>15, RepliesKept
  <1>22. Account(Holders', data', pool', leaked')
    <2>1. CASE UNCHANGED <<stage, starved, leaked>>
      <3>1. Holders' = Holders
        BY <1>2, <1>4, <1>10, <1>15, <2>1, HoldersNext DEF Busy
      <3> QED
        BY <1>1, <1>2, <2>1, <3>1
    <2>2. CASE stage' = [stage EXCEPT ![b] = "posted"] /\ leaked' = leaked \cup ({data[b]} \cap Buffer)
      <3>1. stage'[b] = "posted"
        BY <1>2, <2>2
      <3>2. Holders' = Holders \ {b} /\ b \in Holders
        BY <1>2, <1>4, <1>10, <1>15, <3>1, HoldersNext DEF Busy
      <3> QED
        BY <1>1, <1>2, <2>2, <3>2, AccountLeak
    <2> QED
      BY <1>11, <2>1, <2>2
  <1>23. /\ UNCHANGED <<outstanding, sq, cmd, data, pool, lost>> /\ stage'[b] # "free"
         /\ xfer' \in [Block -> Xfers] /\ replies' \in Seq(Answers) /\ replies' = replies
    BY <1>1, <1>2, <1>14
  <1>24. /\ thread' \in [pc : {"idle", "free", "count", "test", "count2"}, block : Block \cup {NoBlock}]
         /\ thread'.block \in {thread.block, NoBlock, b} /\ thread.block \in {b, NoBlock}
    BY <1>1, <1>4 DEF Idle
  <1> QED
    BY <1>4, <1>7, <1>12, <1>13, <1>15, <1>17, <1>18, <1>19, <1>20, <1>21, <1>22, <1>23, <1>24, ThreadStep

-----------------------------------------------------------------------------
(* The types and prp_slab, whatever the main thread does: every block that *)
(* anybody works with has a command, if maybe another one by now.          *)

Commanded == {b \in Block : cmd[b] \in Cmd}

\* What the channels hold belongs to such blocks, and p entries of prp_slab are free.
Moved(d, p) ==
  /\ d \in Channels /\ p \in Nat /\ p + Cardinality(Lists(d)) = PrpSlab
  /\ \A c \in Chans : \A k \in 1..Len(d[c]) :
       d[c][k].block \in Commanded /\ (d[c][k].kind = "list" => c = "rx")

Typed ==
  /\ TypeOK /\ PrpsAccounted /\ Moved(dma, prps)
  /\ \A b \in Block : stage[b] # "free" => b \in Commanded
  /\ \A k \in 1..Len(replies) : replies[k].block \in Commanded
  /\ thread.pc # "idle" => thread.block \in Commanded

Threads == [pc : {"idle", "free", "count", "test", "count2"}, block : Block \cup {NoBlock}]

\* One block changes its stage at most.
Staged == stage' = stage \/ \E b \in Commanded, s \in Stages : At(b, s)

\* What a step that gives no block another command has to show.
LEMMA TypedStep ==
  ASSUME Typed, cmd' = cmd, outstanding' \subseteq Cmd, sq' \in Seq(Cmd), Staged,
         xfer' \in [Block -> Xfers], data' \in Owners, pool' \subseteq Buffer, Moved(dma', prps'),
         replies' \in Seq(Answers), \A k \in 1..Len(replies') : replies'[k].block \in Commanded,
         thread' \in Threads, thread'.pc # "idle" => thread'.block \in Commanded,
         lost' \subseteq Cmd, starved' \subseteq Cmd, leaked' \subseteq Buffer, reused' = reused
  PROVE  Typed'
  <1>1. stage \in [Block -> Stages] /\ cmd \in [Block -> Cmd \cup {NoCmd}] /\ reused \in BOOLEAN
    BY Types DEF Typed, TypeOK
  <1>2. stage' \in [Block -> Stages]
    BY <1>1 DEF Staged, At
  <1>3. StateTypeOK' /\ PrpsAccounted'
    BY <1>1, <1>2, TypeNext DEF Moved, Threads
  <1>4. Commanded' = Commanded
    BY DEF Commanded
  <1>5. Moved(dma, prps)'
    BY <1>4 DEF Moved, Lists, Channels, Transfers
  <1>6. \A b \in Block : stage'[b] # "free" => b \in Commanded
    BY <1>1 DEF Typed, Staged, At
  <1> QED
    BY <1>1, <1>3, <1>4, <1>5, <1>6 DEF Typed, TypeOK

\* What the steps start from.
LEMMA TypedFacts ==
  ASSUME Typed
  PROVE  /\ outstanding \subseteq Cmd /\ sq \in Seq(Cmd) /\ xfer \in [Block -> Xfers] /\ data \in Owners
         /\ pool \subseteq Buffer /\ Moved(dma, prps) /\ dma \in Channels /\ prps \in Nat
         /\ replies \in Seq(Answers) /\ thread \in Threads /\ stage \in [Block -> Stages]
         /\ cmd \in [Block -> Cmd \cup {NoCmd}]
         /\ lost \subseteq Cmd /\ starved \subseteq Cmd /\ leaked \subseteq Buffer
         /\ \A k \in 1..Len(replies) : replies[k].block \in Commanded
         /\ thread.pc # "idle" => thread.block \in Commanded
         /\ \A b \in Commanded : b \in Block /\ cmd[b] \in Cmd
  BY Types DEF Typed, TypeOK, StateTypeOK, Threads, Moved, Commanded

\* An entry that is no list is taken off.
LEMMA MovedPop ==
  ASSUME Typed, NEW c \in Chans, dma[c] # <<>>
  PROVE  /\ Pop(c) \in Channels /\ First(c) \in Commanded
         /\ Head(dma[c]).kind # "list" => Moved(Pop(c), prps)
         /\ Head(dma[c]).kind = "list" => Moved(Pop(c), prps + 1)
  <1> DEFINE d == Popped(dma, c)
             h == Head(dma[c])
  <1>1. Moved(dma, prps) /\ dma \in Channels /\ prps \in Nat
    BY TypedFacts
  <1>2. /\ d \in Channels /\ Len(dma[c]) \in Nat \ {0} /\ Len(d[c]) = Len(dma[c]) - 1
        /\ h = dma[c][1] /\ \A k \in 1..(Len(dma[c]) - 1) : d[c][k] = dma[c][k + 1]
        /\ \A e \in Chans : e # c => d[e] = dma[e]
    BY <1>1, PoppedFacts
  <1>3. Cardinality(Lists(d)) = Cardinality(Lists(dma)) - (IF c = "rx" /\ h.kind = "list" THEN 1 ELSE 0)
    BY <1>1, ListsPopped
  <1>4. Pop(c) = d
    BY DEF Pop, Popped
  <1>5. First(c) = h.block
    BY DEF First
  <1>6. Cardinality(Lists(dma)) \in Nat
    BY <1>1, ListsFinite
  <1> HIDE DEF d, h
  <1>7. 1 \in 1..Len(dma[c]) /\ \A k \in 1..Len(d[c]) : k \in 1..(Len(dma[c]) - 1) /\ k + 1 \in 1..Len(dma[c])
    BY <1>2
  <1>8. ASSUME NEW e \in Chans, NEW k \in 1..Len(d[e])
        PROVE  d[e][k].block \in Commanded /\ (d[e][k].kind = "list" => e = "rx")
    <2>1. CASE e = c
      BY <1>1, <1>2, <1>7, <2>1 DEF Moved
    <2>2. CASE e # c
      BY <1>1, <1>2, <2>2 DEF Moved
    <2> QED
      BY <2>1, <2>2
  <1>9. h.block \in Commanded /\ (h.kind = "list" => c = "rx")
    BY <1>1, <1>2, <1>7 DEF Moved
  <1>10. prps + Cardinality(Lists(dma)) = PrpSlab
    BY <1>1 DEF Moved
  <1>11. CASE h.kind = "list"
    <2>1. prps + 1 \in Nat /\ (prps + 1) + Cardinality(Lists(d)) = PrpSlab
      BY <1>1, <1>3, <1>6, <1>9, <1>10, <1>11
    <2> QED
      BY <1>2, <1>4, <1>5, <1>8, <1>9, <1>11, <2>1 DEF Moved, h
  <1>12. CASE h.kind # "list"
    <2>1. prps + Cardinality(Lists(d)) = PrpSlab
      BY <1>1, <1>3, <1>6, <1>10, <1>12
    <2> QED
      BY <1>1, <1>2, <1>4, <1>5, <1>8, <1>9, <1>12, <2>1 DEF Moved, h
  <1> QED
    BY <1>11, <1>12

\* An entry of such a block is put.
LEMMA MovedPut ==
  ASSUME NEW d, NEW p, Moved(d, p), NEW c \in Chans, NEW t \in Transfers, t.block \in Commanded
  PROVE  /\ t.kind # "list" => Moved(Put(d, c, t), p)
         /\ t.kind = "list" /\ c = "rx" /\ p > 0 => Moved(Put(d, c, t), p - 1)
  <1> DEFINE e == Put(d, c, t)
  <1>1. /\ d \in Channels /\ p \in Nat /\ Cardinality(Lists(d)) \in Nat
        /\ p + Cardinality(Lists(d)) = PrpSlab
    BY ListsFinite DEF Moved
  <1>2. Cardinality(Lists(e)) = Cardinality(Lists(d)) + (IF c = "rx" /\ t.kind = "list" THEN 1 ELSE 0)
    BY <1>1, ListsPut
  <1>3. /\ e \in Channels /\ Len(d[c]) \in Nat /\ Len(e[c]) = Len(d[c]) + 1
        /\ \A k \in 1..Len(d[c]) : e[c][k] = d[c][k]
        /\ e[c][Len(d[c]) + 1] = t
        /\ \A f \in Chans : f # c => e[f] = d[f]
    BY <1>1, PutFacts
  <1> HIDE DEF e
  <1>4. ASSUME NEW f \in Chans, NEW k \in 1..Len(e[f]), t.kind = "list" => c = "rx"
        PROVE  e[f][k].block \in Commanded /\ (e[f][k].kind = "list" => f = "rx")
    <2>1. CASE f = c /\ k = Len(d[c]) + 1
      BY <1>3, <1>4, <2>1
    <2>2. CASE f = c /\ k \in 1..Len(d[c])
      BY <1>3, <2>2 DEF Moved
    <2>3. CASE f # c
      BY <1>3, <2>3 DEF Moved
    <2> QED
      BY <1>3, <2>1, <2>2, <2>3
  <1>5. ASSUME t.kind # "list"
        PROVE  Moved(e, p)
    <2>1. p + Cardinality(Lists(e)) = PrpSlab
      BY <1>1, <1>2, <1>5
    <2> QED
      BY <1>1, <1>3, <1>4, <1>5, <2>1 DEF Moved
  <1>6. ASSUME t.kind = "list", c = "rx", p > 0
        PROVE  Moved(e, p - 1)
    <2>1. p - 1 \in Nat /\ (p - 1) + Cardinality(Lists(e)) = PrpSlab
      BY <1>1, <1>2, <1>6
    <2> QED
      BY <1>3, <1>4, <1>6, <2>1 DEF Moved
  <1> QED
    BY <1>5, <1>6 DEF e

\* nvme_cmd_return.
LEMMA ReturnMoves ==
  ASSUME Typed, NEW b \in Commanded, NEW d, NEW p, Moved(d, p), Return(b, d)
  PROVE  Moved(dma', p) /\ Staged
  <1>1. b \in Block /\ cmd[b] \in Cmd
    BY TypedFacts
  <1>2. PICK t \in Transfers : t = Fetch("cq", b) /\ t.kind = "cq" /\ t.block = b
    BY <1>1, EntryTypes
  <1>3. dma' = Put(d, "tx", t) /\ At(b, "posted")
    BY <1>2 DEF Return
  <1>4. Moved(dma', p)
    BY <1>2, <1>3, MovedPut DEF Chans
  <1> QED
    BY <1>3, <1>4 DEF Staged, Stages

\* send_cmd.
LEMMA SendMoves ==
  ASSUME Typed, NEW b \in Commanded, NEW d, Send(b, d), data' \in Owners
  PROVE  dma' = d /\ Staged /\ lost' \subseteq Cmd /\ leaked' \subseteq Buffer
  <1>1. cmd[b] \in Cmd /\ lost \subseteq Cmd /\ leaked \subseteq Buffer
    BY TypedFacts
  <1>2. Held(b) \subseteq Buffer
    BY DEF Held
  <1> QED
    BY <1>1, <1>2 DEF Send, Staged, Stages

\* transfer_data_with_prps after its first chunk.
LEMMA ListMoves ==
  ASSUME Typed, NEW b \in Commanded, NEW d, Moved(d, prps), ListOrReturn(b, d), data' \in Owners
  PROVE  Moved(dma', prps') /\ Staged /\ starved' \subseteq Cmd /\ leaked' \subseteq Buffer
  <1>1. cmd[b] \in Cmd /\ b \in Block /\ starved \subseteq Cmd /\ leaked \subseteq Buffer /\ prps \in Nat
    BY TypedFacts
  <1>2. CASE /\ prps > 0 /\ prps' = prps - 1 /\ dma' = FetchList(b, d)
             /\ UNCHANGED <<stage, starved, leaked>>
    <2>1. PICK t \in Transfers : t = Fetch("list", b) /\ t.kind = "list" /\ t.block = b
      BY <1>1, EntryTypes
    <2>2. dma' = Put(d, "rx", t)
      BY <1>2, <2>1 DEF FetchList
    <2>3. Moved(dma', prps')
      BY <1>2, <2>1, <2>2, MovedPut DEF Chans
    <2> QED
      BY <1>1, <1>2, <2>3 DEF Staged
  <1>3. CASE /\ prps = 0 /\ Return(b, d) /\ UNCHANGED prps
             /\ starved' = starved \cup {cmd[b]} /\ leaked' = leaked \cup Held(b)
    <2>1. Moved(dma', prps') /\ Staged
      BY <1>3, ReturnMoves
    <2>2. Held(b) \subseteq Buffer
      BY DEF Held
    <2> QED
      BY <1>1, <1>3, <2>1, <2>2
  <1> QED
    BY <1>2, <1>3 DEF ListOrReturn

\* The transfer of a length that a command can have is begun.
LEMMA TransferMoves ==
  ASSUME Typed, NEW b \in Commanded, NEW x \in Xfers, x.len \in 1..3, NEW d, Moved(d, prps),
         Transfer(b, x, d), data' \in Owners
  PROVE  /\ Moved(dma', prps') /\ Staged /\ xfer' \in [Block -> Xfers]
         /\ starved' \subseteq Cmd /\ leaked' \subseteq Buffer
  <1>1. /\ cmd[b] \in Cmd /\ b \in Block /\ starved \subseteq Cmd /\ leaked \subseteq Buffer
        /\ xfer \in [Block -> Xfers] /\ x.dir \in Chans
    BY TypedFacts DEF Xfers, Chans
  <1>2. Rest(x) \in Xfers
    BY DEF Rest, Xfers, Wrap
  <1>3. xfer' \in [Block -> Xfers]
    BY <1>1, <1>2, TransferIs
  <1>4. PICK t \in Transfers : t = LastChunk(b, x) /\ t.kind = "chunk" /\ t.block = b
    BY <1>1, ChunkIs
  <1>5. PICK u \in Transfers : u = OtherChunk(b, x) /\ u.kind = "chunk" /\ u.block = b
    BY <1>1, ChunkIs
  <1>6. Moved(Put(d, x.dir, t), prps) /\ Moved(Put(d, x.dir, u), prps)
    BY <1>1, <1>4, <1>5, MovedPut
  <1>7. Moved(Put(Put(d, x.dir, u), x.dir, t), prps)
    BY <1>1, <1>4, <1>6, MovedPut
  <1>8. CASE x.len = 1
    BY <1>1, <1>3, <1>4, <1>6, <1>8, TransferIs DEF Staged
  <1>9. CASE x.len = 2
    BY <1>1, <1>3, <1>4, <1>5, <1>7, <1>9, TransferIs DEF Staged
  <1>10. CASE x.len = 3
    <2>1. ListOrReturn(b, Put(d, x.dir, u))
      BY <1>5, <1>10, TransferIs
    <2> QED
      BY <1>3, <1>6, <2>1, ListMoves
  <1> QED
    BY <1>8, <1>9, <1>10

\* A buffer is allocated where one is needed.
LEMMA BufferTyped ==
  ASSUME Typed, NEW b \in Commanded, VendorBuffer(b)
  PROVE  data' \in Owners /\ pool' \subseteq Buffer
  <1>1. data \in Owners /\ pool \subseteq Buffer
    BY TypedFacts
  <1> DEFINE y == CHOOSE x \in pool : TRUE
  <1>2. \/ pool # {} /\ pool' = pool \ {y} /\ data' = [data EXCEPT ![b] = y]
        \/ UNCHANGED <<pool, data>>
    BY Zenon DEF VendorBuffer
  <1>3. pool # {} => y \in pool
    BY Zenon
  <1> HIDE DEF y
  <1> QED
    BY <1>1, <1>2, <1>3 DEF Owners

\* The command that was fetched.
LEMMA FetchedTyped ==
  ASSUME Typed, Done("rx", "fetch")
  PROVE  First("rx") \in Commanded /\ Moved(Pop("rx"), prps)
  BY MovedPop DEF Done, Chans

\* A transfer that a command can have.
LEMMA XferIs ==
  ASSUME NEW len \in 1..3, NEW buf \in Buffer \cup {Null, Disk}, NEW cb \in {"return", "vendor", "rpmsg"},
         NEW dir \in {"rx", "tx"}
  PROVE  \E x \in Xfers : x = [len |-> len, buf |-> buf, cb |-> cb, dir |-> dir] /\ x.len \in 1..3
  <1> DEFINE x == [len |-> len, buf |-> buf, cb |-> cb, dir |-> dir]
  <1>1. x \in Xfers /\ x.len \in 1..3
    BY DEF Xfers, Wrap
  <1> HIDE DEF x
  <1>2. \E y \in Xfers : y = x /\ y.len \in 1..3
    BY <1>1
  <1> QED
    BY <1>2 DEF x

\* Handlers of commands keep the types.
LEMMA HandlersTyped ==
  ASSUME Typed, HandleHere \/ VendorNoBuffer \/ VendorSend \/ VendorTransfer
  PROVE  Typed'
  <1>1. PICK b : b = First("rx")
    OBVIOUS
  <1>2. Done("rx", "fetch")
    BY DEF HandleHere, VendorNoBuffer, VendorSend, VendorTransfer
  <1>3. b \in Commanded /\ Moved(Pop("rx"), prps) /\ b \in Block /\ cmd[b] \in Cmd
    BY <1>1, <1>2, FetchedTyped, TypedFacts
  <1>4. Pages[cmd[b]] \in 1..3
    BY <1>3, CmdAssumption
  <1>5. CASE HandleHere
    <2>1. UNCHANGED <<outstanding, sq, cmd, pool, replies, thread, lost, reused>>
      BY <1>5 DEF HandleHere
    <2>2. CASE Return(b, Pop("rx")) /\ UNCHANGED <<xfer, data, prps, starved, leaked>>
      <3>1. Moved(dma', prps') /\ Staged
        BY <1>3, <2>2, ReturnMoves
      <3> QED
        BY <2>1, <2>2, <3>1, TypedFacts, TypedStep
    <2>3. CASE \E dir \in {"rx", "tx"} :
                 data' = data /\ Transfer(b, [len |-> Pages[cmd[b]], buf |-> Disk, cb |-> "return",
                                              dir |-> dir], Pop("rx"))
      <3>1. PICK dir \in {"rx", "tx"} :
              data' = data /\ Transfer(b, [len |-> Pages[cmd[b]], buf |-> Disk, cb |-> "return",
                                           dir |-> dir], Pop("rx"))
        BY <2>3
      <3>2. PICK x \in Xfers : /\ x = [len |-> Pages[cmd[b]], buf |-> Disk, cb |-> "return", dir |-> dir]
                               /\ x.len \in 1..3
        BY <1>4, XferIs
      <3>3. data' \in Owners
        BY <3>1, TypedFacts
      <3>4. Transfer(b, x, Pop("rx"))
        BY <3>1, <3>2, Zenon
      <3>5. /\ Moved(dma', prps') /\ Staged /\ xfer' \in [Block -> Xfers]
            /\ starved' \subseteq Cmd /\ leaked' \subseteq Buffer
        BY <1>3, <3>2, <3>3, <3>4, TransferMoves
      <3> QED
        BY <2>1, <3>3, <3>5, TypedFacts, TypedStep
    <2> QED
      BY <1>1, <1>5, <2>2, <2>3 DEF HandleHere
  <1>6. CASE VendorNoBuffer
    <2>1. /\ UNCHANGED <<outstanding, sq, cmd, xfer, data, pool, prps, replies, thread, starved, leaked,
                         reused>>
          /\ At(b, "stuck") /\ lost' = lost \cup {cmd[b]} /\ dma' = Pop("rx")
      BY <1>1, <1>6 DEF VendorNoBuffer, slabs
    <2>2. Staged /\ lost' \subseteq Cmd /\ Moved(dma', prps')
      BY <1>3, <2>1, TypedFacts DEF Staged, Stages
    <2> QED
      BY <2>1, <2>2, TypedFacts, TypedStep
  <1>7. CASE VendorSend
    <2>1. /\ UNCHANGED <<outstanding, sq, cmd, xfer, prps, replies, thread, starved, reused>>
          /\ VendorBuffer(b) /\ Send(b, Pop("rx"))
      BY <1>1, <1>7 DEF VendorSend
    <2>2. data' \in Owners /\ pool' \subseteq Buffer
      BY <1>3, <2>1, BufferTyped
    <2>3. dma' = Pop("rx") /\ Staged /\ lost' \subseteq Cmd /\ leaked' \subseteq Buffer
      BY <1>3, <2>1, <2>2, SendMoves
    <2> QED
      BY <1>3, <2>1, <2>2, <2>3, TypedFacts, TypedStep
  <1>8. CASE VendorTransfer
    <2>1. UNCHANGED <<outstanding, sq, cmd, replies, thread, reused>> /\ VendorBuffer(b)
      BY <1>1, <1>8 DEF VendorTransfer
    <2>2. data' \in Owners /\ pool' \subseteq Buffer
      BY <1>3, <2>1, BufferTyped
    <2>3. CASE /\ Transfer(b, [len |-> Pages[cmd[b]], buf |-> data'[b], cb |-> "vendor", dir |-> "rx"],
                           Pop("rx"))
               /\ UNCHANGED lost
      <3>1. PICK x \in Xfers : /\ x = [len |-> Pages[cmd[b]], buf |-> data'[b], cb |-> "vendor", dir |-> "rx"]
                               /\ x.len \in 1..3
        <4>1. data'[b] \in Buffer \cup {Null, Disk}
          BY <1>3, <2>2 DEF Owners
        <4> QED
          BY <1>4, <4>1, XferIs
      <3>2. Transfer(b, x, Pop("rx"))
        BY <2>3, <3>1, Zenon
      <3>3. /\ Moved(dma', prps') /\ Staged /\ xfer' \in [Block -> Xfers]
            /\ starved' \subseteq Cmd /\ leaked' \subseteq Buffer
        BY <1>3, <2>2, <3>1, <3>2, TransferMoves
      <3> QED
        BY <2>1, <2>2, <2>3, <3>3, TypedFacts, TypedStep
    <2>4. CASE /\ At(b, "stuck") /\ dma' = Pop("rx")
               /\ lost' = lost \cup {cmd[b]} /\ leaked' = leaked \cup Held(b)
               /\ UNCHANGED <<xfer, prps, starved>>
      <3>1. Held(b) \subseteq Buffer
        BY DEF Held
      <3>2. Staged /\ lost' \subseteq Cmd /\ leaked' \subseteq Buffer /\ Moved(dma', prps')
        BY <1>3, <2>4, <3>1, TypedFacts DEF Staged, Stages
      <3> QED
        BY <2>1, <2>2, <2>4, <3>2, TypedFacts, TypedStep
    <2>5. \/ /\ Transfer(b, [len |-> Pages[cmd[b]], buf |-> data'[b], cb |-> "vendor", dir |-> "rx"],
                         Pop("rx"))
             /\ UNCHANGED lost
          \/ /\ At(b, "stuck") /\ dma' = Pop("rx")
             /\ lost' = lost \cup {cmd[b]} /\ leaked' = leaked \cup Held(b)
             /\ UNCHANGED <<xfer, prps, starved>>
      BY <1>1, <1>8, Zenon DEF VendorTransfer
    <2> QED
      BY <2>3, <2>4, <2>5
  <1> QED
    BY <1>5, <1>6, <1>7, <1>8

\* Chunks are put, as many as are left of a transfer.
LEMMA MovedPutList ==
  ASSUME Typed, NEW d, NEW p, Moved(d, p), NEW f \in Chans, NEW b \in Commanded, NEW x \in Xfers
  PROVE  Moved(PutList(d, f, b, x), p)
  <1> DEFINE w == ListChunks(b, x)
             s == d[f]
             e == PutList(d, f, b, x)
  <1>1. b \in Block /\ cmd[b] \in Cmd /\ d \in Channels /\ s \in Seq(Transfers) /\ x.len \in Nat
    BY TypedFacts DEF Moved, Channels, Xfers, Wrap
  <1>2. \A n \in 1..x.len : LET t == Chunk(b, x, n = x.len)
                            IN  t \in Transfers /\ t.block = b /\ t.kind = "chunk"
    BY <1>1 DEF Chunk, Transfers, Xfers
  <1>3. \A n \in 1..x.len : w[n] \in Transfers /\ w[n].block = b /\ w[n].kind = "chunk"
    BY <1>2 DEF ListChunks
  <1>4. w \in Seq(Transfers) /\ Len(w) = x.len
    <2>1. w \in [1..x.len -> Transfers]
      BY <1>2 DEF ListChunks
    <2> QED
      BY <1>1, <2>1
  <1>5. e = [d EXCEPT ![f] = s \o w]
    BY DEF PutList
  <1> HIDE DEF w, s
  <1>6. /\ s \o w \in Seq(Transfers) /\ Len(s \o w) = Len(s) + x.len /\ Len(s) \in Nat
        /\ \A k \in 1..(Len(s) + x.len) :
             (s \o w)[k] = IF k <= Len(s) THEN s[k] ELSE w[k - Len(s)]
    BY <1>1, <1>4
  <1>7. d \in [Chans -> Seq(Transfers)]
    BY <1>1 DEF Channels
  <1>8. e[f] = s \o w /\ \A c \in Chans : c # f => e[c] = d[c]
    BY <1>5, <1>7
  <1>9. e \in Channels
    BY <1>5, <1>6, <1>7 DEF Channels
  <1> HIDE DEF e
  <1>10. ASSUME NEW k \in 1..Len(e[f])
         PROVE  \/ k \in 1..Len(s) /\ e[f][k] = s[k]
                \/ k \notin 1..Len(s) /\ e[f][k].block = b /\ e[f][k].kind = "chunk"
    <2>1. CASE k <= Len(s)
      BY <1>6, <1>8, <2>1
    <2>2. CASE ~(k <= Len(s))
      <3>1. k - Len(s) \in 1..x.len /\ k \notin 1..Len(s)
        BY <1>1, <1>6, <1>8, <2>2
      <3>2. e[f][k] = w[k - Len(s)]
        BY <1>6, <1>8, <2>2
      <3> QED
        BY <1>3, <3>1, <3>2
    <2> QED
      BY <2>1, <2>2
  <1>11. ASSUME NEW c \in Chans, NEW k \in 1..Len(e[c])
         PROVE  e[c][k].block \in Commanded /\ (e[c][k].kind = "list" => c = "rx")
    <2>1. CASE c = f
      BY <1>10, <2>1 DEF Moved, s
    <2>2. CASE c # f
      BY <1>8, <2>2 DEF Moved
    <2> QED
      BY <2>1, <2>2
  <1>12. Lists(e) = Lists(d)
    <2>1. CASE f = "rx"
      <3>1. \A k \in Lists(e) : k \in Lists(d)
        BY <1>10, <2>1 DEF Lists, s
      <3>2. \A k \in Lists(d) : k \in 1..Len(e[f]) /\ e[f][k] = s[k]
        BY <1>1, <1>6, <1>8, <2>1 DEF Lists, s
      <3>3. \A k \in Lists(d) : k \in Lists(e)
        BY <2>1, <3>2 DEF Lists, s
      <3> QED
        BY <3>1, <3>3
    <2>2. CASE f # "rx"
      BY <1>8, <2>2 DEF Lists, Chans
    <2> QED
      BY <2>1, <2>2
  <1> QED
    BY <1>9, <1>11, <1>12 DEF Moved, e

\* Callbacks of the DMA handler keep the types.
LEMMA CallbacksTyped ==
  ASSUME Typed, NEW c \in Chans, ChannelCallback(c)
  PROVE  Typed'
  <1>1. PICK b : b = First(c)
    OBVIOUS
  <1>2. dma[c] # <<>>
    BY DEF ChannelCallback, ChunkDone, DataDone, ListDone, Done
  <1>3. b \in Commanded /\ b \in Block /\ cmd[b] \in Cmd
    BY <1>1, <1>2, MovedPop, TypedFacts
  <1>4. CASE ChunkDone(c)
    <2>1. /\ Head(dma[c]).kind = "chunk" /\ dma' = Pop(c)
          /\ UNCHANGED <<outstanding, sq, cmd, stage, xfer, data, pool, prps, replies, thread, lost,
                         starved, leaked, reused>>
      BY <1>4 DEF ChunkDone, Done, slabs, history
    <2>2. Moved(dma', prps') /\ Staged
      BY <1>2, <2>1, MovedPop DEF Staged
    <2> QED
      BY <2>1, <2>2, TypedFacts, TypedStep
  <1>5. CASE DataDone(c)
    <2>1. /\ Head(dma[c]).kind = "chunk" /\ data' = data
          /\ UNCHANGED <<outstanding, sq, cmd, xfer, prps, replies, thread, starved, reused>>
      BY <1>5 DEF DataDone, Done
    <2>2. Moved(Pop(c), prps) /\ data' \in Owners
      BY <1>2, <2>1, MovedPop, TypedFacts
    <2>3. CASE Send(b, Pop(c)) /\ UNCHANGED pool
      <3>1. dma' = Pop(c) /\ Staged /\ lost' \subseteq Cmd /\ leaked' \subseteq Buffer
        BY <1>3, <2>2, <2>3, SendMoves
      <3> QED
        BY <2>1, <2>2, <2>3, <3>1, TypedFacts, TypedStep
    <2>4. CASE /\ pool' = IF xfer[b].cb = "rpmsg" THEN pool \cup Held(b) ELSE pool
               /\ Return(b, Pop(c)) /\ UNCHANGED <<lost, leaked>>
      <3>1. Moved(dma', prps') /\ Staged
        BY <1>3, <2>1, <2>2, <2>4, ReturnMoves
      <3>2. pool' \subseteq Buffer
        BY <2>4, TypedFacts DEF Held
      <3> QED
        BY <2>1, <2>2, <2>4, <3>1, <3>2, TypedFacts, TypedStep
    <2> QED
      BY <1>1, <1>5, <2>3, <2>4 DEF DataDone
  <1>6. CASE ListDone(c)
    <2>1. PICK x \in Xfers : x = xfer[b]
      BY <1>3, TypedFacts
    <2>2. /\ Head(dma[c]).kind = "list" /\ prps' = prps + 1
          /\ dma' = PutList(Pop(c), x.dir, b, x) /\ xfer' = [xfer EXCEPT ![b].len = 0]
          /\ UNCHANGED <<outstanding, sq, cmd, stage, data, pool, replies, thread, lost,
                         starved, leaked, reused>>
      BY <1>1, <1>6, <2>1, Zenon DEF ListDone, Done, history, PutList, ListChunks
    <2>3. x.dir \in Chans /\ Moved(Pop(c), prps + 1)
      BY <1>2, <2>2, MovedPop DEF Xfers, Chans
    <2>4. Moved(dma', prps') /\ Staged
      BY <1>3, <2>2, <2>3, MovedPutList DEF Staged
    <2>5. xfer' \in [Block -> Xfers]
      BY <1>3, <2>2, TypedFacts DEF Xfers, Wrap
    <2> QED
      BY <2>2, <2>4, <2>5, TypedFacts, TypedStep
  <1> QED
    BY <1>4, <1>5, <1>6 DEF ChannelCallback

\* The host, its doorbell and its completions keep the types.
LEMMA HostTyped ==
  ASSUME Typed, (\E c \in Cmd : Submit(c)) \/ CqCb
  PROVE  Typed'
  <1>1. CASE \E c \in Cmd : Submit(c)
    <2>1. PICK c \in Cmd : Submit(c)
      BY <1>1
    <2>2. /\ outstanding' = outstanding \cup {c} /\ sq' = Append(sq, c) /\ starved' = starved \ {c}
          /\ UNCHANGED <<cmd, stage, xfer, data, pool, prps, dma, replies, thread, lost, leaked, reused>>
      BY <2>1 DEF Submit, slabs
    <2>3. outstanding' \subseteq Cmd /\ sq' \in Seq(Cmd) /\ starved' \subseteq Cmd /\ Staged
      BY <2>2, TypedFacts DEF Staged
    <2> QED
      BY <2>2, <2>3, TypedFacts, TypedStep
  <1>2. CASE CqCb
    <2>1. /\ dma["tx"] # <<>> /\ Head(dma["tx"]).kind = "cq" /\ dma' = Pop("tx") /\ At(First("tx"), "free")
          /\ outstanding' = outstanding \ {Head(dma["tx"]).cmd}
          /\ UNCHANGED <<sq, cmd, xfer, data, pool, prps, replies, thread, lost, starved, leaked, reused>>
      BY <1>2 DEF CqCb, Done, slabs, history
    <2>2. Moved(dma', prps') /\ First("tx") \in Commanded
      BY <2>1, MovedPop DEF Chans
    <2>3. outstanding' \subseteq Cmd /\ Staged
      BY <2>1, <2>2, TypedFacts DEF Staged, Stages
    <2> QED
      BY <2>1, <2>2, <2>3, TypedFacts, TypedStep
  <1> QED
    BY <1>1, <1>2

\* Blocks are given to other commands, and the types are kept.
LEMMA TailTyped ==
  ASSUME Typed, TailHandler
  PROVE  Typed'
  <1>1. /\ sq # <<>> /\ sq' = Tail(sq)
        /\ UNCHANGED <<outstanding, pool, prps, replies, thread, starved, leaked>>
    BY DEF TailHandler, slabs
  <1>2. Head(sq) \in Cmd /\ sq' \in Seq(Cmd)
    BY <1>1, TypedFacts
  <1>3. PICK h \in Cmd : h = Head(sq)
    BY <1>2
  <1>4. CASE lost' = lost \cup {h} /\ UNCHANGED <<cmd, stage, xfer, data, dma, reused>>
    <2>1. lost' \subseteq Cmd /\ Staged
      BY <1>4, TypedFacts DEF Staged
    <2> QED
      BY <1>1, <1>2, <1>4, <2>1, TypedFacts, TypedStep
  <1>5. CASE \E b \in Block :
               /\ At(b, "run") /\ cmd' = [cmd EXCEPT ![b] = h]
               /\ xfer' = [xfer EXCEPT ![b] = NoXfer] /\ data' = [data EXCEPT ![b] = Null]
               /\ dma' = Put(dma, "rx", FetchOf(b, h)) /\ reused' = (reused \/ b = thread.block)
               /\ UNCHANGED lost
    <2>1. PICK b \in Block :
               /\ At(b, "run") /\ cmd' = [cmd EXCEPT ![b] = h]
               /\ xfer' = [xfer EXCEPT ![b] = NoXfer] /\ data' = [data EXCEPT ![b] = Null]
               /\ dma' = Put(dma, "rx", FetchOf(b, h)) /\ reused' = (reused \/ b = thread.block)
               /\ UNCHANGED lost
      BY <1>5
    <2>2. /\ cmd \in [Block -> Cmd \cup {NoCmd}] /\ stage \in [Block -> Stages] /\ data \in Owners
          /\ xfer \in [Block -> Xfers] /\ Moved(dma, prps) /\ dma \in Channels /\ prps \in Nat
      BY TypedFacts
    <2>3. PICK t \in Transfers : t = FetchOf(b, h) /\ t.kind = "fetch" /\ t.block = b
      BY <2>2, FetchOfIs
    <2>4. NoXfer \in Xfers
      BY DEF NoXfer, Xfers, Wrap
    <2>5. /\ stage' \in [Block -> Stages] /\ cmd' \in [Block -> Cmd \cup {NoCmd}]
          /\ xfer' \in [Block -> Xfers] /\ data' \in Owners
      BY <2>1, <2>2, <2>4 DEF At, Stages, Owners
    <2>6. Commanded' = Commanded \cup {b}
      BY <2>1, <2>2 DEF Commanded
    <2>7. /\ dma' \in Channels /\ Len(dma["rx"]) \in Nat /\ Len(dma'["rx"]) = Len(dma["rx"]) + 1
          /\ \A k \in 1..Len(dma["rx"]) : dma'["rx"][k] = dma["rx"][k]
          /\ dma'["rx"][Len(dma["rx"]) + 1] = t /\ dma'["tx"] = dma["tx"]
      BY <2>1, <2>2, <2>3, PutFacts DEF Chans
    <2>8. Cardinality(Lists(dma')) = Cardinality(Lists(dma)) + 0 /\ Cardinality(Lists(dma)) \in Nat
      BY <2>1, <2>2, <2>3, ListsPut, ListsFinite DEF Chans
    <2>9. prps' \in Nat /\ prps' + Cardinality(Lists(dma')) = PrpSlab
      BY <1>1, <2>2, <2>8 DEF Moved
    <2>10. ASSUME NEW c \in Chans, NEW k \in 1..Len(dma'[c])
           PROVE  dma'[c][k].block \in Commanded' /\ (dma'[c][k].kind = "list" => c = "rx")
      <3>1. CASE c = "rx" /\ k = Len(dma["rx"]) + 1
        BY <2>3, <2>6, <2>7, <3>1
      <3>2. CASE c = "rx" /\ k \in 1..Len(dma["rx"])
        BY <2>2, <2>6, <2>7, <3>2 DEF Moved
      <3>3. CASE c = "tx"
        BY <2>2, <2>6, <2>7, <2>10, <3>3 DEF Moved
      <3> QED
        BY <2>7, <3>1, <3>2, <3>3 DEF Chans
    <2>11. Moved(dma, prps)'
      BY <2>7, <2>9, <2>10 DEF Moved, Lists, Channels, Transfers
    <2>12. StateTypeOK' /\ PrpsAccounted'
      BY <1>1, <1>2, <2>1, <2>5, <2>7, <2>9, TypedFacts, TypeNext DEF Threads
    <2>13. reused' \in BOOLEAN
      <3>1. reused \in BOOLEAN
        BY DEF Typed, TypeOK
      <3>2. (reused \/ b = thread.block) \in BOOLEAN
        BY Zenon
      <3> QED
        BY <2>1, <3>2, Zenon
    <2>14. \A o \in Block : stage'[o] # "free" => o \in Commanded'
      BY <2>1, <2>2, <2>6 DEF Typed, At
    <2>15. /\ \A k \in 1..Len(replies) : replies[k].block \in Commanded
           /\ thread.pc # "idle" => thread.block \in Commanded
      BY DEF Typed
    <2>16. /\ \A k \in 1..Len(replies') : replies'[k].block \in Commanded'
           /\ thread'.pc # "idle" => thread'.block \in Commanded'
      BY <1>1, <2>6, <2>15
    <2> QED
      BY <2>11, <2>12, <2>13, <2>14, <2>16 DEF Typed, TypeOK
  <1> QED
    BY <1>3, <1>4, <1>5, Zenon DEF TailHandler, Free, FetchOf

\* The APU's answer, and what the main thread makes of it.
LEMMA ReceiveTyped ==
  ASSUME Typed, NEW id, Receive(id)
  PROVE  /\ replies' \in Seq(Answers) /\ \A k \in 1..Len(replies') : replies'[k].block \in Commanded
         /\ Head(replies) \in Answers /\ Head(replies).block \in Commanded
  <1>1. replies \in Seq(Answers) /\ \A k \in 1..Len(replies) : replies[k].block \in Commanded
    BY TypedFacts
  <1>2. replies # <<>> /\ replies' = Tail(replies)
    BY DEF Receive
  <1>3. /\ Len(replies) \in Nat \ {0} /\ replies' \in Seq(Answers) /\ Len(replies') = Len(replies) - 1
        /\ Head(replies) = replies[1] /\ Head(replies) \in Answers
        /\ \A k \in 1..Len(replies') : replies'[k] = replies[k + 1]
    BY <1>1, <1>2, EmptySeq
  <1>4. 1 \in 1..Len(replies) /\ \A k \in 1..Len(replies') : k + 1 \in 1..Len(replies)
    BY <1>3
  <1> QED
    BY <1>1, <1>3, <1>4

\* The APU's answers keep the types.
LEMMA ReplyTyped ==
  ASSUME Typed, NEW b \in Block, ApuReply(b)
  PROVE  Typed'
  <1>1. b \in Commanded /\ cmd[b] \in Cmd
    BY TypedFacts DEF Typed, ApuReply
  <1>2. PICK id \in {"return", "return_data"} :
          replies' = Append(replies, [id |-> id, block |-> b, buf |-> data[b], len |-> Pages[cmd[b]]])
    BY DEF ApuReply
  <1>3. At(b, "replied") /\ UNCHANGED <<outstanding, sq, cmd, xfer, data, pool, prps, dma, thread,
                                        lost, starved, leaked, reused>>
    BY DEF ApuReply, slabs, history
  <1>4. PICK m \in Answers : /\ m = [id |-> id, block |-> b, buf |-> data[b], len |-> Pages[cmd[b]]]
                             /\ m.block = b
    <2>1. data[b] \in Buffer \cup {Null} /\ Pages[cmd[b]] \in 1..3
      BY <1>1, CmdAssumption, TypedFacts DEF Owners
    <2> DEFINE m == [id |-> id, block |-> b, buf |-> data[b], len |-> Pages[cmd[b]]]
    <2>2. m \in Answers /\ m.block = b
      BY <2>1 DEF Answers
    <2> HIDE DEF m
    <2>3. \E y \in Answers : y = m /\ y.block = b
      BY <2>2
    <2> QED
      BY <2>3 DEF m
  <1>5. replies \in Seq(Answers) /\ \A k \in 1..Len(replies) : replies[k].block \in Commanded
    BY TypedFacts
  <1>6. /\ replies' \in Seq(Answers) /\ Len(replies) \in Nat /\ Len(replies') = Len(replies) + 1
        /\ \A k \in 1..Len(replies) : replies'[k] = replies[k]
        /\ replies'[Len(replies) + 1] = m
    <2>1. replies' = Append(replies, m)
      BY <1>2, <1>4, Zenon
    <2> QED
      BY <1>5, <2>1
  <1>7. ASSUME NEW k \in 1..Len(replies')
        PROVE  replies'[k].block \in Commanded
    <2>1. CASE k = Len(replies) + 1
      BY <1>1, <1>4, <1>6, <2>1
    <2>2. CASE k \in 1..Len(replies)
      BY <1>5, <1>6, <2>2
    <2> QED
      BY <1>6, <2>1, <2>2
  <1>8. Staged
    BY <1>1, <1>3 DEF Staged, Stages
  <1> QED
    BY <1>3, <1>6, <1>7, <1>8, TypedFacts, TypedStep

\* The main thread's steps keep the types.
LEMMA ThreadTyped ==
  ASSUME Typed, Thread
  PROVE  Typed'
  <1>1. thread \in Threads /\ Idle \in Threads /\ Idle.pc = "idle" /\ Moved(dma, prps)
    BY TypedFacts DEF Threads, Idle
  <1>2. CASE ThreadReturn
    <2>1. PICK b : b = Head(replies).block
      OBVIOUS
    <2>2. /\ Receive("return") /\ Return(b, dma) /\ thread' = [pc |-> "free", block |-> b]
          /\ UNCHANGED <<outstanding, sq, cmd, xfer, data, pool, prps, lost, starved, leaked, reused>>
      BY <1>2, <2>1 DEF ThreadReturn, slabs, history
    <2>3. /\ replies' \in Seq(Answers) /\ \A k \in 1..Len(replies') : replies'[k].block \in Commanded
          /\ b \in Commanded /\ b \in Block
      BY <2>1, <2>2, ReceiveTyped, TypedFacts
    <2>4. Moved(dma', prps') /\ Staged
      BY <1>1, <2>2, <2>3, ReturnMoves
    <2>5. thread' \in Threads /\ (thread'.pc # "idle" => thread'.block \in Commanded)
      BY <2>2, <2>3 DEF Threads
    <2> QED
      BY <2>2, <2>3, <2>4, <2>5, TypedFacts, TypedStep
  <1>3. CASE ThreadFree
    <2>1. /\ thread' = Idle /\ pool' = pool \cup ({data[thread.block]} \cap Buffer)
          /\ UNCHANGED <<outstanding, sq, cmd, stage, xfer, data, prps, dma, replies, lost, starved,
                         leaked, reused>>
      BY <1>3 DEF ThreadFree, history
    <2>2. pool' \subseteq Buffer /\ Staged /\ Moved(dma', prps')
      BY <1>1, <2>1, TypedFacts DEF Staged
    <2> QED
      BY <1>1, <2>1, <2>2, TypedFacts, TypedStep
  <1>4. CASE ThreadBadPsdt
    <2>1. PICK b : b = Head(replies).block
      OBVIOUS
    <2>2. /\ Receive("return_data") /\ Return(b, dma) /\ leaked' = leaked \cup ({data[b]} \cap Buffer)
          /\ UNCHANGED <<outstanding, sq, cmd, xfer, data, pool, prps, thread, lost, starved, reused>>
      BY <1>4, <2>1 DEF ThreadBadPsdt, slabs
    <2>3. /\ replies' \in Seq(Answers) /\ \A k \in 1..Len(replies') : replies'[k].block \in Commanded
          /\ b \in Commanded /\ leaked' \subseteq Buffer
      BY <2>1, <2>2, ReceiveTyped, TypedFacts
    <2>4. Moved(dma', prps') /\ Staged
      BY <1>1, <2>2, <2>3, ReturnMoves
    <2> QED
      BY <2>2, <2>3, <2>4, TypedFacts, TypedStep
  <1>5. CASE ThreadFirstChunk
    <2>1. Receive("return_data")
      BY <1>5 DEF ThreadFirstChunk
    <2>2. PICK m \in Answers : m = Head(replies) /\ m.block \in Commanded
      BY <2>1, ReceiveTyped
    <2>3. PICK b : b = m.block
      OBVIOUS
    <2>4. b \in Commanded /\ b \in Block /\ cmd[b] \in Cmd
      BY <2>2, <2>3, TypedFacts
    <2>5. PICK x \in Xfers : x = [len |-> m.len, buf |-> m.buf, cb |-> "rpmsg", dir |-> "tx"]
      <3>1. m.len \in 1..3 /\ m.buf \in Buffer \cup {Null, Disk}
        BY DEF Answers
      <3> QED
        BY <3>1, XferIs
    <2>6. /\ xfer' = [xfer EXCEPT ![b] = x] /\ dma' = Put(dma, "tx", Chunk(b, x, x.len = 1))
          /\ At(b, "run") /\ thread' = [pc |-> "count", block |-> b]
          /\ UNCHANGED <<outstanding, sq, cmd, data, pool, prps, lost, starved, leaked, reused>>
      BY <1>5, <2>2, <2>3, <2>5, Zenon DEF ThreadFirstChunk, slabs, history
    <2>7. PICK t \in Transfers : t = Chunk(b, x, x.len = 1) /\ t.kind = "chunk" /\ t.block = b
      <3>1. /\ x.len = 1 => Chunk(b, x, x.len = 1) = LastChunk(b, x)
            /\ x.len # 1 => Chunk(b, x, x.len = 1) = OtherChunk(b, x)
        BY DEF Chunk, LastChunk, OtherChunk
      <3>2. CASE x.len = 1
        BY <2>4, <3>1, <3>2, ChunkIs
      <3>3. CASE x.len # 1
        BY <2>4, <3>1, <3>3, ChunkIs
      <3> QED
        BY <3>2, <3>3
    <2>8. Moved(dma', prps')
      BY <1>1, <2>4, <2>6, <2>7, MovedPut DEF Chans
    <2>9. Staged /\ thread' \in Threads /\ thread'.block \in Commanded /\ xfer' \in [Block -> Xfers]
      BY <2>4, <2>6, TypedFacts DEF Staged, Stages, Threads
    <2> QED
      BY <2>1, <2>6, <2>8, <2>9, ReceiveTyped, TypedFacts, TypedStep
  <1>6. CASE ThreadCount
    <2>1. /\ thread.pc \in {"count", "count2"}
          /\ xfer' = [xfer EXCEPT ![thread.block].len = (@ - 1) % Wrap]
          /\ thread' = IF thread.pc = "count" THEN [thread EXCEPT !.pc = "test"] ELSE Idle
          /\ UNCHANGED <<outstanding, sq, cmd, stage, data, pool, prps, dma, replies, lost, starved,
                         leaked, reused>>
      BY <1>6 DEF ThreadCount, slabs, history
    <2>2. thread.block \in Commanded /\ thread.block \in Block
      BY <2>1, TypedFacts
    <2>3. PICK x \in Xfers : x = xfer[thread.block]
      BY <2>2, TypedFacts
    <2>4. x.len \in Int /\ (x.len - 1) % 8 \in 0..7
      BY DEF Xfers, Wrap
    <2>5. [x EXCEPT !.len = (x.len - 1) % Wrap] \in Xfers
      BY <2>4 DEF Xfers, Wrap
    <2>6. xfer' = [xfer EXCEPT ![thread.block] = [x EXCEPT !.len = (x.len - 1) % Wrap]]
      BY <2>1, <2>2, <2>3, TypedFacts
    <2>7. xfer' \in [Block -> Xfers]
      BY <2>5, <2>6, TypedFacts
    <2>8. thread' \in Threads /\ (thread'.pc # "idle" => thread'.block \in Commanded)
      BY <1>1, <2>1, <2>2 DEF Threads
    <2>9. Staged /\ Moved(dma', prps')
      BY <1>1, <2>1 DEF Staged
    <2> QED
      BY <2>1, <2>7, <2>8, <2>9, TypedFacts, TypedStep
  <1>7. CASE ThreadOnePage
    <2>1. /\ thread' = Idle
          /\ UNCHANGED <<outstanding, sq, cmd, stage, xfer, data, pool, prps, dma, replies, lost, starved,
                         leaked, reused>>
      BY <1>7 DEF ThreadOnePage, slabs, history
    <2>2. Staged /\ Moved(dma', prps')
      BY <1>1, <2>1 DEF Staged
    <2> QED
      BY <1>1, <2>1, <2>2, TypedFacts, TypedStep
  <1>8. CASE ThreadSecondChunk
    <2>1. /\ thread.pc = "test" /\ thread' = [thread EXCEPT !.pc = "count2"]
          /\ dma' = Put(dma, xfer[thread.block].dir, Chunk(thread.block, xfer[thread.block], TRUE))
          /\ UNCHANGED <<outstanding, sq, cmd, stage, xfer, data, pool, prps, replies, lost, starved,
                         leaked, reused>>
      BY <1>8 DEF ThreadSecondChunk, slabs, history
    <2>2. PICK b \in Commanded : b = thread.block /\ b \in Block /\ cmd[b] \in Cmd
      BY <2>1, TypedFacts
    <2>3. PICK x \in Xfers : x = xfer[b] /\ x.dir \in Chans
      BY <2>2, TypedFacts DEF Xfers, Chans
    <2>4. PICK t \in Transfers : t = LastChunk(b, x) /\ t.kind = "chunk" /\ t.block = b
      BY <2>2, ChunkIs
    <2>5. dma' = Put(dma, x.dir, t)
      BY <2>1, <2>2, <2>3, <2>4 DEF LastChunk
    <2>6. Moved(dma', prps')
      BY <1>1, <2>1, <2>3, <2>4, <2>5, MovedPut
    <2>7. Staged /\ thread' \in Threads /\ thread'.block \in Commanded
      BY <1>1, <2>1, <2>2 DEF Staged, Threads
    <2> QED
      BY <2>1, <2>6, <2>7, TypedFacts, TypedStep
  <1>9. CASE ThreadList
    <2>1. /\ thread.pc = "test" /\ thread' = Idle /\ ListOrReturn(thread.block, dma)
          /\ UNCHANGED <<outstanding, sq, cmd, xfer, data, pool, replies, lost, reused>>
      BY <1>9 DEF ThreadList
    <2>2. thread.block \in Commanded /\ data' \in Owners
      BY <2>1, TypedFacts
    <2>3. Moved(dma', prps') /\ Staged /\ starved' \subseteq Cmd /\ leaked' \subseteq Buffer
      BY <1>1, <2>1, <2>2, ListMoves
    <2> QED
      BY <1>1, <2>1, <2>3, TypedFacts, TypedStep
  <1> QED
    BY <1>2, <1>3, <1>4, <1>5, <1>6, <1>7, <1>8, <1>9 DEF Thread

-----------------------------------------------------------------------------
(* The theorems                                                            *)

\* The controller starts with every pool full and nothing under way.
LEMMA InitInv == Init => IInv
  <1> SUFFICES ASSUME Init
               PROVE  IInv
    OBVIOUS
  <1>1. /\ dma \in [Chans -> Seq(Transfers)] /\ \A c \in Chans : dma[c] = <<>> /\ Len(dma[c]) = 0
    BY DEF Init, Chans
  <1>2. /\ replies = <<>> /\ Len(replies) = 0 /\ thread.pc = "idle" /\ thread.block = NoBlock
        /\ \A b \in Block : stage[b] = "free"
    BY DEF Init, Idle
  <1>3. StateTypeOK
    <2>1. NoXfer \in Xfers
      BY DEF NoXfer, Xfers, Wrap
    <2>2. xfer \in [Block -> Xfers]
      BY <2>1 DEF Init
    <2>3. prps \in 0..PrpSlab
      BY ResourceAssumption DEF Init
    <2> QED
      BY <1>1, <2>2, <2>3 DEF Init, StateTypeOK, Chans, Xfers, Idle
  <1>4. BuffersAccounted
    <2>1. Holders = {}
      BY <1>2 DEF Holders
    <2>2. Queued = {}
      BY <1>1 DEF Queued, Chans
    <2> QED
      BY <2>1, <2>2 DEF BuffersAccounted, Init
  <1>5. PrpsAccounted
    <2>1. {n \in 1..Len(dma["rx"]) : dma["rx"][n].kind = "list"} = {}
      BY <1>1 DEF Chans
    <2>2. Cardinality({}) = 0
      BY FS_EmptySet
    <2> QED
      BY <2>1, <2>2, ResourceAssumption DEF PrpsAccounted, Init
  <1>6. OneCarries(dma) /\ NoneBehind(dma) /\ EntriesOK
    BY <1>1 DEF OneCarries, NoneBehind, EntriesOK
  <1>7. RepliesOK /\ ThreadOK /\ BlocksOK
    BY <1>2 DEF RepliesOK, ThreadOK, BlocksOK, BlockOK, Working
  <1>8. Placed
    BY DEF Placed, Init
  <1> QED
    BY <1>3, <1>4, <1>5, <1>6, <1>7, <1>8 DEF IInv

\* A step that reuses no block the main thread has keeps the invariant.
LEMMA StepInv == IInv /\ [Next]_vars /\ ~reused' => IInv'
  <1> SUFFICES ASSUME IInv, [Next]_vars, ~reused'
               PROVE  IInv'
    OBVIOUS
  <1>1. CASE \E c \in Cmd : Submit(c)
    BY <1>1, SubmitInv
  <1>2. CASE TailHandler
    BY <1>2, TailHandlerInv
  <1>3. CASE \E c \in Chans : ChannelCallback(c)
    <2>1. PICK c \in Chans : ChunkDone(c) \/ DataDone(c) \/ ListDone(c)
      BY <1>3 DEF ChannelCallback
    <2> QED
      BY <2>1, ChunkDoneInv, DataDoneInv, ListDoneInv
  <1>4. CASE RxCallback
    <2>1. HandleHere \/ VendorNoBuffer \/ VendorSend \/ VendorTransfer \/ \E c \in Chans : ChannelCallback(c)
      BY <1>4 DEF RxCallback, Chans
    <2> QED
      BY <2>1, <1>3, HandleHereInv, VendorNoBufferInv, VendorSendInv, VendorTransferInv
  <1>5. CASE TxCallback
    <2>1. CqCb \/ \E c \in Chans : ChannelCallback(c)
      BY <1>5 DEF TxCallback, Chans
    <2> QED
      BY <2>1, <1>3, CqCbInv
  <1>6. CASE Thread
    BY <1>6, ThreadReturnInv, ThreadFreeInv, ThreadBadPsdtInv, ThreadFirstChunkInv, ThreadCountInv,
       ThreadOnePageInv, ThreadSecondChunkInv, ThreadListInv DEF Thread
  <1>7. CASE \E b \in Block : ApuReply(b)
    BY <1>7, ApuReplyInv
  <1>8. CASE UNCHANGED vars
    <2>1. UNCHANGED <<outstanding, sq, cmd, stage, xfer, data, pool, prps, dma, replies,
                      thread, lost, starved, leaked>>
      BY <1>8 DEF vars
    <2>2. StateTypeOK' /\ BuffersAccounted' /\ PrpsAccounted'
      BY <2>1 DEF IInv, StateTypeOK, BuffersAccounted, Holders, Queued, PrpsAccounted
    <2>3. OneCarries(dma)' /\ NoneBehind(dma)' /\ EntriesOK'
      BY <2>1, EntriesSame DEF IInv
    <2>4. RepliesOK' /\ Placed'
      BY <2>1 DEF IInv, RepliesOK, Placed
    <2>5. Working' <=> Working
      BY <2>1 DEF Working
    <2>6. ThreadOK'
      BY <2>1, <2>5 DEF IInv, ThreadOK, NotCarried
    <2>7. BlocksOK'
      BY <2>1, <2>5 DEF IInv, BlocksOK, BlockOK, CarriedOn
    <2> QED
      BY <2>2, <2>3, <2>4, <2>6, <2>7 DEF IInv
  <1> QED
    BY <1>1, <1>2, <1>4, <1>5, <1>6, <1>7, <1>8 DEF Next

\* The types hold at first ...
LEMMA InitTyped == Init => Typed
  <1> SUFFICES ASSUME Init
               PROVE  Typed
    OBVIOUS
  <1>1. StateTypeOK /\ PrpsAccounted
    BY InitInv DEF IInv
  <1>2. \A c \in Chans : Len(dma[c]) = 0
    BY DEF Init, Chans
  <1>3. Moved(dma, prps)
    <2>1. dma \in Channels /\ prps \in Nat
      BY <1>1, Types
    <2>2. prps + Cardinality(Lists(dma)) = PrpSlab
      BY <1>1 DEF PrpsAccounted, Lists
    <2> QED
      BY <1>2, <2>1, <2>2 DEF Moved
  <1>4. Len(replies) = 0 /\ thread.pc = "idle" /\ \A b \in Block : stage[b] = "free"
    BY DEF Init, Idle
  <1>5. TypeOK
    BY <1>1, Zenon DEF Init, TypeOK
  <1> QED
    BY <1>1, <1>3, <1>4, <1>5 DEF Typed

\* ... and every step keeps them.
LEMMA StepTyped == Typed /\ [Next]_vars => Typed'
  <1> SUFFICES ASSUME Typed, [Next]_vars
               PROVE  Typed'
    OBVIOUS
  <1>1. CASE (\E c \in Cmd : Submit(c)) \/ CqCb
    BY <1>1, HostTyped
  <1>2. CASE TailHandler
    BY <1>2, TailTyped
  <1>3. CASE \E c \in Chans : ChannelCallback(c)
    BY <1>3, CallbacksTyped
  <1>4. CASE RxCallback
    BY <1>3, <1>4, HandlersTyped DEF RxCallback, Chans
  <1>5. CASE TxCallback
    BY <1>1, <1>3, <1>5 DEF TxCallback, Chans
  <1>6. CASE Thread
    BY <1>6, ThreadTyped
  <1>7. CASE \E b \in Block : ApuReply(b)
    BY <1>7, ReplyTyped
  <1>8. CASE UNCHANGED vars
    <2>1. UNCHANGED <<outstanding, sq, cmd, stage, xfer, data, pool, prps, dma, replies,
                      thread, lost, starved, leaked, reused>>
      BY <1>8 DEF vars
    <2>2. Staged
      BY <2>1 DEF Staged
    <2> QED
      BY <2>1, <2>2, TypedFacts, TypedStep
  <1> QED
    BY <1>1, <1>2, <1>4, <1>5, <1>6, <1>7, <1>8 DEF Next

\* The types and the account of prp_slab hold of every state the firmware reaches,
\* also when the main thread has a block that was given to another command: the code
\* of cmd.c after transfer_chunk then works on the wrong command, but on one.
THEOREM TypedInvariance == Spec => []Typed
  <1> QED
    BY InitTyped, StepTyped, PTL DEF Spec

\* What was reused is recorded for good.
LEMMA ReusedKept == [Next]_vars /\ ~reused' => ~reused
  <1> SUFFICES ASSUME [Next]_vars, ~reused'
               PROVE  ~reused
    OBVIOUS
  <1>1. CASE (\E c \in Cmd : Submit(c)) \/ (\E b \in Block : ApuReply(b)) \/ UNCHANGED vars
    BY <1>1 DEF Submit, ApuReply, history, vars
  <1>2. CASE TailHandler
    BY <1>2 DEF TailHandler
  <1>3. CASE \E c \in Chans : ChannelCallback(c)
    BY <1>3 DEF ChannelCallback, ChunkDone, DataDone, ListDone, history
  <1>4. CASE RxCallback
    BY <1>3, <1>4 DEF RxCallback, Chans, HandleHere, VendorNoBuffer, VendorSend, VendorTransfer
  <1>5. CASE TxCallback
    BY <1>3, <1>5 DEF TxCallback, Chans, CqCb, history
  <1>6. CASE Thread
    BY <1>6 DEF Thread, ThreadReturn, ThreadFree, ThreadBadPsdt, ThreadFirstChunk, ThreadCount,
                ThreadOnePage, ThreadSecondChunk, ThreadList, history
  <1> QED
    BY <1>1, <1>2, <1>4, <1>5, <1>6 DEF Next

\* The invariant holds of every state the firmware reaches before the main thread
\* has a block that was given to another command.
THEOREM Invariance == Spec => [](~reused => IInv)
  <1>1. Init => (~reused => IInv)
    BY InitInv
  <1>2. (~reused => IInv) /\ [Next]_vars => (~reused => IInv)'
    BY StepInv, ReusedKept
  <1> QED
    BY <1>1, <1>2, PTL DEF Spec

\* Neither pool loses or doubles an entry: a buffer is free, held by one command or
\* left behind by an error path that does, none is freed under a transfer (cmd.c,
\* cmds/vendor.c, rpmsg.c), and the lists that prp_slab lacks are on their way.
THEOREM PoolsAccountedHolds == Spec => []PoolsAccounted
  <1>1. Typed /\ (~reused => IInv) => PoolsAccounted
    BY DEF Typed, IInv, PoolsAccounted
  <1> QED
    BY <1>1, TypedInvariance, Invariance, PTL

\* A command the host waits for that no error path dropped is in its queue, or a
\* transfer with a callback, the APU or the main thread goes on with it.
THEOREM NoneForgottenHolds == Spec => []NoneForgotten
  <1>1. (~reused => IInv) => NoneForgotten
    <2> SUFFICES ASSUME IInv, NEW c \in outstanding \ lost, ~\E k \in 1..Len(sq) : sq[k] = c
                 PROVE  \E b \in Block : cmd[b] = c /\ stage[b] # "free" /\ GoesOn(b)
      BY DEF NoneForgotten
    <2>1. /\ Placed /\ BlocksOK /\ stage \in [Block -> Stages]
      BY Types DEF IInv
    <2>2. PICK b \in Block : cmd[b] = c /\ stage[b] # "free"
      BY <2>1 DEF Placed
    <2>3. BlockOK(b)
      BY <2>1 DEF BlocksOK
    <2>4. \A f \in Chans : CarriedOn(dma, f, b) => GoesOn(b)
      BY DEF CarriedOn, Carries, GoesOn, Queued, Chans
    <2>5. stage[b] \in {"run", "apu", "replied", "posted"}
      BY <2>1, <2>2, <2>3 DEF BlockOK, Stages
    <2>6. stage[b] \in {"run", "posted"} => GoesOn(b)
      BY <2>3, <2>4 DEF BlockOK, GoesOn, Chans
    <2>7. stage[b] \in {"apu", "replied"} => GoesOn(b)
      BY <2>3 DEF BlockOK, GoesOn
    <2>8. GoesOn(b)
      BY <2>5, <2>6, <2>7
    <2> QED
      BY <2>2, <2>8
  <1> QED
    BY <1>1, Invariance, PTL

-----------------------------------------------------------------------------
(* The data of commands, when prp_slab has an entry for each of the host's *)
(* commands: it never runs out, so that no command is completed early.     *)

Live(b) == stage[b] # "free"

\* A command the host waits for is in the queue or in a block, at most once.
OnceInBlocks ==
  /\ \A b \in Block : Live(b) => cmd[b] \in outstanding
  /\ \A b1, b2 \in Block : Live(b1) /\ Live(b2) /\ cmd[b1] = cmd[b2] => b1 = b2
OnceQueued ==
  /\ \A k \in 1..Len(sq) : sq[k] \in outstanding /\ \A b \in Block : Live(b) => cmd[b] # sq[k]
  /\ \A j, k \in 1..Len(sq) : sq[j] = sq[k] => j = k
Bounded == IsFiniteSet(outstanding) /\ Cardinality(outstanding) <= MaxOut
Once == OnceInBlocks /\ OnceQueued /\ Bounded

\* A chunk is of the command its block still has, and of the transfer under way;
\* a command that is being fetched has no transfer yet.
DataOK(c, t) ==
  /\ t.kind = "chunk" =>
       /\ stage[t.block] = "run" /\ t.cmd = cmd[t.block] /\ t.buf = xfer[t.block].buf
       /\ xfer[t.block].cb # "none" /\ xfer[t.block].dir = c
  /\ t.kind = "fetch" => xfer[t.block].cb = "none"

DatasOK == \A c \in Chans : \A k \in 1..Len(dma[c]) : DataOK(c, dma[c][k])

\* Where the transfer of block b has its data.
Placing(b) ==
  IF xfer[b].cb = "return" THEN xfer[b].buf = Disk /\ Kind[cmd[b]] # "vendorOdd"
  ELSE xfer[b].buf = data[b] /\ (data[b] = Null <=> Kind[cmd[b]] = "vendorOdd")

BufOK(b) ==
  /\ stage[b] = "run" /\ xfer[b].cb # "none" => Placing(b)
  /\ stage[b] \in {"apu", "replied"} /\ Buffered(b) => data[b] # Null

BufsOK == \A b \in Block : BufOK(b)

\* The APU has data only for commands that ask for them.
AnswersOK ==
  \A k \in 1..Len(replies) :
    replies[k].id = "return_data" => Kind[cmd[replies[k].block]] = "vendorOut"

DInv == DatasOK /\ BufsOK /\ AnswersOK

\* No entry of d is of block b.
NoneOf(d, b) == \A c \in Chans : \A k \in 1..Len(d[c]) : d[c][k].block # b

\* The entries of e are those of d and New, each with its channel.
Adds(e, d, New) ==
  \A c \in Chans : \A k \in 1..Len(e[c]) :
    (\E j \in 1..Len(d[c]) : e[c][k] = d[c][j]) \/ <<c, e[c][k]>> \in New

\* Nothing was put.
LEMMA AddsSelf == ASSUME NEW d PROVE Adds(d, d, {})
  BY DEF Adds

\* One more was put.
LEMMA AddsPut ==
  ASSUME NEW e \in Channels, NEW d, NEW New, Adds(e, d, New), NEW c \in Chans, NEW x \in Transfers
  PROVE  Adds(Put(e, c, x), d, New \cup {<<c, x>>}) /\ Put(e, c, x) \in Channels
  <1> DEFINE p == Put(e, c, x)
  <1>1. ASSUME NEW f \in Chans, NEW k \in 1..Len(p[f])
        PROVE  (\E j \in 1..Len(d[f]) : p[f][k] = d[f][j]) \/ <<f, p[f][k]>> \in New \cup {<<c, x>>}
    <2>1. \/ k \in 1..Len(e[f]) /\ p[f][k] = e[f][k]
          \/ f = c /\ p[f][k] = x
      BY PutFacts
    <2>2. CASE k \in 1..Len(e[f]) /\ p[f][k] = e[f][k]
      BY <2>2 DEF Adds
    <2>3. CASE f = c /\ p[f][k] = x
      BY <2>3
    <2> QED
      BY <2>1, <2>2, <2>3
  <1>2. p \in Channels
    BY PutFacts
  <1> QED
    BY <1>1, <1>2 DEF Adds

\* What an entry says of its block holds as long as the block stays as it is.
LEMMA DataKept ==
  ASSUME NEW b, SameOthers(b), NEW c, NEW t \in Transfers, DataOK(c, t), t.block # b
  PROVE  DataOK(c, t)'
  <1>1. t.block \in Block \ {b}
    BY DEF Transfers
  <1>2. stage'[t.block] = stage[t.block] /\ xfer'[t.block] = xfer[t.block] /\ cmd'[t.block] = cmd[t.block]
    BY <1>1 DEF SameOthers
  <1> QED
    BY <1>2 DEF DataOK

\* A step that works on block b: d is what it leaves on the channels, New what it puts.
LEMMA DataStep ==
  ASSUME StateTypeOK, DatasOK, BufsOK, NEW b \in Block, NEW d, Within(d, dma),
         NEW New, Adds(dma', d, New),
         \A p \in New : DataOK(p[1], p[2])',
         \A c \in Chans : \A k \in 1..Len(d[c]) : d[c][k].block = b => DataOK(c, d[c][k])',
         SameOthers(b), BufOK(b)'
  PROVE  DatasOK' /\ BufsOK'
  <1>1. dma \in Channels
    BY Types
  <1>2. ASSUME NEW c \in Chans, NEW k \in 1..Len(d[c]), NEW t, t = d[c][k]
        PROVE  DataOK(c, t)'
    <2>1. PICK j \in 1..Len(dma[c]) : d[c][k] = dma[c][j]
      BY DEF Within
    <2>2. DataOK(c, t)
      BY <1>2, <2>1 DEF DatasOK
    <2>3. t \in Transfers
      BY <1>1, <1>2, <2>1 DEF Channels
    <2>4. CASE t.block # b
      BY <2>2, <2>3, <2>4, DataKept
    <2>5. CASE t.block = b
      BY <1>2, <2>5
    <2> QED
      BY <2>4, <2>5
  <1>3. DatasOK'
    <2> SUFFICES ASSUME NEW c \in Chans, NEW k \in 1..Len(dma'[c]), NEW t, t = dma'[c][k]
                 PROVE  DataOK(c, t)'
      BY DEF DatasOK
    <2>1. (\E j \in 1..Len(d[c]) : t = d[c][j]) \/ <<c, t>> \in New
      BY DEF Adds
    <2>2. CASE \E j \in 1..Len(d[c]) : t = d[c][j]
      BY <2>2, <1>2
    <2>3. CASE <<c, t>> \in New
      BY <2>3
    <2> QED
      BY <2>1, <2>2, <2>3
  <1>4. ASSUME NEW o \in Block, o # b
        PROVE  BufOK(o)'
    <2>1. /\ stage'[o] = stage[o] /\ xfer'[o] = xfer[o] /\ data'[o] = data[o] /\ cmd'[o] = cmd[o]
      BY <1>4 DEF SameOthers
    <2>2. BufOK(o)
      BY DEF BufsOK
    <2> QED
      BY <2>1, <2>2 DEF BufOK, Placing, Buffered
  <1>5. BufsOK'
    BY <1>4 DEF BufsOK
  <1> QED
    BY <1>3, <1>5

\* The same where nothing is left of the block's.
LEMMA DataStepNone ==
  ASSUME StateTypeOK, DatasOK, BufsOK, NEW b \in Block, NEW d, Within(d, dma), NoneOf(d, b),
         NEW New, Adds(dma', d, New),
         \A p \in New : DataOK(p[1], p[2])',
         SameOthers(b), BufOK(b)'
  PROVE  DatasOK' /\ BufsOK'
  <1>1. \A c \in Chans : \A k \in 1..Len(d[c]) : d[c][k].block = b => DataOK(c, d[c][k])'
    BY DEF NoneOf
  <1> QED
    BY <1>1, DataStep

\* The answers are not concerned.
LEMMA AnswersKept ==
  ASSUME IInv, AnswersOK, \A o \in Block : stage[o] = "replied" => cmd'[o] = cmd[o],
         \A k \in 1..Len(replies') : \E j \in 1..Len(replies) : replies'[k] = replies[j]
  PROVE  AnswersOK'
  <1>1. RepliesOK /\ replies \in Seq(Answers)
    BY Types DEF IInv
  <1> SUFFICES ASSUME NEW k \in 1..Len(replies'), replies'[k].id = "return_data"
               PROVE  Kind[cmd'[replies'[k].block]] = "vendorOut"
    BY DEF AnswersOK
  <1>2. PICK j \in 1..Len(replies) : replies'[k] = replies[j]
    OBVIOUS
  <1>3. replies[j] \in Answers /\ stage[replies[j].block] = "replied"
    BY <1>1 DEF RepliesOK
  <1>4. cmd'[replies[j].block] = cmd[replies[j].block]
    BY <1>3 DEF Answers
  <1> QED
    BY <1>2, <1>4 DEF AnswersOK

\* A block whose command has no transfer under way has no entry on the channels.
LEMMA NoneAtRest ==
  ASSUME IInv, DatasOK, NEW b \in Block, stage[b] \notin {"run", "posted"}
  PROVE  NoneOf(dma, b)
  <1>1. dma \in Channels /\ EntriesOK
    BY Types DEF IInv
  <1> SUFFICES ASSUME NEW c \in Chans, NEW k \in 1..Len(dma[c]), dma[c][k].block = b
               PROVE  FALSE
    BY DEF NoneOf
  <1>2. EntryOK(c, dma[c][k]) /\ DataOK(c, dma[c][k]) /\ dma[c][k] \in Transfers
    BY <1>1 DEF EntriesOK, DatasOK, Channels
  <1>3. dma[c][k].kind \in {"fetch", "chunk", "list", "cq"}
    BY <1>2 DEF Transfers
  <1> QED
    BY <1>2, <1>3 DEF EntryOK, DataOK

\* When an entry with a callback has been taken off, what is left of its command is
\* chunks of its transfer, on the channel of its data.
LEMMA LeftOver ==
  ASSUME IInv, DatasOK, NEW b \in Block, NEW d \in Channels, Taken(d, b),
         NEW c \in Chans, NEW k \in 1..Len(d[c]), d[c][k].block = b
  PROVE  /\ d[c][k].kind = "chunk" /\ ~d[c][k].last /\ DataOK(c, d[c][k])
         /\ stage[b] = "run" /\ xfer[b].cb # "none" /\ xfer[b].dir = c
  <1>1. EntriesOK
    BY DEF IInv
  <1>2. PICK j \in 1..Len(dma[c]) : d[c][k] = dma[c][j]
    BY DEF Taken, Within
  <1>3. EntryOK(c, d[c][k]) /\ DataOK(c, d[c][k])
    BY <1>1, <1>2 DEF EntriesOK, DatasOK
  <1>4. ~d[c][k].last
    BY DEF Taken, NotCarried, Carries
  <1>5. d[c][k].kind = "chunk"
    BY <1>3, <1>4 DEF EntryOK
  <1> QED
    BY <1>3, <1>4, <1>5 DEF DataOK

\* prp_slab has an entry for a command that has no list under way: each list is of
\* another command of the host.
LEMMA Ample ==
  ASSUME IInv, Once, PrpSlab >= MaxOut, NEW b \in Block, Live(b),
         \A k \in 1..Len(dma["rx"]) : dma["rx"][k].kind = "list" => dma["rx"][k].block # b
  PROVE  prps > 0
  <1>1. /\ dma \in Channels /\ EntriesOK /\ prps \in Nat /\ OneCarries(dma)
        /\ prps + Cardinality(Lists(dma)) = PrpSlab
    BY Types DEF IInv, PrpsAccounted, Lists
  <1>2. /\ OnceInBlocks /\ IsFiniteSet(outstanding) /\ Cardinality(outstanding) <= MaxOut
    BY DEF Once, Bounded
  <1> DEFINE S == Lists(dma)
             T == outstanding \ {cmd[b]}
             f == [n \in S |-> cmd[dma["rx"][n].block]]
  <1>3. IsFiniteSet(S) /\ Cardinality(S) \in Nat
    BY <1>1, ListsFinite
  <1>4. cmd[b] \in outstanding
    BY <1>2 DEF OnceInBlocks
  <1>5. IsFiniteSet(T) /\ Cardinality(T) = Cardinality(outstanding) - 1 /\ Cardinality(outstanding) \in Nat
    BY <1>2, <1>4, FS_RemoveElement, FS_CardinalityType
  <1>6. ASSUME NEW n \in S
        PROVE  /\ dma["rx"][n].block \in Block /\ Live(dma["rx"][n].block) /\ dma["rx"][n].last
               /\ dma["rx"][n].block # b /\ n \in 1..Len(dma["rx"])
    <2>1. n \in 1..Len(dma["rx"]) /\ dma["rx"][n].kind = "list" /\ "rx" \in Chans
      BY DEF Lists, Chans
    <2>2. EntryOK("rx", dma["rx"][n]) /\ dma["rx"][n] \in Transfers
      BY <1>1, <2>1 DEF EntriesOK, Channels
    <2>3. dma["rx"][n].block \in Block
      BY <2>2 DEF Transfers
    <2> QED
      BY <2>1, <2>2, <2>3 DEF EntryOK, Live
  <1>7. \A n \in S : cmd[dma["rx"][n].block] \in T
    BY <1>2, <1>6 DEF OnceInBlocks
  <1>8. f \in [S -> T]
    BY <1>7
  <1>9. ASSUME NEW m \in S, NEW n \in S, f[m] = f[n]
        PROVE  m = n
    <2>1. dma["rx"][m].block = dma["rx"][n].block
      BY <1>2, <1>6, <1>9 DEF OnceInBlocks
    <2> QED
      BY <1>1, <1>6, <2>1 DEF OneCarries, Chans
  <1> HIDE DEF S, T, f
  <1>10. ~(Cardinality(T) < Cardinality(S))
    BY <1>3, <1>5, <1>8, <1>9, FS_PigeonHole
  <1>11. prps + Cardinality(S) = PrpSlab
    BY <1>1 DEF S
  <1> QED
    BY <1>1, <1>2, <1>3, <1>5, <1>10, <1>11, ResourceAssumption

\* So it has when what goes on with the command has been taken off or the main
\* thread does.
LEMMA AmpleTaken ==
  ASSUME IInv, Once, PrpSlab >= MaxOut, NEW b \in Block, stage[b] = "run", NotCarried(dma, b)
  PROVE  prps > 0
  <1>1. Live(b)
    BY DEF Live
  <1>2. dma \in Channels /\ EntriesOK
    BY Types DEF IInv
  <1>3. ASSUME NEW k \in 1..Len(dma["rx"]), dma["rx"][k].kind = "list"
        PROVE  dma["rx"][k].block # b
    <2>1. EntryOK("rx", dma["rx"][k])
      BY <1>2 DEF EntriesOK, Chans
    <2>2. dma["rx"][k].last
      BY <1>3, <2>1 DEF EntryOK
    <2> QED
      BY <2>2 DEF NotCarried, Carries, Chans
  <1> QED
    BY <1>1, <1>3, Ample

\* And when the command has just been fetched.
LEMMA AmpleFetched ==
  ASSUME IInv, Once, PrpSlab >= MaxOut, Done("rx", "fetch"), stage[First("rx")] = "run",
         First("rx") \in Block
  PROVE  prps > 0
  <1> DEFINE b == First("rx")
  <1>1. Live(b) /\ b \in Block
    BY DEF Live
  <1>2. dma \in Channels /\ EntriesOK /\ OneCarries(dma)
    BY Types DEF IInv
  <1>3. dma["rx"] # <<>> /\ Head(dma["rx"]).kind = "fetch" /\ "rx" \in Chans /\ b = Head(dma["rx"]).block
    BY DEF Done, Chans, First
  <1>4. Len(dma["rx"]) \in Nat \ {0} /\ Head(dma["rx"]) = dma["rx"][1]
    BY <1>2, <1>3, PoppedFacts
  <1>5. 1 \in 1..Len(dma["rx"]) /\ dma["rx"][1].kind = "fetch" /\ dma["rx"][1].block = b
    BY <1>3, <1>4
  <1>6. \A k \in 1..Len(dma["rx"]) : EntryOK("rx", dma["rx"][k])
    BY <1>2, <1>3 DEF EntriesOK
  <1> HIDE DEF b
  <1>7. ASSUME NEW k \in 1..Len(dma["rx"]), dma["rx"][k].kind = "list", dma["rx"][k].block = b
        PROVE  FALSE
    <2>1. dma["rx"][k].last /\ dma["rx"][1].last
      BY <1>5, <1>6, <1>7 DEF EntryOK
    <2>2. k = 1
      BY <1>2, <1>3, <1>5, <1>7, <2>1 DEF OneCarries
    <2> QED
      BY <1>5, <1>7, <2>2
  <1> QED
    BY <1>1, <1>7, Ample

\* Nothing is queued for a command that has just been fetched.
LEMMA FetchedData ==
  ASSUME IInv, DatasOK, Done("rx", "fetch"), NEW b \in Block, NEW d \in Channels,
         b = First("rx"), d = Pop("rx"), Taken(d, b)
  PROVE  NoneOf(d, b) /\ Within(d, dma)
  <1>1. dma \in Channels /\ dma["rx"] # <<>> /\ Head(dma["rx"]).kind = "fetch" /\ b = Head(dma["rx"]).block
    BY Types DEF IInv, Done, First
  <1>2. Len(dma["rx"]) \in Nat \ {0} /\ Head(dma["rx"]) = dma["rx"][1]
    BY <1>1, PoppedFacts DEF Chans
  <1>3. 1 \in 1..Len(dma["rx"]) /\ "rx" \in Chans
    BY <1>2 DEF Chans
  <1>4. DataOK("rx", Head(dma["rx"]))
    BY <1>2, <1>3 DEF DatasOK
  <1>5. xfer[b].cb = "none"
    BY <1>1, <1>4 DEF DataOK
  <1> SUFFICES ASSUME NEW c \in Chans, NEW k \in 1..Len(d[c]), d[c][k].block = b
               PROVE  FALSE
    BY DEF NoneOf, Taken
  <1> QED
    BY <1>5, LeftOver

\* Nor for one whose last chunk is done.
LEMMA LastData ==
  ASSUME IInv, DatasOK, NEW c \in Chans, Done(c, "chunk"), Head(dma[c]).last,
         NEW b \in Block, NEW d \in Channels, b = First(c), d = Pop(c), Taken(d, b)
  PROVE  NoneOf(d, b) /\ Within(d, dma)
  <1>1. dma[c] # <<>> /\ Head(dma[c]).kind = "chunk" /\ b = Head(dma[c]).block
    BY DEF Done, First
  <1>2. /\ EntryOK(c, Head(dma[c]))
        /\ \A k \in 1..Len(d[c]) : d[c][k].kind = "chunk" => d[c][k].block # b
    BY <1>1, PopTaken
  <1>3. xfer[b].dir = c
    BY <1>1, <1>2 DEF EntryOK
  <1> SUFFICES ASSUME NEW f \in Chans, NEW k \in 1..Len(d[f]), d[f][k].block = b
               PROVE  FALSE
    BY DEF NoneOf, Taken
  <1>4. d[f][k].kind = "chunk" /\ xfer[b].dir = f
    BY LeftOver
  <1> QED
    BY <1>2, <1>3, <1>4

\* The completion of a command is queued when none of its entries is left.
LEMMA ReturnData ==
  ASSUME StateTypeOK, DatasOK, BufsOK, NEW b \in Block, cmd[b] \in Cmd, cmd' = cmd, xfer' = xfer, data' = data,
         NEW d \in Channels, Within(d, dma), NoneOf(d, b), Return(b, d)
  PROVE  DatasOK' /\ BufsOK' /\ SameOthers(b) /\ stage'[b] = "posted"
  <1>1. PICK t \in Transfers : t = Fetch("cq", b) /\ t.kind = "cq" /\ t.block = b
    BY EntryTypes
  <1>2. dma' = Put(d, "tx", t) /\ stage' = [stage EXCEPT ![b] = "posted"]
    BY <1>1 DEF Return, At
  <1>3. stage'[b] = "posted" /\ SameOthers(b)
    BY <1>2, Types DEF Stages, SameOthers
  <1>4. Adds(dma', d, {} \cup {<<"tx", t>>})
    BY <1>2, AddsSelf, AddsPut DEF Chans
  <1>5. DataOK("tx", t)'
    BY <1>1 DEF DataOK
  <1>6. \A p \in {} \cup {<<"tx", t>>} : DataOK(p[1], p[2])'
    BY <1>5
  <1>7. BufOK(b)'
    BY <1>3 DEF BufOK
  <1>8. DatasOK' /\ BufsOK'
    BY <1>3, <1>4, <1>6, <1>7, DataStepNone
  <1> QED
    BY <1>3, <1>8

\* The command is given to the APU, with its buffer if it has one, or dropped.
LEMMA SendData ==
  ASSUME StateTypeOK, DatasOK, BufsOK, NEW b \in Block, NEW d \in Channels, Within(d, dma), NoneOf(d, b), dma' = d,
         cmd' = cmd, xfer' = xfer, \A o \in Block \ {b} : data'[o] = data[o],
         At(b, "stuck") \/ (At(b, "apu") /\ (Buffered(b) => data'[b] # Null))
  PROVE  DatasOK' /\ BufsOK' /\ SameOthers(b) /\ stage'[b] \in {"stuck", "apu"}
  <1>1. stage \in [Block -> Stages]
    BY Types
  <1>2. \/ stage'[b] = "stuck"
        \/ stage'[b] = "apu" /\ (Buffered(b) => data'[b] # Null)
    BY <1>1 DEF At
  <1>3. SameOthers(b)
    BY <1>1 DEF At, SameOthers
  <1>4. Adds(dma', d, {})
    BY AddsSelf
  <1>5. Buffered(b)' <=> Buffered(b)
    BY DEF Buffered
  <1>6. BufOK(b)'
    BY <1>2, <1>5 DEF BufOK
  <1>7. DatasOK' /\ BufsOK'
    BY <1>3, <1>4, <1>6, DataStepNone
  <1> QED
    BY <1>2, <1>3, <1>7

\* A transfer is begun in interrupt context.
LEMMA TransferData ==
  ASSUME StateTypeOK, DatasOK, BufsOK, NEW b \in Block, NEW x \in Xfers,
         NEW d \in Channels, Within(d, dma), NoneOf(d, b),
         Transfer(b, x, d), x.len \in 1..3, x.cb # "none", prps > 0, stage[b] = "run", cmd[b] \in Cmd, cmd' = cmd,
         IF x.cb = "return" THEN x.buf = Disk /\ Kind[cmd[b]] # "vendorOdd"
         ELSE x.buf = data'[b] /\ (data'[b] = Null <=> Kind[cmd[b]] = "vendorOdd"),
         \A o \in Block \ {b} : data'[o] = data[o]
  PROVE  DatasOK' /\ BufsOK' /\ stage' = stage
  <1>1. xfer \in [Block -> Xfers]
    BY Types
  <1> DEFINE z == Rest(x)
  <1>2. z \in Xfers /\ z.cb = x.cb /\ z.buf = x.buf /\ z.dir = x.dir /\ x.dir \in Chans
    BY DEF Rest, Xfers, Wrap, Chans
  <1>3. PICK y \in Xfers : y = Rest(x) /\ y.cb = x.cb /\ y.buf = x.buf /\ y.dir = x.dir
    BY <1>2
  <1>4. xfer' = [xfer EXCEPT ![b] = y]
    <2>1. xfer' = [xfer EXCEPT ![b] = Rest(x)]
      BY TransferIs
    <2> QED
      BY <1>3, <2>1, Zenon
  <1>5. xfer'[b] = y /\ \A o \in Block \ {b} : xfer'[o] = xfer[o]
    BY <1>1, <1>4
  <1>6. PICK t1 \in Transfers :
          /\ t1 = LastChunk(b, x) /\ t1.kind = "chunk" /\ t1.block = b /\ t1.cmd = cmd[b] /\ t1.buf = x.buf
    BY ChunkIs
  <1>7. PICK t2 \in Transfers :
          /\ t2 = OtherChunk(b, x) /\ t2.kind = "chunk" /\ t2.block = b /\ t2.cmd = cmd[b] /\ t2.buf = x.buf
    BY ChunkIs
  <1>8. PICK t3 \in Transfers : t3 = Fetch("list", b) /\ t3.kind = "list" /\ t3.block = b
    BY EntryTypes
  <1> DEFINE e == Put(d, x.dir, t2)
  <1>9. /\ UNCHANGED stage
        /\ \/ dma' = Put(d, x.dir, t1)
           \/ dma' = Put(e, x.dir, t1)
           \/ dma' = Put(e, "rx", t3)
    <2>1. CASE x.len = 1
      BY <1>6, <2>1, TransferIs
    <2>2. CASE x.len = 2
      BY <1>6, <1>7, <2>2, TransferIs
    <2>3. CASE x.len = 3
      <3>1. ListOrReturn(b, e)
        BY <1>7, <2>3, TransferIs
      <3> HIDE DEF e
      <3>2. dma' = FetchList(b, e) /\ UNCHANGED stage
        BY <3>1 DEF ListOrReturn
      <3> QED
        BY <1>8, <3>2 DEF FetchList
    <2>4. x.len \in {1, 2, 3}
      OBVIOUS
    <2> QED
      BY <2>1, <2>2, <2>3, <2>4
  <1>10. SameOthers(b)
    BY <1>5, <1>9 DEF SameOthers
  <1>11. Adds(d, d, {})
    BY AddsSelf
  <1>12. e \in Channels /\ Adds(e, d, {} \cup {<<x.dir, t2>>})
    BY <1>2, <1>11, AddsPut
  <1> HIDE DEF e
  <1>13. ASSUME NEW t \in Transfers, t.kind = "chunk", t.block = b, t.cmd = cmd[b], t.buf = x.buf
         PROVE  DataOK(x.dir, t)'
    BY <1>3, <1>5, <1>9, <1>13 DEF DataOK
  <1>14. DataOK(x.dir, t1)' /\ DataOK(x.dir, t2)'
    BY <1>6, <1>7, <1>13
  <1>15. DataOK("rx", t3)'
    BY <1>8 DEF DataOK
  <1>16. BufOK(b)'
    <2>1. stage'[b] = "run" /\ cmd'[b] = cmd[b]
      BY <1>9
    <2> QED
      BY <1>3, <1>5, <2>1 DEF BufOK, Placing
  <1>17. CASE dma' = Put(d, x.dir, t1)
    <2>1. Adds(dma', d, {} \cup {<<x.dir, t1>>})
      BY <1>2, <1>11, <1>17, AddsPut
    <2>2. \A p \in {} \cup {<<x.dir, t1>>} : DataOK(p[1], p[2])'
      BY <1>14
    <2> QED
      BY <1>9, <1>10, <1>16, <2>1, <2>2, DataStepNone
  <1>18. CASE dma' = Put(e, x.dir, t1)
    <2>1. Adds(dma', d, {} \cup {<<x.dir, t2>>} \cup {<<x.dir, t1>>})
      BY <1>2, <1>12, <1>18, AddsPut
    <2>2. \A p \in {} \cup {<<x.dir, t2>>} \cup {<<x.dir, t1>>} : DataOK(p[1], p[2])'
      BY <1>14
    <2> QED
      BY <1>9, <1>10, <1>16, <2>1, <2>2, DataStepNone
  <1>19. CASE dma' = Put(e, "rx", t3)
    <2>1. Adds(dma', d, {} \cup {<<x.dir, t2>>} \cup {<<"rx", t3>>})
      BY <1>12, <1>19, AddsPut DEF Chans
    <2>2. \A p \in {} \cup {<<x.dir, t2>>} \cup {<<"rx", t3>>} : DataOK(p[1], p[2])'
      BY <1>14, <1>15
    <2> QED
      BY <1>9, <1>10, <1>16, <2>1, <2>2, DataStepNone
  <1> QED
    BY <1>9, <1>17, <1>18, <1>19

\* Once is kept by a step that leaves the queue alone and takes no block.
OnceKept == UNCHANGED <<cmd, outstanding, sq>> /\ \A o \in Block : Live(o)' => Live(o)

LEMMA OnceSame == ASSUME Once, OnceKept PROVE Once'
  <1>1. UNCHANGED <<cmd, outstanding, sq>> /\ \A o \in Block : Live(o)' => Live(o)
    BY DEF OnceKept
  <1>2. OnceInBlocks'
    BY <1>1 DEF Once, OnceInBlocks
  <1>3. OnceQueued'
    BY <1>1 DEF Once, OnceQueued
  <1>4. Bounded'
    BY <1>1 DEF Once, Bounded
  <1> QED
    BY <1>2, <1>3, <1>4 DEF Once

\* A step that changes the block b of a live command, and no answer.
LEMMA KeptBlock ==
  ASSUME IInv, AnswersOK, NEW b \in Block, stage[b] # "free",
         \A o \in Block \ {b} : stage'[o] = stage[o],
         UNCHANGED <<cmd, outstanding, sq>>,
         \A k \in 1..Len(replies') : \E j \in 1..Len(replies) : replies'[k] = replies[j]
  PROVE  AnswersOK' /\ OnceKept
  <1>1. OnceKept
    BY DEF OnceKept, Live
  <1>2. AnswersOK'
    BY AnswersKept
  <1> QED
    BY <1>1, <1>2

\* The context of a command that has been fetched.
LEMMA FetchedContext ==
  ASSUME IInv, DInv, Once, PrpSlab >= MaxOut, Done("rx", "fetch")
  PROVE  \E b \in Block, d \in Channels :
           /\ b = First("rx") /\ d = Pop("rx") /\ NoneOf(d, b) /\ Within(d, dma)
           /\ stage[b] = "run" /\ data[b] = Null /\ cmd[b] \in Cmd /\ prps > 0
  <1>1. PICK b \in Block, d \in Channels :
          /\ b = First("rx") /\ d = Pop("rx") /\ Taken(d, b)
          /\ stage[b] = "run" /\ data[b] = Null /\ cmd[b] \in Cmd
    BY FetchFacts
  <1>2. NoneOf(d, b) /\ Within(d, dma)
    BY <1>1, FetchedData DEF DInv
  <1>3. prps > 0
    BY <1>1, AmpleFetched
  <1> QED
    BY <1>1, <1>2, <1>3

\* HandleHere keeps the data in order.
LEMMA HandleHereData ==
  ASSUME IInv, DInv, Once, PrpSlab >= MaxOut, HandleHere
  PROVE  DInv' /\ OnceKept
  <1>1. PICK b \in Block, d \in Channels :
          /\ b = First("rx") /\ d = Pop("rx") /\ NoneOf(d, b) /\ Within(d, dma)
          /\ stage[b] = "run" /\ data[b] = Null /\ cmd[b] \in Cmd /\ prps > 0
    BY FetchedContext DEF HandleHere
  <1> DEFINE k == Kind[cmd[b]]
  <1>2. UNCHANGED <<outstanding, sq, cmd, replies>>
    BY DEF HandleHere
  <1>3. StateTypeOK /\ DatasOK /\ BufsOK /\ AnswersOK
    BY DEF IInv, DInv
  <1>4. \/ Return(b, d) /\ UNCHANGED <<xfer, data>>
        \/ /\ data' = data
           /\ k \in {"read", "write"}
           /\ Transfer(b, [len |-> Pages[cmd[b]], buf |-> Disk, cb |-> "return",
                           dir |-> IF k = "read" THEN "tx" ELSE "rx"], d)
    BY <1>1, Zenon DEF HandleHere
  <1>5. k \in {"read", "write"} => Kind[cmd[b]] # "vendorOdd"
    OBVIOUS
  <1> HIDE DEF k
  <1>6. CASE Return(b, d) /\ UNCHANGED <<xfer, data>>
    <2>1. DatasOK' /\ BufsOK' /\ SameOthers(b)
      BY <1>1, <1>2, <1>3, <1>6, ReturnData
    <2>2. \A o \in Block \ {b} : stage'[o] = stage[o]
      BY <2>1 DEF SameOthers
    <2> QED
      BY <1>1, <1>2, <1>3, <2>1, <2>2, KeptBlock DEF DInv
  <1>7. CASE /\ data' = data
             /\ k \in {"read", "write"}
             /\ Transfer(b, [len |-> Pages[cmd[b]], buf |-> Disk, cb |-> "return",
                             dir |-> IF k = "read" THEN "tx" ELSE "rx"], d)
    <2> DEFINE x == [len |-> Pages[cmd[b]], buf |-> Disk, cb |-> "return",
                     dir |-> IF k = "read" THEN "tx" ELSE "rx"]
    <2>1. x \in Xfers /\ x.len \in 1..3 /\ x.cb = "return" /\ x.buf = Disk
      BY <1>1, CmdAssumption DEF Xfers, Wrap
    <2>2. PICK z \in Xfers : z = x
      BY <2>1
    <2>3. Transfer(b, z, d) /\ data' = data
      BY <1>7, <2>2, Zenon
    <2>4. z.len \in 1..3 /\ z.cb = "return" /\ z.buf = Disk
      BY <2>1, <2>2
    <2> HIDE DEF x
    <2>5. Kind[cmd[b]] # "vendorOdd"
      BY <1>7, <1>5
    <2>6. DatasOK' /\ BufsOK' /\ stage' = stage
      BY <1>1, <1>2, <1>3, <2>3, <2>4, <2>5, TransferData
    <2> QED
      BY <1>1, <1>2, <1>3, <2>6, KeptBlock DEF DInv
  <1> QED
    BY <1>4, <1>6, <1>7

\* VendorNoBuffer keeps the data in order.
LEMMA VendorNoBufferData ==
  ASSUME IInv, DInv, Once, PrpSlab >= MaxOut, VendorNoBuffer
  PROVE  DInv' /\ OnceKept
  <1>1. PICK b \in Block, d \in Channels :
          /\ b = First("rx") /\ d = Pop("rx") /\ NoneOf(d, b) /\ Within(d, dma)
          /\ stage[b] = "run" /\ data[b] = Null /\ cmd[b] \in Cmd /\ prps > 0
    BY FetchedContext DEF VendorNoBuffer
  <1>2. At(b, "stuck") /\ dma' = d /\ UNCHANGED <<outstanding, sq, cmd, xfer, data, replies>>
    BY <1>1 DEF VendorNoBuffer
  <1>3. StateTypeOK /\ DatasOK /\ BufsOK /\ AnswersOK
    BY DEF IInv, DInv
  <1>4. DatasOK' /\ BufsOK' /\ SameOthers(b)
    BY <1>1, <1>2, <1>3, SendData
  <1>5. \A o \in Block \ {b} : stage'[o] = stage[o]
    BY <1>4 DEF SameOthers
  <1> QED
    BY <1>1, <1>2, <1>3, <1>4, <1>5, KeptBlock DEF DInv

\* A command that needs a buffer has one.
LEMMA VendorBufferData ==
  ASSUME StateTypeOK, NEW b \in Block, VendorBuffer(b), data[b] = Null
  PROVE  /\ \A o \in Block \ {b} : data'[o] = data[o]
         /\ Buffered(b) <=> data'[b] # Null
  <1>1. data \in Owners /\ pool \subseteq Buffer
    BY Types
  <1> DEFINE y == CHOOSE x \in pool : TRUE
  <1>2. \/ Buffered(b) /\ pool # {} /\ data' = [data EXCEPT ![b] = y]
        \/ ~Buffered(b) /\ data' = data
    BY Zenon DEF VendorBuffer
  <1>3. pool # {} => y \in pool
    BY Zenon
  <1> HIDE DEF y
  <1>4. pool # {} => y # Null
    BY <1>1, <1>3, ResourceAssumption
  <1> QED
    BY <1>1, <1>2, <1>4 DEF Owners

\* VendorSend keeps the data in order.
LEMMA VendorSendData ==
  ASSUME IInv, DInv, Once, PrpSlab >= MaxOut, VendorSend
  PROVE  DInv' /\ OnceKept
  <1>1. PICK b \in Block, d \in Channels :
          /\ b = First("rx") /\ d = Pop("rx") /\ NoneOf(d, b) /\ Within(d, dma)
          /\ stage[b] = "run" /\ data[b] = Null /\ cmd[b] \in Cmd /\ prps > 0
    BY FetchedContext DEF VendorSend
  <1>2. /\ VendorBuffer(b) /\ Send(b, d)
        /\ UNCHANGED <<outstanding, sq, cmd, xfer, replies>>
    BY <1>1 DEF VendorSend
  <1>3. StateTypeOK /\ DatasOK /\ BufsOK /\ AnswersOK
    BY DEF IInv, DInv
  <1>4. (\A o \in Block \ {b} : data'[o] = data[o]) /\ (Buffered(b) => data'[b] # Null)
    BY <1>1, <1>2, <1>3, VendorBufferData
  <1>5. dma' = d /\ (At(b, "apu") \/ At(b, "stuck"))
    BY <1>2 DEF Send
  <1>6. DatasOK' /\ BufsOK' /\ SameOthers(b)
    BY <1>1, <1>2, <1>3, <1>4, <1>5, SendData
  <1>7. \A o \in Block \ {b} : stage'[o] = stage[o]
    BY <1>6 DEF SameOthers
  <1> QED
    BY <1>1, <1>2, <1>3, <1>6, <1>7, KeptBlock DEF DInv

\* VendorTransfer keeps the data in order.
LEMMA VendorTransferData ==
  ASSUME IInv, DInv, Once, PrpSlab >= MaxOut, VendorTransfer
  PROVE  DInv' /\ OnceKept
  <1>1. PICK b \in Block, d \in Channels :
          /\ b = First("rx") /\ d = Pop("rx") /\ NoneOf(d, b) /\ Within(d, dma)
          /\ stage[b] = "run" /\ data[b] = Null /\ cmd[b] \in Cmd /\ prps > 0
    BY FetchedContext DEF VendorTransfer
  <1> DEFINE r == [len |-> Pages[cmd[b]], buf |-> data'[b], cb |-> "vendor", dir |-> "rx"]
  <1>2. /\ Kind[cmd[b]] \in {"vendorIn", "vendorOdd"} /\ VendorBuffer(b)
        /\ UNCHANGED <<outstanding, sq, cmd, replies>>
        /\ \/ Transfer(b, r, d)
           \/ At(b, "stuck") /\ dma' = d /\ xfer' = xfer
    BY <1>1, Zenon DEF VendorTransfer
  <1>3. StateTypeOK /\ DatasOK /\ BufsOK /\ AnswersOK /\ IInv
    BY DEF IInv, DInv
  <1>4. (\A o \in Block \ {b} : data'[o] = data[o]) /\ (Buffered(b) <=> data'[b] # Null)
    BY <1>1, <1>2, <1>3, VendorBufferData
  <1>5. data' \in Owners
    BY <1>1, <1>2, <1>3, VendorBufferStep
  <1>6. CASE Transfer(b, r, d)
    <2>1. r \in Xfers /\ r.len \in 1..3 /\ r.cb = "vendor" /\ r.buf = data'[b]
      BY <1>1, <1>5, CmdAssumption DEF Xfers, Wrap, Owners
    <2>2. PICK z \in Xfers : z = r
      BY <2>1
    <2>3. Transfer(b, z, d) /\ z.len \in 1..3 /\ z.cb = "vendor" /\ z.buf = data'[b]
      BY <1>6, <2>1, <2>2
    <2> HIDE DEF r
    <2>4. data'[b] = Null <=> Kind[cmd[b]] = "vendorOdd"
      BY <1>2, <1>4 DEF Buffered
    <2>5. DatasOK' /\ BufsOK' /\ stage' = stage
      BY <1>1, <1>2, <1>3, <1>4, <2>3, <2>4, TransferData
    <2> QED
      BY <1>1, <1>2, <1>3, <2>5, KeptBlock DEF DInv
  <1>7. CASE At(b, "stuck") /\ dma' = d /\ xfer' = xfer
    <2>1. DatasOK' /\ BufsOK' /\ SameOthers(b)
      BY <1>1, <1>2, <1>3, <1>4, <1>7, SendData
    <2>2. \A o \in Block \ {b} : stage'[o] = stage[o]
      BY <2>1 DEF SameOthers
    <2> QED
      BY <1>1, <1>2, <1>3, <2>1, <2>2, KeptBlock DEF DInv
  <1> QED
    BY <1>2, <1>6, <1>7

\* Nothing is queued and no block concerned.
LEMMA DataSame ==
  ASSUME IInv, DInv, Within(dma', dma), UNCHANGED <<cmd, stage, xfer, data, replies>>
  PROVE  DInv'
  <1>1. DatasOK'
    <2> SUFFICES ASSUME NEW c \in Chans, NEW k \in 1..Len(dma'[c]), NEW t, t = dma'[c][k]
                 PROVE  DataOK(c, t)'
      BY DEF DatasOK
    <2>1. PICK j \in 1..Len(dma[c]) : dma'[c][k] = dma[c][j]
      BY DEF Within
    <2>2. DataOK(c, t)
      BY <2>1 DEF DInv, DatasOK
    <2> QED
      BY <2>2 DEF DataOK
  <1>2. BufsOK'
    BY DEF DInv, BufsOK, BufOK, Placing, Buffered
  <1>3. AnswersOK'
    BY DEF DInv, AnswersOK
  <1> QED
    BY <1>1, <1>2, <1>3 DEF DInv

\* Nor anything taken off.
LEMMA DataIdle ==
  ASSUME IInv, DInv, UNCHANGED <<cmd, stage, xfer, data, replies, dma>>
  PROVE  DInv'
  <1>1. Within(dma', dma)
    BY DEF Within
  <1> QED
    BY <1>1, DataSame

\* ChunkDone keeps the data in order.
LEMMA ChunkDoneData ==
  ASSUME IInv, DInv, NEW c \in Chans, ChunkDone(c)
  PROVE  DInv' /\ OnceKept
  <1>1. /\ dma[c] # <<>> /\ dma' = Popped(dma, c)
        /\ UNCHANGED <<outstanding, sq, cmd, stage, xfer, data, replies>>
    BY DEF ChunkDone, Done, Pop, Popped
  <1>2. Orderly(dma)
    BY Types DEF IInv, Orderly
  <1>3. Within(dma', dma)
    BY <1>1, <1>2, PoppedOrderly
  <1>4. DInv'
    BY <1>1, <1>3, DataSame
  <1>5. OnceKept
    BY <1>1 DEF OnceKept, Live
  <1> QED
    BY <1>4, <1>5

\* DataDone keeps the data in order.
LEMMA DataDoneData ==
  ASSUME IInv, DInv, NEW c \in Chans, DataDone(c)
  PROVE  DInv' /\ OnceKept
  <1>1. Done(c, "chunk") /\ Head(dma[c]).last
    BY DEF DataDone
  <1>2. PICK b \in Block, d \in Channels :
           /\ b = First(c) /\ d = Pop(c) /\ Taken(d, b)
           /\ stage[b] = "run" /\ cmd[b] \in Cmd /\ xfer[b].cb \in {"return", "vendor", "rpmsg"}
    BY <1>1, LastFacts
  <1>3. StateTypeOK /\ DatasOK /\ BufsOK /\ AnswersOK
    BY DEF IInv, DInv
  <1>4. NoneOf(d, b) /\ Within(d, dma)
    BY <1>1, <1>2, <1>3, LastData
  <1>5. UNCHANGED <<outstanding, sq, cmd, xfer, replies>> /\ data' = data
    BY DEF DataDone
  <1>6. (xfer[b].cb = "vendor" /\ Send(b, d)) \/ Return(b, d)
    BY <1>2 DEF DataDone
  <1>7. DatasOK' /\ BufsOK' /\ SameOthers(b)
    <2>1. CASE Return(b, d)
      BY <1>2, <1>3, <1>4, <1>5, <2>1, ReturnData
    <2>2. CASE xfer[b].cb = "vendor" /\ Send(b, d)
      <3>1. dma' = d /\ (At(b, "apu") \/ At(b, "stuck"))
        BY <2>2 DEF Send
      <3>2. BufOK(b)
        BY <1>3 DEF BufsOK
      <3>3. Buffered(b) => data'[b] # Null
        BY <1>2, <1>5, <2>2, <3>2 DEF BufOK, Placing, Buffered
      <3> QED
        BY <1>2, <1>3, <1>4, <1>5, <3>1, <3>3, SendData
    <2> QED
      BY <1>6, <2>1, <2>2
  <1>8. \A o \in Block \ {b} : stage'[o] = stage[o]
    BY <1>7 DEF SameOthers
  <1> QED
    BY <1>2, <1>3, <1>5, <1>7, <1>8, KeptBlock DEF DInv

\* ListDone keeps the data in order: the chunks are of the transfer that asked for
\* the list.
LEMMA ListDoneData ==
  ASSUME IInv, DInv, NEW c \in Chans, ListDone(c)
  PROVE  DInv' /\ OnceKept
  <1> DEFINE h == Head(dma[c])
  <1>1. dma[c] # <<>> /\ h.kind = "list" /\ First(c) = h.block
    BY Zenon DEF ListDone, Done, First
  <1>2. /\ EntriesOK /\ BlocksOK /\ StateTypeOK /\ dma \in Channels /\ xfer \in [Block -> Xfers]
        /\ DatasOK /\ BufsOK /\ AnswersOK
    BY Types DEF IInv, DInv
  <1>3. EntryOK(c, h)
    <2>1. Len(dma[c]) \in Nat \ {0} /\ h = dma[c][1]
      BY <1>1, <1>2, PoppedFacts
    <2>2. 1 \in 1..Len(dma[c])
      BY <2>1
    <2> QED
      BY <1>2, <2>1, <2>2 DEF EntriesOK
  <1>4. h.last
    BY <1>1, <1>3 DEF EntryOK
  <1>5. PICK b \in Block, d \in Channels : b = First(c) /\ d = Pop(c) /\ Taken(d, b)
    <2>1. Taken(Pop(c), First(c)) /\ First(c) \in Block
      BY <1>1, <1>4, PopTaken
    <2> QED
      BY <2>1 DEF Taken, Orderly
  <1>6. stage[b] = "run" /\ xfer[b].len = 2 /\ xfer[b].cb # "none"
    BY <1>1, <1>3, <1>5 DEF EntryOK
  <1>7. cmd[b] \in Cmd
    BY <1>2, <1>6 DEF BlocksOK, BlockOK
  <1>8. PICK x \in Xfers : x = xfer[b]
    BY <1>2
  <1>9. PICK y \in Xfers : /\ y = [x EXCEPT !.len = 0] /\ y.buf = x.buf /\ y.cb = x.cb /\ y.dir = x.dir
    <2> DEFINE z == [x EXCEPT !.len = 0]
    <2>1. z \in Xfers
      BY DEF Xfers, Wrap
    <2>2. z.buf = x.buf /\ z.cb = x.cb /\ z.dir = x.dir
      BY DEF Xfers
    <2> QED
      BY <2>1, <2>2
  <1>10. /\ dma' = PutList(d, x.dir, b, x) /\ xfer' = [xfer EXCEPT ![b].len = 0]
         /\ UNCHANGED <<outstanding, sq, cmd, stage, data, replies>>
    BY <1>5, <1>8, Zenon DEF ListDone, ListChunks, PutList
  <1>11. xfer' = [xfer EXCEPT ![b] = y]
    BY <1>2, <1>8, <1>9, <1>10
  <1>12. xfer'[b] = y /\ \A o \in Block \ {b} : xfer'[o] = xfer[o]
    BY <1>2, <1>11
  <1>13. x.dir \in Chans /\ x.len = 2
    BY <1>6, <1>8 DEF Xfers, Chans
  <1>14. PICK p \in Transfers :
           /\ p = OtherChunk(b, x) /\ p.kind = "chunk" /\ p.block = b /\ p.cmd = cmd[b] /\ p.buf = x.buf
    BY <1>7, ChunkIs
  <1>15. PICK q \in Transfers :
           /\ q = LastChunk(b, x) /\ q.kind = "chunk" /\ q.block = b /\ q.cmd = cmd[b] /\ q.buf = x.buf
    BY <1>7, ChunkIs
  <1> DEFINE e == Put(d, x.dir, p)
  <1>16. dma' = Put(e, x.dir, q)
    <2>1. PutList(d, x.dir, b, x) =
            Put(Put(d, x.dir, OtherChunk(b, x)), x.dir, LastChunk(b, x))
      BY <1>13, PutTwo
    <2> QED
      BY <1>10, <1>14, <1>15, <2>1, Zenon
  <1>17. e \in Channels /\ Adds(e, d, {} \cup {<<x.dir, p>>})
    BY <1>13, AddsSelf, AddsPut
  <1> HIDE DEF e, h
  <1>18. Adds(dma', d, {} \cup {<<x.dir, p>>} \cup {<<x.dir, q>>})
    BY <1>13, <1>16, <1>17, AddsPut
  <1>19. ASSUME NEW t, t.kind = "chunk", t.block = b, t.cmd = cmd[b], t.buf = x.buf
         PROVE  DataOK(x.dir, t)'
    <2>1. stage'[b] = "run" /\ cmd'[b] = cmd[b] /\ xfer'[b].buf = x.buf /\ xfer'[b].cb # "none"
          /\ xfer'[b].dir = x.dir
      BY <1>6, <1>8, <1>9, <1>10, <1>12
    <2> QED
      BY <1>19, <2>1 DEF DataOK
  <1>20. \A r \in {} \cup {<<x.dir, p>>} \cup {<<x.dir, q>>} : DataOK(r[1], r[2])'
    BY <1>14, <1>15, <1>19
  <1>21. ASSUME NEW f \in Chans, NEW k \in 1..Len(d[f]), NEW t, t = d[f][k], t.block = b
         PROVE  DataOK(f, t)'
    <2>1. t.kind = "chunk" /\ DataOK(f, t) /\ xfer[b].dir = f
      BY <1>2, <1>5, <1>21, LeftOver
    <2>2. t.cmd = cmd[b] /\ t.buf = x.buf
      BY <1>8, <1>21, <2>1 DEF DataOK
    <2> QED
      BY <1>8, <1>19, <1>21, <2>1, <2>2
  <1>22. \A f \in Chans : \A k \in 1..Len(d[f]) : d[f][k].block = b => DataOK(f, d[f][k])'
    BY <1>21
  <1>23. SameOthers(b)
    BY <1>10, <1>12 DEF SameOthers
  <1>24. BufOK(b)'
    <2>1. BufOK(b)
      BY <1>2 DEF BufsOK
    <2>2. Placing(b)
      BY <1>6, <2>1 DEF BufOK
    <2>3. Placing(b)'
      BY <1>8, <1>9, <1>10, <1>12, <2>2 DEF Placing
    <2> QED
      BY <1>6, <1>10, <2>3 DEF BufOK
  <1>25. DatasOK' /\ BufsOK'
    BY <1>2, <1>5, <1>18, <1>20, <1>22, <1>23, <1>24, DataStep DEF Taken
  <1> QED
    BY <1>2, <1>6, <1>10, <1>25, KeptBlock DEF DInv

\* CqCb keeps the data in order, and the command has left its block when the host
\* may use its name again.
LEMMA CqCbData ==
  ASSUME IInv, DInv, Once, CqCb
  PROVE  DInv' /\ Once'
  <1> DEFINE h == Head(dma["tx"])
  <1>1. dma["tx"] # <<>> /\ h.kind = "cq" /\ First("tx") = h.block /\ "tx" \in Chans
    BY DEF CqCb, Done, First, Chans
  <1>2. /\ EntriesOK /\ StateTypeOK /\ dma \in Channels /\ stage \in [Block -> Stages]
        /\ DatasOK /\ BufsOK /\ AnswersOK
    BY Types DEF IInv, DInv
  <1>3. EntryOK("tx", h)
    <2>1. Len(dma["tx"]) \in Nat \ {0} /\ h = dma["tx"][1]
      BY <1>1, <1>2, PoppedFacts
    <2>2. 1 \in 1..Len(dma["tx"])
      BY <2>1
    <2> QED
      BY <1>1, <1>2, <2>1, <2>2 DEF EntriesOK
  <1>4. h.last
    BY <1>1, <1>3 DEF EntryOK
  <1>5. PICK b \in Block, d \in Channels : b = First("tx") /\ d = Pop("tx") /\ Taken(d, b)
    <2>1. Taken(Pop("tx"), First("tx")) /\ First("tx") \in Block
      BY <1>1, <1>4, PopTaken
    <2> QED
      BY <2>1 DEF Taken, Orderly
  <1>6. stage[b] = "posted" /\ h.cmd = cmd[b]
    BY <1>1, <1>3, <1>4, <1>5 DEF EntryOK
  <1>7. /\ dma' = d /\ outstanding' = outstanding \ {cmd[b]} /\ stage' = [stage EXCEPT ![b] = "free"]
        /\ UNCHANGED <<sq, cmd, xfer, data, replies>>
    BY <1>5, <1>6 DEF CqCb, At
  <1> HIDE DEF h
  <1>8. stage'[b] = "free" /\ \A o \in Block \ {b} : stage'[o] = stage[o]
    BY <1>2, <1>7
  <1>9. SameOthers(b)
    BY <1>7, <1>8 DEF SameOthers
  <1>10. NoneOf(d, b)
    <2> SUFFICES ASSUME NEW c \in Chans, NEW k \in 1..Len(d[c]), d[c][k].block = b
                 PROVE  FALSE
      BY DEF NoneOf
    <2> QED
      BY <1>2, <1>5, <1>6, LeftOver
  <1>11. Adds(dma', d, {}) /\ \A p \in {} : DataOK(p[1], p[2])'
    BY <1>7, AddsSelf
  <1>12. BufOK(b)'
    BY <1>8 DEF BufOK
  <1>13. DatasOK' /\ BufsOK'
    BY <1>2, <1>5, <1>9, <1>10, <1>11, <1>12, DataStepNone DEF Taken
  <1>14. AnswersOK'
    BY <1>2, <1>7, AnswersKept
  <1>15. Live(b) /\ ~Live(b)' /\ \A o \in Block \ {b} : Live(o)' <=> Live(o)
    BY <1>6, <1>8 DEF Live
  <1>16. OnceInBlocks'
    BY <1>7, <1>15 DEF Once, OnceInBlocks
  <1>17. OnceQueued'
    BY <1>7, <1>15 DEF Once, OnceQueued
  <1>18. Bounded'
    <2>1. IsFiniteSet(outstanding) /\ Cardinality(outstanding) \in Nat /\ Cardinality(outstanding) <= MaxOut
      BY FS_CardinalityType DEF Once, Bounded
    <2>2. /\ IsFiniteSet(outstanding \ {cmd[b]})
          /\ Cardinality(outstanding \ {cmd[b]}) =
               IF cmd[b] \in outstanding THEN Cardinality(outstanding) - 1 ELSE Cardinality(outstanding)
      BY <2>1, FS_RemoveElement
    <2> QED
      BY <1>7, <2>1, <2>2, ResourceAssumption DEF Bounded
  <1> QED
    BY <1>13, <1>14, <1>16, <1>17, <1>18 DEF DInv, Once

\* ApuReply keeps the data in order.
LEMMA ApuReplyData ==
  ASSUME IInv, DInv, NEW b \in Block, ApuReply(b)
  PROVE  DInv' /\ OnceKept
  <1>1. /\ stage[b] = "apu" /\ stage' = [stage EXCEPT ![b] = "replied"]
        /\ UNCHANGED <<outstanding, sq, cmd, xfer, data, dma>>
    BY DEF ApuReply, At
  <1>2. /\ StateTypeOK /\ stage \in [Block -> Stages] /\ replies \in Seq(Answers) /\ RepliesOK
        /\ DatasOK /\ BufsOK /\ AnswersOK /\ data \in Owners /\ BlocksOK
    BY Types DEF IInv, DInv
  <1>3. stage'[b] = "replied" /\ \A o \in Block \ {b} : stage'[o] = stage[o]
    BY <1>1, <1>2
  <1>4. SameOthers(b)
    BY <1>1, <1>3 DEF SameOthers
  <1>5. NoneOf(dma, b)
    BY <1>1, <1>2, NoneAtRest
  <1>6. Adds(dma', dma, {}) /\ Within(dma, dma) /\ \A p \in {} : DataOK(p[1], p[2])'
    BY <1>1, AddsSelf DEF Within
  <1>7. BufOK(b)'
    <2>1. BufOK(b) /\ (Buffered(b)' <=> Buffered(b))
      BY <1>1, <1>2 DEF BufsOK, Buffered
    <2> QED
      BY <1>1, <1>3, <2>1 DEF BufOK
  <1>8. DatasOK' /\ BufsOK'
    BY <1>2, <1>4, <1>5, <1>6, <1>7, DataStepNone
  <1>9. PICK m \in Answers : /\ replies' = Append(replies, m) /\ m.block = b
                             /\ m.id = "return_data" => Kind[cmd[b]] = "vendorOut"
    <2>1. PICK id \in {"return", "return_data"} :
            /\ replies' = Append(replies, [id |-> id, block |-> b, buf |-> data[b], len |-> Pages[cmd[b]]])
            /\ id = "return_data" => Kind[cmd[b]] = "vendorOut"
      BY DEF ApuReply
    <2> DEFINE r == [id |-> id, block |-> b, buf |-> data[b], len |-> Pages[cmd[b]]]
    <2>2. cmd[b] \in Cmd
      BY <1>1, <1>2 DEF BlocksOK, BlockOK
    <2>3. r \in Answers
      BY <1>2, <2>2, CmdAssumption DEF Answers, Owners
    <2>4. r.block = b /\ r.id = id
      OBVIOUS
    <2> QED
      BY <2>1, <2>3, <2>4
  <1>10. /\ Len(replies') = Len(replies) + 1 /\ Len(replies) \in Nat
         /\ replies'[Len(replies) + 1] = m
         /\ \A k \in 1..Len(replies) : replies'[k] = replies[k]
    BY <1>2, <1>9
  <1>11. AnswersOK'
    <2> SUFFICES ASSUME NEW k \in 1..Len(replies'), replies'[k].id = "return_data"
                 PROVE  Kind[cmd[replies'[k].block]] = "vendorOut"
      BY <1>1 DEF AnswersOK
    <2>1. CASE k \in 1..Len(replies)
      BY <1>2, <1>10, <2>1 DEF AnswersOK
    <2>2. CASE k = Len(replies) + 1
      BY <1>9, <1>10, <2>2
    <2> QED
      BY <1>10, <2>1, <2>2
  <1>12. OnceKept
    BY <1>1, <1>3 DEF OnceKept, Live
  <1> QED
    BY <1>8, <1>11, <1>12 DEF DInv

\* What the main thread receives, and what remains of the answers.
LEMMA ReceiveData ==
  ASSUME IInv, DInv, NEW id, Receive(id)
  PROVE  \E b \in Block, m \in Answers :
           /\ m = Head(replies) /\ b = m.block /\ m.buf = data[b] /\ stage[b] = "replied" /\ cmd[b] \in Cmd
           /\ id = "return_data" => Kind[cmd[b]] = "vendorOut"
           /\ NoneOf(dma, b) /\ Within(dma, dma)
           /\ \A k \in 1..Len(replies') : \E j \in 1..Len(replies) : replies'[k] = replies[j]
  <1>1. PICK b \in Block, m \in Answers :
           /\ m = Head(replies) /\ b = m.block /\ m.buf = data[b]
           /\ stage[b] = "replied" /\ cmd[b] \in Cmd
    BY ReceiveFacts
  <1>2. replies # <<>> /\ replies' = Tail(replies) /\ m.id = id
    BY <1>1 DEF Receive
  <1>3. replies \in Seq(Answers)
    BY Types DEF IInv
  <1>4. Len(replies) \in Nat \ {0}
    BY <1>2, <1>3, EmptySeq
  <1>5. /\ Len(replies') = Len(replies) - 1 /\ m = replies[1]
        /\ \A k \in 1..Len(replies') : replies'[k] = replies[k + 1]
    BY <1>1, <1>2, <1>3, <1>4
  <1>6. \A k \in 1..Len(replies') : k + 1 \in 1..Len(replies) /\ replies'[k] = replies[k + 1]
    BY <1>4, <1>5
  <1>7. 1 \in 1..Len(replies)
    BY <1>4
  <1>8. id = "return_data" => Kind[cmd[b]] = "vendorOut"
    BY <1>1, <1>2, <1>5, <1>7 DEF DInv, AnswersOK
  <1>9. NoneOf(dma, b) /\ Within(dma, dma)
    BY <1>1, NoneAtRest DEF DInv, Within
  <1> QED
    BY <1>1, <1>6, <1>8, <1>9

\* The main thread completes a command: ThreadReturn and ThreadBadPsdt.
LEMMA ThreadReturnData ==
  ASSUME IInv, DInv, ThreadReturn \/ ThreadBadPsdt
  PROVE  DInv' /\ OnceKept
  <1>1. PICK id \in {"return", "return_data"} : Receive(id)
    BY DEF ThreadReturn, ThreadBadPsdt
  <1>2. PICK b \in Block, m \in Answers :
           /\ m = Head(replies) /\ b = m.block /\ m.buf = data[b] /\ stage[b] = "replied" /\ cmd[b] \in Cmd
           /\ NoneOf(dma, b) /\ Within(dma, dma)
           /\ \A k \in 1..Len(replies') : \E j \in 1..Len(replies) : replies'[k] = replies[j]
    BY <1>1, ReceiveData
  <1>3. Return(b, dma) /\ UNCHANGED <<outstanding, sq, cmd, xfer, data>>
    BY <1>2 DEF ThreadReturn, ThreadBadPsdt
  <1>4. StateTypeOK /\ DatasOK /\ BufsOK /\ AnswersOK /\ dma \in Channels
    BY Types DEF IInv, DInv
  <1>5. DatasOK' /\ BufsOK' /\ SameOthers(b)
    BY <1>2, <1>3, <1>4, ReturnData
  <1>6. \A o \in Block \ {b} : stage'[o] = stage[o]
    BY <1>5 DEF SameOthers
  <1> QED
    BY <1>2, <1>3, <1>4, <1>5, <1>6, KeptBlock DEF DInv

\* ThreadFirstChunk keeps the data in order: a command with data for the host has
\* the buffer that the answer names.
LEMMA ThreadFirstChunkData ==
  ASSUME IInv, DInv, ThreadFirstChunk
  PROVE  DInv' /\ OnceKept
  <1>1. PICK b \in Block, m \in Answers :
           /\ m = Head(replies) /\ b = m.block /\ m.buf = data[b] /\ stage[b] = "replied" /\ cmd[b] \in Cmd
           /\ Kind[cmd[b]] = "vendorOut"
           /\ NoneOf(dma, b) /\ Within(dma, dma)
           /\ \A k \in 1..Len(replies') : \E j \in 1..Len(replies) : replies'[k] = replies[j]
    BY ReceiveData DEF ThreadFirstChunk
  <1> DEFINE r == [len |-> m.len, buf |-> m.buf, cb |-> "rpmsg", dir |-> "tx"]
  <1>2. /\ xfer' = [xfer EXCEPT ![b] = r] /\ dma' = Put(dma, "tx", Chunk(b, r, r.len = 1))
        /\ At(b, "run")
        /\ UNCHANGED <<outstanding, sq, cmd, data>>
    BY <1>1, Zenon DEF ThreadFirstChunk
  <1>3. /\ StateTypeOK /\ xfer \in [Block -> Xfers] /\ stage \in [Block -> Stages] /\ dma \in Channels
        /\ DatasOK /\ BufsOK /\ AnswersOK
    BY Types DEF IInv, DInv
  <1>4. /\ r \in Xfers /\ r.buf = data[b] /\ r.cb = "rpmsg" /\ r.dir = "tx"
    BY <1>1 DEF Answers, Xfers, Wrap
  <1>5. PICK x \in Xfers : x = r
    BY <1>4
  <1>6. x.buf = data[b] /\ x.cb = "rpmsg" /\ x.dir = "tx"
    BY <1>4, <1>5
  <1>7. xfer' = [xfer EXCEPT ![b] = x] /\ dma' = Put(dma, "tx", Chunk(b, x, x.len = 1))
    BY <1>2, <1>5, Zenon
  <1> HIDE DEF r
  <1>8. PICK t \in Transfers :
          /\ dma' = Put(dma, "tx", t)
          /\ t.kind = "chunk" /\ t.block = b /\ t.cmd = cmd[b] /\ t.buf = x.buf
    <2> DEFINE u == Chunk(b, x, x.len = 1)
    <2>1. (x.len = 1 => u = LastChunk(b, x)) /\ (x.len # 1 => u = OtherChunk(b, x))
      BY DEF Chunk, LastChunk, OtherChunk
    <2>2. dma' = Put(dma, "tx", u)
      BY <1>7, Zenon
    <2> HIDE DEF u
    <2> QED
      BY <1>1, <2>1, <2>2, ChunkIs
  <1>9. stage'[b] = "run" /\ \A o \in Block \ {b} : stage'[o] = stage[o]
    BY <1>2, <1>3 DEF At
  <1>10. xfer'[b] = x /\ \A o \in Block \ {b} : xfer'[o] = xfer[o]
    BY <1>3, <1>7
  <1>11. SameOthers(b)
    BY <1>2, <1>9, <1>10 DEF SameOthers
  <1>12. Adds(dma', dma, {} \cup {<<"tx", t>>})
    BY <1>3, <1>8, AddsSelf, AddsPut DEF Chans
  <1>13. DataOK("tx", t)'
    BY <1>2, <1>6, <1>8, <1>9, <1>10 DEF DataOK
  <1>14. \A p \in {} \cup {<<"tx", t>>} : DataOK(p[1], p[2])'
    BY <1>13
  <1>15. BufOK(b)'
    <2>1. BufOK(b)
      BY <1>3 DEF BufsOK
    <2>2. data[b] # Null
      BY <1>1, <2>1 DEF BufOK, Buffered
    <2>3. cmd'[b] = cmd[b] /\ data'[b] = data[b] /\ Kind[cmd[b]] # "vendorOdd"
      BY <1>1, <1>2
    <2>4. Placing(b)'
      BY <1>6, <1>10, <2>2, <2>3 DEF Placing
    <2> QED
      BY <1>9, <2>4 DEF BufOK
  <1>16. DatasOK' /\ BufsOK'
    BY <1>1, <1>3, <1>11, <1>12, <1>14, <1>15, DataStepNone
  <1> QED
    BY <1>1, <1>2, <1>3, <1>9, <1>16, KeptBlock DEF DInv

\* The main thread counts a chunk: of the transfer only the length changes.
LEMMA ThreadCountData ==
  ASSUME IInv, DInv, ThreadCount
  PROVE  DInv' /\ OnceKept
  <1>1. ThreadOK /\ xfer \in [Block -> Xfers] /\ StateTypeOK /\ DatasOK /\ BufsOK /\ AnswersOK
    BY ThreadContext DEF DInv
  <1>2. /\ thread.pc \in {"count", "count2"}
        /\ xfer' = [xfer EXCEPT ![thread.block].len = (@ - 1) % Wrap]
        /\ UNCHANGED <<outstanding, sq, cmd, stage, data, dma, replies>>
    BY Zenon DEF ThreadCount
  <1>3. PICK b \in Block : b = thread.block
    BY <1>1, <1>2 DEF ThreadOK
  <1>4. PICK x \in Xfers : x = xfer[b]
    BY <1>1
  <1> DEFINE z == [x EXCEPT !.len = (x.len - 1) % Wrap]
  <1>5. xfer' = [xfer EXCEPT ![b] = z]
    BY <1>2, <1>3, <1>4
  <1>6. xfer'[b] = z /\ \A o \in Block \ {b} : xfer'[o] = xfer[o]
    BY <1>1, <1>5
  <1>7. z.buf = x.buf /\ z.cb = x.cb /\ z.dir = x.dir
    BY DEF Xfers
  <1>8. \A o \in Block : /\ xfer'[o].buf = xfer[o].buf /\ xfer'[o].cb = xfer[o].cb
                         /\ xfer'[o].dir = xfer[o].dir
    BY <1>4, <1>6, <1>7
  <1>9. DatasOK'
    <2> SUFFICES ASSUME NEW c \in Chans, NEW k \in 1..Len(dma[c]), NEW t, t = dma[c][k]
                 PROVE  DataOK(c, t)'
      BY <1>2 DEF DatasOK
    <2>1. DataOK(c, t)
      BY <1>1 DEF DatasOK
    <2>2. t \in Transfers
      BY <1>1, Types DEF Channels
    <2>3. t.block \in Block
      BY <2>2 DEF Transfers
    <2> QED
      BY <1>2, <1>8, <2>1, <2>3 DEF DataOK
  <1>10. BufsOK'
    BY <1>1, <1>2, <1>8 DEF BufsOK, BufOK, Placing, Buffered
  <1>11. AnswersOK'
    BY <1>1, <1>2 DEF AnswersOK
  <1>12. OnceKept
    BY <1>2 DEF OnceKept, Live
  <1> QED
    BY <1>9, <1>10, <1>11, <1>12 DEF DInv

\* The main thread queues an entry t for the command it works on: the chunk in PRP2,
\* or a list, for which prp_slab has room.
LEMMA ThreadQueueData ==
  ASSUME IInv, DInv, Once, PrpSlab >= MaxOut, ThreadSecondChunk \/ ThreadList
  PROVE  DInv' /\ OnceKept
  <1>1. /\ StateTypeOK /\ ThreadOK /\ dma \in Channels /\ DatasOK /\ BufsOK /\ AnswersOK
    BY ThreadContext DEF DInv
  <1>2. Working
    <2>1. CASE ThreadSecondChunk
      BY <2>1 DEF ThreadSecondChunk, Working
    <2>2. CASE ThreadList
      <3>1. thread.pc = "test" /\ xfer[thread.block].len > 1
        BY <2>2 DEF ThreadList
      <3>2. xfer[thread.block].len = 2
        BY <1>1, <3>1 DEF ThreadOK
      <3> QED
        BY <3>1, <3>2 DEF Working
    <2> QED
      BY <2>1, <2>2
  <1>3. PICK b \in Block, x \in Xfers :
          /\ b = thread.block /\ x = xfer[b] /\ x.cb = "rpmsg" /\ x.dir = "tx" /\ x.buf = data[b]
          /\ stage[b] = "run" /\ cmd[b] \in Cmd /\ Taken(dma, b)
    BY <1>2, WorkingFacts
  <1>4. prps > 0
    BY <1>3, AmpleTaken DEF Taken
  <1>5. PICK t1 \in Transfers :
          t1 = LastChunk(b, x) /\ t1.kind = "chunk" /\ t1.block = b /\ t1.cmd = cmd[b] /\ t1.buf = x.buf
    BY <1>3, ChunkIs
  <1>6. PICK t2 \in Transfers : t2 = Fetch("list", b) /\ t2.kind = "list" /\ t2.block = b
    BY <1>3, EntryTypes
  <1>7. /\ UNCHANGED <<outstanding, sq, cmd, stage, xfer, data, replies>>
        /\ dma' = Put(dma, "tx", t1) \/ dma' = Put(dma, "rx", t2)
    <2>1. CASE ThreadSecondChunk
      <3>1. /\ dma' = Put(dma, xfer[thread.block].dir, LastChunk(thread.block, xfer[thread.block]))
            /\ UNCHANGED <<outstanding, sq, cmd, stage, xfer, data, replies>>
        BY <2>1, Zenon DEF ThreadSecondChunk, LastChunk
      <3> QED
        BY <1>3, <1>5, <3>1
    <2>2. CASE ThreadList
      <3>1. ListOrReturn(b, dma) /\ UNCHANGED <<outstanding, sq, cmd, xfer, data, replies>>
        BY <1>3, <2>2 DEF ThreadList
      <3>2. dma' = FetchList(b, dma) /\ UNCHANGED stage
        BY <1>4, <3>1 DEF ListOrReturn
      <3> QED
        BY <1>6, <3>1, <3>2 DEF FetchList
    <2> QED
      BY <2>1, <2>2
  <1>8. PICK c \in Chans, t \in Transfers : dma' = Put(dma, c, t) /\ DataOK(c, t)'
    <2>1. CASE dma' = Put(dma, "tx", t1)
      <3>1. DataOK("tx", t1)'
        BY <1>3, <1>5, <1>7 DEF DataOK
      <3> QED
        BY <2>1, <3>1 DEF Chans
    <2>2. CASE dma' = Put(dma, "rx", t2)
      <3>1. DataOK("rx", t2)'
        BY <1>6 DEF DataOK
      <3> QED
        BY <2>2, <3>1 DEF Chans
    <2> QED
      BY <1>7, <2>1, <2>2
  <1> PICK d \in Channels : d = dma
    BY <1>1
  <1>9. Adds(dma', d, {} \cup {<<c, t>>}) /\ Within(d, dma)
    BY <1>1, <1>8, AddsSelf, AddsPut DEF Within
  <1>10. \A p \in {} \cup {<<c, t>>} : DataOK(p[1], p[2])'
    BY <1>8
  <1>11. ASSUME NEW f \in Chans, NEW k \in 1..Len(d[f]), NEW u, u = d[f][k]
         PROVE  DataOK(f, u)'
    <2>1. DataOK(f, u)
      BY <1>1, <1>11 DEF DatasOK
    <2> QED
      BY <1>7, <2>1 DEF DataOK
  <1>12. \A f \in Chans : \A k \in 1..Len(d[f]) : d[f][k].block = b => DataOK(f, d[f][k])'
    BY <1>11
  <1>13. SameOthers(b)
    BY <1>7 DEF SameOthers
  <1>14. BufOK(b)'
    <2>1. BufOK(b)
      BY <1>1 DEF BufsOK
    <2> QED
      BY <1>7, <2>1 DEF BufOK, Placing, Buffered
  <1>15. DatasOK' /\ BufsOK'
    BY <1>1, <1>9, <1>10, <1>12, <1>13, <1>14, DataStep
  <1> QED
    BY <1>1, <1>3, <1>7, <1>15, KeptBlock DEF DInv

\* A step that leaves the channels, the blocks and the answers alone.
LEMMA IdleData ==
  ASSUME IInv, DInv, UNCHANGED <<outstanding, sq, cmd, stage, xfer, data, replies, dma>>
  PROVE  DInv' /\ OnceKept
  <1>1. OnceKept
    BY DEF OnceKept, Live
  <1> QED
    BY <1>1, DataIdle

\* The host submits a command that is nowhere yet.
LEMMA SubmitData ==
  ASSUME IInv, DInv, Once, NEW c \in Cmd, Submit(c)
  PROVE  DInv' /\ Once'
  <1>1. /\ c \notin outstanding /\ Cardinality(outstanding) < MaxOut
        /\ outstanding' = outstanding \cup {c} /\ sq' = Append(sq, c)
        /\ UNCHANGED <<cmd, stage, xfer, data, dma, replies>>
    BY DEF Submit
  <1>2. DInv'
    BY <1>1, DataIdle
  <1>3. OnceInBlocks'
    BY <1>1 DEF Once, OnceInBlocks, Live
  <1>4. sq \in Seq(Cmd)
    BY DEF IInv, StateTypeOK
  <1>5. /\ Len(sq') = Len(sq) + 1 /\ Len(sq) \in Nat /\ sq'[Len(sq) + 1] = c
        /\ \A k \in 1..Len(sq) : sq'[k] = sq[k]
    BY <1>1, <1>4
  <1>6. \A k \in 1..Len(sq') : \/ k \in 1..Len(sq) /\ sq'[k] = sq[k]
                               \/ k = Len(sq) + 1 /\ sq'[k] = c
    BY <1>5
  <1>7. /\ \A k \in 1..Len(sq) : sq[k] \in outstanding /\ \A b \in Block : Live(b) => cmd[b] # sq[k]
        /\ \A j, k \in 1..Len(sq) : sq[j] = sq[k] => j = k
        /\ \A b \in Block : Live(b) => cmd[b] \in outstanding
    BY DEF Once, OnceQueued, OnceInBlocks
  <1>8. \A b \in Block : (Live(b)' <=> Live(b)) /\ cmd'[b] = cmd[b]
    BY <1>1 DEF Live
  <1>9. ASSUME NEW k \in 1..Len(sq')
        PROVE  sq'[k] \in outstanding' /\ \A b \in Block : Live(b)' => cmd'[b] # sq'[k]
    BY <1>1, <1>6, <1>7, <1>8
  <1>10. ASSUME NEW j \in 1..Len(sq'), NEW k \in 1..Len(sq'), sq'[j] = sq'[k]
         PROVE  j = k
    BY <1>1, <1>6, <1>7, <1>10
  <1>11. OnceQueued'
    BY <1>9, <1>10 DEF OnceQueued
  <1>12. Bounded'
    <2>1. IsFiniteSet(outstanding) /\ Cardinality(outstanding) \in Nat
      BY FS_CardinalityType DEF Once, Bounded
    <2>2. /\ IsFiniteSet(outstanding \cup {c})
          /\ Cardinality(outstanding \cup {c}) =
               IF c \in outstanding THEN Cardinality(outstanding) ELSE Cardinality(outstanding) + 1
      BY <2>1, FS_AddElement
    <2> QED
      BY <1>1, <2>1, <2>2, ResourceAssumption DEF Bounded
  <1> QED
    BY <1>2, <1>3, <1>11, <1>12 DEF Once

\* The command at the head of the queue leaves it.
LEMMA OnceTail ==
  ASSUME sq \in Seq(Cmd), sq # <<>>, sq' = Tail(sq), outstanding' = outstanding, OnceQueued
  PROVE  /\ Head(sq) \in outstanding /\ \A b \in Block : Live(b) => cmd[b] # Head(sq)
         /\ \A k \in 1..Len(sq') : /\ sq'[k] \in outstanding' /\ sq'[k] # Head(sq)
                                   /\ \A b \in Block : Live(b) => cmd[b] # sq'[k]
         /\ \A j, k \in 1..Len(sq') : sq'[j] = sq'[k] => j = k
  <1>1. Len(sq) \in Nat \ {0}
    BY EmptySeq
  <1>2. /\ Head(sq) = sq[1] /\ Len(sq') = Len(sq) - 1
        /\ \A k \in 1..Len(sq') : sq'[k] = sq[k + 1]
    BY <1>1
  <1>3. 1 \in 1..Len(sq) /\ \A k \in 1..Len(sq') : k + 1 \in 1..Len(sq) /\ k + 1 # 1 /\ k \in Nat
    BY <1>1, <1>2
  <1>4. /\ \A k \in 1..Len(sq) : sq[k] \in outstanding /\ \A b \in Block : Live(b) => cmd[b] # sq[k]
        /\ \A j, k \in 1..Len(sq) : sq[j] = sq[k] => j = k
    BY DEF OnceQueued
  <1>5. ASSUME NEW j \in 1..Len(sq'), NEW k \in 1..Len(sq'), sq'[j] = sq'[k]
        PROVE  j = k
    <2>1. j + 1 = k + 1
      BY <1>2, <1>3, <1>4, <1>5
    <2> QED
      BY <1>3, <2>1
  <1> QED
    BY <1>2, <1>3, <1>4, <1>5

\* TailHandler keeps the data in order: a block that is free has no entry left.
LEMMA TailHandlerData ==
  ASSUME IInv, DInv, Once, TailHandler
  PROVE  DInv' /\ Once'
  <1>1. /\ StateTypeOK /\ DatasOK /\ BufsOK /\ AnswersOK /\ dma \in Channels /\ sq \in Seq(Cmd)
        /\ OnceInBlocks /\ OnceQueued /\ Bounded
    BY Types DEF IInv, DInv, Once, StateTypeOK
  <1>2. sq # <<>> /\ sq' = Tail(sq) /\ UNCHANGED <<outstanding, replies>>
    BY DEF TailHandler
  <1>3. PICK h \in Cmd : h = Head(sq)
    BY <1>1, <1>2
  <1>4. /\ h \in outstanding /\ \A b \in Block : Live(b) => cmd[b] # h
        /\ \A k \in 1..Len(sq') : /\ sq'[k] \in outstanding' /\ sq'[k] # h
                                  /\ \A b \in Block : Live(b) => cmd[b] # sq'[k]
        /\ \A j, k \in 1..Len(sq') : sq'[j] = sq'[k] => j = k
    BY <1>1, <1>2, <1>3, OnceTail
  <1>5. Bounded'
    BY <1>1, <1>2 DEF Bounded
  <1>6. CASE UNCHANGED <<cmd, stage, xfer, data, dma>>
    <2>1. DInv'
      BY <1>2, <1>6, DataIdle
    <2>2. \A b \in Block : (Live(b)' <=> Live(b)) /\ cmd'[b] = cmd[b]
      BY <1>6 DEF Live
    <2>3. OnceInBlocks'
      BY <1>1, <1>2, <2>2 DEF OnceInBlocks
    <2>4. OnceQueued'
      BY <1>4, <2>2 DEF OnceQueued
    <2> QED
      BY <1>5, <2>1, <2>3, <2>4 DEF Once
  <1>7. CASE \E b \in Block :
               /\ stage[b] = "free"
               /\ At(b, "run") /\ cmd' = [cmd EXCEPT ![b] = h]
               /\ xfer' = [xfer EXCEPT ![b] = NoXfer] /\ data' = [data EXCEPT ![b] = Null]
               /\ dma' = Put(dma, "rx", FetchOf(b, h))
    <2>1. PICK b \in Block :
               /\ stage[b] = "free"
               /\ At(b, "run") /\ cmd' = [cmd EXCEPT ![b] = h]
               /\ xfer' = [xfer EXCEPT ![b] = NoXfer] /\ data' = [data EXCEPT ![b] = Null]
               /\ dma' = Put(dma, "rx", FetchOf(b, h))
      BY <1>7
    <2>2. PICK t \in Transfers : t = FetchOf(b, h) /\ t.kind = "fetch" /\ t.block = b
      BY <1>1, FetchOfIs DEF StateTypeOK
    <2>3. /\ stage \in [Block -> Stages] /\ xfer \in [Block -> Xfers]
          /\ data \in Owners /\ cmd \in [Block -> Cmd \cup {NoCmd}]
      BY <1>1, Types
    <2>4. /\ stage'[b] = "run" /\ cmd'[b] = h /\ xfer'[b] = NoXfer /\ dma' = Put(dma, "rx", t)
      BY <2>1, <2>2, <2>3 DEF At, Owners
    <2>5. SameOthers(b)
      BY <2>1, <2>3 DEF At, Owners, SameOthers
    <2>6. NoXfer.cb = "none"
      BY DEF NoXfer
    <2>7. NoneOf(dma, b) /\ Within(dma, dma)
      BY <1>1, <2>1, NoneAtRest DEF Within
    <2>8. Adds(dma', dma, {} \cup {<<"rx", t>>})
      BY <1>1, <2>4, AddsSelf, AddsPut DEF Chans
    <2>9. DataOK("rx", t)'
      BY <2>2, <2>4, <2>6 DEF DataOK
    <2>10. \A p \in {} \cup {<<"rx", t>>} : DataOK(p[1], p[2])'
      BY <2>9
    <2>11. BufOK(b)'
      BY <2>4, <2>6 DEF BufOK
    <2>12. DatasOK' /\ BufsOK'
      BY <1>1, <2>5, <2>7, <2>8, <2>10, <2>11, DataStepNone
    <2>13. \A o \in Block : stage[o] = "replied" => cmd'[o] = cmd[o]
      BY <2>1, <2>5 DEF SameOthers
    <2>14. AnswersOK'
      BY <1>1, <1>2, <2>13, AnswersKept
    <2>15. \A o \in Block : (Live(o)' <=> Live(o) \/ o = b) /\ (o # b => cmd'[o] = cmd[o])
      BY <2>4, <2>5 DEF SameOthers, Live
    <2>16. ~Live(b)
      BY <2>1 DEF Live
    <2>17. OnceInBlocks'
      BY <1>1, <1>2, <1>4, <2>4, <2>15, <2>16 DEF OnceInBlocks
    <2>18. OnceQueued'
      BY <1>4, <2>4, <2>15, <2>16 DEF OnceQueued
    <2> QED
      BY <1>5, <2>12, <2>14, <2>17, <2>18 DEF Once, DInv
  <1>8. \/ UNCHANGED <<cmd, stage, xfer, data, dma>>
        \/ \E b \in Block :
             /\ stage[b] = "free"
             /\ At(b, "run") /\ cmd' = [cmd EXCEPT ![b] = h]
             /\ xfer' = [xfer EXCEPT ![b] = NoXfer] /\ data' = [data EXCEPT ![b] = Null]
             /\ dma' = Put(dma, "rx", FetchOf(b, h))
    <2>1. \A b \in Free : b \in Block /\ stage[b] = "free"
      BY DEF Free
    <2> QED
      BY <1>3, <2>1, Zenon DEF TailHandler, FetchOf
  <1> QED
    BY <1>6, <1>7, <1>8

\* The invariant for the data: nothing is under way at first, ...
LEMMA InitData == Init => DInv /\ Once
  <1> SUFFICES ASSUME Init
               PROVE  DInv /\ Once
    OBVIOUS
  <1>1. (\A c \in Chans : Len(dma[c]) = 0) /\ Len(replies) = 0 /\ Len(sq) = 0 /\ outstanding = {}
    BY DEF Init, Chans
  <1>2. \A b \in Block : stage[b] = "free"
    BY DEF Init
  <1>3. DInv
    BY <1>1, <1>2 DEF DInv, DatasOK, BufsOK, BufOK, AnswersOK
  <1>4. IsFiniteSet({}) /\ Cardinality({}) = 0
    BY FS_EmptySet
  <1>5. Bounded
    BY <1>1, <1>4, ResourceAssumption DEF Bounded
  <1>6. OnceInBlocks /\ OnceQueued
    BY <1>1, <1>2 DEF OnceInBlocks, OnceQueued, Live
  <1> QED
    BY <1>3, <1>5, <1>6 DEF Once

\* ... and every step keeps it.
LEMMA StepData ==
  ASSUME PrpSlab >= MaxOut
  PROVE  IInv /\ DInv /\ Once /\ [Next]_vars => DInv' /\ Once'
  <1> SUFFICES ASSUME IInv, DInv, Once, [Next]_vars
               PROVE  DInv' /\ Once'
    OBVIOUS
  <1>1. CASE \E c \in Cmd : Submit(c)
    BY <1>1, SubmitData
  <1>2. CASE TailHandler
    BY <1>2, TailHandlerData
  <1>3. CASE \E c \in Chans : ChannelCallback(c)
    <2>1. PICK c \in Chans : ChunkDone(c) \/ DataDone(c) \/ ListDone(c)
      BY <1>3 DEF ChannelCallback
    <2>2. DInv' /\ OnceKept
      BY <2>1, ChunkDoneData, DataDoneData, ListDoneData
    <2> QED
      BY <2>2, OnceSame
  <1>4. CASE RxCallback
    <2>1. HandleHere \/ VendorNoBuffer \/ VendorSend \/ VendorTransfer \/ \E c \in Chans : ChannelCallback(c)
      BY <1>4 DEF RxCallback, Chans
    <2>2. CASE HandleHere \/ VendorNoBuffer \/ VendorSend \/ VendorTransfer
      <3>1. DInv' /\ OnceKept
        BY <2>2, HandleHereData, VendorNoBufferData, VendorSendData, VendorTransferData
      <3> QED
        BY <3>1, OnceSame
    <2> QED
      BY <2>1, <2>2, <1>3
  <1>5. CASE TxCallback
    <2>1. CqCb \/ \E c \in Chans : ChannelCallback(c)
      BY <1>5 DEF TxCallback, Chans
    <2> QED
      BY <2>1, <1>3, CqCbData
  <1>6. CASE Thread
    <2>1. ThreadFree \/ ThreadOnePage =>
            UNCHANGED <<outstanding, sq, cmd, stage, xfer, data, replies, dma>>
      BY DEF ThreadFree, ThreadOnePage
    <2>2. DInv' /\ OnceKept
      BY <1>6, <2>1, ThreadReturnData, ThreadFirstChunkData, ThreadCountData, ThreadQueueData, IdleData
         DEF Thread
    <2> QED
      BY <2>2, OnceSame
  <1>7. CASE \E b \in Block : ApuReply(b)
    <2>1. DInv' /\ OnceKept
      BY <1>7, ApuReplyData
    <2> QED
      BY <2>1, OnceSame
  <1>8. CASE UNCHANGED vars
    <2>1. DInv' /\ OnceKept
      BY <1>8, IdleData DEF vars
    <2> QED
      BY <2>1, OnceSame
  <1> QED
    BY <1>1, <1>2, <1>4, <1>5, <1>6, <1>7, <1>8 DEF Next

\* It holds of every state the firmware reaches with an entry of prp_slab for each
\* of the host's commands.
THEOREM DataInvariance ==
  ASSUME PrpSlab >= MaxOut PROVE Spec => [](~reused => IInv /\ DInv /\ Once)
  <1>1. Init => (~reused => IInv /\ DInv /\ Once)
    BY InitInv, InitData
  <1>2. (~reused => IInv /\ DInv /\ Once) /\ [Next]_vars => (~reused => IInv /\ DInv /\ Once)'
    BY StepInv, StepData, ReusedKept
  <1> QED
    BY <1>1, <1>2, PTL DEF Spec

\* A completion entry is queued behind all of its command's data (nvme_cmd_return,
\* called from the callback of the last chunk, cmd.c and rpmsg.c): the host never
\* finds a command completed whose data are still on their way.
THEOREM DataBeforeCompletionHolds ==
  ASSUME PrpSlab >= MaxOut PROVE Spec => []DataBeforeCompletion
  <1>1. (~reused => IInv /\ DInv /\ Once) => DataBeforeCompletion
    <2> SUFFICES ASSUME IInv, DInv, Once, NEW n \in 1..Len(dma["tx"]), dma["tx"][n].kind = "cq",
                        NEW f \in Chans, NEW k \in 1..Len(dma[f]), dma[f][k].cmd = dma["tx"][n].cmd
                 PROVE  f = "tx" /\ k = n
      BY DEF DataBeforeCompletion, Chans
    <2>1. dma \in Channels /\ EntriesOK /\ DatasOK /\ OnceInBlocks /\ OneCarries(dma) /\ "tx" \in Chans
      BY Types DEF IInv, DInv, Once, Chans
    <2>2. PICK t \in Transfers : t = dma["tx"][n]
      BY <2>1 DEF Channels
    <2>3. PICK u \in Transfers : u = dma[f][k]
      BY <2>1 DEF Channels
    <2>4. EntryOK("tx", t) /\ EntryOK(f, u) /\ DataOK(f, u)
      BY <2>1, <2>2, <2>3 DEF EntriesOK, DatasOK
    <2>5. t.last /\ t.block \in Block /\ stage[t.block] = "posted" /\ t.cmd = cmd[t.block]
      BY <2>2, <2>4 DEF EntryOK, Transfers
    <2>6. u.block \in Block /\ u.kind \in {"fetch", "chunk", "list", "cq"}
      BY DEF Transfers
    <2>7. /\ u.cmd = cmd[u.block] /\ stage[u.block] \in {"run", "posted"}
          /\ stage[u.block] = "posted" => u.kind = "cq" /\ u.last
      BY <2>4, <2>6 DEF EntryOK, DataOK
    <2>8. u.block = t.block
      BY <2>1, <2>2, <2>3, <2>5, <2>6, <2>7 DEF OnceInBlocks, Live
    <2>9. u.last
      BY <2>5, <2>7, <2>8
    <2> QED
      BY <2>1, <2>2, <2>3, <2>5, <2>8, <2>9 DEF OneCarries
  <1> QED
    BY <1>1, DataInvariance, PTL

\* A chunk of data goes to or comes from the RAM disk or the buffer its command holds
\* (nvme_cmd_vendor, rpmsg_cmd_return_data), never address 0, but for commands whose
\* opcode and length disagree on whether there are data.
THEOREM TransfersHaveBufferHolds ==
  ASSUME PrpSlab >= MaxOut PROVE Spec => []TransfersHaveBuffer
  <1>1. (~reused => IInv /\ DInv /\ Once) => TransfersHaveBuffer
    <2> SUFFICES ASSUME IInv, DInv, NEW f \in Chans, NEW k \in 1..Len(dma[f]),
                        dma[f][k].kind = "chunk"
                 PROVE  IF Kind[dma[f][k].cmd] = "vendorOdd" THEN dma[f][k].buf = Null
                        ELSE \/ dma[f][k].buf = Disk
                             \/ dma[f][k].buf # Null /\ dma[f][k].buf = data[dma[f][k].block]
      BY DEF TransfersHaveBuffer, Queued, Chans
    <2>1. dma \in Channels /\ DatasOK /\ BufsOK
      BY Types DEF IInv, DInv
    <2>2. PICK t \in Transfers : t = dma[f][k]
      BY <2>1 DEF Channels
    <2>3. DataOK(f, t) /\ t.block \in Block
      BY <2>1, <2>2 DEF DatasOK, Transfers
    <2>4. /\ stage[t.block] = "run" /\ t.cmd = cmd[t.block] /\ t.buf = xfer[t.block].buf
          /\ xfer[t.block].cb # "none"
      BY <2>2, <2>3 DEF DataOK
    <2>5. Placing(t.block)
      BY <2>1, <2>3, <2>4 DEF BufsOK, BufOK
    <2> QED
      BY <2>2, <2>4, <2>5 DEF Placing
  <1> QED
    BY <1>1, DataInvariance, PTL
=============================================================================
