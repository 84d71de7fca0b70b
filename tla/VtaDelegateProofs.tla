------------------------- MODULE VtaDelegateProofs --------------------------
(***************************************************************************)
(* Proofs about the additions on the accelerator, for every page size,     *)
(* every model and any number of evaluations: no block of its memory is    *)
(* handed out that is in use, and an evaluation gives back what it took,   *)
(* but for the additions that give up with their buffers in hand; the      *)
(* instructions of an addition send as many tokens as they wait for, so    *)
(* that FINISH comes last and nothing is left on the device.               *)
(***************************************************************************)
EXTENDS VtaDelegate, SequenceTheorems, FiniteSetTheorems, WellFoundedInduction, TLAPS

-----------------------------------------------------------------------------
(* Sequences                                                               *)

NoRepeats(s) == \A i, j \in DOMAIN s : i # j => s[i] # s[j]

-----------------------------------------------------------------------------
(* The allocator                                                           *)

\* What the pages and the free list are made of, beside what Sound says.
MemOK(m) ==
  /\ DOMAIN m = {"pages", "free", "live"}
  /\ m.pages \in Seq(Nat) /\ m.free \in Seq(Nat)
  /\ Sound(m)

\* Every non-empty set of natural numbers has a smallest element.
LEMMA SmallestOf ==
  ASSUME NEW T, T \subseteq Nat, T # {}
  PROVE  \E x \in T : \A y \in T : x <= y
<1>1. PICK x \in T : \A y \in T : <<y, x>> \notin OpToRel(<, Nat)
  BY NatLessThanWellFounded, WFMin
<1>2. ASSUME NEW y \in T PROVE x <= y
  <2>1. ~(y < x)
    BY <1>1 DEF OpToRel
  <2> QED
    BY <2>1
<1> QED
  BY <1>2

\* free_map_.lower_bound finds a block that is large enough, if there is one.
LEMMA BestFits ==
  ASSUME NEW m, MemOK(m), NEW npage \in Nat
  PROVE  BestFit(m, npage) \in 0..Len(m.free)
<1> DEFINE fits == {i \in DOMAIN m.free : m.pages[m.free[i]] >= npage}
           pg(i) == m.pages[m.free[i]]
           First(i) == \A j \in fits : pg(i) < pg(j) \/ (pg(i) = pg(j) /\ i <= j)
<1>3. DOMAIN m.free = 1..Len(m.free) /\ Len(m.free) \in Nat
  BY DEF MemOK
<1>1. CASE fits = {}
  BY <1>1, <1>3 DEF BestFit
<1>2. CASE fits # {}
  <2>1. \A i \in fits : i \in Nat /\ pg(i) \in Nat
    <3>1. \A i \in DOMAIN m.free : m.free[i] \in DOMAIN m.pages
      BY DEF MemOK, Sound, ToSet
    <3> QED
      BY <3>1 DEF MemOK
  <2>2. PICK p \in {pg(i) : i \in fits} : \A x \in {pg(i) : i \in fits} : p <= x
    BY <1>2, <2>1, SmallestOf
  <2>3. PICK i \in {i \in fits : pg(i) = p} : \A j \in {j \in fits : pg(j) = p} : i <= j
    <3>1. {i \in fits : pg(i) = p} # {} /\ {i \in fits : pg(i) = p} \subseteq Nat
      BY <2>1, <2>2
    <3> QED
      BY <3>1, SmallestOf
  <2>4. i \in fits /\ First(i)
    <3> SUFFICES ASSUME NEW j \in fits PROVE pg(i) < pg(j) \/ (pg(i) = pg(j) /\ i <= j)
      BY <2>3
    <3>1. pg(i) = p /\ p <= pg(j) /\ pg(j) \in Nat /\ p \in Nat
      BY <2>1, <2>2, <2>3
    <3>2. pg(j) = p => i <= j
      BY <2>3
    <3> HIDE DEF pg, fits
    <3> QED
      BY <3>1, <3>2
  <2>5. PICK b : b = CHOOSE k \in fits : First(k)
    OBVIOUS
  <2>6. BestFit(m, npage) = b
    BY <1>2, <2>5, Zenon DEF BestFit
  <2>7. b \in fits
    <3> HIDE DEF fits, First
    <3> QED
      BY <2>4, <2>5, Zenon
  <2>8. b \in DOMAIN m.free
    BY <2>7, Zenon
  <2> HIDE DEF fits, First
  <2> QED
    BY <1>3, <2>6, <2>8
<1> QED
  BY <1>1, <1>2

\* An element leaves a sequence without repetitions.
LEMMA RemovedAt ==
  ASSUME NEW s \in Seq(Nat), NoRepeats(s), NEW k \in 1..Len(s)
  PROVE  LET r == RemoveAt(s, k)
         IN  /\ r \in Seq(Nat) /\ NoRepeats(r)
             /\ ToSet(r) = ToSet(s) \ {s[k]}
<1> DEFINE r == RemoveAt(s, k)
           At(i) == IF i < k THEN i ELSE i + 1
<1>1. PICK n \in Nat : n = Len(s) /\ DOMAIN s = 1..n /\ k \in 1..n
  OBVIOUS
<1>2. PICK x \in Seq(Nat) :
        /\ x = SubSeq(s, 1, k - 1) /\ Len(x) = k - 1
        /\ \A i \in 1..(k - 1) : x[i] = s[i]
  <2>1. /\ SubSeq(s, 1, k - 1) \in Seq(Nat) /\ Len(SubSeq(s, 1, k - 1)) = k - 1
        /\ \A i \in 1..(k - 1) : SubSeq(s, 1, k - 1)[i] = s[i]
    BY <1>1
  <2> QED
    BY <2>1
<1>3. PICK y \in Seq(Nat) :
        /\ y = SubSeq(s, k + 1, n) /\ Len(y) = n - k
        /\ \A i \in 1..(n - k) : y[i] = s[(k + 1) + i - 1]
  <2>1. k + 1 \in Int /\ n \in Int /\ \A i \in (k + 1)..n : s[i] \in Nat
    BY <1>1
  <2>2. /\ SubSeq(s, k + 1, n) \in Seq(Nat)
        /\ Len(SubSeq(s, k + 1, n)) = IF k + 1 <= n THEN n - (k + 1) + 1 ELSE 0
        /\ \A i \in 1..(n - (k + 1) + 1) : SubSeq(s, k + 1, n)[i] = s[(k + 1) + i - 1]
    BY <2>1, SubSeqProperties
  <2>3. n - (k + 1) + 1 = n - k /\ (IF k + 1 <= n THEN n - (k + 1) + 1 ELSE 0) = n - k
    BY <1>1
  <2> QED
    BY <2>2, <2>3
<1>4. r = x \o y
  BY <1>1, <1>2, <1>3 DEF RemoveAt
<1>5. r \in Seq(Nat) /\ Len(r) = n - 1 /\ DOMAIN r = 1..(n - 1)
  <2> HIDE DEF r
  <2>1. r \in Seq(Nat) /\ Len(r) = Len(x) + Len(y)
    BY <1>4, ConcatProperties
  <2>2. Len(x) + Len(y) = n - 1
    <3>1. Len(x) = k - 1 /\ Len(y) = n - k /\ n \in Nat /\ k \in Nat
      BY <1>1, <1>2, <1>3
    <3> QED
      BY <3>1
  <2> QED
    BY <1>1, <2>1, <2>2
<1>6. ASSUME NEW i \in 1..(n - 1) PROVE r[i] = s[At(i)] /\ At(i) \in 1..n /\ At(i) # k
  <2>1. At(i) \in 1..n /\ At(i) # k
    BY <1>1
  <2>2. r[i] = IF i <= Len(x) THEN x[i] ELSE y[i - Len(x)]
    <3>1. i \in 1..(Len(x) + Len(y))
      <4>1. Len(x) = k - 1 /\ Len(y) = n - k /\ n \in Nat /\ k \in Nat
        BY <1>1, <1>2, <1>3
      <4>2. Len(x) + Len(y) = n - 1
        BY <4>1
      <4> QED
        BY <4>2
    <3> QED
      BY <1>4, <3>1, ConcatProperties
  <2>3. CASE i < k
    BY <1>1, <1>2, <2>1, <2>2, <2>3
  <2>4. CASE ~(i < k)
    <3>0. n \in Nat /\ k \in 1..n /\ k \in Nat
      BY <1>1
    <3>1. PICK j \in 1..(n - k) : j = i - (k - 1)
      <4>1. i - (k - 1) \in 1..(n - k)
        BY <2>4, <3>0
      <4> QED
        BY <4>1
    <3>2. r[i] = y[j]
      <4>1. ~(i <= k - 1)
        BY <2>4, <3>0
      <4> QED
        BY <1>2, <2>2, <3>1, <4>1
    <3>3. (k + 1) + j - 1 = i + 1
      BY <3>0, <3>1
    <3> QED
      BY <1>3, <2>1, <2>4, <3>2, <3>3
  <2> QED
    BY <2>3, <2>4
<1>7. ASSUME NEW i \in 1..(n - 1), NEW j \in 1..(n - 1), i # j PROVE r[i] # r[j]
  <2>1. At(i) # At(j)
    BY <1>1, <1>7
  <2> HIDE DEF r, At
  <2> QED
    BY <1>1, <1>6, <2>1 DEF NoRepeats
<1>8. ASSUME NEW i \in 1..n, i # k PROVE \E j \in 1..(n - 1) : At(j) = i
  <2>1. CASE i < k
    <3>1. i \in 1..(n - 1) /\ At(i) = i
      BY <1>1, <2>1
    <3> QED
      BY <3>1
  <2>2. CASE ~(i < k)
    <3>1. i - 1 \in 1..(n - 1) /\ At(i - 1) = i
      BY <1>1, <1>8, <2>2
    <3> QED
      BY <3>1
  <2> QED
    BY <2>1, <2>2
<1>9. ToSet(r) = ToSet(s) \ {s[k]}
  <2> HIDE DEF r, At
  <2>1. ASSUME NEW e \in ToSet(r) PROVE e \in ToSet(s) \ {s[k]}
    <3>1. PICK i \in 1..(n - 1) : e = r[i]
      BY <1>5, <2>1 DEF ToSet
    <3>2. e = s[At(i)] /\ At(i) \in DOMAIN s /\ At(i) # k
      BY <1>1, <1>6, <3>1
    <3> QED
      BY <1>1, <3>2 DEF ToSet, NoRepeats
  <2>2. ASSUME NEW e \in ToSet(s) \ {s[k]} PROVE e \in ToSet(r)
    <3>1. PICK i \in 1..n : e = s[i] /\ i # k
      BY <1>1, <2>2 DEF ToSet
    <3>2. PICK j \in 1..(n - 1) : At(j) = i
      BY <1>8, <3>1
    <3> QED
      BY <1>5, <1>6, <3>1, <3>2 DEF ToSet
  <2> QED
    BY <2>1, <2>2
<1> HIDE DEF r
<1>10. /\ r \in Seq(Nat) /\ NoRepeats(r)
       /\ ToSet(r) = ToSet(s) \ {s[k]}
  <2>1. NoRepeats(r)
    BY <1>5, <1>7 DEF NoRepeats
  <2> QED
    BY <1>5, <1>9, <2>1
<1> QED
  BY <1>10 DEF r

\* VirtualMemoryManager::Alloc hands out a block that nobody has.
LEMMA Allocated ==
  ASSUME NEW m, MemOK(m), NEW size \in Nat
  PROVE  /\ MemOK(Alloc(m, size)) /\ AllocBlock(m, size) \notin m.live
         /\ Alloc(m, size).live = m.live \cup {AllocBlock(m, size)}
<1> DEFINE f == BestFit(m, NumPages(size))
           b == AllocBlock(m, size)
           a == Alloc(m, size)
<1>1. NumPages(size) \in Nat
  <2>1. size + PageBytes - 1 \in Nat /\ PageBytes \in Nat \ {0}
    BY PageAssumption
  <2> QED
    BY <2>1 DEF NumPages
<1>2. f \in 0..Len(m.free)
  BY <1>1, BestFits
<1>3. /\ m.pages \in Seq(Nat) /\ m.free \in Seq(Nat) /\ NoRepeats(m.free)
      /\ ToSet(m.free) \cap m.live = {} /\ ToSet(m.free) \cup m.live \subseteq 1..Len(m.pages)
  BY DEF MemOK, Sound, NoRepeats
<1>4. /\ b = IF f = 0 THEN Len(m.pages) + 1 ELSE m.free[f]
      /\ a = [pages |-> IF f = 0 THEN Append(m.pages, NumPages(size)) ELSE m.pages,
              free |-> IF f = 0 THEN m.free ELSE RemoveAt(m.free, f),
              live |-> m.live \cup {b}]
  BY DEF Alloc, AllocBlock
<1>5. a.live = m.live \cup {b} /\ DOMAIN a = {"pages", "free", "live"}
  BY <1>4
<1> HIDE DEF f, b, a
<1>6. ASSUME a.pages \in Seq(Nat), a.free \in Seq(Nat), NoRepeats(a.free),
             ToSet(a.free) \cap a.live = {}, ToSet(a.free) \cup a.live \subseteq 1..Len(a.pages)
      PROVE  MemOK(a)
  <2>1. DOMAIN a.pages = 1..Len(a.pages)
    BY <1>6
  <2>2. Sound(a)
    BY <1>6, <2>1, Zenon DEF Sound, NoRepeats
  <2> QED
    BY <1>5, <1>6, <2>2 DEF MemOK
<1>7. CASE f = 0
  <2>1. b = Len(m.pages) + 1 /\ a.pages = Append(m.pages, NumPages(size)) /\ a.free = m.free
    BY <1>4, <1>7
  <2>2. a.pages \in Seq(Nat) /\ Len(a.pages) = Len(m.pages) + 1 /\ Len(m.pages) \in Nat
    BY <1>1, <1>3, <2>1, AppendProperties
  <2>3. b \notin ToSet(m.free) \cup m.live
    BY <1>3, <2>1, <2>2
  <2>4. ToSet(a.free) \cup a.live \subseteq 1..Len(a.pages)
    BY <1>3, <1>5, <2>1, <2>2
  <2>5. MemOK(a)
    BY <1>3, <1>5, <1>6, <2>1, <2>2, <2>3, <2>4
  <2> QED
    BY <1>5, <2>3, <2>5 DEF a, b
<1>8. CASE f # 0
  <2>1. f \in 1..Len(m.free)
    BY <1>2, <1>3, <1>8
  <2>2. b = m.free[f] /\ a.pages = m.pages /\ a.free = RemoveAt(m.free, f)
    BY <1>4, <1>8
  <2>3. /\ a.free \in Seq(Nat) /\ NoRepeats(a.free) /\ ToSet(a.free) = ToSet(m.free) \ {b}
    BY <1>3, <2>1, <2>2, RemovedAt
  <2>4. b \in ToSet(m.free)
    BY <1>3, <2>1, <2>2 DEF ToSet
  <2>5. MemOK(a)
    BY <1>3, <1>5, <1>6, <2>2, <2>3, <2>4
  <2> QED
    BY <1>3, <1>5, <2>4, <2>5 DEF a, b
<1> QED
  BY <1>7, <1>8

\* An element joins a sequence without repetitions.
LEMMA Appended ==
  ASSUME NEW s \in Seq(Nat), NoRepeats(s), NEW b \in Nat, b \notin ToSet(s)
  PROVE  LET r == Append(s, b)
         IN  /\ r \in Seq(Nat) /\ NoRepeats(r) /\ Len(r) = Len(s) + 1
             /\ ToSet(r) = ToSet(s) \cup {b}
<1>1. PICK n \in Nat : n = Len(s) /\ DOMAIN s = 1..n
  OBVIOUS
<1>2. PICK r : r = Append(s, b)
  OBVIOUS
<1>3. /\ r \in Seq(Nat) /\ Len(r) = n + 1 /\ DOMAIN r = 1..(n + 1)
      /\ r[n + 1] = b /\ \A i \in 1..n : r[i] = s[i] /\ s[i] \in ToSet(s)
  <2>1. /\ r \in Seq(Nat) /\ Len(r) = n + 1 /\ r[n + 1] = b
        /\ \A i \in 1..n : r[i] = s[i]
    BY <1>1, <1>2, AppendProperties
  <2>2. \A i \in 1..n : s[i] \in ToSet(s)
    BY <1>1 DEF ToSet
  <2> QED
    BY <2>1, <2>2
<1>4. NoRepeats(r)
  <2> SUFFICES ASSUME NEW i \in 1..(n + 1), NEW j \in 1..(n + 1), i # j
               PROVE  r[i] # r[j]
    BY <1>3 DEF NoRepeats
  <2>1. CASE i = n + 1 \/ j = n + 1
    <3>1. i \in 1..n \/ j \in 1..n
      BY <2>1
    <3> QED
      BY <1>3, <2>1, <3>1
  <2>2. CASE i # n + 1 /\ j # n + 1
    <3>1. i \in 1..n /\ j \in 1..n
      BY <2>2
    <3> QED
      BY <1>1, <1>3, <3>1 DEF NoRepeats
  <2> QED
    BY <2>1, <2>2
<1>5. ToSet(r) = ToSet(s) \cup {b}
  <2>1. ASSUME NEW x \in ToSet(r) PROVE x \in ToSet(s) \cup {b}
    <3>1. PICK i \in 1..(n + 1) : x = r[i]
      BY <1>3, <2>1 DEF ToSet
    <3>2. i = n + 1 \/ i \in 1..n
      OBVIOUS
    <3> QED
      BY <1>3, <3>1, <3>2
  <2>2. ASSUME NEW x \in ToSet(s) PROVE x \in ToSet(r)
    <3>1. PICK i \in 1..n : x = s[i]
      BY <1>1, <2>2 DEF ToSet
    <3>2. i \in 1..(n + 1)
      OBVIOUS
    <3> QED
      BY <1>3, <3>1, <3>2 DEF ToSet
  <2>3. b \in ToSet(r)
    BY <1>3 DEF ToSet
  <2> QED
    BY <2>1, <2>2, <2>3
<1> QED
  BY <1>1, <1>2, <1>3, <1>4, <1>5

\* The first element leaves a sequence without repetitions.
LEMMA Dropped ==
  ASSUME NEW s \in Seq(Nat), NoRepeats(s), s # <<>>
  PROVE  /\ Tail(s) \in Seq(Nat) /\ NoRepeats(Tail(s)) /\ Len(Tail(s)) = Len(s) - 1
         /\ Head(s) \in ToSet(s) /\ ToSet(Tail(s)) = ToSet(s) \ {Head(s)}
<1>1. PICK n \in Nat \ {0} : n = Len(s) /\ DOMAIN s = 1..n
  OBVIOUS
<1>2. PICK r : r = Tail(s)
  OBVIOUS
<1>3. /\ r \in Seq(Nat) /\ Len(r) = n - 1 /\ DOMAIN r = 1..(n - 1)
      /\ \A i \in 1..(n - 1) : r[i] = s[i + 1]
  <2>1. r \in Seq(Nat) /\ Len(r) = Len(s) - 1 /\ \A i \in 1..Len(r) : r[i] = s[i + 1]
    BY <1>2, HeadTailProperties
  <2>2. Len(r) = n - 1 /\ DOMAIN r = 1..(n - 1)
    BY <1>1, <2>1
  <2> QED
    BY <2>1, <2>2
<1>4. Head(s) = s[1] /\ 1 \in 1..n
  OBVIOUS
<1>5. NoRepeats(r)
  <2> SUFFICES ASSUME NEW i \in 1..(n - 1), NEW j \in 1..(n - 1), i # j
               PROVE  r[i] # r[j]
    BY <1>3 DEF NoRepeats
  <2>1. i + 1 \in 1..n /\ j + 1 \in 1..n /\ i + 1 # j + 1
    OBVIOUS
  <2>2. s[i + 1] # s[j + 1]
    BY <1>1, <2>1 DEF NoRepeats
  <2> QED
    BY <1>3, <2>2
<1>6. ToSet(r) = ToSet(s) \ {s[1]}
  <2>1. ASSUME NEW x \in ToSet(r) PROVE x \in ToSet(s) \ {s[1]}
    <3>1. PICK i \in 1..(n - 1) : x = r[i]
      BY <1>3, <2>1 DEF ToSet
    <3>2. i + 1 \in 1..n /\ i + 1 # 1
      OBVIOUS
    <3>3. s[i + 1] # s[1]
      BY <1>1, <1>4, <3>2 DEF NoRepeats
    <3>4. x = s[i + 1]
      BY <1>3, <3>1
    <3> QED
      BY <1>1, <3>2, <3>3, <3>4 DEF ToSet
  <2>2. ASSUME NEW x \in ToSet(s) \ {s[1]} PROVE x \in ToSet(r)
    <3>1. PICK i \in 1..n : x = s[i]
      BY <1>1, <2>2 DEF ToSet
    <3>2. PICK j \in 1..(n - 1) : i = j + 1
      <4>1. i # 1
        BY <2>2, <3>1
      <4>2. i - 1 \in 1..(n - 1) /\ i = (i - 1) + 1
        BY <4>1
      <4> QED
        BY <4>2
    <3> QED
      BY <1>3, <3>1, <3>2 DEF ToSet
  <2> QED
    BY <2>1, <2>2
<1>7. s[1] \in ToSet(s)
  BY <1>1, <1>4 DEF ToSet
<1> QED
  BY <1>1, <1>2, <1>3, <1>4, <1>5, <1>6, <1>7

\* VirtualMemoryManager::Free of a block that somebody has.
LEMMA Freed ==
  ASSUME NEW m, MemOK(m), NEW b \in m.live
  PROVE  MemOK(Free(m, b)) /\ Free(m, b).live = m.live \ {b}
<1> DEFINE a == Free(m, b)
<1>1. /\ m.pages \in Seq(Nat) /\ m.free \in Seq(Nat) /\ NoRepeats(m.free)
      /\ ToSet(m.free) \cap m.live = {} /\ ToSet(m.free) \cup m.live \subseteq 1..Len(m.pages)
      /\ DOMAIN m = {"pages", "free", "live"}
  BY DEF MemOK, Sound, NoRepeats
<1>2. /\ a.pages = m.pages /\ a.free = Append(m.free, b) /\ a.live = m.live \ {b}
      /\ DOMAIN a = {"pages", "free", "live"}
  BY <1>1 DEF Free
<1>3. b \in Nat /\ b \notin ToSet(m.free)
  BY <1>1
<1> HIDE DEF a
<1>4. a.free \in Seq(Nat) /\ NoRepeats(a.free) /\ ToSet(a.free) = ToSet(m.free) \cup {b}
  BY <1>1, <1>2, <1>3, Appended
<1>5. MemOK(a)
  <2>1. ToSet(a.free) \cap a.live = {} /\ ToSet(a.free) \cup a.live \subseteq 1..Len(a.pages)
    BY <1>1, <1>2, <1>4
  <2> QED
    BY <1>1, <1>2, <1>4, <2>1 DEF MemOK, Sound, NoRepeats
<1> QED
  BY <1>2, <1>5 DEF a

-----------------------------------------------------------------------------
(* The calls of an addition                                                *)

\* The calls that only add to the command queue.
Work == {"DepPush", "DepPop", "Load", "Alu", "Store"}

\* s is a sequence of n elements.
IsOf(s, n) == s = [i \in 1..n |-> s[i]]

\* st is s, of m elements, and then t, of n.
Joins(st, s, m, t, n) ==
  /\ IsOf(st, m + n) /\ Len(st) = m + n
  /\ \A i \in 1..m : st[i] = s[i]
  /\ \A i \in 1..n : st[m + i] = t[i]

LEMMA Joined ==
  ASSUME NEW m \in Nat, NEW n \in Nat, NEW s, NEW t, IsOf(s, m), IsOf(t, n)
  PROVE  Joins(s \o t, s, m, t, n)
<1> DEFINE S == {s[i] : i \in 1..m} \cup {t[i] : i \in 1..n}
<1>1. s \in Seq(S) /\ Len(s) = m
  <2>1. [i \in 1..m |-> s[i]] \in Seq(S) /\ Len([i \in 1..m |-> s[i]]) = m
    <3>1. \A i \in 1..m : s[i] \in S
      OBVIOUS
    <3> HIDE DEF S
    <3> QED
      BY <3>1
  <2> HIDE DEF S
  <2> QED
    BY <2>1 DEF IsOf
<1>2. t \in Seq(S) /\ Len(t) = n
  <2>1. [i \in 1..n |-> t[i]] \in Seq(S) /\ Len([i \in 1..n |-> t[i]]) = n
    <3>1. \A i \in 1..n : t[i] \in S
      OBVIOUS
    <3> HIDE DEF S
    <3> QED
      BY <3>1
  <2> HIDE DEF S
  <2> QED
    BY <2>1 DEF IsOf
<1> HIDE DEF S
<1>3. PICK r \in Seq(S) : r = s \o t /\ Len(r) = m + n
                          /\ \A i \in 1..(m + n) : r[i] = IF i <= m THEN s[i] ELSE t[i - m]
  <2>1. /\ s \o t \in Seq(S) /\ Len(s \o t) = Len(s) + Len(t)
        /\ \A i \in 1..(Len(s) + Len(t)) :
             (s \o t)[i] = IF i <= Len(s) THEN s[i] ELSE t[i - Len(s)]
    BY <1>1, <1>2, ConcatProperties
  <2>2. /\ Len(s \o t) = m + n
        /\ \A i \in 1..(m + n) : (s \o t)[i] = IF i <= m THEN s[i] ELSE t[i - m]
    BY <1>1, <1>2, <2>1
  <2> QED
    BY <2>1, <2>2
<1>4. IsOf(r, m + n)
  BY <1>3 DEF IsOf
<1>5. ASSUME NEW i \in 1..m PROVE r[i] = s[i]
  BY <1>3
<1>6. ASSUME NEW i \in 1..n PROVE r[m + i] = t[i]
  <2>1. m + i \in 1..(m + n) /\ ~(m + i <= m) /\ (m + i) - m = i
    OBVIOUS
  <2> QED
    BY <1>3, <2>1
<1> QED
  BY <1>3, <1>4, <1>5, <1>6 DEF Joins

\* The token queues of the device, by the stages they lead from and to.
LoadToCompute  == <<kLoadStage, kComputeStage>>
ComputeToLoad  == <<kComputeStage, kLoadStage>>
StoreToCompute == <<kStoreStage, kComputeStage>>
ComputeToStore == <<kComputeStage, kStoreStage>>

LEMMA FourChannels ==
  /\ Channels = {LoadToCompute, ComputeToLoad, StoreToCompute, ComputeToStore}
  /\ LoadToCompute # ComputeToLoad /\ LoadToCompute # StoreToCompute
  /\ LoadToCompute # ComputeToStore /\ ComputeToLoad # StoreToCompute
  /\ ComputeToLoad # ComputeToStore /\ StoreToCompute # ComputeToStore
<1>1. LoadToCompute[1] = 1 /\ LoadToCompute[2] = 2 /\ ComputeToLoad[1] = 2 /\ ComputeToLoad[2] = 1
  BY DEF LoadToCompute, ComputeToLoad, kLoadStage, kComputeStage
<1>2. StoreToCompute[1] = 3 /\ StoreToCompute[2] = 2 /\ ComputeToStore[1] = 2 /\ ComputeToStore[2] = 3
  BY DEF StoreToCompute, ComputeToStore, kStoreStage, kComputeStage
<1>3. Channels = {LoadToCompute, ComputeToLoad, StoreToCompute, ComputeToStore}
  BY DEF Channels, LoadToCompute, ComputeToLoad, StoreToCompute, ComputeToStore
<1> QED
  BY <1>1, <1>2, <1>3

\* The channels a chunk has a token on, sent and not yet waited for, after its
\* first m calls.  Those of the next chunk follow those of this one.
Ahead(m) ==
  CASE m = 0        -> {ComputeToLoad, StoreToCompute}
    [] m \in 1..3   -> {StoreToCompute}
    [] m = 4        -> {StoreToCompute, LoadToCompute}
    [] m = 5        -> {LoadToCompute}
    [] m \in 6..12  -> {}
    [] m = 13       -> {ComputeToStore}
    [] m \in 14..15 -> {}
    [] m = 16       -> {StoreToCompute}

\* The same after the first p of the w calls an addition makes for the queue.
Owed(w, p) ==
  IF p = 0 \/ p = w THEN {}
  ELSE CASE p = 1 /\ p < w - 1 -> {ComputeToLoad}
         [] p = w - 1 -> {StoreToCompute}
         [] p \in 2..(w - 2) -> Ahead((p - 2) % 17)

\* A call takes the channels with a token ahead from O to P: a push sends a
\* token where none is, a pop waits for one that has been sent.
Moves(O, c, P) ==
  \/ c.f \in {"Load", "Alu", "Store"} /\ P = O
  \/ /\ c.f = "DepPush" /\ <<c.from, c.to>> \in Channels \ O
     /\ P = O \cup {<<c.from, c.to>>}
  \/ /\ c.f = "DepPop" /\ <<c.from, c.to>> \in Channels \cap O
     /\ P = O \ {<<c.from, c.to>>}

LEMMA AheadIs ==
  /\ Ahead(0) = {ComputeToLoad, StoreToCompute}
  /\ \A m \in {1, 2, 3, 16} : Ahead(m) = {StoreToCompute}
  /\ Ahead(4) = {StoreToCompute, LoadToCompute}
  /\ Ahead(5) = {LoadToCompute}
  /\ \A m \in {6, 7, 8, 9, 10, 11, 12, 14, 15} : Ahead(m) = {}
  /\ Ahead(13) = {ComputeToStore}
<1>0. PICK o0, o1, o4, o5, o13 :
        /\ o0 = {ComputeToLoad, StoreToCompute} /\ o1 = {StoreToCompute}
        /\ o4 = {StoreToCompute, LoadToCompute} /\ o5 = {LoadToCompute}
        /\ o13 = {ComputeToStore}
  OBVIOUS
<1>1. Ahead(0) = o0 /\ Ahead(4) = o4 /\ Ahead(5) = o5 /\ Ahead(13) = o13
  BY <1>0 DEF Ahead
<1>2. \A m \in {1, 2, 3, 16} : Ahead(m) = o1
  BY <1>0 DEF Ahead
<1>3. \A m \in {6, 7, 8, 9, 10, 11, 12, 14, 15} : Ahead(m) = {}
  BY <1>0 DEF Ahead
<1> QED
  BY <1>0, <1>1, <1>2, <1>3

\* The i-th call of a chunk is due when the chunk has made those before it.
Due(i, c) == Moves(Ahead(i - 1), c, Ahead(i % 17))

LEMMA PushDue ==
  ASSUME NEW from, NEW to, NEW O, NEW P, <<from, to>> \in Channels \ O,
         P = O \cup {<<from, to>>}
  PROVE  Moves(O, Push(from, to), P)
<1>1. Push(from, to).f = "DepPush" /\ Push(from, to).from = from /\ Push(from, to).to = to
  BY DEF Push
<1> QED
  BY <1>1, Zenon DEF Moves

LEMMA PopDue ==
  ASSUME NEW from, NEW to, NEW O, NEW P, <<from, to>> \in Channels \cap O,
         P = O \ {<<from, to>>}
  PROVE  Moves(O, Pop(from, to), P)
<1>1. Pop(from, to).f = "DepPop" /\ Pop(from, to).from = from /\ Pop(from, to).to = to
  BY DEF Pop
<1> QED
  BY <1>1, Zenon DEF Moves

\* On each of the channels.
LEMMA CallsDue ==
  ASSUME NEW O, NEW P
  PROVE  /\ LoadToCompute \notin O /\ P = O \cup {LoadToCompute} => Moves(O, Push(kLoadStage, kComputeStage), P)
         /\ LoadToCompute \in O /\ P = O \ {LoadToCompute} => Moves(O, Pop(kLoadStage, kComputeStage), P)
         /\ ComputeToLoad \notin O /\ P = O \cup {ComputeToLoad} => Moves(O, Push(kComputeStage, kLoadStage), P)
         /\ ComputeToLoad \in O /\ P = O \ {ComputeToLoad} => Moves(O, Pop(kComputeStage, kLoadStage), P)
         /\ StoreToCompute \notin O /\ P = O \cup {StoreToCompute} => Moves(O, Push(kStoreStage, kComputeStage), P)
         /\ StoreToCompute \in O /\ P = O \ {StoreToCompute} => Moves(O, Pop(kStoreStage, kComputeStage), P)
         /\ ComputeToStore \notin O /\ P = O \cup {ComputeToStore} => Moves(O, Push(kComputeStage, kStoreStage), P)
         /\ ComputeToStore \in O /\ P = O \ {ComputeToStore} => Moves(O, Pop(kComputeStage, kStoreStage), P)
<1>1. /\ LoadToCompute \notin O /\ P = O \cup {LoadToCompute} => Moves(O, Push(kLoadStage, kComputeStage), P)
      /\ LoadToCompute \in O /\ P = O \ {LoadToCompute} => Moves(O, Pop(kLoadStage, kComputeStage), P)
  <2>1. LoadToCompute = <<kLoadStage, kComputeStage>> /\ LoadToCompute \in Channels
    BY FourChannels DEF LoadToCompute
  <2> QED
    BY <2>1, PushDue, PopDue, Zenon
<1>2. /\ ComputeToLoad \notin O /\ P = O \cup {ComputeToLoad} => Moves(O, Push(kComputeStage, kLoadStage), P)
      /\ ComputeToLoad \in O /\ P = O \ {ComputeToLoad} => Moves(O, Pop(kComputeStage, kLoadStage), P)
  <2>1. ComputeToLoad = <<kComputeStage, kLoadStage>> /\ ComputeToLoad \in Channels
    BY FourChannels DEF ComputeToLoad
  <2> QED
    BY <2>1, PushDue, PopDue, Zenon
<1>3. /\ StoreToCompute \notin O /\ P = O \cup {StoreToCompute} => Moves(O, Push(kStoreStage, kComputeStage), P)
      /\ StoreToCompute \in O /\ P = O \ {StoreToCompute} => Moves(O, Pop(kStoreStage, kComputeStage), P)
  <2>1. StoreToCompute = <<kStoreStage, kComputeStage>> /\ StoreToCompute \in Channels
    BY FourChannels DEF StoreToCompute
  <2> QED
    BY <2>1, PushDue, PopDue, Zenon
<1>4. /\ ComputeToStore \notin O /\ P = O \cup {ComputeToStore} => Moves(O, Push(kComputeStage, kStoreStage), P)
      /\ ComputeToStore \in O /\ P = O \ {ComputeToStore} => Moves(O, Pop(kComputeStage, kStoreStage), P)
  <2>1. ComputeToStore = <<kComputeStage, kStoreStage>> /\ ComputeToStore \in Channels
    BY FourChannels DEF ComputeToStore
  <2> QED
    BY <2>1, PushDue, PopDue, Zenon
<1> QED
  BY <1>1, <1>2, <1>3, <1>4, Zenon

\* Each chunk makes 17 calls, all of them work for the queue, and has its tokens
\* sent before they are waited for.
LEMMA ChunkShape ==
  ASSUME NEW t, NEW n
  PROVE  /\ Len(ChunkCalls(t, n)) = 17
         /\ \A i \in 1..17 : Due(i, ChunkCalls(t, n)[i])
<1>1. PICK length, padding, vectors :
        ChunkCalls(t, n) =
          <<Pop(kComputeStage, kLoadStage),
            LoadCall(1, t, length, padding, t.sramshift),
            LoadCall(2, t, length, padding, t.sramshift + vectors),
            Push(kLoadStage, kComputeStage),
            Pop(kStoreStage, kComputeStage),
            Pop(kLoadStage, kComputeStage)>>
          \o AluCalls(t, vectors) \o
          <<Push(kComputeStage, kStoreStage),
            Pop(kComputeStage, kStoreStage),
            [f |-> "Store", x_size |-> CeilDiv(length, BLOCK),
             body |-> [sram |-> t.sramshift, offset |-> CeilDiv(t.vectorshift, BLOCK)]],
            Push(kStoreStage, kComputeStage),
            Push(kComputeStage, kLoadStage)>>
  BY DEF ChunkCalls
<1>2. PICK x :
        /\ x = <<Pop(kComputeStage, kLoadStage),
                 LoadCall(1, t, length, padding, t.sramshift),
                 LoadCall(2, t, length, padding, t.sramshift + vectors),
                 Push(kLoadStage, kComputeStage),
                 Pop(kStoreStage, kComputeStage),
                 Pop(kLoadStage, kComputeStage)>>
  OBVIOUS
<1>3. PICK z :
        /\ z = <<Push(kComputeStage, kStoreStage),
                 Pop(kComputeStage, kStoreStage),
                 [f |-> "Store", x_size |-> CeilDiv(length, BLOCK),
                  body |-> [sram |-> t.sramshift, offset |-> CeilDiv(t.vectorshift, BLOCK)]],
                 Push(kStoreStage, kComputeStage),
                 Push(kComputeStage, kLoadStage)>>
  OBVIOUS
<1>4. PICK y : y = AluCalls(t, vectors)
  OBVIOUS
<1>5. IsOf(x, 6) /\ \A i \in 1..6 : Due(i, x[i])
  <2>1. IsOf(x, 6)
    BY <1>2 DEF IsOf
  <2>2. /\ x[1] = Pop(kComputeStage, kLoadStage) /\ x[2].f = "Load" /\ x[3].f = "Load"
        /\ x[4] = Push(kLoadStage, kComputeStage) /\ x[5] = Pop(kStoreStage, kComputeStage)
        /\ x[6] = Pop(kLoadStage, kComputeStage)
    BY <1>2 DEF LoadCall
  <2>3. Moves(Ahead(0), x[1], Ahead(1))
    BY <2>2, AheadIs, FourChannels, CallsDue
  <2>4. Moves(Ahead(1), x[2], Ahead(2)) /\ Moves(Ahead(2), x[3], Ahead(3))
    BY <2>2, AheadIs DEF Moves
  <2>5. Moves(Ahead(3), x[4], Ahead(4))
    BY <2>2, AheadIs, FourChannels, CallsDue
  <2>6. Moves(Ahead(4), x[5], Ahead(5))
    BY <2>2, AheadIs, FourChannels, CallsDue
  <2>7. Moves(Ahead(5), x[6], Ahead(6))
    BY <2>2, AheadIs, FourChannels, CallsDue
  <2>8. Due(1, x[1]) /\ Due(2, x[2]) /\ Due(3, x[3]) /\ Due(4, x[4]) /\ Due(5, x[5]) /\ Due(6, x[6])
    BY <2>3, <2>4, <2>5, <2>6, <2>7 DEF Due
  <2> QED
    BY <2>1, <2>8
<1>6. IsOf(y, 6) /\ \A i \in 1..6 : Due(6 + i, y[i])
  <2>1. IsOf(y, 6)
    BY <1>4 DEF IsOf, AluCalls
  <2>2. y[1].f = "Alu" /\ y[2].f = "Alu" /\ y[3].f = "Alu"
        /\ y[4].f = "Alu" /\ y[5].f = "Alu" /\ y[6].f = "Alu"
    BY <1>4 DEF AluCalls, AluCall
  <2>3. \A i \in 1..6 : y[i].f = "Alu"
    BY <2>2
  <2>4. ASSUME NEW i \in 1..6 PROVE Due(6 + i, y[i])
    <3>1. PICK j \in {6, 7, 8, 9, 10, 11} : j = (6 + i) - 1
      OBVIOUS
    <3>2. (6 + i) % 17 = 6 + i /\ 6 + i \in {7, 8, 9, 10, 11, 12}
      OBVIOUS
    <3>3. Ahead((6 + i) - 1) = {} /\ Ahead((6 + i) % 17) = {}
      <4>1. Ahead(j) = {} /\ \A k \in {7, 8, 9, 10, 11, 12} : Ahead(k) = {}
        BY <3>1, AheadIs
      <4> QED
        BY <3>1, <3>2, <4>1
    <3> QED
      BY <2>3, <3>3, Zenon DEF Due, Moves
  <2> QED
    BY <2>1, <2>4
<1>7. IsOf(z, 5) /\ \A i \in 1..5 : Due(12 + i, z[i])
  <2>1. IsOf(z, 5)
    BY <1>3 DEF IsOf
  <2>2. /\ z[1] = Push(kComputeStage, kStoreStage) /\ z[2] = Pop(kComputeStage, kStoreStage)
        /\ z[3].f = "Store" /\ z[4] = Push(kStoreStage, kComputeStage)
        /\ z[5] = Push(kComputeStage, kLoadStage)
    BY <1>3
  <2>3. Moves(Ahead(12), z[1], Ahead(13))
    BY <2>2, AheadIs, FourChannels, CallsDue
  <2>4. Moves(Ahead(13), z[2], Ahead(14))
    BY <2>2, AheadIs, FourChannels, CallsDue
  <2>5. Moves(Ahead(14), z[3], Ahead(15))
    BY <2>2, AheadIs DEF Moves
  <2>6. Moves(Ahead(15), z[4], Ahead(16))
    BY <2>2, AheadIs, FourChannels, CallsDue
  <2>7. Moves(Ahead(16), z[5], Ahead(0))
    BY <2>2, AheadIs, FourChannels, CallsDue
  <2>8. /\ Due(13, z[1]) /\ Due(14, z[2]) /\ Due(15, z[3]) /\ Due(16, z[4]) /\ Due(17, z[5])
    BY <2>3, <2>4, <2>5, <2>6, <2>7 DEF Due
  <2>9. Due(12 + 1, z[1]) /\ Due(12 + 2, z[2]) /\ Due(12 + 3, z[3]) /\ Due(12 + 4, z[4]) /\ Due(12 + 5, z[5])
    BY <2>8
  <2>10. \A i \in 1..5 : i = 1 \/ i = 2 \/ i = 3 \/ i = 4 \/ i = 5
    OBVIOUS
  <2> QED
    BY <2>1, <2>9, <2>10
<1>8. PICK u : u = x \o y /\ IsOf(u, 12) /\ \A i \in 1..12 : Due(i, u[i])
  <2>1. IsOf(x \o y, 12) /\ \A i \in 1..6 : (x \o y)[i] = x[i] /\ (x \o y)[6 + i] = y[i]
    <3>1. 6 \in Nat /\ 6 + 6 = 12
      OBVIOUS
    <3>2. IsOf(x, 6) /\ IsOf(y, 6)
      BY <1>5, <1>6
    <3>3. Joins(x \o y, x, 6, y, 6)
      BY <3>1, <3>2, Joined
    <3> QED
      BY <3>1, <3>3 DEF Joins
  <2>2. \A i \in 1..12 : i \in 1..6 \/ (i - 6 \in 1..6 /\ 6 + (i - 6) = i)
    OBVIOUS
  <2>3. ASSUME NEW i \in 1..12 PROVE Due(i, (x \o y)[i])
    <3>1. CASE i \in 1..6
      BY <1>5, <2>1, <3>1
    <3>2. CASE i - 6 \in 1..6 /\ 6 + (i - 6) = i
      <4>1. PICK j \in 1..6 : 6 + j = i
        BY <3>2
      <4> QED
        BY <1>6, <2>1, <4>1
    <3> QED
      BY <2>2, <3>1, <3>2
  <2> QED
    BY <2>1, <2>3
<1>9. PICK v : v = u \o z /\ Len(v) = 17 /\ \A i \in 1..17 : Due(i, v[i])
  <2>1. /\ Len(u \o z) = 17 /\ \A i \in 1..12 : (u \o z)[i] = u[i]
        /\ \A i \in 1..5 : (u \o z)[12 + i] = z[i]
    <3>1. 12 \in Nat /\ 5 \in Nat /\ 12 + 5 = 17
      OBVIOUS
    <3>2. IsOf(u, 12) /\ IsOf(z, 5)
      BY <1>7, <1>8
    <3>3. Joins(u \o z, u, 12, z, 5)
      BY <3>1, <3>2, Joined
    <3> QED
      BY <3>1, <3>3 DEF Joins
  <2>2. \A i \in 1..17 : i \in 1..12 \/ (i - 12 \in 1..5 /\ 12 + (i - 12) = i)
    OBVIOUS
  <2>3. ASSUME NEW i \in 1..17 PROVE Due(i, (u \o z)[i])
    <3>1. CASE i \in 1..12
      BY <1>8, <2>1, <3>1
    <3>2. CASE i - 12 \in 1..5 /\ 12 + (i - 12) = i
      <4>1. PICK j \in 1..5 : 12 + j = i
        BY <3>2
      <4> QED
        BY <1>7, <2>1, <4>1
    <3> QED
      BY <2>2, <3>1, <3>2
  <2> QED
    BY <2>1, <2>3
<1>10. ChunkCalls(t, n) = v
  BY <1>1, <1>2, <1>3, <1>4, <1>8, <1>9
<1> QED
  BY <1>9, <1>10

\* The chunks of an addition are work for the queue, as many calls as it takes,
\* and each leaves the tokens the next one waits for.
LEMMA ChunksShape ==
  ASSUME NEW n \in Nat \ {0}
  PROVE  \E c \in Nat :
           /\ IsOf(AllChunks(n), c * 17)
           /\ \A i \in 1..(c * 17) : Moves(Ahead((i - 1) % 17), AllChunks(n)[i], Ahead(i % 17))
<1>1. maxelements \in Nat \ {0}
  <2>1. PICK q \in Int : q = ACC_DEPTH \div NUM_THREADS
    BY DelegateAssumption
  <2>3. q >= 2
    <3>1. ASSUME NEW x \in Nat, NEW y \in Nat \ {0}, x >= 2 * y PROVE x \div y >= 2
      BY <3>1
    <3> QED
      BY <2>1, <3>1, DelegateAssumption
  <2>4. PICK h \in Nat \ {0} : h = q \div 2
    BY <2>3
  <2>5. h * BLOCK \in Nat \ {0}
    BY DelegateAssumption
  <2> QED
    BY <2>1, <2>4, <2>5 DEF maxelements
<1>2. PICK c \in Nat : c = CeilDiv(n, maxelements)
  <2>1. PICK x \in Nat \ {0} : x = maxelements
    BY <1>1
  <2>2. (n + x - 1) \div x \in Nat
    OBVIOUS
  <2> QED
    BY <2>1, <2>2 DEF CeilDiv
<1>3. PICK w \in Nat : w = c * 17
  OBVIOUS
<1>4. Len(ChunkCalls(Tiles(n)[1], n)) = 17
  BY ChunkShape
<1>5. AllChunks(n) = [i \in 1..w |->
        ChunkCalls(Tiles(n)[((i - 1) \div 17) + 1], n)[((i - 1) % 17) + 1]]
  BY <1>2, <1>3, <1>4 DEF AllChunks
<1>6. IsOf(AllChunks(n), w)
  BY <1>5 DEF IsOf
<1>7. ASSUME NEW i \in 1..w
      PROVE  Moves(Ahead((i - 1) % 17), AllChunks(n)[i], Ahead(i % 17))
  <2>1. PICK k \in 1..17 : k = ((i - 1) % 17) + 1
    OBVIOUS
  <2>2. PICK t : t = Tiles(n)[((i - 1) \div 17) + 1]
    OBVIOUS
  <2>3. AllChunks(n)[i] = ChunkCalls(t, n)[k]
    BY <1>5, <2>1, <2>2
  <2>4. Moves(Ahead(k - 1), ChunkCalls(t, n)[k], Ahead(k % 17))
    BY ChunkShape DEF Due
  <2>5. k - 1 = (i - 1) % 17 /\ k % 17 = i % 17
    BY <2>1
  <2> QED
    BY <2>3, <2>4, <2>5
<1> QED
  BY <1>3, <1>6, <1>7

\* c is the k-th call of an addition that makes w calls for the queue.
Fits(c, w, k) ==
  /\ k = 1 => c.f = "Handle"
  /\ k \in 2..4 => c.f = "Alloc" /\ c.size \in Nat
  /\ k = 5 => c.f = "CopyIn"
  /\ k \in 6..(w + 5) => c.f \in Work /\ Moves(Owed(w, k - 6), c, Owed(w, k - 5))
  /\ k = w + 6 => c.f = "Synchronize"
  /\ k = w + 7 => c.f = "CopyOut"
  /\ k \in (w + 8)..(w + 10) => c.f = "Free"
  /\ k = w + 11 => c.f = "Shutdown"

\* s is what is left of those calls from the i-th on.
Rest(s, w, i) ==
  /\ IsOf(s, w + 12 - i)
  /\ \A j \in 1..(w + 12 - i) : Fits(s[j], w, i + j - 1)

\* An addition starts with all of its calls ahead.
LEMMA AddShape ==
  ASSUME NEW n \in Nat \ {0}
  PROVE  \E w \in Nat : Rest(aluAdd(n), w, 1)
<1>0. PICK d \in Nat :
        /\ IsOf(AllChunks(n), d * 17)
        /\ \A i \in 1..(d * 17) : Moves(Ahead((i - 1) % 17), AllChunks(n)[i], Ahead(i % 17))
  BY ChunksShape
<1>1. PICK c \in Nat :
        /\ c = d * 17 /\ c % 17 = 0 /\ IsOf(AllChunks(n), c)
        /\ \A i \in 1..c : Moves(Ahead((i - 1) % 17), AllChunks(n)[i], Ahead(i % 17))
  <2>1. d * 17 \in Nat /\ (d * 17) % 17 = 0
    OBVIOUS
  <2> QED
    BY <1>0, <2>1
<1>2. PICK ch : ch = AllChunks(n)
  OBVIOUS
<1>3. PICK w \in Nat : w = c + 4
  OBVIOUS
<1>4. /\ Owed(w, 0) = {} /\ Owed(w, 1) = {ComputeToLoad}
      /\ \A i \in 2..(w - 2) : Owed(w, i) = Ahead((i - 2) % 17)
      /\ Owed(w, w - 1) = {StoreToCompute} /\ Owed(w, w) = {}
  <2>1. Owed(w, 0) = {} /\ Owed(w, w) = {}
    <3>1. 0 # 1 /\ 0 # w - 1 /\ 0 \notin 2..(w - 2) /\ ~(w < w - 1) /\ w # w - 1 /\ w \notin 2..(w - 2)
      BY <1>3
    <3> QED
      BY <3>1 DEF Owed
  <2>2. Owed(w, 1) = {ComputeToLoad}
    <3>1. 1 # w /\ 1 < w - 1
      BY <1>3
    <3> QED
      BY <3>1 DEF Owed
  <2>3. Owed(w, w - 1) = {StoreToCompute}
    <3>1. w - 1 # 0 /\ w - 1 # w /\ w - 1 # 1
      BY <1>3
    <3> QED
      BY <3>1 DEF Owed
  <2>4. ASSUME NEW i \in 2..(w - 2) PROVE Owed(w, i) = Ahead((i - 2) % 17)
    <3>1. i # 0 /\ i # w /\ i # w - 1 /\ i # 1
      BY <1>3
    <3> QED
      BY <3>1, Zenon DEF Owed
  <2> QED
    BY <2>1, <2>2, <2>3, <2>4
<1>5. Owed(w, 2) = {ComputeToLoad, StoreToCompute} /\ Owed(w, w - 2) = {ComputeToLoad, StoreToCompute}
  <2>1. 2 \in 2..(w - 2) /\ w - 2 \in 2..(w - 2) /\ (2 - 2) % 17 = 0 /\ ((w - 2) - 2) % 17 = 0
    BY <1>1, <1>3
  <2>2. Owed(w, 2) = Ahead((2 - 2) % 17) /\ Owed(w, w - 2) = Ahead(((w - 2) - 2) % 17)
    BY <1>4, <2>1
  <2>3. Owed(w, 2) = Ahead(0) /\ Owed(w, w - 2) = Ahead(0)
    BY <2>1, <2>2
  <2> QED
    BY <2>3, AheadIs
<1>6. PICK op0 : /\ op0 = Opening /\ IsOf(op0, 2)
                 /\ Moves(Owed(w, 0), op0[1], Owed(w, 1))
                 /\ Moves(Owed(w, 1), op0[2], Owed(w, 2))
  <2>1. IsOf(Opening, 2)
    BY DEF Opening, IsOf
  <2>2. /\ Opening[1] = Push(kComputeStage, kLoadStage)
        /\ Opening[2] = Push(kStoreStage, kComputeStage)
    BY DEF Opening
  <2>3. /\ Moves(Owed(w, 0), Push(kComputeStage, kLoadStage), Owed(w, 1))
        /\ Moves(Owed(w, 1), Push(kStoreStage, kComputeStage), Owed(w, 2))
    BY <1>4, <1>5, FourChannels, CallsDue
  <2>4. /\ Moves(Owed(w, 0), Opening[1], Owed(w, 1))
        /\ Moves(Owed(w, 1), Opening[2], Owed(w, 2))
    BY <2>2, <2>3
  <2> QED
    BY <2>1, <2>4
<1>7. PICK cl : /\ cl = <<Pop(kComputeStage, kLoadStage), Pop(kStoreStage, kComputeStage)>>
                /\ IsOf(cl, 2)
                /\ Moves(Owed(w, w - 2), cl[1], Owed(w, w - 1))
                /\ Moves(Owed(w, w - 1), cl[2], Owed(w, w))
  <2>1. PICK cl : cl = <<Pop(kComputeStage, kLoadStage), Pop(kStoreStage, kComputeStage)>>
    OBVIOUS
  <2>2. IsOf(cl, 2)
    BY <2>1 DEF IsOf
  <2>3. cl[1] = Pop(kComputeStage, kLoadStage) /\ cl[2] = Pop(kStoreStage, kComputeStage)
    BY <2>1
  <2>4. /\ Moves(Owed(w, w - 2), Pop(kComputeStage, kLoadStage), Owed(w, w - 1))
        /\ Moves(Owed(w, w - 1), Pop(kStoreStage, kComputeStage), Owed(w, w))
    BY <1>4, <1>5, FourChannels, CallsDue
  <2>5. /\ Moves(Owed(w, w - 2), cl[1], Owed(w, w - 1))
        /\ Moves(Owed(w, w - 1), cl[2], Owed(w, w))
    BY <2>3, <2>4
  <2> QED
    BY <2>1, <2>2, <2>5
<1>8. PICK hd : /\ hd = <<Call("Handle"), BufferAlloc(4 * n), BufferAlloc(4 * n),
                         BufferAlloc(n), Call("CopyIn")>>
                /\ IsOf(hd, 5) /\ \A i \in 1..5 : Fits(hd[i], w, i)
  <2>1. PICK hd : hd = <<Call("Handle"), BufferAlloc(4 * n), BufferAlloc(4 * n),
                         BufferAlloc(n), Call("CopyIn")>>
    OBVIOUS
  <2>2. IsOf(hd, 5)
    BY <2>1 DEF IsOf
  <2>3. 4 * n \in Nat
    OBVIOUS
  <2>4. /\ hd[1].f = "Handle" /\ hd[5].f = "CopyIn"
        /\ hd[2].f = "Alloc" /\ hd[2].size \in Nat
        /\ hd[3].f = "Alloc" /\ hd[3].size \in Nat
        /\ hd[4].f = "Alloc" /\ hd[4].size \in Nat
    BY <2>1, <2>3 DEF Call, BufferAlloc
  <2>5. ASSUME NEW i \in 1..5 PROVE Fits(hd[i], w, i)
    <3>1. i = 1 \/ i = 2 \/ i = 3 \/ i = 4 \/ i = 5
      OBVIOUS
    <3> QED
      BY <2>4, <3>1 DEF Fits
  <2> QED
    BY <2>1, <2>2, <2>5
<1>9. PICK tl : /\ tl = <<Call("Synchronize"), Call("CopyOut"), Call("Free"), Call("Free"),
                         Call("Free"), Call("Shutdown")>>
                /\ IsOf(tl, 6) /\ \A i \in 1..6 : Fits(tl[i], w, w + 5 + i)
  <2>1. PICK tl : tl = <<Call("Synchronize"), Call("CopyOut"), Call("Free"), Call("Free"),
                         Call("Free"), Call("Shutdown")>>
    OBVIOUS
  <2>2. IsOf(tl, 6)
    BY <2>1 DEF IsOf
  <2>4. /\ tl[1].f = "Synchronize" /\ tl[2].f = "CopyOut" /\ tl[3].f = "Free"
        /\ tl[4].f = "Free" /\ tl[5].f = "Free" /\ tl[6].f = "Shutdown"
    BY <2>1 DEF Call
  <2>5. ASSUME NEW i \in 1..6 PROVE Fits(tl[i], w, w + 5 + i)
    <3>1. i = 1 \/ i = 2 \/ i = 3 \/ i = 4 \/ i = 5 \/ i = 6
      OBVIOUS
    <3> QED
      BY <2>4, <3>1 DEF Fits
  <2> QED
    BY <2>1, <2>2, <2>5
<1>10. PICK a : a = op0 \o ch /\ Joins(a, op0, 2, ch, c)
  <2>1. 2 \in Nat
    OBVIOUS
  <2> QED
    BY <1>1, <1>2, <1>6, <2>1, Joined
<1>11. PICK p : p = a \o cl /\ Joins(p, a, 2 + c, cl, 2)
  <2>1. 2 \in Nat /\ 2 + c \in Nat
    OBVIOUS
  <2>2. IsOf(a, 2 + c)
    BY <1>10 DEF Joins
  <2> QED
    BY <1>7, <2>1, <2>2, Joined
<1>12. IsOf(p, w) /\ \A i \in 1..w : Moves(Owed(w, i - 1), p[i], Owed(w, i))
  <2>1. IsOf(p, (2 + c) + 2) /\ (2 + c) + 2 = w
    BY <1>3, <1>11 DEF Joins
  <2>2. ASSUME NEW i \in 1..w PROVE Moves(Owed(w, i - 1), p[i], Owed(w, i))
    <3>1. CASE i \in 1..2
      <4>1. i \in 1..(2 + c)
        BY <3>1
      <4>2. p[i] = op0[i]
        BY <1>10, <1>11, <3>1, <4>1 DEF Joins
      <4>3. (i = 1 /\ i - 1 = 0) \/ (i = 2 /\ i - 1 = 1)
        BY <3>1
      <4> QED
        BY <1>6, <4>2, <4>3
    <3>2. CASE i \in 3..(2 + c)
      <4>1. PICK j \in 1..c : i = 2 + j
        <5>1. i - 2 \in 1..c /\ i = 2 + (i - 2)
          BY <3>2
        <5> QED
          BY <5>1
      <4>2. i \in 1..(2 + c)
        BY <3>2
      <4>3. p[i] = ch[j]
        BY <1>10, <1>11, <4>1, <4>2 DEF Joins
      <4>4. Moves(Ahead((j - 1) % 17), ch[j], Ahead(j % 17))
        BY <1>1, <1>2
      <4>5. Owed(w, i - 1) = Ahead((j - 1) % 17) /\ Owed(w, i) = Ahead(j % 17)
        <5>1. i - 1 \in 2..(w - 2) /\ i \in 2..(w - 2) /\ (i - 1) - 2 = j - 1 /\ i - 2 = j
          BY <1>3, <3>2, <4>1
        <5>2. Owed(w, i - 1) = Ahead(((i - 1) - 2) % 17) /\ Owed(w, i) = Ahead((i - 2) % 17)
          BY <1>4, <5>1
        <5> QED
          BY <5>1, <5>2
      <4> QED
        BY <4>3, <4>4, <4>5
    <3>3. CASE i \in (3 + c)..w
      <4>1. PICK j \in 1..2 : i = (2 + c) + j
        <5>1. i - (2 + c) \in 1..2 /\ i = (2 + c) + (i - (2 + c))
          BY <1>3, <3>3
        <5> QED
          BY <5>1
      <4>2. p[i] = cl[j]
        BY <1>11, <4>1 DEF Joins
      <4>3. (j = 1 /\ i = w - 1 /\ i - 1 = w - 2) \/ (j = 2 /\ i = w /\ i - 1 = w - 1)
        BY <1>3, <4>1
      <4> QED
        BY <1>7, <4>2, <4>3
    <3>4. i \in 1..2 \/ i \in 3..(2 + c) \/ i \in (3 + c)..w
      BY <1>3
    <3> QED
      BY <3>1, <3>2, <3>3, <3>4
  <2> QED
    BY <2>1, <2>2
<1>13. PICK b : b = hd \o p /\ Joins(b, hd, 5, p, w)
  <2>1. 5 \in Nat
    OBVIOUS
  <2> QED
    BY <1>8, <1>12, <2>1, Joined
<1>14. PICK s : s = b \o tl /\ Joins(s, b, 5 + w, tl, 6)
  <2>1. 6 \in Nat /\ 5 + w \in Nat
    OBVIOUS
  <2>2. IsOf(b, 5 + w)
    BY <1>13 DEF Joins
  <2> QED
    BY <1>9, <2>1, <2>2, Joined
<1>15. ASSUME NEW i \in 1..(w + 11) PROVE Fits(s[i], w, i)
  <2>1. CASE i \in 1..5
    <3>1. i \in 1..(5 + w)
      BY <2>1
    <3>2. s[i] = hd[i]
      BY <1>13, <1>14, <2>1, <3>1 DEF Joins
    <3> QED
      BY <1>8, <2>1, <3>2
  <2>2. CASE i \in 6..(5 + w)
    <3>1. PICK j \in 1..w : i = 5 + j
      <4>1. i - 5 \in 1..w /\ i = 5 + (i - 5)
        BY <2>2
      <4> QED
        BY <4>1
    <3>2. i \in 1..(5 + w)
      BY <2>2
    <3>3. s[i] = p[j]
      BY <1>13, <1>14, <3>1, <3>2 DEF Joins
    <3>4. Moves(Owed(w, j - 1), s[i], Owed(w, j)) /\ j - 1 = i - 6 /\ j = i - 5
      BY <1>12, <3>1, <3>3
    <3>5. s[i].f \in Work
      BY <3>4 DEF Moves, Work
    <3>6. Moves(Owed(w, i - 6), s[i], Owed(w, i - 5))
      BY <3>4
    <3> QED
      BY <2>2, <3>5, <3>6 DEF Fits
  <2>3. CASE i \in (6 + w)..(w + 11)
    <3>1. PICK j \in 1..6 : i = (5 + w) + j
      <4>1. i - (5 + w) \in 1..6 /\ i = (5 + w) + (i - (5 + w))
        BY <2>3
      <4> QED
        BY <4>1
    <3>2. s[5 + w + j] = tl[j] /\ i = 5 + w + j /\ 5 + w + j = w + 5 + j
      <4>1. s[5 + w + j] = tl[j]
        BY <1>14, Zenon DEF Joins
      <4> QED
        BY <3>1, <4>1
    <3> QED
      BY <1>9, <3>2
  <2>4. i \in 1..5 \/ i \in 6..(5 + w) \/ i \in (6 + w)..(w + 11)
    OBVIOUS
  <2> QED
    BY <2>1, <2>2, <2>3, <2>4
<1>16. IsOf(s, w + 11)
  <2>1. (5 + w) + 6 = w + 11
    OBVIOUS
  <2> QED
    BY <1>14, <2>1 DEF Joins
<1>17. s = aluAdd(n)
  <2>1. p = Program(n)
    BY <1>2, <1>6, <1>7, <1>10, <1>11 DEF Program
  <2> QED
    BY <1>8, <1>9, <1>13, <1>14, <2>1 DEF aluAdd
<1>18. Rest(s, w, 1)
  <2>1. w + 12 - 1 = w + 11 /\ \A j \in 1..(w + 11) : 1 + j - 1 = j
    OBVIOUS
  <2> QED
    BY <1>15, <1>16, <2>1 DEF Rest
<1> QED
  BY <1>17, <1>18

\* The next of the calls, and what is left after it.
LEMMA NextCall ==
  ASSUME NEW s, NEW w \in Nat, NEW i \in 1..(w + 11), Rest(s, w, i)
  PROVE  /\ s # <<>> /\ Fits(Head(s), w, i)
         /\ i < w + 11 => i + 1 \in 1..(w + 11) /\ Rest(Tail(s), w, i + 1)
<1>1. PICK n \in Nat \ {0} : n = w + 12 - i
  OBVIOUS
<1>2. IsOf(s, n) /\ \A j \in 1..n : Fits(s[j], w, i + j - 1)
  BY <1>1 DEF Rest
<1>3. PICK S : \A j \in 1..n : s[j] \in S
  <2>1. \A j \in 1..n : s[j] \in {s[k] : k \in 1..n}
    OBVIOUS
  <2> QED
    BY <2>1
<1>4. s \in Seq(S) /\ Len(s) = n
  <2>1. [j \in 1..n |-> s[j]] \in Seq(S) /\ Len([j \in 1..n |-> s[j]]) = n
    BY <1>3
  <2> QED
    BY <1>2, <2>1 DEF IsOf
<1>5. s # <<>> /\ Head(s) = s[1]
  BY <1>4
<1>6. Fits(Head(s), w, i)
  <2>1. 1 \in 1..n /\ i + 1 - 1 = i
    OBVIOUS
  <2> QED
    BY <1>2, <1>5, <2>1
<1>7. ASSUME i < w + 11 PROVE i + 1 \in 1..(w + 11) /\ Rest(Tail(s), w, i + 1)
  <2>1. PICK t \in Seq(S) : t = Tail(s) /\ Len(t) = n - 1 /\ \A j \in 1..(n - 1) : t[j] = s[j + 1]
    <3>1. /\ Tail(s) \in Seq(S) /\ Len(Tail(s)) = Len(s) - 1
          /\ \A j \in 1..Len(Tail(s)) : Tail(s)[j] = s[j + 1]
      BY <1>4, <1>5, HeadTailProperties
    <3>2. Len(Tail(s)) = n - 1
      BY <1>4, <3>1
    <3> QED
      BY <3>1, <3>2, Zenon
  <2>2. IsOf(t, n - 1)
    <3>1. t = [j \in 1..Len(t) |-> t[j]]
      OBVIOUS
    <3> QED
      BY <2>1, <3>1 DEF IsOf
  <2>3. ASSUME NEW j \in 1..(n - 1) PROVE Fits(t[j], w, (i + 1) + j - 1)
    <3>1. j + 1 \in 1..n /\ i + (j + 1) - 1 = (i + 1) + j - 1
      OBVIOUS
    <3> QED
      BY <1>2, <2>1, <3>1
  <2>4. n - 1 = w + 12 - (i + 1) /\ i + 1 \in 1..(w + 11)
    BY <1>1, <1>7
  <2> QED
    BY <2>1, <2>2, <2>3, <2>4 DEF Rest
<1> QED
  BY <1>5, <1>6, <1>7

-----------------------------------------------------------------------------
(* The inductive invariant                                                 *)

\* Every block in use belongs to one of the buffers of the addition under way,
\* to the command queue, or to an addition that has given up.
Owners ==
  /\ MemOK(memory)
  /\ bufs \in Seq(Nat) /\ NoRepeats(bufs)
  /\ queueMem = <<>> \/ \E a, b \in Nat : a # b /\ queueMem = <<a, b>>
  /\ leaked \cap ToSet(queueMem) = {} /\ leaked \cap ToSet(bufs) = {}
  /\ ToSet(queueMem) \cap ToSet(bufs) = {}
  /\ memory.live = leaked \cup ToSet(queueMem) \cup ToSet(bufs)

\* How many buffers an addition has before its i-th call.
Held(w, i) ==
  IF i <= 2 THEN 0 ELSE IF i <= 5 THEN i - 2 ELSE IF i <= w + 8 THEN 3 ELSE w + 11 - i

\* The addition has come to its i-th call.
Before(w, i) ==
  /\ Rest(calls, w, i) /\ Len(bufs) = Held(w, i)
  /\ i > 1 => queueMem # <<>>

\* What Eval and aluAdd have, by where they are.
Place ==
  /\ model \in Models
  /\ mode \in {"idle", "start", "issue", "run", "aborted"}
  /\ mode \in {"idle", "start"} => bufs = <<>>
  /\ mode \in {"start", "issue", "run"} => op \in 1..Len(model)
  /\ mode = "issue" => \E w \in Nat : \E i \in 1..(w + 11) : Before(w, i)
  /\ mode = "run" => \E w \in Nat : Before(w, w + 7)

IInv == Owners /\ Place

\* Which call it is says how far the addition has come.
LEMMA WhichCall ==
  ASSUME NEW c, NEW w \in Nat, NEW k \in 1..(w + 11), Fits(c, w, k)
  PROVE  /\ c.f = "Handle" => k = 1
         /\ c.f = "Alloc" => k \in 2..4 /\ c.size \in Nat
         /\ c.f = "CopyIn" => k = 5
         /\ c.f \in Work => k \in 6..(w + 5)
         /\ c.f = "Synchronize" => k = w + 6
         /\ c.f = "CopyOut" => k = w + 7
         /\ c.f = "Free" => k \in (w + 8)..(w + 10)
         /\ c.f = "Shutdown" => k = w + 11
<1>1. \/ k = 1 \/ k \in 2..4 \/ k = 5 \/ k \in 6..(w + 5) \/ k = w + 6 \/ k = w + 7
      \/ k \in (w + 8)..(w + 10) \/ k = w + 11
  OBVIOUS
<1>2. CASE k = 1
  BY <1>2 DEF Fits, Work
<1>3. CASE k \in 2..4
  BY <1>3 DEF Fits, Work
<1>4. CASE k = 5
  BY <1>4 DEF Fits, Work
<1>5. CASE k \in 6..(w + 5)
  BY <1>5 DEF Fits, Work
<1>6. CASE k = w + 6
  BY <1>6 DEF Fits, Work
<1>7. CASE k = w + 7
  BY <1>7 DEF Fits, Work
<1>8. CASE k \in (w + 8)..(w + 10)
  BY <1>8 DEF Fits, Work
<1>9. CASE k = w + 11
  BY <1>9 DEF Fits, Work
<1> QED
  BY <1>1, <1>2, <1>3, <1>4, <1>5, <1>6, <1>7, <1>8, <1>9

\* A step that touches no block leaves every block with its owner.
LEMMA OwnersKept ==
  ASSUME Owners, UNCHANGED <<memory, bufs, queueMem, leaked>>
  PROVE  Owners'
  BY DEF Owners

\* The addition goes on with its next call.
LEMMA GoesOn ==
  ASSUME NEW w \in Nat, NEW i \in 1..(w + 10), Before(w, i), Place,
         calls' = Tail(calls), Len(bufs)' = Held(w, i + 1), queueMem' # <<>>,
         UNCHANGED <<model, op>>, mode' = mode, mode = "issue"
  PROVE  Place'
<1>1. i \in 1..(w + 11) /\ i < w + 11
  OBVIOUS
<1>2. PICK k \in 1..(w + 11) : k = i + 1
  OBVIOUS
<1>3. Rest(Tail(calls), w, k)
  BY <1>1, <1>2, NextCall DEF Before
<1>4. Before(w, k)'
  BY <1>2, <1>3 DEF Before
<1> QED
  BY <1>4 DEF Place

-----------------------------------------------------------------------------
(* Each step keeps it                                                      *)

LEMMA InitIInv == Init => IInv
<1> SUFFICES ASSUME Init PROVE IInv
  OBVIOUS
<1>1. memory = [pages |-> <<>>, free |-> <<>>, live |-> {}]
  BY DEF Init, EmptyMemory
<1>2. <<>> \in Seq(Nat) /\ DOMAIN <<>> = {}
  OBVIOUS
<1>3. ToSet(<<>>) = {} /\ NoRepeats(<<>>)
  BY <1>2 DEF ToSet, NoRepeats
<1>4. MemOK(memory)
  BY <1>1, <1>2, <1>3 DEF MemOK, Sound
<1>5. Owners
  BY <1>1, <1>2, <1>3, <1>4 DEF Init, Owners
<1> QED
  BY <1>5 DEF Init, IInv, Place

LEMMA EvalKeeps ==
  ASSUME IInv, Eval
  PROVE  IInv'
<1>1. Owners'
  BY OwnersKept DEF IInv, Eval
<1>2. 1 \in 1..Len(model)
  <2>1. model \in Seq(OpType) /\ model # <<>>
    BY DelegateAssumption DEF IInv, Place
  <2> QED
    BY <2>1
<1> QED
  BY <1>1, <1>2 DEF IInv, Eval, Place

LEMMA RejectSizesKeeps ==
  ASSUME IInv, RejectSizes
  PROVE  IInv'
<1>1. Owners'
  BY OwnersKept DEF IInv, RejectSizes
<1> QED
  BY <1>1 DEF IInv, RejectSizes, Place

LEMMA StartAddKeeps ==
  ASSUME IInv, StartAdd
  PROVE  IInv'
<1>1. Owners'
  BY OwnersKept DEF IInv, StartAdd
<1>2. /\ model \in Models /\ op \in 1..Len(model) /\ bufs = <<>> /\ calls' = aluAdd(model[op].n1)
      /\ mode' = "issue" /\ UNCHANGED <<model, op, bufs, queueMem>>
  BY DEF IInv, Place, StartAdd
<1>3. PICK n \in Nat \ {0} : n = model[op].n1
  <2>1. model \in Seq(OpType)
    BY <1>2, DelegateAssumption
  <2>2. model[op] \in OpType
    BY <1>2, <2>1
  <2> QED
    BY <2>2 DEF OpType
<1>4. PICK w \in Nat : Rest(aluAdd(n), w, 1)
  BY AddShape
<1>5. PICK i \in 1..(w + 11) : i = 1
  OBVIOUS
<1>6. Before(w, i)'
  <2>1. Len(bufs) = Held(w, i)
    BY <1>2, <1>5 DEF Held
  <2>2. ~(i > 1)
    BY <1>5
  <2> QED
    BY <1>2, <1>3, <1>4, <1>5, <2>1, <2>2 DEF Before
<1>7. Place'
  BY <1>2, <1>6 DEF Place
<1> QED
  BY <1>1, <1>7 DEF IInv

\* What is known when the addition makes its next call.
LEMMA Calling ==
  ASSUME IInv, NEW f, Calls(f)
  PROVE  /\ mode = "issue" /\ Head(calls).f = f
         /\ \E w \in Nat : \E i \in 1..(w + 11) : Before(w, i) /\ Fits(Head(calls), w, i)
<1>0. PICK w \in Nat : \E i \in 1..(w + 11) : Before(w, i)
  BY DEF IInv, Place, Calls
<1>1. PICK i \in 1..(w + 11) : Before(w, i)
  BY <1>0
<1>2. Fits(Head(calls), w, i)
  BY <1>1, NextCall DEF Before
<1> QED
  BY <1>1, <1>2 DEF Calls

LEMMA GetHandleKeeps ==
  ASSUME IInv, GetHandle
  PROVE  IInv'
<1>0. PICK w \in Nat : \E i \in 1..(w + 11) : Before(w, i) /\ Fits(Head(calls), w, i)
  BY Calling DEF GetHandle
<1>1. PICK i \in 1..(w + 11) : Before(w, i) /\ Fits(Head(calls), w, i)
  BY <1>0
<1>2. i = 1 /\ mode = "issue"
  <2>1. Head(calls).f = "Handle" /\ mode = "issue"
    BY DEF GetHandle, Calls
  <2> QED
    BY <1>1, <2>1, WhichCall
<1>3. Owners' /\ queueMem' # <<>>
  <2>1. CASE queueMem # <<>>
    BY <2>1, OwnersKept DEF IInv, GetHandle
  <2>2. CASE queueMem = <<>>
    <3>1. PICK a, m, b, x :
            /\ a = AllocBlock(memory, MaxXfer) /\ m = Alloc(memory, MaxXfer)
            /\ b = AllocBlock(m, MaxXfer) /\ x = Alloc(m, MaxXfer)
      OBVIOUS
    <3>2. queueMem' = <<a, b>> /\ memory' = x /\ UNCHANGED <<bufs, leaked>>
      BY <2>2, <3>1 DEF GetHandle
    <3>3. MaxXfer \in Nat
      BY DelegateAssumption
    <3>4. MemOK(memory)
      BY DEF IInv, Owners
    <3>5. MemOK(m) /\ a \notin memory.live /\ m.live = memory.live \cup {a}
      BY <3>1, <3>3, <3>4, Allocated
    <3>6. MemOK(x) /\ b \notin m.live /\ x.live = m.live \cup {b}
      BY <3>1, <3>3, <3>5, Allocated
    <3>7. a \in Nat /\ b \in Nat
      <4>1. x.live \subseteq 1..Len(x.pages) /\ x.pages \in Seq(Nat)
        BY <3>6 DEF MemOK, Sound
      <4>2. 1..Len(x.pages) \subseteq Nat
        BY <4>1
      <4> QED
        BY <3>5, <3>6, <4>1, <4>2
    <3>8. ToSet(queueMem') = {a, b}
      <4>1. DOMAIN <<a, b>> = {1, 2} /\ <<a, b>>[1] = a /\ <<a, b>>[2] = b
        OBVIOUS
      <4> QED
        BY <3>2, <4>1 DEF ToSet
    <3>9. ToSet(queueMem) = {}
      BY <2>2 DEF ToSet
    <3>10. /\ bufs \in Seq(Nat) /\ NoRepeats(bufs)
           /\ leaked \cap ToSet(bufs) = {} /\ memory.live = leaked \cup ToSet(bufs)
      BY <3>9 DEF IInv, Owners
    <3>11. /\ leaked \cap {a, b} = {} /\ {a, b} \cap ToSet(bufs) = {}
           /\ x.live = leaked \cup {a, b} \cup ToSet(bufs)
      BY <3>5, <3>6, <3>10
    <3>12. a # b
      BY <3>5, <3>6
    <3>13. Owners'
      BY <3>2, <3>6, <3>7, <3>8, <3>10, <3>11, <3>12 DEF Owners
    <3> QED
      BY <3>2, <3>13
  <2> QED
    BY <2>1, <2>2
<1>4. Place'
  <2>1. i \in 1..(w + 10) /\ Place
    BY <1>2 DEF IInv
  <2>2. Len(bufs)' = Held(w, i + 1)
    <3>1. Len(bufs) = Held(w, i) /\ Held(w, i) = 0 /\ Held(w, i + 1) = 0
      BY <1>1, <1>2 DEF Before, Held
    <3> QED
      BY <3>1 DEF GetHandle
  <2> QED
    BY <1>1, <1>2, <1>3, <2>1, <2>2, GoesOn DEF GetHandle
<1> QED
  BY <1>3, <1>4 DEF IInv

LEMMA VTABufferAllocKeeps ==
  ASSUME IInv, VTABufferAlloc
  PROVE  IInv'
<1>0. PICK w \in Nat : \E i \in 1..(w + 11) : Before(w, i) /\ Fits(Head(calls), w, i)
  BY Calling DEF VTABufferAlloc
<1>1. PICK i \in 1..(w + 11) : Before(w, i) /\ Fits(Head(calls), w, i)
  BY <1>0
<1>2. i \in 2..4 /\ Head(calls).size \in Nat /\ mode = "issue"
  <2>1. Head(calls).f = "Alloc" /\ mode = "issue"
    BY DEF VTABufferAlloc, Calls
  <2> QED
    BY <1>1, <2>1, WhichCall
<1>3. PICK size \in Nat : size = Head(calls).size
  BY <1>2
<1>4. PICK b, m : b = AllocBlock(memory, size) /\ m = Alloc(memory, size)
  OBVIOUS
<1>5. /\ bufs' = Append(bufs, b) /\ memory' = m /\ calls' = Tail(calls)
      /\ UNCHANGED <<model, op, mode, queueMem, leaked>>
  BY <1>3, <1>4 DEF VTABufferAlloc
<1>6. MemOK(m) /\ b \notin memory.live /\ m.live = memory.live \cup {b}
  BY <1>4, Allocated DEF IInv, Owners
<1>7. b \in Nat
  <2>1. m.live \subseteq 1..Len(m.pages) /\ m.pages \in Seq(Nat)
    BY <1>6 DEF MemOK, Sound
  <2>2. 1..Len(m.pages) \subseteq Nat
    BY <2>1
  <2> QED
    BY <1>6, <2>1, <2>2
<1>8. /\ bufs \in Seq(Nat) /\ NoRepeats(bufs)
      /\ queueMem = <<>> \/ \E x, y \in Nat : x # y /\ queueMem = <<x, y>>
      /\ leaked \cap ToSet(queueMem) = {} /\ leaked \cap ToSet(bufs) = {}
      /\ ToSet(queueMem) \cap ToSet(bufs) = {}
      /\ memory.live = leaked \cup ToSet(queueMem) \cup ToSet(bufs)
  BY DEF IInv, Owners
<1>9. /\ bufs' \in Seq(Nat) /\ NoRepeats(bufs') /\ Len(bufs') = Len(bufs) + 1
      /\ ToSet(bufs') = ToSet(bufs) \cup {b}
  BY <1>5, <1>6, <1>7, <1>8, Appended
<1>10. Owners'
  <2>1. /\ leaked \cap ToSet(bufs') = {} /\ ToSet(queueMem) \cap ToSet(bufs') = {}
        /\ m.live = leaked \cup ToSet(queueMem) \cup ToSet(bufs')
    BY <1>6, <1>8, <1>9
  <2> QED
    BY <1>5, <1>6, <1>8, <1>9, <2>1 DEF Owners
<1>11. Place'
  <2>1. i \in 1..(w + 10) /\ i > 1
    BY <1>2
  <2>2. Len(bufs)' = Held(w, i + 1)
    <3>1. Len(bufs) = Held(w, i)
      BY <1>1 DEF Before
    <3>2. Held(w, i + 1) = Held(w, i) + 1
      <4>1. i = 2 \/ i = 3 \/ i = 4
        BY <1>2
      <4> QED
        BY <4>1 DEF Held
    <3> QED
      BY <1>9, <3>1, <3>2
  <2>3. queueMem' # <<>>
    BY <1>1, <1>5, <2>1 DEF Before
  <2> QED
    BY <1>1, <1>2, <1>5, <2>1, <2>2, <2>3, GoesOn DEF IInv
<1> QED
  BY <1>10, <1>11 DEF IInv

\* A call that moves no block.
LEMMA QuietCallKeeps ==
  ASSUME IInv, NEW f \in Work \cup {"CopyIn", "CopyOut"}, Calls(f), calls' = Tail(calls),
         UNCHANGED <<model, op, mode, memory, bufs, queueMem, leaked>>
  PROVE  IInv'
<1>0. PICK w \in Nat : \E i \in 1..(w + 11) : Before(w, i) /\ Fits(Head(calls), w, i)
  BY Calling
<1>1. PICK i \in 1..(w + 11) : Before(w, i) /\ Fits(Head(calls), w, i)
  BY <1>0
<1>2. i \in 5..(w + 7) /\ mode = "issue"
  <2>1. Head(calls).f = f /\ mode = "issue"
    BY DEF Calls
  <2>2. i = 5 \/ i \in 6..(w + 5) \/ i = w + 7
    BY <1>1, <2>1, WhichCall
  <2> QED
    BY <2>1, <2>2
<1>3. Owners'
  BY OwnersKept DEF IInv
<1>4. Place'
  <2>1. i \in 1..(w + 10) /\ i > 1
    BY <1>2
  <2>2. Len(bufs)' = Held(w, i + 1)
    <3>1. Len(bufs) = Held(w, i)
      BY <1>1 DEF Before
    <3>2. Held(w, i + 1) = Held(w, i)
      BY <1>2 DEF Held
    <3> QED
      BY <3>1, <3>2
  <2>3. queueMem' # <<>>
    BY <1>1, <2>1 DEF Before
  <2> QED
    BY <1>1, <1>2, <2>1, <2>2, <2>3, GoesOn DEF IInv
<1> QED
  BY <1>3, <1>4 DEF IInv

LEMMA RejectTypeKeeps ==
  ASSUME IInv, RejectType
  PROVE  IInv'
<1>1. /\ leaked' = leaked \cup {bufs[i] : i \in DOMAIN bufs} /\ bufs' = <<>>
      /\ op' = 0 /\ mode' = "idle" /\ UNCHANGED <<model, memory, queueMem>>
  BY DEF RejectType
<1>2. leaked' = leaked \cup ToSet(bufs)
  BY <1>1 DEF ToSet
<1>3. bufs' \in Seq(Nat) /\ NoRepeats(bufs') /\ ToSet(bufs') = {}
  <2>1. <<>> \in Seq(Nat) /\ DOMAIN <<>> = {}
    OBVIOUS
  <2> QED
    BY <1>1, <2>1 DEF NoRepeats, ToSet
<1>4. Owners'
  <2>1. /\ MemOK(memory)
        /\ queueMem = <<>> \/ \E x, y \in Nat : x # y /\ queueMem = <<x, y>>
        /\ leaked \cap ToSet(queueMem) = {} /\ ToSet(queueMem) \cap ToSet(bufs) = {}
        /\ memory.live = leaked \cup ToSet(queueMem) \cup ToSet(bufs)
    BY DEF IInv, Owners
  <2>2. /\ leaked' \cap ToSet(queueMem) = {} /\ leaked' \cap ToSet(bufs') = {}
        /\ ToSet(queueMem) \cap ToSet(bufs') = {}
        /\ memory.live = leaked' \cup ToSet(queueMem) \cup ToSet(bufs')
    BY <1>2, <1>3, <2>1
  <2> QED
    BY <1>1, <1>3, <2>1, <2>2 DEF Owners
<1> QED
  BY <1>1, <1>4 DEF IInv, Place

LEMMA IssueKeeps ==
  ASSUME IInv, Issue
  PROVE  IInv'
<1>1. PICK f \in Work : Calls(f)
  BY DEF Issue, Work
<1> QED
  BY <1>1, QuietCallKeeps DEF Issue

LEMMA SynchronizeKeeps ==
  ASSUME IInv, Synchronize
  PROVE  IInv'
<1>0. PICK w \in Nat : \E i \in 1..(w + 11) : Before(w, i) /\ Fits(Head(calls), w, i)
  BY Calling DEF Synchronize
<1>1. PICK i \in 1..(w + 11) : Before(w, i) /\ Fits(Head(calls), w, i)
  BY <1>0
<1>2. i = w + 6 /\ mode = "issue"
  <2>1. Head(calls).f = "Synchronize" /\ mode = "issue"
    BY DEF Synchronize, Calls
  <2> QED
    BY <1>1, <2>1, WhichCall
<1>3. Owners'
  BY OwnersKept DEF IInv, Synchronize
<1>4. PICK k \in 1..(w + 11) : k = w + 7
  OBVIOUS
<1>5. Before(w, k)'
  <2>1. Rest(Tail(calls), w, k)
    <3>1. Rest(calls, w, i) /\ i < w + 11 /\ k = i + 1
      BY <1>1, <1>2, <1>4 DEF Before
    <3> QED
      BY <3>1, NextCall
  <2>2. Len(bufs) = Held(w, k)
    <3>1. Len(bufs) = Held(w, i) /\ Held(w, i) = Held(w, k)
      BY <1>1, <1>2, <1>4 DEF Before, Held
    <3> QED
      BY <3>1
  <2>3. queueMem # <<>>
    <3>1. i > 1
      BY <1>2
    <3> QED
      BY <1>1, <3>1 DEF Before
  <2> QED
    BY <2>1, <2>2, <2>3 DEF Before, Synchronize
<1>6. Place'
  <2>1. Before(w, w + 7)'
    BY <1>4, <1>5
  <2>2. mode' \in {"run", "aborted"} /\ UNCHANGED <<model, op>>
    BY DEF Synchronize
  <2>3. model \in Models /\ op \in 1..Len(model)
    BY <1>2 DEF IInv, Place
  <2> QED
    BY <2>1, <2>2, <2>3 DEF Place
<1> QED
  BY <1>3, <1>6 DEF IInv

LEMMA FinishedKeeps ==
  ASSUME IInv, Finished
  PROVE  IInv'
<1>1. Owners'
  BY OwnersKept DEF IInv, Finished
<1>2. PICK w \in Nat : Before(w, w + 7)
  BY DEF IInv, Place, Finished
<1>3. PICK k \in 1..(w + 11) : k = w + 7
  OBVIOUS
<1>4. Before(w, k)'
  BY <1>2, <1>3 DEF Before, Finished
<1>5. /\ model \in Models /\ op \in 1..Len(model) /\ mode' = "issue"
      /\ UNCHANGED <<model, op>>
  BY DEF IInv, Place, Finished
<1>6. Place'
  BY <1>4, <1>5 DEF Place
<1> QED
  BY <1>1, <1>6 DEF IInv

LEMMA VTABufferFreeKeeps ==
  ASSUME IInv, VTABufferFree
  PROVE  IInv'
<1>0. PICK w \in Nat : \E i \in 1..(w + 11) : Before(w, i) /\ Fits(Head(calls), w, i)
  BY Calling DEF VTABufferFree
<1>1. PICK i \in 1..(w + 11) : Before(w, i) /\ Fits(Head(calls), w, i)
  BY <1>0
<1>2. i \in (w + 8)..(w + 10) /\ mode = "issue"
  <2>1. Head(calls).f = "Free" /\ mode = "issue"
    BY DEF VTABufferFree, Calls
  <2> QED
    BY <1>1, <2>1, WhichCall
<1>3. /\ memory' = Free(memory, Head(bufs)) /\ bufs' = Tail(bufs) /\ calls' = Tail(calls)
      /\ UNCHANGED <<model, op, mode, queueMem, leaked>>
  BY DEF VTABufferFree
<1>4. Len(bufs) = Held(w, i) /\ Held(w, i) > 0 /\ Held(w, i + 1) = Held(w, i) - 1
  BY <1>1, <1>2 DEF Before, Held
<1>5. /\ MemOK(memory) /\ bufs \in Seq(Nat) /\ NoRepeats(bufs)
      /\ queueMem = <<>> \/ \E x, y \in Nat : x # y /\ queueMem = <<x, y>>
      /\ leaked \cap ToSet(queueMem) = {} /\ leaked \cap ToSet(bufs) = {}
      /\ ToSet(queueMem) \cap ToSet(bufs) = {}
      /\ memory.live = leaked \cup ToSet(queueMem) \cup ToSet(bufs)
  BY DEF IInv, Owners
<1>6. bufs # <<>>
  BY <1>4
<1>7. /\ bufs' \in Seq(Nat) /\ NoRepeats(bufs') /\ Len(bufs') = Len(bufs) - 1
      /\ Head(bufs) \in ToSet(bufs) /\ ToSet(bufs') = ToSet(bufs) \ {Head(bufs)}
  BY <1>3, <1>5, <1>6, Dropped
<1>8. MemOK(memory') /\ memory'.live = memory.live \ {Head(bufs)}
  <2>1. PICK b \in memory.live : b = Head(bufs)
    BY <1>5, <1>7
  <2> QED
    BY <1>3, <1>5, <2>1, Freed
<1>9. Owners'
  <2>1. /\ leaked \cap ToSet(bufs') = {} /\ ToSet(queueMem) \cap ToSet(bufs') = {}
        /\ memory'.live = leaked \cup ToSet(queueMem) \cup ToSet(bufs')
    BY <1>5, <1>7, <1>8
  <2> QED
    BY <1>3, <1>5, <1>7, <1>8, <2>1 DEF Owners
<1>10. Place'
  <2>1. i \in 1..(w + 10) /\ i > 1
    BY <1>2
  <2>2. Len(bufs)' = Held(w, i + 1)
    BY <1>4, <1>7
  <2>3. queueMem' # <<>>
    BY <1>1, <1>3, <2>1 DEF Before
  <2> QED
    BY <1>1, <1>2, <1>3, <2>1, <2>2, <2>3, GoesOn DEF IInv
<1> QED
  BY <1>9, <1>10 DEF IInv

LEMMA EndAddKeeps ==
  ASSUME IInv, EndAdd
  PROVE  IInv'
<1>0. PICK w \in Nat : \E i \in 1..(w + 11) : Before(w, i) /\ Fits(Head(calls), w, i)
  BY Calling DEF EndAdd
<1>1. PICK i \in 1..(w + 11) : Before(w, i) /\ Fits(Head(calls), w, i)
  BY <1>0
<1>2. i = w + 11 /\ mode = "issue"
  <2>1. Head(calls).f = "Shutdown" /\ mode = "issue"
    BY DEF EndAdd, Calls
  <2> QED
    BY <1>1, <2>1, WhichCall
<1>3. /\ MemOK(memory) /\ bufs \in Seq(Nat) /\ NoRepeats(bufs)
      /\ queueMem = <<>> \/ \E x, y \in Nat : x # y /\ queueMem = <<x, y>>
      /\ leaked \cap ToSet(queueMem) = {} /\ leaked \cap ToSet(bufs) = {}
      /\ memory.live = leaked \cup ToSet(queueMem) \cup ToSet(bufs)
  BY DEF IInv, Owners
<1>4. bufs = <<>> /\ queueMem # <<>>
  <2>1. Len(bufs) = Held(w, i) /\ Held(w, i) = 0 /\ i > 1
    BY <1>1, <1>2 DEF Before, Held
  <2>2. queueMem # <<>>
    BY <1>1, <2>1 DEF Before
  <2> QED
    BY <1>3, <2>1, <2>2
<1>5. PICK x \in Nat : \E y \in Nat : x # y /\ queueMem = <<x, y>>
  BY <1>3, <1>4
<1>6. PICK y \in Nat : x # y /\ queueMem = <<x, y>>
  BY <1>5
<1>7. queueMem[1] = x /\ queueMem[2] = y /\ ToSet(queueMem) = {x, y}
  <2>1. DOMAIN <<x, y>> = {1, 2} /\ <<x, y>>[1] = x /\ <<x, y>>[2] = y
    OBVIOUS
  <2> QED
    BY <1>6, <2>1 DEF ToSet
<1>8. ToSet(<<>>) = {}
  BY DEF ToSet
<1>9. PICK m : m = Free(memory, y)
  OBVIOUS
<1>10. MemOK(m) /\ m.live = memory.live \ {y}
  BY <1>3, <1>7, <1>9, Freed
<1>11. x \in m.live
  BY <1>3, <1>6, <1>7, <1>10
<1>12. /\ memory' = Free(m, x) /\ queueMem' = <<>> /\ UNCHANGED <<model, bufs, leaked>>
       /\ op' = (IF op < Len(model) THEN op + 1 ELSE 0)
       /\ mode' = IF op < Len(model) THEN "start" ELSE "idle"
  BY <1>7, <1>9 DEF EndAdd
<1>13. MemOK(memory') /\ memory'.live = m.live \ {x}
  BY <1>10, <1>11, <1>12, Freed
<1>14. Owners'
  <2>1. memory'.live = leaked \cup {} \cup {}
    BY <1>3, <1>4, <1>7, <1>8, <1>10, <1>13
  <2> QED
    BY <1>3, <1>4, <1>8, <1>12, <1>13, <2>1 DEF Owners
<1>15. Place'
  <2>1. model \in Models /\ op \in 1..Len(model) /\ Len(model) \in Nat
    <3>1. model \in Models /\ op \in 1..Len(model)
      BY <1>2 DEF IInv, Place
    <3>2. model \in Seq(OpType)
      BY <3>1, DelegateAssumption
    <3> QED
      BY <3>1, <3>2
  <2>2. mode' = "start" => op' \in 1..Len(model)
    BY <1>12, <2>1
  <2>3. mode' \in {"start", "idle"}
    BY <1>12
  <2> QED
    BY <1>4, <1>12, <2>1, <2>2, <2>3 DEF Place
<1> QED
  BY <1>14, <1>15 DEF IInv

LEMMA CoreRunKeeps ==
  ASSUME IInv, NEW s \in Stages, CoreRun(s)
  PROVE  IInv'
<1>1. Owners'
  BY OwnersKept DEF IInv, CoreRun
<1>2. /\ mode = "run" /\ mode' \in {"run", "aborted"}
      /\ UNCHANGED <<model, op, calls, bufs, queueMem>>
  BY DEF CoreRun
<1>3. PICK w \in Nat : Before(w, w + 7)
  BY <1>2 DEF IInv, Place
<1>4. Before(w, w + 7)'
  BY <1>2, <1>3 DEF Before
<1>5. model \in Models /\ op \in 1..Len(model)
  BY <1>2 DEF IInv, Place
<1>6. Place'
  BY <1>2, <1>4, <1>5 DEF Place
<1> QED
  BY <1>1, <1>6 DEF IInv

LEMMA StepIInv == IInv /\ [Next]_vars => IInv'
<1> SUFFICES ASSUME IInv, [Next]_vars PROVE IInv'
  OBVIOUS
<1>1. CASE Eval
  BY <1>1, EvalKeeps
<1>2. CASE RejectSizes
  BY <1>2, RejectSizesKeeps
<1>3. CASE StartAdd
  BY <1>3, StartAddKeeps
<1>4. CASE GetHandle
  BY <1>4, GetHandleKeeps
<1>5. CASE VTABufferAlloc
  BY <1>5, VTABufferAllocKeeps
<1>6. CASE CopyIn
  BY <1>6, QuietCallKeeps DEF CopyIn
<1>7. CASE RejectType
  BY <1>7, RejectTypeKeeps
<1>8. CASE Issue
  BY <1>8, IssueKeeps
<1>9. CASE Synchronize
  BY <1>9, SynchronizeKeeps
<1>10. CASE Finished
  BY <1>10, FinishedKeeps
<1>11. CASE CopyOut
  BY <1>11, QuietCallKeeps DEF CopyOut
<1>12. CASE VTABufferFree
  BY <1>12, VTABufferFreeKeeps
<1>13. CASE EndAdd
  BY <1>13, EndAddKeeps
<1>14. CASE \E s \in Stages : CoreRun(s)
  BY <1>14, CoreRunKeeps
<1>15. CASE UNCHANGED vars
  <2>1. UNCHANGED <<model, op, mode, calls, memory, bufs, queueMem, leaked>>
    BY <1>15 DEF vars, host
  <2>2. Owners'
    BY <2>1, OwnersKept DEF IInv
  <2> QED
    BY <2>1, <2>2 DEF IInv, Place, Before
<1> QED
  BY <1>1, <1>2, <1>3, <1>4, <1>5, <1>6, <1>7, <1>8, <1>9, <1>10, <1>11, <1>12, <1>13,
     <1>14, <1>15 DEF Next, Thread

\* Whatever the models, the sizes and the number of evaluations: VirtualMemoryManager
\* never hands out a block that is in use, and between evaluations the only blocks in
\* use are those of a command queue left behind and of the additions that returned an
\* error after VTABufferAlloc.
THEOREM BuffersReturnedHolds == Spec => []BuffersReturned
<1>1. IInv => BuffersReturned
  <2> SUFFICES ASSUME IInv PROVE BuffersReturned
    OBVIOUS
  <2>1. Sound(memory)
    BY DEF IInv, Owners, MemOK
  <2>2. ASSUME mode = "idle" PROVE memory.live = leaked \cup ToSet(queueMem)
    <3>1. bufs = <<>>
      BY <2>2 DEF IInv, Place
    <3>2. ToSet(bufs) = {}
      BY <3>1 DEF ToSet
    <3> QED
      BY <3>2 DEF IInv, Owners
  <2> QED
    BY <2>1, <2>2 DEF BuffersReturned
<1> QED
  BY <1>1, InitIInv, StepIInv, PTL DEF Spec

-----------------------------------------------------------------------------
(* The tokens of a command queue                                           *)

InsnOK(insn) ==
  /\ DOMAIN insn = {"opcode", "memory_type", "x_size", "body",
                    "popPrev", "popNext", "pushPrev", "pushNext"}
  /\ insn.opcode \in {"LOAD", "STORE", "ALU"}
  /\ insn.opcode = "LOAD" => insn.memory_type \in {"INP", "ACC", "UOP"}
  /\ insn.popPrev \in BOOLEAN /\ insn.popNext \in BOOLEAN
  /\ insn.pushPrev \in BOOLEAN /\ insn.pushNext \in BOOLEAN

QueueOK(q) ==
  /\ DOMAIN q = {"insns", "prev", "next", "cache", "cacheIdx", "sramBegin", "sramEnd"}
  /\ Len(q.insns) \in Nat /\ IsOf(q.insns, Len(q.insns))
  /\ \A i \in 1..Len(q.insns) : InsnOK(q.insns[i])
  /\ q.prev \in [Stages -> BOOLEAN] /\ q.next \in [Stages -> BOOLEAN]

\* An instruction sends, or waits for, a token on channel c.
Sender(insn, c) == c \in Sends(CoreOf(insn), insn)
Waiter(insn, c) == c \in Waits(CoreOf(insn), insn)

Senders(s, c) == {i \in 1..Len(s) : Sender(s[i], c)}
Waiters(s, c) == {i \in 1..Len(s) : Waiter(s[i], c)}

\* A pop on channel c has been asked for and is in no instruction yet.
Pending(q, c) == IF c[1] < c[2] THEN q.prev[c[2]] ELSE q.next[c[2]]

One(b) == IF b THEN 1 ELSE 0

\* The instructions of the queue send one token more than they wait for on the
\* channels in O, and as many on the others.
Balance(q, O) ==
  \A c \in Channels :
    Cardinality(Senders(q.insns, c)) =
      Cardinality(Waiters(q.insns, c)) + One(Pending(q, c)) + One(c \in O)

\* r is s and one more instruction x.
Grown(s, r, x) ==
  /\ Len(r) = Len(s) + 1 /\ IsOf(r, Len(r))
  /\ \A i \in 1..Len(s) : r[i] = s[i]
  /\ r[Len(r)] = x

LEMMA ChannelEnds ==
  ASSUME NEW c \in Channels
  PROVE  c[1] \in Stages /\ c[2] \in Stages /\ c[1] # c[2] /\ c = <<c[1], c[2]>>
<1>1. \/ c = <<1, 2>> \/ c = <<2, 1>> \/ c = <<3, 2>> \/ c = <<2, 3>>
  BY DEF Channels, kLoadStage, kComputeStage, kStoreStage
<1>2. 1 \in Stages /\ 2 \in Stages /\ 3 \in Stages
  BY DEF Stages, kLoadStage, kStoreStage
<1> QED
  BY <1>1, <1>2

LEMMA Appends ==
  ASSUME NEW s, Len(s) \in Nat, IsOf(s, Len(s)), NEW x
  PROVE  Grown(s, Append(s, x), x)
<1>1. PICK n \in Nat : n = Len(s)
  OBVIOUS
<1> DEFINE S == {s[i] : i \in 1..n} \cup {x}
<1>2. s \in Seq(S) /\ x \in S
  <2>1. \A i \in 1..n : s[i] \in S
    OBVIOUS
  <2>2. x \in S
    OBVIOUS
  <2> HIDE DEF S
  <2>3. [i \in 1..n |-> s[i]] \in Seq(S)
    BY <2>1
  <2> QED
    BY <1>1, <2>2, <2>3 DEF IsOf
<1> HIDE DEF S
<1>3. PICK r \in Seq(S) : r = Append(s, x) /\ Len(r) = n + 1 /\ r[n + 1] = x
                          /\ \A i \in 1..n : r[i] = s[i]
  <2>1. /\ Append(s, x) \in Seq(S) /\ Len(Append(s, x)) = Len(s) + 1
        /\ \A i \in 1..Len(s) : Append(s, x)[i] = s[i]
        /\ Append(s, x)[Len(s) + 1] = x
    BY <1>2, AppendProperties
  <2> QED
    BY <1>1, <2>1
<1>4. IsOf(r, Len(r))
  <2>1. r = [i \in 1..Len(r) |-> r[i]]
    OBVIOUS
  <2> QED
    BY <2>1 DEF IsOf
<1> QED
  BY <1>1, <1>3, <1>4 DEF Grown

\* One number more than those of a subset of 1..n.
LEMMA CountOneMore ==
  ASSUME NEW n \in Nat, NEW A \in SUBSET (1..n)
  PROVE  Cardinality(A) \in Nat /\ Cardinality(A \cup {n + 1}) = Cardinality(A) + 1
<1>1. IsFiniteSet(A)
  <2>1. IsFiniteSet(1..n)
    BY FS_Interval
  <2> QED
    BY <2>1, FS_Subset
<1>2. Cardinality(A) \in Nat
  BY <1>1, FS_CardinalityType
<1>3. n + 1 \notin A
  OBVIOUS
<1>4. Cardinality(A \cup {n + 1}) = Cardinality(A) + 1
  BY <1>1, <1>3, FS_AddElement
<1> QED
  BY <1>2, <1>4

LEMMA Counts ==
  ASSUME NEW s, NEW r, NEW x, NEW c, Len(s) \in Nat, Grown(s, r, x)
  PROVE  /\ Cardinality(Senders(s, c)) \in Nat /\ Cardinality(Waiters(s, c)) \in Nat
         /\ Cardinality(Senders(r, c)) = Cardinality(Senders(s, c)) + One(Sender(x, c))
         /\ Cardinality(Waiters(r, c)) = Cardinality(Waiters(s, c)) + One(Waiter(x, c))
<1>1. PICK n \in Nat : n = Len(s)
  OBVIOUS
<1>2. Len(r) = n + 1 /\ r[n + 1] = x /\ \A i \in 1..n : r[i] = s[i]
  BY <1>1 DEF Grown
<1>3. Senders(s, c) \in SUBSET (1..n) /\ Waiters(s, c) \in SUBSET (1..n)
  BY <1>1 DEF Senders, Waiters
<1>4. Senders(r, c) = IF Sender(x, c) THEN Senders(s, c) \cup {n + 1} ELSE Senders(s, c)
  BY <1>1, <1>2 DEF Senders
<1>5. Waiters(r, c) = IF Waiter(x, c) THEN Waiters(s, c) \cup {n + 1} ELSE Waiters(s, c)
  BY <1>1, <1>2 DEF Waiters
<1>6. Sender(x, c) \in BOOLEAN /\ Waiter(x, c) \in BOOLEAN
  BY DEF Sender, Waiter
<1>7. /\ Cardinality(Senders(s, c)) \in Nat
      /\ Cardinality(Senders(r, c)) = Cardinality(Senders(s, c)) + One(Sender(x, c))
  <2>1. PICK A \in SUBSET (1..n) : A = Senders(s, c)
    BY <1>3
  <2>2. PICK b \in BOOLEAN : b = Sender(x, c)
    BY <1>6
  <2>3. Senders(r, c) = IF b THEN A \cup {n + 1} ELSE A
    BY <1>4, <2>1, <2>2
  <2>4. Cardinality(A) \in Nat /\ Cardinality(A \cup {n + 1}) = Cardinality(A) + 1
    BY CountOneMore
  <2>5. Cardinality(Senders(r, c)) = Cardinality(A) + One(b)
    <3>1. CASE b
      BY <2>3, <2>4, <3>1 DEF One
    <3>2. CASE ~b
      BY <2>3, <2>4, <3>2 DEF One
    <3> QED
      BY <3>1, <3>2
  <2> QED
    BY <2>1, <2>2, <2>4, <2>5, Zenon
<1>8. /\ Cardinality(Waiters(s, c)) \in Nat
      /\ Cardinality(Waiters(r, c)) = Cardinality(Waiters(s, c)) + One(Waiter(x, c))
  <2>1. PICK A \in SUBSET (1..n) : A = Waiters(s, c)
    BY <1>3
  <2>2. PICK b \in BOOLEAN : b = Waiter(x, c)
    BY <1>6
  <2>3. Waiters(r, c) = IF b THEN A \cup {n + 1} ELSE A
    BY <1>5, <2>1, <2>2
  <2>4. Cardinality(A) \in Nat /\ Cardinality(A \cup {n + 1}) = Cardinality(A) + 1
    BY CountOneMore
  <2>5. Cardinality(Waiters(r, c)) = Cardinality(A) + One(b)
    <3>1. CASE b
      BY <2>3, <2>4, <3>1 DEF One
    <3>2. CASE ~b
      BY <2>3, <2>4, <3>2 DEF One
    <3> QED
      BY <3>1, <3>2
  <2> QED
    BY <2>1, <2>2, <2>4, <2>5, Zenon
<1> QED
  BY <1>7, <1>8

\* r is q when an instruction x of the stage has been made, which takes the
\* pending pops of the stage along and sends nothing.
Took(q, r, stage, x) ==
  /\ Grown(q.insns, r.insns, x)
  /\ CoreOf(x) = stage /\ x.pushPrev = FALSE /\ x.pushNext = FALSE
  /\ x.popPrev = q.prev[stage] /\ x.popNext = q.next[stage]
  /\ r.prev = [q.prev EXCEPT ![stage] = FALSE] /\ r.next = [q.next EXCEPT ![stage] = FALSE]
  /\ DOMAIN r = DOMAIN q

LEMMA TookBalance ==
  ASSUME NEW q, NEW r, NEW stage \in Stages, NEW x, QueueOK(q), Took(q, r, stage, x),
         NEW O, Balance(q, O)
  PROVE  Balance(r, O)
<1> SUFFICES ASSUME NEW c \in Channels
             PROVE  Cardinality(Senders(r.insns, c)) =
                      Cardinality(Waiters(r.insns, c)) + One(Pending(r, c)) + One(c \in O)
  BY DEF Balance
<1>1. c[1] \in Stages /\ c[2] \in Stages /\ c[1] # c[2]
  BY ChannelEnds
<1>2. Sender(x, c) = FALSE
  BY DEF Sender, Sends, Took
<1>3. Waiter(x, c) = (c[2] = stage /\ Pending(q, c))
  <2>1. Waiter(x, c) = (c[2] = stage /\ ((x.popPrev /\ c[1] < stage) \/ (x.popNext /\ c[1] > stage)))
    BY DEF Waiter, Waits, Took
  <2>2. x.popPrev = q.prev[stage] /\ x.popNext = q.next[stage]
    BY DEF Took
  <2>3. Pending(q, c) \in BOOLEAN
    BY <1>1 DEF Pending, QueueOK
  <2>4. c[2] = stage => (c[1] < stage /\ ~(c[1] > stage)) \/ (~(c[1] < stage) /\ c[1] > stage)
    BY <1>1 DEF Stages, kLoadStage, kStoreStage
  <2>5. q.prev[stage] \in BOOLEAN /\ q.next[stage] \in BOOLEAN
    BY DEF QueueOK
  <2> QED
    BY <2>1, <2>2, <2>3, <2>4, <2>5 DEF Pending
<1>4. Pending(r, c) = (c[2] # stage /\ Pending(q, c))
  <2>1. r.prev = [q.prev EXCEPT ![stage] = FALSE] /\ r.next = [q.next EXCEPT ![stage] = FALSE]
    BY DEF Took
  <2>2. q.prev \in [Stages -> BOOLEAN] /\ q.next \in [Stages -> BOOLEAN]
    BY DEF QueueOK
  <2> QED
    BY <1>1, <2>1, <2>2 DEF Pending
<1>5. Pending(q, c) \in BOOLEAN
  BY <1>1 DEF Pending, QueueOK
<1>6. /\ Cardinality(Senders(q.insns, c)) \in Nat /\ Cardinality(Waiters(q.insns, c)) \in Nat
      /\ Cardinality(Senders(r.insns, c)) = Cardinality(Senders(q.insns, c)) + One(Sender(x, c))
      /\ Cardinality(Waiters(r.insns, c)) = Cardinality(Waiters(q.insns, c)) + One(Waiter(x, c))
  BY Counts DEF QueueOK, Took
<1>7. Cardinality(Senders(q.insns, c)) =
        Cardinality(Waiters(q.insns, c)) + One(Pending(q, c)) + One(c \in O)
  BY DEF Balance
<1>8. One(Pending(q, c)) = One(Waiter(x, c)) + One(Pending(r, c)) /\ One(Sender(x, c)) = 0
  <2>1. CASE ~Pending(q, c)
    <3>1. ~Waiter(x, c) /\ ~Pending(r, c) /\ ~Sender(x, c)
      BY <1>2, <1>3, <1>4, <2>1
    <3> HIDE DEF Pending, Waiter, Sender
    <3> QED
      BY <3>1, <2>1 DEF One
  <2>2. CASE Pending(q, c) /\ c[2] = stage
    <3>1. Waiter(x, c) /\ ~Pending(r, c) /\ ~Sender(x, c)
      BY <1>2, <1>3, <1>4, <2>2
    <3> HIDE DEF Pending, Waiter, Sender
    <3> QED
      BY <3>1, <2>2 DEF One
  <2>3. CASE Pending(q, c) /\ c[2] # stage
    <3>1. ~Waiter(x, c) /\ Pending(r, c) /\ ~Sender(x, c)
      BY <1>2, <1>3, <1>4, <2>3
    <3> HIDE DEF Pending, Waiter, Sender
    <3> QED
      BY <3>1, <2>3 DEF One
  <2> QED
    BY <1>5, <2>1, <2>2, <2>3
<1>9. One(c \in O) \in Nat /\ One(Waiter(x, c)) \in Nat /\ One(Pending(r, c)) \in Nat
  BY DEF One
<1> HIDE DEF One, Senders, Waiters, Pending, Sender, Waiter
<1> QED
  BY <1>6, <1>7, <1>8, <1>9

\* The instruction is insn but for its pops.
Made(q, r, stage, insn) ==
  \E x : /\ Took(q, r, stage, x) /\ DOMAIN x = DOMAIN insn
         /\ x.opcode = insn.opcode /\ x.memory_type = insn.memory_type

\* CommandQueue::Create of an instruction of the stage.
LEMMA CreateIs ==
  ASSUME NEW q, QueueOK(q), NEW stage \in Stages, NEW insn,
         DOMAIN insn = {"opcode", "memory_type", "x_size", "body",
                        "popPrev", "popNext", "pushPrev", "pushNext"},
         CoreOf(insn) = stage, insn.pushPrev = FALSE, insn.pushNext = FALSE
  PROVE  Made(q, Create(q, stage, insn), stage, insn)
<1>1. PICK x : x = [insn EXCEPT !.popPrev = q.prev[stage], !.popNext = q.next[stage]]
  OBVIOUS
<1>2. /\ DOMAIN x = DOMAIN insn /\ x.opcode = insn.opcode /\ x.memory_type = insn.memory_type
      /\ x.pushPrev = FALSE /\ x.pushNext = FALSE
      /\ x.popPrev = q.prev[stage] /\ x.popNext = q.next[stage]
  BY <1>1
<1>3. CoreOf(x) = stage
  BY <1>2 DEF CoreOf
<1>4. PICK s : s = Append(q.insns, x)
  OBVIOUS
<1>5. Grown(q.insns, s, x)
  BY <1>4, Appends DEF QueueOK
<1>6. PICK p : p = [q EXCEPT !.insns = s]
  OBVIOUS
<1>7. /\ DOMAIN p = DOMAIN q /\ p.insns = s /\ p.prev = q.prev /\ p.next = q.next
  BY <1>6 DEF QueueOK
<1>8. PICK r : r = NoPending(p, stage)
  OBVIOUS
<1>9. /\ DOMAIN r = DOMAIN q /\ r.insns = s
      /\ r.prev = [q.prev EXCEPT ![stage] = FALSE] /\ r.next = [q.next EXCEPT ![stage] = FALSE]
  <2>1. DOMAIN p = {"insns", "prev", "next", "cache", "cacheIdx", "sramBegin", "sramEnd"}
    BY <1>7 DEF QueueOK
  <2>2. r = [p EXCEPT !.prev = [p.prev EXCEPT ![stage] = FALSE],
                      !.next = [p.next EXCEPT ![stage] = FALSE]]
    BY <1>8 DEF NoPending
  <2> QED
    BY <1>7, <2>1, <2>2
<1>10. Create(q, stage, insn) = r
  BY <1>1, <1>4, <1>6, <1>8 DEF Create
<1>11. Took(q, r, stage, x)
  BY <1>2, <1>3, <1>5, <1>9, Zenon DEF Took
<1> QED
  BY <1>2, <1>10, <1>11 DEF Made

\* A queue stays in form when an instruction in form is made.
LEMMA TookOK ==
  ASSUME NEW q, NEW r, NEW stage \in Stages, NEW x, QueueOK(q), Took(q, r, stage, x), InsnOK(x)
  PROVE  QueueOK(r)
<1>1. /\ Len(r.insns) = Len(q.insns) + 1 /\ IsOf(r.insns, Len(r.insns))
      /\ \A i \in 1..Len(q.insns) : r.insns[i] = q.insns[i]
      /\ r.insns[Len(r.insns)] = x
  BY DEF Took, Grown
<1>2. Len(q.insns) \in Nat /\ \A i \in 1..Len(q.insns) : InsnOK(q.insns[i])
  BY DEF QueueOK
<1>3. Len(r.insns) \in Nat /\ \A i \in 1..Len(r.insns) : InsnOK(r.insns[i])
  <2>1. \A i \in 1..Len(r.insns) : i \in 1..Len(q.insns) \/ i = Len(r.insns)
    BY <1>1, <1>2
  <2> QED
    BY <1>1, <1>2, <2>1
<1>4. r.prev \in [Stages -> BOOLEAN] /\ r.next \in [Stages -> BOOLEAN]
  BY DEF Took, QueueOK
<1>5. DOMAIN r = DOMAIN q
  BY DEF Took
<1> QED
  BY <1>1, <1>3, <1>4, <1>5, Zenon DEF QueueOK

\* r is q with a no-op of the stage behind the others.
Nooped(q, r, stage, pushPrev, pushNext, popPrev, popNext) ==
  /\ DOMAIN r = DOMAIN q /\ r.prev = q.prev /\ r.next = q.next
  /\ \E x : /\ Grown(q.insns, r.insns, x) /\ InsnOK(x) /\ CoreOf(x) = stage
            /\ x.pushPrev = pushPrev /\ x.pushNext = pushNext
            /\ x.popPrev = popPrev /\ x.popNext = popNext

LEMMA PushNoopIs ==
  ASSUME NEW q, QueueOK(q), NEW stage \in Stages, NEW a \in BOOLEAN, NEW b \in BOOLEAN,
         NEW c \in BOOLEAN, NEW d \in BOOLEAN
  PROVE  Nooped(q, PushNoop(q, stage, a, b, c, d), stage, a, b, c, d)
<1>1. PICK o, m : /\ o = IF stage = kStoreStage THEN "STORE" ELSE "LOAD"
                  /\ m = IF stage = kLoadStage THEN "INP" ELSE "UOP"
  OBVIOUS
<1>2. PICK noop : noop = Insn(o, m, 0, NoBody)
  OBVIOUS
<1>3. PICK x : x = [noop EXCEPT !.pushPrev = a, !.pushNext = b, !.popPrev = c, !.popNext = d]
  OBVIOUS
<1>4. /\ DOMAIN x = {"opcode", "memory_type", "x_size", "body",
                     "popPrev", "popNext", "pushPrev", "pushNext"}
      /\ x.opcode = o /\ x.memory_type = m
      /\ x.pushPrev = a /\ x.pushNext = b /\ x.popPrev = c /\ x.popNext = d
  BY <1>2, <1>3 DEF Insn
<1>5. InsnOK(x)
  BY <1>1, <1>4 DEF InsnOK
<1>6. CoreOf(x) = stage
  <2>1. stage = kLoadStage \/ stage = kComputeStage \/ stage = kStoreStage
    BY DEF Stages, kLoadStage, kComputeStage, kStoreStage
  <2>2. kLoadStage # kStoreStage /\ kComputeStage # kStoreStage /\ kLoadStage # kComputeStage
    BY DEF kLoadStage, kComputeStage, kStoreStage
  <2> QED
    BY <1>1, <1>4, <2>1, <2>2 DEF CoreOf
<1>7. PICK s : s = Append(q.insns, x)
  OBVIOUS
<1>8. Grown(q.insns, s, x)
  BY <1>7, Appends DEF QueueOK
<1>9. PICK r : r = [q EXCEPT !.insns = s]
  OBVIOUS
<1>10. DOMAIN r = DOMAIN q /\ r.insns = s /\ r.prev = q.prev /\ r.next = q.next
  BY <1>9 DEF QueueOK
<1>11. PushNoop(q, stage, a, b, c, d) = r
  BY <1>1, <1>2, <1>3, <1>7, <1>9 DEF PushNoop
<1>12. Nooped(q, r, stage, a, b, c, d)
  BY <1>4, <1>5, <1>6, <1>8, <1>10 DEF Nooped
<1> QED
  BY <1>11, <1>12

\* r has the instructions of q, which send no less, and behind them more of one
\* stage.
Extends(q, r, stage) ==
  /\ Len(q.insns) <= Len(r.insns)
  /\ \A i \in 1..Len(q.insns) :
       /\ CoreOf(r.insns[i]) = CoreOf(q.insns[i])
       /\ \A c \in Channels : Sender(q.insns[i], c) => Sender(r.insns[i], c)
  /\ \A i \in (Len(q.insns) + 1)..Len(r.insns) : CoreOf(r.insns[i]) = stage

LEMMA GrownExtends ==
  ASSUME NEW q, NEW r, NEW x, NEW stage, Len(q.insns) \in Nat, Grown(q.insns, r.insns, x),
         CoreOf(x) = stage
  PROVE  Extends(q, r, stage)
<1>1. Len(r.insns) = Len(q.insns) + 1
  BY DEF Grown
<1>2. \A i \in (Len(q.insns) + 1)..Len(r.insns) : i = Len(r.insns)
  BY <1>1
<1> QED
  BY <1>1, <1>2 DEF Grown, Extends

\* CommitPendingPop makes an instruction of the pending pops of a stage.
LEMMA CommitIs ==
  ASSUME NEW q, QueueOK(q), NEW stage \in Stages
  PROVE  LET r == CommitPendingPop(q, stage)
         IN  /\ QueueOK(r) /\ Extends(q, r, stage)
             /\ \A O : Balance(q, O) => Balance(r, O)
             /\ r.prev = [q.prev EXCEPT ![stage] = FALSE]
             /\ r.next = [q.next EXCEPT ![stage] = FALSE]
<1>0. q.prev[stage] \in BOOLEAN /\ q.next[stage] \in BOOLEAN
  BY DEF QueueOK
<1>1. CASE q.prev[stage] \/ q.next[stage]
  <2>1. PICK p : p = PushNoop(q, stage, FALSE, FALSE, q.prev[stage], q.next[stage])
    OBVIOUS
  <2>12. PICK f, u, v \in BOOLEAN : f = FALSE /\ u = q.prev[stage] /\ v = q.next[stage]
    BY <1>0
  <2>13. p = PushNoop(q, stage, f, f, u, v)
    BY <2>1, <2>12
  <2>14. Nooped(q, p, stage, f, f, u, v)
    BY <2>13, PushNoopIs
  <2>2. DOMAIN p = DOMAIN q /\ p.prev = q.prev /\ p.next = q.next
    BY <2>14 DEF Nooped
  <2>3. PICK x : /\ Grown(q.insns, p.insns, x) /\ InsnOK(x) /\ CoreOf(x) = stage
                 /\ x.pushPrev = FALSE /\ x.pushNext = FALSE
                 /\ x.popPrev = q.prev[stage] /\ x.popNext = q.next[stage]
    BY <2>12, <2>14 DEF Nooped
  <2>4. PICK r : r = NoPending(p, stage)
    OBVIOUS
  <2>5. /\ DOMAIN r = DOMAIN q /\ r.insns = p.insns
        /\ r.prev = [q.prev EXCEPT ![stage] = FALSE] /\ r.next = [q.next EXCEPT ![stage] = FALSE]
    <3>1. DOMAIN p = {"insns", "prev", "next", "cache", "cacheIdx", "sramBegin", "sramEnd"}
      BY <2>2 DEF QueueOK
    <3>2. r = [p EXCEPT !.prev = [p.prev EXCEPT ![stage] = FALSE],
                        !.next = [p.next EXCEPT ![stage] = FALSE]]
      BY <2>4 DEF NoPending
    <3> QED
      BY <2>2, <3>1, <3>2
  <2>6. CommitPendingPop(q, stage) = r
    BY <1>1, <2>1, <2>4 DEF CommitPendingPop
  <2>7. Took(q, r, stage, x)
    BY <2>3, <2>5, Zenon DEF Took
  <2>8. QueueOK(r)
    BY <2>3, <2>7, TookOK
  <2>9. Extends(q, r, stage)
    BY <2>3, <2>5, GrownExtends DEF QueueOK
  <2>10. \A O : Balance(q, O) => Balance(r, O)
    BY <2>7, TookBalance
  <2> QED
    BY <2>5, <2>6, <2>8, <2>9, <2>10
<1>2. CASE ~(q.prev[stage] \/ q.next[stage])
  <2>1. CommitPendingPop(q, stage) = q
    BY <1>2 DEF CommitPendingPop
  <2>2. q.prev = [q.prev EXCEPT ![stage] = FALSE] /\ q.next = [q.next EXCEPT ![stage] = FALSE]
    BY <1>0, <1>2 DEF QueueOK
  <2>3. Extends(q, q, stage)
    BY DEF Extends, QueueOK
  <2> QED
    BY <2>1, <2>2, <2>3
<1> QED
  BY <1>1, <1>2

\* A stage has one channel to or from each side.
LEMMA OneChannel ==
  ASSUME NEW c \in Channels, NEW d \in Channels
  PROVE  /\ c[2] = d[2] /\ (c[1] < c[2] <=> d[1] < d[2]) => c = d
         /\ c[1] = d[1] /\ (c[1] < c[2] <=> d[1] < d[2]) => c = d
<1>1. \/ c = <<1, 2>> \/ c = <<2, 1>> \/ c = <<3, 2>> \/ c = <<2, 3>>
  BY DEF Channels, kLoadStage, kComputeStage, kStoreStage
<1>2. \/ d = <<1, 2>> \/ d = <<2, 1>> \/ d = <<3, 2>> \/ d = <<2, 3>>
  BY DEF Channels, kLoadStage, kComputeStage, kStoreStage
<1>3. CASE c = <<1, 2>>
  BY <1>2, <1>3
<1>4. CASE c = <<2, 1>>
  BY <1>2, <1>4
<1>5. CASE c = <<3, 2>>
  BY <1>2, <1>5
<1>6. CASE c = <<2, 3>>
  BY <1>2, <1>6
<1> QED
  BY <1>1, <1>3, <1>4, <1>5, <1>6

LEMMA CountsAre ==
  ASSUME NEW s, Len(s) \in Nat, NEW c
  PROVE  /\ IsFiniteSet(Senders(s, c)) /\ Cardinality(Senders(s, c)) \in Nat
         /\ IsFiniteSet(Waiters(s, c)) /\ Cardinality(Waiters(s, c)) \in Nat
<1>1. IsFiniteSet(1..Len(s))
  BY FS_Interval
<1>2. Senders(s, c) \subseteq 1..Len(s) /\ Waiters(s, c) \subseteq 1..Len(s)
  BY DEF Senders, Waiters
<1>3. IsFiniteSet(Senders(s, c)) /\ IsFiniteSet(Waiters(s, c))
  BY <1>1, <1>2, FS_Subset
<1> QED
  BY <1>3, FS_CardinalityType

\* A pop takes a token that has been sent.
LEMMA DepPopIs ==
  ASSUME NEW q, QueueOK(q), NEW from, NEW to, NEW c \in Channels, c = <<from, to>>,
         NEW O, c \in O, Balance(q, O), NEW r, r = DepPop(q, from, to)
  PROVE  QueueOK(r) /\ Balance(r, O \ {c}) /\ Extends(q, r, to)
<1>1. /\ from \in Stages /\ to \in Stages /\ from # to /\ c[1] = from /\ c[2] = to
  BY ChannelEnds
<1>2. PICK p :
        /\ QueueOK(p) /\ Balance(p, O) /\ Extends(q, p, to) /\ ~Pending(p, c)
        /\ r = IF from < to THEN [p EXCEPT !.prev[to] = TRUE] ELSE [p EXCEPT !.next[to] = TRUE]
  <2>1. CASE Pending(q, c)
    <3>1. PICK p : p = CommitPendingPop(q, to)
      OBVIOUS
    <3>2. /\ QueueOK(p) /\ Extends(q, p, to) /\ Balance(p, O)
          /\ p.prev = [q.prev EXCEPT ![to] = FALSE] /\ p.next = [q.next EXCEPT ![to] = FALSE]
      BY <1>1, <3>1, CommitIs
    <3>3. ~Pending(p, c)
      BY <1>1, <3>2 DEF Pending, QueueOK
    <3>4. r = IF from < to THEN [p EXCEPT !.prev[to] = TRUE] ELSE [p EXCEPT !.next[to] = TRUE]
      <4>1. IF from < to THEN q.prev[to] ELSE q.next[to]
        BY <1>1, <2>1 DEF Pending
      <4> QED
        BY <3>1, <4>1, Zenon DEF DepPop
    <3> QED
      BY <3>2, <3>3, <3>4
  <2>2. CASE ~Pending(q, c)
    <3>1. Extends(q, q, to)
      BY DEF Extends, QueueOK
    <3>2. r = IF from < to THEN [q EXCEPT !.prev[to] = TRUE] ELSE [q EXCEPT !.next[to] = TRUE]
      <4>1. ~(IF from < to THEN q.prev[to] ELSE q.next[to])
        BY <1>1, <2>2 DEF Pending
      <4> QED
        BY <4>1, Zenon DEF DepPop
    <3> QED
      BY <2>2, <3>1, <3>2
  <2> QED
    BY <2>1, <2>2
<1>3. /\ DOMAIN r = DOMAIN p /\ r.insns = p.insns
      /\ r.prev = IF from < to THEN [p.prev EXCEPT ![to] = TRUE] ELSE p.prev
      /\ r.next = IF from < to THEN p.next ELSE [p.next EXCEPT ![to] = TRUE]
  BY <1>2 DEF QueueOK
<1>4. QueueOK(r)
  <2>1. r.prev \in [Stages -> BOOLEAN] /\ r.next \in [Stages -> BOOLEAN]
    BY <1>2, <1>3 DEF QueueOK
  <2>2. /\ DOMAIN p = {"insns", "prev", "next", "cache", "cacheIdx", "sramBegin", "sramEnd"}
        /\ Len(p.insns) \in Nat /\ IsOf(p.insns, Len(p.insns))
        /\ \A i \in 1..Len(p.insns) : InsnOK(p.insns[i])
    BY <1>2 DEF QueueOK
  <2> QED
    BY <1>3, <2>1, <2>2 DEF QueueOK
<1>5. Extends(q, r, to)
  BY <1>2, <1>3 DEF Extends
<1>6. ASSUME NEW d \in Channels
      PROVE  Cardinality(Senders(r.insns, d)) =
               Cardinality(Waiters(r.insns, d)) + One(Pending(r, d)) + One(d \in O \ {c})
  <2>1. d[1] \in Stages /\ d[2] \in Stages /\ d[1] # d[2]
    BY ChannelEnds
  <2>2. Cardinality(Senders(p.insns, d)) =
          Cardinality(Waiters(p.insns, d)) + One(Pending(p, d)) + One(d \in O)
    BY <1>2 DEF Balance
  <2>3. Cardinality(Senders(p.insns, d)) \in Nat /\ Cardinality(Waiters(p.insns, d)) \in Nat
    BY <1>2, CountsAre DEF QueueOK
  <2>4. CASE d = c
    <3>1. Pending(r, d)
      <4>1. p.prev \in [Stages -> BOOLEAN] /\ p.next \in [Stages -> BOOLEAN]
        BY <1>2 DEF QueueOK
      <4> QED
        BY <1>1, <1>3, <2>4, <4>1 DEF Pending
    <3>2. One(Pending(p, d)) = 0 /\ One(d \in O) = 1 /\ One(Pending(r, d)) = 1 /\ One(d \in O \ {c}) = 0
      <4>1. ~Pending(p, d) /\ d \in O /\ d \notin O \ {c}
        BY <1>2, <2>4
      <4> HIDE DEF Pending
      <4> QED
        BY <3>1, <4>1 DEF One
    <3> QED
      BY <1>3, <2>2, <2>3, <3>2
  <2>5. CASE d # c
    <3>1. Pending(r, d) = Pending(p, d)
      <4>1. d[2] = to => ~(d[1] < d[2] <=> from < to)
        BY <1>1, <2>5, OneChannel
      <4>2. p.prev \in [Stages -> BOOLEAN] /\ p.next \in [Stages -> BOOLEAN]
        BY <1>2 DEF QueueOK
      <4>3. CASE d[2] # to
        BY <1>1, <1>3, <2>1, <4>2, <4>3 DEF Pending
      <4>4. CASE d[2] = to
        BY <1>1, <1>3, <2>1, <4>1, <4>2, <4>4 DEF Pending
      <4> QED
        BY <4>3, <4>4
    <3>2. (d \in O \ {c}) = (d \in O)
      BY <2>5
    <3> QED
      BY <1>3, <2>2, <3>1, <3>2
  <2> QED
    BY <2>4, <2>5
<1> QED
  BY <1>4, <1>5, <1>6 DEF Balance

\* r is q with one more token sent on c: by its last instruction, y, which is x
\* with a push, or by a new one.
Sent(q, r, c) ==
  /\ DOMAIN r = DOMAIN q /\ r.prev = q.prev /\ r.next = q.next
  /\ \/ \E x : /\ Grown(q.insns, r.insns, x) /\ InsnOK(x) /\ CoreOf(x) = c[1]
               /\ \A d \in Channels : Sender(x, d) <=> d = c
               /\ \A d \in Channels : ~Waiter(x, d)
     \/ \E x, y : /\ Len(q.insns) > 0 /\ x = q.insns[Len(q.insns)] /\ CoreOf(x) = c[1]
                  /\ r.insns = [q.insns EXCEPT ![Len(q.insns)] = y] /\ Len(r.insns) = Len(q.insns)
                  /\ IsOf(r.insns, Len(r.insns))
                  /\ InsnOK(y) /\ CoreOf(y) = CoreOf(x) /\ ~Sender(x, c)
                  /\ \A d \in Channels : Sender(y, d) <=> Sender(x, d) \/ d = c
                  /\ \A d \in Channels : Waiter(y, d) <=> Waiter(x, d)

\* Its last instruction sends on c.
EndsWith(q, c) ==
  /\ Len(q.insns) \in Nat \ {0} /\ CoreOf(q.insns[Len(q.insns)]) = c[1]
  /\ Sender(q.insns[Len(q.insns)], c)

LEMMA SentOK ==
  ASSUME NEW q, QueueOK(q), NEW r, NEW c \in Channels, Sent(q, r, c),
         NEW O, c \notin O, Balance(q, O)
  PROVE  QueueOK(r) /\ Balance(r, O \cup {c}) /\ Extends(q, r, c[1]) /\ EndsWith(r, c)
<1>1. PICK n \in Nat : n = Len(q.insns)
  BY DEF QueueOK
<1>2. /\ IsOf(q.insns, n) /\ \A i \in 1..n : InsnOK(q.insns[i])
      /\ DOMAIN q = {"insns", "prev", "next", "cache", "cacheIdx", "sramBegin", "sramEnd"}
      /\ q.prev \in [Stages -> BOOLEAN] /\ q.next \in [Stages -> BOOLEAN]
  BY <1>1 DEF QueueOK
<1>3. DOMAIN r = DOMAIN q /\ r.prev = q.prev /\ r.next = q.next
  BY DEF Sent
<1>4. \A d : Pending(r, d) = Pending(q, d)
  BY <1>3 DEF Pending
<1>5. /\ \A d : Cardinality(Senders(q.insns, d)) \in Nat /\ Cardinality(Waiters(q.insns, d)) \in Nat
      /\ \A d : IsFiniteSet(Senders(q.insns, d))
  BY <1>1, CountsAre
<1>6. \A d \in Channels : Cardinality(Senders(q.insns, d)) =
        Cardinality(Waiters(q.insns, d)) + One(Pending(q, d)) + One(d \in O)
  BY DEF Balance
<1>7. ASSUME \A d \in Channels :
               /\ Cardinality(Senders(r.insns, d)) = Cardinality(Senders(q.insns, d)) + One(d = c)
               /\ Cardinality(Waiters(r.insns, d)) = Cardinality(Waiters(q.insns, d))
      PROVE  Balance(r, O \cup {c})
  <2> SUFFICES ASSUME NEW d \in Channels
               PROVE  Cardinality(Senders(r.insns, d)) =
                 Cardinality(Waiters(r.insns, d)) + One(Pending(r, d)) + One(d \in O \cup {c})
    BY DEF Balance
  <2>1. One(d \in O \cup {c}) = One(d \in O) + One(d = c)
    <3>1. CASE d = c
      BY <3>1 DEF One
    <3>2. CASE d # c
      BY <3>2 DEF One
    <3> QED
      BY <3>1, <3>2
  <2>2. One(d \in O) \in Nat /\ One(d = c) \in Nat /\ One(Pending(q, d)) \in Nat
    BY DEF One
  <2>3. One(Pending(r, d)) = One(Pending(q, d))
    BY <1>4
  <2>4. /\ Cardinality(Senders(r.insns, d)) = Cardinality(Senders(q.insns, d)) + One(d = c)
        /\ Cardinality(Waiters(r.insns, d)) = Cardinality(Waiters(q.insns, d))
        /\ Cardinality(Senders(q.insns, d)) =
             Cardinality(Waiters(q.insns, d)) + One(Pending(q, d)) + One(d \in O)
    BY <1>6, <1>7
  <2> HIDE DEF One
  <2> QED
    BY <1>5, <2>1, <2>2, <2>3, <2>4
<1>8. CASE \E x : /\ Grown(q.insns, r.insns, x) /\ InsnOK(x) /\ CoreOf(x) = c[1]
                  /\ \A d \in Channels : Sender(x, d) <=> d = c
                  /\ \A d \in Channels : ~Waiter(x, d)
  <2>1. PICK x : /\ Grown(q.insns, r.insns, x) /\ InsnOK(x) /\ CoreOf(x) = c[1]
                 /\ \A d \in Channels : Sender(x, d) <=> d = c
                 /\ \A d \in Channels : ~Waiter(x, d)
    BY <1>8
  <2>2. /\ Len(r.insns) = n + 1 /\ IsOf(r.insns, n + 1) /\ r.insns[n + 1] = x
        /\ \A i \in 1..n : r.insns[i] = q.insns[i]
    BY <1>1, <2>1 DEF Grown
  <2>3. QueueOK(r)
    <3>1. \A i \in 1..(n + 1) : i \in 1..n \/ i = n + 1
      OBVIOUS
    <3>2. \A i \in 1..(n + 1) : InsnOK(r.insns[i])
      BY <1>2, <2>1, <2>2, <3>1
    <3>3. n + 1 \in Nat
      OBVIOUS
    <3> QED
      BY <1>2, <1>3, <2>2, <3>2, <3>3 DEF QueueOK
  <2>4. Extends(q, r, c[1])
    BY <1>1, <2>1, GrownExtends
  <2>5. EndsWith(r, c)
    BY <2>1, <2>2 DEF EndsWith
  <2>6. ASSUME NEW d \in Channels
        PROVE  /\ Cardinality(Senders(r.insns, d)) = Cardinality(Senders(q.insns, d)) + One(d = c)
               /\ Cardinality(Waiters(r.insns, d)) = Cardinality(Waiters(q.insns, d))
    <3>1. /\ Cardinality(Senders(r.insns, d)) = Cardinality(Senders(q.insns, d)) + One(Sender(x, d))
          /\ Cardinality(Waiters(r.insns, d)) = Cardinality(Waiters(q.insns, d)) + One(Waiter(x, d))
      BY <1>1, <2>1, Counts
    <3>2. One(Sender(x, d)) = One(d = c)
      <4>1. CASE d = c
        <5>1. Sender(x, d)
          BY <2>1, <4>1
        <5> QED
          BY <4>1, <5>1 DEF One
      <4>2. CASE d # c
        <5>1. ~Sender(x, d)
          BY <2>1, <4>2
        <5> QED
          BY <4>2, <5>1 DEF One
      <4> QED
        BY <4>1, <4>2
    <3>3. One(Waiter(x, d)) = 0
      <4>1. ~Waiter(x, d)
        BY <2>1
      <4> QED
        BY <4>1 DEF One
    <3> QED
      BY <1>5, <3>1, <3>2, <3>3
  <2> QED
    BY <1>7, <2>3, <2>4, <2>5, <2>6
<1>9. CASE \E x, y :
             /\ Len(q.insns) > 0 /\ x = q.insns[Len(q.insns)] /\ CoreOf(x) = c[1]
             /\ r.insns = [q.insns EXCEPT ![Len(q.insns)] = y] /\ Len(r.insns) = Len(q.insns)
             /\ IsOf(r.insns, Len(r.insns))
             /\ InsnOK(y) /\ CoreOf(y) = CoreOf(x) /\ ~Sender(x, c)
             /\ \A d \in Channels : Sender(y, d) <=> Sender(x, d) \/ d = c
             /\ \A d \in Channels : Waiter(y, d) <=> Waiter(x, d)
  <2>1. PICK x, y :
             /\ n > 0 /\ x = q.insns[n] /\ CoreOf(x) = c[1]
             /\ r.insns = [q.insns EXCEPT ![n] = y] /\ Len(r.insns) = n
             /\ IsOf(r.insns, n)
             /\ InsnOK(y) /\ CoreOf(y) = CoreOf(x) /\ ~Sender(x, c)
             /\ \A d \in Channels : Sender(y, d) <=> Sender(x, d) \/ d = c
             /\ \A d \in Channels : Waiter(y, d) <=> Waiter(x, d)
    BY <1>1, <1>9
  <2>2. n \in 1..n /\ DOMAIN q.insns = 1..n
    BY <1>2, <2>1 DEF IsOf
  <2>3. r.insns[n] = y /\ \A i \in 1..n : i # n => r.insns[i] = q.insns[i]
    BY <2>1, <2>2
  <2>4. QueueOK(r)
    <3>1. \A i \in 1..n : InsnOK(r.insns[i])
      BY <1>2, <2>1, <2>3
    <3> QED
      BY <1>2, <1>3, <2>1, <3>1 DEF QueueOK
  <2>5. Extends(q, r, c[1])
    <3>1. ASSUME NEW i \in 1..n
          PROVE  /\ CoreOf(r.insns[i]) = CoreOf(q.insns[i])
                 /\ \A d \in Channels : Sender(q.insns[i], d) => Sender(r.insns[i], d)
      <4>1. CASE i = n
        BY <2>1, <2>3, <4>1
      <4>2. CASE i # n
        BY <2>3, <4>2
      <4> QED
        BY <4>1, <4>2
    <3>2. (n + 1)..n = {} /\ n <= n
      OBVIOUS
    <3> QED
      BY <1>1, <2>1, <3>1, <3>2 DEF Extends
  <2>6. EndsWith(r, c)
    BY <2>1, <2>3 DEF EndsWith
  <2>7. ASSUME NEW d \in Channels
        PROVE  /\ Cardinality(Senders(r.insns, d)) = Cardinality(Senders(q.insns, d)) + One(d = c)
               /\ Cardinality(Waiters(r.insns, d)) = Cardinality(Waiters(q.insns, d))
    <3>1. Waiters(r.insns, d) = Waiters(q.insns, d)
      <4>1. \A i \in 1..n : Waiter(r.insns[i], d) <=> Waiter(q.insns[i], d)
        BY <2>1, <2>3
      <4> QED
        BY <1>1, <2>1, <4>1 DEF Waiters
    <3>2. CASE d = c
      <4>1. Senders(r.insns, d) = Senders(q.insns, d) \cup {n}
        <5>1. \A i \in 1..n : Sender(r.insns[i], d) <=> Sender(q.insns[i], d) \/ i = n
          BY <2>1, <2>3, <3>2
        <5> QED
          BY <1>1, <2>1, <2>2, <5>1 DEF Senders
      <4>2. n \notin Senders(q.insns, d)
        BY <2>1, <3>2 DEF Senders
      <4>3. Cardinality(Senders(q.insns, d) \cup {n}) = Cardinality(Senders(q.insns, d)) + 1
        BY <1>5, <4>2, FS_AddElement
      <4> QED
        BY <3>1, <3>2, <4>1, <4>3 DEF One
    <3>3. CASE d # c
      <4>1. Senders(r.insns, d) = Senders(q.insns, d)
        <5>1. \A i \in 1..n : Sender(r.insns[i], d) <=> Sender(q.insns[i], d)
          BY <2>1, <2>3, <3>3
        <5> QED
          BY <1>1, <2>1, <5>1 DEF Senders
      <4>2. One(d = c) = 0
        BY <3>3 DEF One
      <4> QED
        BY <1>5, <3>1, <4>1, <4>2
    <3> QED
      BY <3>2, <3>3
  <2> QED
    BY <1>7, <2>4, <2>5, <2>6, <2>7
<1> QED
  BY <1>8, <1>9 DEF Sent

LEMMA Replaced ==
  ASSUME NEW n \in Nat, NEW s, IsOf(s, n), NEW y
  PROVE  Len([s EXCEPT ![n] = y]) = n /\ IsOf([s EXCEPT ![n] = y], n)
<1>1. PICK r : r = [s EXCEPT ![n] = y]
  OBVIOUS
<1>2. r = [i \in 1..n |-> r[i]]
  <2>1. DOMAIN s = 1..n
    BY DEF IsOf
  <2> QED
    BY <1>1, <2>1
<1>3. Len([i \in 1..n |-> r[i]]) = n
  <2>1. PICK S : \A i \in 1..n : r[i] \in S
    <3>1. \A i \in 1..n : r[i] \in {r[j] : j \in 1..n}
      OBVIOUS
    <3> QED
      BY <3>1
  <2> QED
    BY <2>1
<1> QED
  BY <1>1, <1>2, <1>3 DEF IsOf

LEMMA ExtendsTwice ==
  ASSUME NEW q, NEW p, NEW r, NEW stage, Len(q.insns) \in Nat, Len(p.insns) \in Nat,
         Len(r.insns) \in Nat, Extends(q, p, stage), Extends(p, r, stage)
  PROVE  Extends(q, r, stage)
<1>1. PICK a, b, c \in Nat : a = Len(q.insns) /\ b = Len(p.insns) /\ c = Len(r.insns)
  OBVIOUS
<1>2. /\ a <= b /\ b <= c
      /\ \A i \in 1..a : /\ CoreOf(p.insns[i]) = CoreOf(q.insns[i])
                         /\ \A d \in Channels : Sender(q.insns[i], d) => Sender(p.insns[i], d)
      /\ \A i \in (a + 1)..b : CoreOf(p.insns[i]) = stage
      /\ \A i \in 1..b : /\ CoreOf(r.insns[i]) = CoreOf(p.insns[i])
                         /\ \A d \in Channels : Sender(p.insns[i], d) => Sender(r.insns[i], d)
      /\ \A i \in (b + 1)..c : CoreOf(r.insns[i]) = stage
  BY <1>1 DEF Extends
<1>3. /\ \A i \in 1..a : i \in 1..b
      /\ \A i \in (a + 1)..c : (i \in (a + 1)..b /\ i \in 1..b) \/ i \in (b + 1)..c
  BY <1>2
<1>4. \A i \in 1..a : /\ CoreOf(r.insns[i]) = CoreOf(q.insns[i])
                      /\ \A d \in Channels : Sender(q.insns[i], d) => Sender(r.insns[i], d)
  BY <1>2, <1>3
<1>5. \A i \in (a + 1)..c : CoreOf(r.insns[i]) = stage
  BY <1>2, <1>3
<1>6. a <= c
  BY <1>2
<1> QED
  BY <1>1, <1>4, <1>5, <1>6 DEF Extends

\* A push sends one token more, on the last instruction of the queue if that one
\* is of the stage and does not send on the channel yet.
LEMMA DepPushIs ==
  ASSUME NEW q, QueueOK(q), NEW from, NEW to, NEW c \in Channels, c = <<from, to>>,
         NEW O, c \notin O, Balance(q, O), NEW r, r = DepPush(q, from, to)
  PROVE  QueueOK(r) /\ Balance(r, O \cup {c}) /\ Extends(q, r, from) /\ EndsWith(r, c)
<1>1. /\ from \in Stages /\ to \in Stages /\ from # to /\ c[1] = from /\ c[2] = to
  BY ChannelEnds
<1>2. PICK p : p = CommitPendingPop(q, from)
  OBVIOUS
<1>3. QueueOK(p) /\ Balance(p, O) /\ Extends(q, p, from)
  BY <1>1, <1>2, CommitIs
<1>4. PICK n \in Nat : n = Len(p.insns)
  BY <1>3 DEF QueueOK
<1>5. /\ IsOf(p.insns, n) /\ \A i \in 1..n : InsnOK(p.insns[i])
      /\ DOMAIN p = {"insns", "prev", "next", "cache", "cacheIdx", "sramBegin", "sramEnd"}
  BY <1>3, <1>4 DEF QueueOK
<1>6. \A d \in Channels : d[1] = from => (d = c <=> (d[2] < from <=> to < from))
  <2>1. \A d \in Channels : d[1] \in Stages /\ d[2] \in Stages /\ d[1] # d[2]
    BY ChannelEnds
  <2>2. \A d \in Channels : d[1] = from /\ (from < to <=> from < d[2]) => d = c
    BY <1>1, OneChannel
  <2>3. Stages \subseteq Nat
    BY DEF Stages, kLoadStage, kStoreStage
  <2>4. ASSUME NEW d \in Channels, d[1] = from PROVE d = c <=> (d[2] < from <=> to < from)
    <3>1. d[2] \in Nat /\ from \in Nat /\ to \in Nat /\ d[2] # from /\ from # to
      BY <1>1, <2>1, <2>3, <2>4
    <3>2. (from < to <=> from < d[2]) => d = c
      BY <2>2, <2>4
    <3>3. d = c => d[2] = to
      BY <1>1
    <3> QED
      BY <3>1, <3>2, <3>3
  <2> QED
    BY <2>4
<1>7. from \in Nat /\ to \in Nat /\ \A d \in Channels : d[2] \in Nat /\ d[1] # d[2]
  BY <1>1, ChannelEnds DEF Stages, kLoadStage, kStoreStage
<1> DEFINE Carries == n > 0 /\ GetPipelineStage(p.insns[n]) = from
<1>8. r = CASE from < to /\ Carries /\ ~p.insns[n].pushNext -> [p EXCEPT !.insns[n].pushNext = TRUE]
            [] from > to /\ Carries /\ ~p.insns[n].pushPrev -> [p EXCEPT !.insns[n].pushPrev = TRUE]
            [] OTHER -> PushNoop(p, from, from > to, from < to, FALSE, FALSE)
  BY <1>2, <1>4 DEF DepPush
<1>9. Carries => n \in 1..n /\ CoreOf(p.insns[n]) = from
  <2> SUFFICES ASSUME Carries PROVE n \in 1..n /\ CoreOf(p.insns[n]) = from
    OBVIOUS
  <2>1. n \in 1..n
    OBVIOUS
  <2>2. InsnOK(p.insns[n])
    BY <1>5, <2>1
  <2>3. PICK x : x = p.insns[n]
    OBVIOUS
  <2>4. GetPipelineStage(x) = from /\ InsnOK(x)
    BY <2>2, <2>3
  <2>5. from # kNoneStage
    BY <1>1 DEF Stages, kLoadStage, kStoreStage, kNoneStage
  <2>6. x.opcode = "ALU" => CoreOf(x) = from
    BY <2>4 DEF GetPipelineStage, CoreOf
  <2>7. x.opcode = "STORE" => CoreOf(x) = from
    BY <2>4 DEF GetPipelineStage, CoreOf
  <2>8. ASSUME x.opcode = "LOAD" PROVE CoreOf(x) = from
    <3>1. x.memory_type \in {"INP", "ACC", "UOP"}
      BY <2>4, <2>8 DEF InsnOK
    <3>2. GetMemPipelineStage(x.memory_type) = from
      <4>1. GetPipelineStage(x) = IF x.x_size = 0 THEN kNoneStage
                                  ELSE GetMemPipelineStage(x.memory_type)
        BY <2>8 DEF GetPipelineStage
      <4> QED
        BY <2>4, <2>5, <4>1
    <3> QED
      BY <2>8, <3>1, <3>2 DEF GetMemPipelineStage, CoreOf
  <2> QED
    BY <2>1, <2>3, <2>4, <2>6, <2>7, <2>8 DEF InsnOK
<1> HIDE DEF Carries
<1>10. ASSUME NEW y, Carries, InsnOK(y), CoreOf(y) = from, ~Sender(p.insns[n], c),
              r = [p EXCEPT !.insns = [p.insns EXCEPT ![n] = y]],
              \A d \in Channels : Sender(y, d) <=> Sender(p.insns[n], d) \/ d = c,
              \A d \in Channels : Waiter(y, d) <=> Waiter(p.insns[n], d)
       PROVE  Sent(p, r, c)
  <2>1. DOMAIN r = DOMAIN p /\ r.prev = p.prev /\ r.next = p.next
        /\ r.insns = [p.insns EXCEPT ![n] = y]
    BY <1>5, <1>10
  <2>2. Len(r.insns) = n /\ IsOf(r.insns, n)
    <3>1. IsOf(p.insns, n)
      BY <1>5
    <3>2. Len([p.insns EXCEPT ![n] = y]) = n /\ IsOf([p.insns EXCEPT ![n] = y], n)
      BY <3>1, Replaced, Zenon
    <3> QED
      BY <2>1, <3>2
  <2>3. n > 0
    BY <1>9, <1>10
  <2>4. CoreOf(p.insns[n]) = from
    BY <1>9, <1>10
  <2>5. /\ Len(p.insns) > 0 /\ p.insns[n] = p.insns[Len(p.insns)] /\ CoreOf(p.insns[n]) = c[1]
        /\ r.insns = [p.insns EXCEPT ![Len(p.insns)] = y] /\ Len(r.insns) = Len(p.insns)
        /\ IsOf(r.insns, Len(r.insns))
        /\ InsnOK(y) /\ CoreOf(y) = CoreOf(p.insns[n]) /\ ~Sender(p.insns[n], c)
        /\ \A d \in Channels : Sender(y, d) <=> Sender(p.insns[n], d) \/ d = c
        /\ \A d \in Channels : Waiter(y, d) <=> Waiter(p.insns[n], d)
    BY <1>1, <1>4, <1>10, <2>1, <2>2, <2>3, <2>4
  <2> QED
    BY <2>1, <2>5 DEF Sent
<1>11. ASSUME from < to /\ Carries /\ ~p.insns[n].pushNext PROVE Sent(p, r, c)
  <2>1. ~(from > to)
    BY <1>7, <1>11
  <2>2. PICK x, y : x = p.insns[n] /\ y = [x EXCEPT !.pushNext = TRUE]
    OBVIOUS
  <2>3. r = [p EXCEPT !.insns = [p.insns EXCEPT ![n] = y]]
    BY <1>8, <1>11, <2>1, <2>2
  <2>4. InsnOK(x) /\ CoreOf(x) = from
    BY <1>5, <1>9, <1>11, <2>2
  <2>5. /\ InsnOK(y) /\ y.opcode = x.opcode /\ y.memory_type = x.memory_type
        /\ y.popPrev = x.popPrev /\ y.popNext = x.popNext
        /\ y.pushPrev = x.pushPrev /\ y.pushNext = TRUE
    BY <2>2, <2>4 DEF InsnOK
  <2>6. CoreOf(y) = from
    BY <2>4, <2>5 DEF CoreOf
  <2>7. ASSUME NEW d \in Channels
        PROVE  /\ Waiter(y, d) <=> Waiter(x, d)
               /\ Sender(y, d) <=> Sender(x, d) \/ d = c
               /\ d = c => ~Sender(x, d)
    <3>1. Waiter(y, d) <=> Waiter(x, d)
      BY <2>4, <2>5, <2>6 DEF Waiter, Waits
    <3>2. Sender(y, d) <=> d[1] = from /\ ((x.pushPrev /\ d[2] < from) \/ d[2] > from)
      BY <2>4, <2>5, <2>6 DEF Sender, Sends
    <3>3. Sender(x, d) <=> d[1] = from /\ (x.pushPrev /\ d[2] < from)
      BY <1>11, <2>2, <2>4 DEF Sender, Sends
    <3>4. d[1] = from => (d = c <=> d[2] > from)
      BY <1>6, <1>7, <1>11
    <3>5. d = c => d[1] = from /\ d[2] > from /\ ~(d[2] < from)
      BY <1>1, <1>7, <1>11
    <3> QED
      BY <3>1, <3>2, <3>3, <3>4, <3>5
  <2>8. /\ Carries /\ ~Sender(p.insns[n], c)
        /\ \A d \in Channels : Sender(y, d) <=> Sender(p.insns[n], d) \/ d = c
        /\ \A d \in Channels : Waiter(y, d) <=> Waiter(p.insns[n], d)
    BY <1>11, <2>2, <2>7
  <2> QED
    BY <1>10, <2>3, <2>5, <2>6, <2>8, Zenon
<1>12. ASSUME from > to /\ Carries /\ ~p.insns[n].pushPrev PROVE Sent(p, r, c)
  <2>1. ~(from < to)
    BY <1>7, <1>12
  <2>2. PICK x, y : x = p.insns[n] /\ y = [x EXCEPT !.pushPrev = TRUE]
    OBVIOUS
  <2>3. r = [p EXCEPT !.insns = [p.insns EXCEPT ![n] = y]]
    BY <1>8, <1>12, <2>1, <2>2
  <2>4. InsnOK(x) /\ CoreOf(x) = from
    BY <1>5, <1>9, <1>12, <2>2
  <2>5. /\ InsnOK(y) /\ y.opcode = x.opcode /\ y.memory_type = x.memory_type
        /\ y.popPrev = x.popPrev /\ y.popNext = x.popNext
        /\ y.pushPrev = TRUE /\ y.pushNext = x.pushNext
    BY <2>2, <2>4 DEF InsnOK
  <2>6. CoreOf(y) = from
    BY <2>4, <2>5 DEF CoreOf
  <2>7. ASSUME NEW d \in Channels
        PROVE  /\ Waiter(y, d) <=> Waiter(x, d)
               /\ Sender(y, d) <=> Sender(x, d) \/ d = c
               /\ d = c => ~Sender(x, d)
    <3>1. Waiter(y, d) <=> Waiter(x, d)
      BY <2>4, <2>5, <2>6 DEF Waiter, Waits
    <3>2. Sender(y, d) <=> d[1] = from /\ (d[2] < from \/ (x.pushNext /\ d[2] > from))
      BY <2>4, <2>5, <2>6 DEF Sender, Sends
    <3>3. Sender(x, d) <=> d[1] = from /\ (x.pushNext /\ d[2] > from)
      BY <1>12, <2>2, <2>4 DEF Sender, Sends
    <3>4. d[1] = from => (d = c <=> d[2] < from)
      BY <1>6, <1>7, <1>12
    <3>5. d = c => d[1] = from /\ d[2] < from /\ ~(d[2] > from)
      BY <1>1, <1>7, <1>12
    <3> QED
      BY <3>1, <3>2, <3>3, <3>4, <3>5
  <2>8. /\ Carries /\ ~Sender(p.insns[n], c)
        /\ \A d \in Channels : Sender(y, d) <=> Sender(p.insns[n], d) \/ d = c
        /\ \A d \in Channels : Waiter(y, d) <=> Waiter(p.insns[n], d)
    BY <1>12, <2>2, <2>7
  <2> QED
    BY <1>10, <2>3, <2>5, <2>6, <2>8, Zenon
<1>13. ASSUME ~(from < to /\ Carries /\ ~p.insns[n].pushNext),
              ~(from > to /\ Carries /\ ~p.insns[n].pushPrev)
       PROVE  Sent(p, r, c)
  <2>1. r = PushNoop(p, from, from > to, from < to, FALSE, FALSE)
    BY <1>8, <1>13, Zenon
  <2>2. PICK a, b, f \in BOOLEAN : a = (from > to) /\ b = (from < to) /\ f = FALSE
    <3>1. (from > to) \in BOOLEAN /\ (from < to) \in BOOLEAN /\ FALSE \in BOOLEAN
      OBVIOUS
    <3> QED
      BY <3>1, Zenon
  <2>3. r = PushNoop(p, from, a, b, f, f)
    BY <2>1, <2>2
  <2>9. QueueOK(p) /\ from \in Stages
    BY <1>1, <1>3
  <2>8. Nooped(p, r, from, a, b, f, f)
    BY <2>3, <2>9, PushNoopIs
  <2>4. DOMAIN r = DOMAIN p /\ r.prev = p.prev /\ r.next = p.next
    BY <2>8 DEF Nooped
  <2>5. PICK x : /\ Grown(p.insns, r.insns, x) /\ InsnOK(x) /\ CoreOf(x) = from
                 /\ x.pushPrev = a /\ x.pushNext = b
                 /\ x.popPrev = f /\ x.popNext = f
    BY <2>8 DEF Nooped
  <2>6. ASSUME NEW d \in Channels PROVE (Sender(x, d) <=> d = c) /\ ~Waiter(x, d)
    <3>1. ~Waiter(x, d)
      BY <2>2, <2>5 DEF Waiter, Waits
    <3>2. Sender(x, d) <=> d[1] = from /\ ((from > to /\ d[2] < from) \/ (from < to /\ d[2] > from))
      BY <2>2, <2>5 DEF Sender, Sends
    <3>3. from > to \/ from < to
      BY <1>1, <1>7
    <3>4. d[1] = from => (d = c <=> (d[2] < from <=> to < from))
      BY <1>6
    <3>5. d = c => d[1] = from /\ d[2] = to
      BY <1>1
    <3>6. from \in Nat /\ to \in Nat /\ d[2] \in Nat /\ d[1] # d[2]
      BY <1>7
    <3> QED
      BY <3>1, <3>2, <3>3, <3>4, <3>5, <3>6
  <2>7. \A d \in Channels : (Sender(x, d) <=> d = c) /\ ~Waiter(x, d)
    BY <2>6
  <2> QED
    BY <1>1, <2>4, <2>5, <2>7 DEF Sent
<1>14. Sent(p, r, c)
  BY <1>11, <1>12, <1>13, Zenon
<1>15. QueueOK(r) /\ Balance(r, O \cup {c}) /\ Extends(p, r, from) /\ EndsWith(r, c)
  BY <1>1, <1>3, <1>14, SentOK
<1>16. Extends(q, r, from)
  BY <1>3, <1>15, ExtendsTwice DEF QueueOK
<1> QED
  BY <1>15, <1>16

\* The micro-op cache is no matter to the tokens.
LEMMA SameInsns ==
  ASSUME NEW q, QueueOK(q), NEW r, DOMAIN r = DOMAIN q, r.insns = q.insns,
         r.prev = q.prev, r.next = q.next
  PROVE  QueueOK(r) /\ \A O : Balance(q, O) => Balance(r, O)
<1>1. QueueOK(r)
  BY DEF QueueOK
<1>2. \A c : Pending(r, c) = Pending(q, c)
  BY DEF Pending
<1>3. ASSUME NEW O, Balance(q, O) PROVE Balance(r, O)
  BY <1>2, <1>3 DEF Balance
<1> QED
  BY <1>1, <1>3

\* A new instruction without pushes of its own keeps the balance.
LEMMA CreateOK ==
  ASSUME NEW q, QueueOK(q), NEW stage \in Stages, NEW opcode, NEW memory_type, NEW x_size,
         NEW body, opcode \in {"LOAD", "STORE", "ALU"},
         opcode = "LOAD" => memory_type \in {"INP", "ACC", "UOP"},
         CoreOf(Insn(opcode, memory_type, x_size, body)) = stage
  PROVE  LET r == Create(q, stage, Insn(opcode, memory_type, x_size, body))
         IN  QueueOK(r) /\ \A O : Balance(q, O) => Balance(r, O)
<1>1. PICK insn : insn = Insn(opcode, memory_type, x_size, body)
  OBVIOUS
<1>2. /\ DOMAIN insn = {"opcode", "memory_type", "x_size", "body",
                        "popPrev", "popNext", "pushPrev", "pushNext"}
      /\ insn.opcode = opcode /\ insn.memory_type = memory_type
      /\ insn.pushPrev = FALSE /\ insn.pushNext = FALSE
  BY <1>1 DEF Insn
<1>3. PICK r : r = Create(q, stage, insn)
  OBVIOUS
<1>4. CoreOf(insn) = stage
  BY <1>1
<1>5. PICK x : /\ Took(q, r, stage, x) /\ DOMAIN x = DOMAIN insn
               /\ x.opcode = insn.opcode /\ x.memory_type = insn.memory_type
  <2>1. Made(q, r, stage, insn)
    BY <1>2, <1>3, <1>4, CreateIs
  <2> QED
    BY <2>1 DEF Made
<1>6. InsnOK(x)
  <2>1. /\ x.popPrev = q.prev[stage] /\ x.popNext = q.next[stage]
        /\ x.pushPrev = FALSE /\ x.pushNext = FALSE
    BY <1>5 DEF Took
  <2>2. q.prev[stage] \in BOOLEAN /\ q.next[stage] \in BOOLEAN
    BY DEF QueueOK
  <2>3. FALSE \in BOOLEAN
    OBVIOUS
  <2> QED
    BY <1>2, <1>5, <2>1, <2>2, <2>3, Zenon DEF InsnOK
<1>7. QueueOK(r)
  BY <1>5, <1>6, TookOK
<1>8. \A O : Balance(q, O) => Balance(r, O)
  BY <1>5, TookBalance
<1> QED
  BY <1>1, <1>3, <1>7, <1>8

LEMMA UopPushIs ==
  ASSUME NEW q, QueueOK(q), NEW kernel
  PROVE  LET u == UopPush(q, kernel)
         IN  QueueOK(u) /\ \A O : Balance(q, O) => Balance(u, O)
<1>1. PICK u : u = UopPush(q, kernel)
  OBVIOUS
<1>2. \/ u = q
      \/ \E a, b, c, d : u = [q EXCEPT !.sramBegin = a, !.sramEnd = b, !.cache = c, !.cacheIdx = d]
  BY <1>1, Zenon DEF UopPush
<1>3. DOMAIN u = DOMAIN q /\ u.insns = q.insns /\ u.prev = q.prev /\ u.next = q.next
  BY <1>2 DEF QueueOK
<1>4. QueueOK(u) /\ \A O : Balance(q, O) => Balance(u, O)
  BY <1>3, SameInsns
<1> QED
  BY <1>1, <1>4

LEMMA PushALUUopOK ==
  ASSUME NEW q, QueueOK(q), NEW kernel
  PROVE  LET r == PushALUUop(q, kernel)
         IN  QueueOK(r) /\ \A O : Balance(q, O) => Balance(r, O)
<1>1. PICK u : u = UopPush(q, kernel)
  OBVIOUS
<1>2. QueueOK(u) /\ \A O : Balance(q, O) => Balance(u, O)
  BY <1>1, UopPushIs
<1>3. PICK p : p = Create(u, kComputeStage, UopLoad(u))
  OBVIOUS
<1>4. kComputeStage \in Stages
  BY DEF Stages, kLoadStage, kComputeStage, kStoreStage
<1>5. QueueOK(p) /\ \A O : Balance(q, O) => Balance(p, O)
  <2>1. PICK x, b : UopLoad(u) = Insn("LOAD", "UOP", x, b)
    BY DEF UopLoad
  <2>2. CoreOf(Insn("LOAD", "UOP", x, b)) = kComputeStage
    BY DEF CoreOf, Insn
  <2>3. LET r == Create(u, kComputeStage, Insn("LOAD", "UOP", x, b))
        IN  QueueOK(r) /\ \A O : Balance(u, O) => Balance(r, O)
    BY <1>2, <1>4, <2>2, CreateOK
  <2> QED
    BY <1>2, <1>3, <2>1, <2>3
<1>6. PICK l : l = IF u.sramBegin # u.sramEnd THEN [p EXCEPT !.sramBegin = u.sramEnd] ELSE u
  OBVIOUS
<1>7. QueueOK(l) /\ \A O : Balance(q, O) => Balance(l, O)
  <2>1. PICK m : m = [p EXCEPT !.sramBegin = u.sramEnd]
    OBVIOUS
  <2>2. DOMAIN m = DOMAIN p /\ m.insns = p.insns /\ m.prev = p.prev /\ m.next = p.next
    BY <1>5, <2>1 DEF QueueOK
  <2>3. QueueOK(m) /\ \A O : Balance(p, O) => Balance(m, O)
    BY <1>5, <2>2, SameInsns
  <2>4. l = m \/ l = u
    BY <1>6, <2>1
  <2> QED
    BY <1>2, <1>5, <2>3, <2>4
<1>8. PICK b : PushALUUop(q, kernel) = Create(l, kComputeStage, Insn("ALU", "UOP", 1, b))
  BY <1>1, <1>3, <1>6 DEF PushALUUop
<1>9. CoreOf(Insn("ALU", "UOP", 1, b)) = kComputeStage
  BY DEF CoreOf, Insn
<1>10. LET r == Create(l, kComputeStage, Insn("ALU", "UOP", 1, b))
       IN  QueueOK(r) /\ \A O : Balance(l, O) => Balance(r, O)
  BY <1>4, <1>7, <1>9, CreateOK
<1> QED
  BY <1>7, <1>8, <1>10

\* A call of the runtime moves the tokens as it should.
LEMMA AfterOK ==
  ASSUME NEW q, QueueOK(q), NEW c, NEW O, NEW P, Moves(O, c, P), Balance(q, O)
  PROVE  QueueOK(After(q, c)) /\ Balance(After(q, c), P)
<1>1. CASE c.f = "Load"
  <2>1. After(q, c) = Create(q, kComputeStage, Insn("LOAD", "ACC", c.x_size, c.body))
    BY <1>1 DEF After
  <2>2. /\ CoreOf(Insn("LOAD", "ACC", c.x_size, c.body)) = kComputeStage
        /\ kComputeStage \in Stages
    BY DEF CoreOf, Insn, Stages, kLoadStage, kComputeStage, kStoreStage
  <2>3. LET r == Create(q, kComputeStage, Insn("LOAD", "ACC", c.x_size, c.body))
        IN  QueueOK(r) /\ \A N : Balance(q, N) => Balance(r, N)
    BY <2>2, CreateOK
  <2>4. P = O
    BY <1>1 DEF Moves
  <2> QED
    BY <2>1, <2>3, <2>4
<1>2. CASE c.f = "Store"
  <2>1. After(q, c) = Create(q, kStoreStage, Insn("STORE", "OUT", c.x_size, c.body))
    BY <1>2 DEF After
  <2>2. /\ CoreOf(Insn("STORE", "OUT", c.x_size, c.body)) = kStoreStage
        /\ kStoreStage \in Stages
    BY DEF CoreOf, Insn, Stages, kLoadStage, kComputeStage, kStoreStage
  <2>3. LET r == Create(q, kStoreStage, Insn("STORE", "OUT", c.x_size, c.body))
        IN  QueueOK(r) /\ \A N : Balance(q, N) => Balance(r, N)
    BY <2>2, CreateOK
  <2>4. P = O
    BY <1>2 DEF Moves
  <2> QED
    BY <2>1, <2>3, <2>4
<1>3. CASE c.f = "Alu"
  <2>1. After(q, c) = PushALUUop(q, c.kernel)
    BY <1>3 DEF After
  <2>2. P = O
    BY <1>3 DEF Moves
  <2> QED
    BY <2>1, <2>2, PushALUUopOK
<1>4. CASE c.f = "DepPush"
  <2>1. After(q, c) = DepPush(q, c.from, c.to)
    BY <1>4 DEF After
  <2>2. PICK from, to, d : from = c.from /\ to = c.to /\ d = <<from, to>>
    OBVIOUS
  <2>3. d \in Channels /\ d \notin O /\ P = O \cup {d}
    BY <1>4, <2>2 DEF Moves
  <2> QED
    BY <2>1, <2>2, <2>3, DepPushIs
<1>5. CASE c.f = "DepPop"
  <2>1. After(q, c) = DepPop(q, c.from, c.to)
    BY <1>5 DEF After
  <2>2. PICK from, to, d : from = c.from /\ to = c.to /\ d = <<from, to>>
    OBVIOUS
  <2>3. d \in Channels /\ d \in O /\ P = O \ {d}
    BY <1>5, <2>2 DEF Moves
  <2> QED
    BY <2>1, <2>2, <2>3, DepPopIs
<1> QED
  BY <1>1, <1>2, <1>3, <1>4, <1>5 DEF Moves

\* What the device needs of the instructions to run them to their end: as many
\* tokens are sent on a channel as are waited for, the load and the store stage
\* have their last word to the compute stage, and FINISH comes last.
Stream(s) ==
  /\ Len(s) \in Nat /\ IsOf(s, Len(s))
  /\ \A c \in Channels : Cardinality(Senders(s, c)) = Cardinality(Waiters(s, c))
  /\ \A c \in {LoadToCompute, StoreToCompute} : \A i \in 1..Len(s) :
       CoreOf(s[i]) = c[1] =>
         \E j \in 1..Len(s) : i <= j /\ CoreOf(s[j]) = c[1] /\ Sender(s[j], c)
  /\ \A i \in 1..Len(s) : s[i].opcode = "FINISH" => i = Len(s) /\ CoreOf(s[i]) = kComputeStage

LEMMA Tos ==
  /\ LoadToCompute \in Channels /\ LoadToCompute = <<kLoadStage, kComputeStage>>
  /\ StoreToCompute \in Channels /\ StoreToCompute = <<kStoreStage, kComputeStage>>
  /\ LoadToCompute # StoreToCompute
  /\ LoadToCompute[1] = kLoadStage /\ StoreToCompute[1] = kStoreStage
<1>1. LoadToCompute = <<kLoadStage, kComputeStage>> /\ StoreToCompute = <<kStoreStage, kComputeStage>>
  BY DEF LoadToCompute, StoreToCompute
<1> QED
  BY <1>1, FourChannels

\* Synchronize hands such a stream to the device when the addition has waited
\* for all it has sent.
LEMMA ClosedIs ==
  ASSUME NEW q, QueueOK(q), Balance(q, {}), NEW r, r = Closed(q), ~PendingPop(r)
  PROVE  Stream(r.insns)
<1> DEFINE LC == LoadToCompute
           SC == StoreToCompute
<1>0. /\ LC \in Channels /\ LC = <<kLoadStage, kComputeStage>> /\ LC[1] = kLoadStage
      /\ SC \in Channels /\ SC = <<kStoreStage, kComputeStage>> /\ SC[1] = kStoreStage
      /\ LC # SC
  BY Tos
<1> HIDE DEF LC, SC
<1>1. PICK a : a = DepPush(q, kStoreStage, kComputeStage)
  OBVIOUS
<1>2. PICK b : b = DepPush(a, kLoadStage, kComputeStage)
  OBVIOUS
<1>3. PICK c : c = DepPop(b, kStoreStage, kComputeStage)
  OBVIOUS
<1>4. PICK d : d = DepPop(c, kLoadStage, kComputeStage)
  OBVIOUS
<1>5. PICK e : e = CommitPendingPop(d, kComputeStage)
  OBVIOUS
<1>6. r = Create(e, kComputeStage, Insn("FINISH", "UOP", 1, NoBody))
  BY <1>1, <1>2, <1>3, <1>4, <1>5 DEF Closed, JoinStages
<1>7. PICK o0, o1, o2, o3 : o0 = {} /\ o1 = {SC} /\ o2 = {SC, LC} /\ o3 = {LC}
  OBVIOUS
<1>8. /\ SC \notin o0 /\ o1 = o0 \cup {SC} /\ LC \notin o1 /\ o2 = o1 \cup {LC}
      /\ SC \in o2 /\ o3 = o2 \ {SC} /\ LC \in o3 /\ o0 = o3 \ {LC}
  BY <1>0, <1>7
<1>9. Balance(q, o0)
  BY <1>7
<1>10. QueueOK(a) /\ Balance(a, o1) /\ EndsWith(a, SC)
  BY <1>0, <1>1, <1>8, <1>9, DepPushIs
<1>11. QueueOK(b) /\ Balance(b, o2) /\ Extends(a, b, kLoadStage) /\ EndsWith(b, LC)
  BY <1>0, <1>2, <1>8, <1>10, DepPushIs
<1>12. QueueOK(c) /\ Balance(c, o3) /\ Extends(b, c, kComputeStage)
  BY <1>0, <1>3, <1>8, <1>11, DepPopIs
<1>13. QueueOK(d) /\ Balance(d, o0) /\ Extends(c, d, kComputeStage)
  BY <1>0, <1>4, <1>8, <1>12, DepPopIs
<1>14. kComputeStage \in Stages
  BY DEF Stages, kLoadStage, kComputeStage, kStoreStage
<1>15. QueueOK(e) /\ Balance(e, o0) /\ Extends(d, e, kComputeStage)
  BY <1>5, <1>13, <1>14, CommitIs
<1>16. PICK x : Took(e, r, kComputeStage, x)
  <2>1. PICK f : f = Insn("FINISH", "UOP", 1, NoBody)
    OBVIOUS
  <2>2. /\ DOMAIN f = {"opcode", "memory_type", "x_size", "body",
                       "popPrev", "popNext", "pushPrev", "pushNext"}
        /\ f.opcode = "FINISH" /\ f.pushPrev = FALSE /\ f.pushNext = FALSE
    BY <2>1 DEF Insn
  <2>3. CoreOf(f) = kComputeStage
    BY <2>2 DEF CoreOf
  <2>4. Made(e, r, kComputeStage, f)
    BY <1>6, <1>14, <1>15, <2>1, <2>2, <2>3, CreateIs
  <2> QED
    BY <2>4 DEF Made
<1>17. Balance(r, o0)
  BY <1>14, <1>15, <1>16, TookBalance
<1>18. PICK na, nb, ne \in Nat : na = Len(a.insns) /\ nb = Len(b.insns) /\ ne = Len(e.insns)
  BY <1>10, <1>11, <1>15 DEF QueueOK
<1>19. /\ Len(r.insns) = ne + 1 /\ \A i \in 1..ne : r.insns[i] = e.insns[i]
       /\ CoreOf(r.insns[ne + 1]) = kComputeStage
  BY <1>16, <1>18 DEF Took, Grown
<1>20. Extends(b, r, kComputeStage)
  <2>1. Extends(b, d, kComputeStage)
    BY <1>11, <1>12, <1>13, ExtendsTwice DEF QueueOK
  <2>2. Extends(b, e, kComputeStage)
    BY <1>11, <1>13, <1>15, <2>1, ExtendsTwice DEF QueueOK
  <2>3. Grown(e.insns, r.insns, x) /\ CoreOf(x) = kComputeStage
    BY <1>16 DEF Took
  <2>4. Extends(e, r, kComputeStage)
    BY <1>15, <2>3, GrownExtends DEF QueueOK
  <2>5. Len(r.insns) \in Nat
    BY <1>18, <1>19
  <2> QED
    BY <1>11, <1>15, <2>2, <2>4, <2>5, ExtendsTwice DEF QueueOK
<1>21. /\ na <= nb /\ nb <= ne + 1
       /\ \A i \in 1..nb : /\ CoreOf(r.insns[i]) = CoreOf(b.insns[i])
                           /\ \A k \in Channels : Sender(b.insns[i], k) => Sender(r.insns[i], k)
       /\ \A i \in (nb + 1)..(ne + 1) : CoreOf(r.insns[i]) = kComputeStage
       /\ \A i \in 1..na : /\ CoreOf(b.insns[i]) = CoreOf(a.insns[i])
                           /\ \A k \in Channels : Sender(a.insns[i], k) => Sender(b.insns[i], k)
       /\ \A i \in (na + 1)..nb : CoreOf(b.insns[i]) = kLoadStage
  BY <1>11, <1>18, <1>19, <1>20 DEF Extends
<1>22. /\ na \in 1..na /\ CoreOf(a.insns[na]) = kStoreStage /\ Sender(a.insns[na], SC)
       /\ nb \in 1..nb /\ CoreOf(b.insns[nb]) = kLoadStage /\ Sender(b.insns[nb], LC)
  BY <1>0, <1>10, <1>11, <1>18 DEF EndsWith
<1>23. kLoadStage # kComputeStage /\ kStoreStage # kComputeStage /\ kStoreStage # kLoadStage
  BY DEF kLoadStage, kComputeStage, kStoreStage
<1>24. ASSUME NEW i \in 1..Len(r.insns), CoreOf(r.insns[i]) = kLoadStage
       PROVE  \E j \in 1..Len(r.insns) : i <= j /\ CoreOf(r.insns[j]) = kLoadStage
                                         /\ Sender(r.insns[j], LC)
  <2>1. i \in 1..nb
    BY <1>19, <1>21, <1>23, <1>24
  <2>2. i <= nb /\ nb \in 1..Len(r.insns)
    BY <1>19, <1>21, <1>22, <2>1
  <2>3. CoreOf(r.insns[nb]) = kLoadStage /\ Sender(r.insns[nb], LC)
    BY <1>0, <1>21, <1>22
  <2> QED
    BY <2>2, <2>3
<1>25. ASSUME NEW i \in 1..Len(r.insns), CoreOf(r.insns[i]) = kStoreStage
       PROVE  \E j \in 1..Len(r.insns) : i <= j /\ CoreOf(r.insns[j]) = kStoreStage
                                         /\ Sender(r.insns[j], SC)
  <2>1. i \in 1..nb
    BY <1>19, <1>21, <1>23, <1>25
  <2>2. CoreOf(b.insns[i]) = kStoreStage
    BY <1>21, <1>25, <2>1
  <2>3. i \in 1..na
    BY <1>21, <1>23, <2>1, <2>2
  <2>4. i <= na /\ na \in 1..Len(r.insns) /\ na \in 1..nb
    BY <1>19, <1>21, <1>22, <2>3
  <2>5. CoreOf(r.insns[na]) = kStoreStage /\ Sender(r.insns[na], SC)
    BY <1>0, <1>21, <1>22, <2>4
  <2> QED
    BY <2>4, <2>5
<1>26. ASSUME NEW i \in 1..Len(r.insns), r.insns[i].opcode = "FINISH"
       PROVE  i = Len(r.insns) /\ CoreOf(r.insns[i]) = kComputeStage
  <2>1. \A k \in 1..ne : InsnOK(e.insns[k])
    BY <1>15, <1>18 DEF QueueOK
  <2>2. i \notin 1..ne
    <3>1. ASSUME i \in 1..ne PROVE FALSE
      <4>1. InsnOK(r.insns[i])
        BY <1>19, <2>1, <3>1
      <4> QED
        BY <1>26, <4>1 DEF InsnOK
    <3> QED
      BY <3>1
  <2>3. i = ne + 1
    BY <1>19, <2>2
  <2> QED
    BY <1>19, <2>3
<1>27. ASSUME NEW k \in Channels
       PROVE  Cardinality(Senders(r.insns, k)) = Cardinality(Waiters(r.insns, k))
  <2>1. k[2] \in Stages
    BY ChannelEnds
  <2>2. ~Pending(r, k)
    BY <2>1 DEF Pending, PendingPop
  <2>3. Cardinality(Senders(r.insns, k)) =
          Cardinality(Waiters(r.insns, k)) + One(Pending(r, k)) + One(k \in o0)
    BY <1>17 DEF Balance
  <2>4. One(Pending(r, k)) = 0 /\ One(k \in o0) = 0
    <3>1. k \notin o0
      BY <1>7
    <3> HIDE DEF Pending
    <3> QED
      BY <2>2, <3>1 DEF One
  <2>5. Cardinality(Waiters(r.insns, k)) \in Nat
    <3>1. Len(r.insns) \in Nat
      BY <1>18, <1>19
    <3> QED
      BY <3>1, CountsAre
  <2> QED
    BY <2>3, <2>4, <2>5
<1>28. Len(r.insns) \in Nat /\ IsOf(r.insns, Len(r.insns))
  BY <1>16, <1>18, <1>19 DEF Took, Grown
<1>29. ASSUME NEW k \in {LoadToCompute, StoreToCompute}, NEW i \in 1..Len(r.insns),
              CoreOf(r.insns[i]) = k[1]
       PROVE  \E j \in 1..Len(r.insns) : i <= j /\ CoreOf(r.insns[j]) = k[1] /\ Sender(r.insns[j], k)
  <2>1. CASE k = LC
    BY <1>0, <1>24, <1>29, <2>1
  <2>2. CASE k = SC
    BY <1>0, <1>25, <1>29, <2>2
  <2> QED
    BY <1>29, <2>1, <2>2 DEF LC, SC
<1> QED
  BY <1>26, <1>27, <1>28, <1>29 DEF Stream

-----------------------------------------------------------------------------
(* The device runs a stream                                                *)

\* The instructions left to a stage that send, or wait for, a token on c.
LeftSenders(s, left, c) == {i \in left[c[1]] : Sender(s[i], c)}
LeftWaiters(s, left, c) == {i \in left[c[2]] : Waiter(s[i], c)}

\* What the stages have left of the stream s.  A token is there for each
\* instruction that waits for one, or an instruction that has still to send it.
Running(s, left, tok, dn) ==
  /\ Stream(s)
  /\ DOMAIN left = Stages
  /\ \A g \in Stages : left[g] \subseteq {i \in 1..Len(s) : CoreOf(s[i]) = g}
  /\ \A c \in {LoadToCompute, StoreToCompute} : \A i \in left[c[1]] :
       \E j \in left[c[1]] : i <= j /\ Sender(s[j], c)
  /\ tok \in [Channels -> Nat]
  /\ \A c \in Channels :
       tok[c] + Cardinality(LeftSenders(s, left, c)) = Cardinality(LeftWaiters(s, left, c))
  /\ dn \in BOOLEAN /\ (dn => \A g \in Stages : left[g] = {})

LEMMA MinIs ==
  ASSUME NEW T, T \subseteq Nat, T # {}
  PROVE  Min(T) \in T /\ \A y \in T : Min(T) <= y
<1>1. \E x \in T : \A y \in T : x <= y
  BY SmallestOf
<1> QED
  BY <1>1, Zenon DEF Min

\* All of it is left when the device starts.
LEMMA RunStarts ==
  ASSUME NEW s, Stream(s), NEW left,
         left = [g \in Stages |-> {i \in DOMAIN s : CoreOf(s[i]) = g}],
         NEW tok, tok \in [Channels -> Nat], \A c \in Channels : tok[c] = 0
  PROVE  Running(s, left, tok, FALSE)
<1>1. Len(s) \in Nat /\ DOMAIN s = 1..Len(s)
  BY DEF Stream, IsOf
<1>2. DOMAIN left = Stages /\ \A g \in Stages : left[g] = {i \in 1..Len(s) : CoreOf(s[i]) = g}
  BY <1>1
<1>3. ASSUME NEW c \in {LoadToCompute, StoreToCompute}, NEW i \in left[c[1]]
      PROVE  \E j \in left[c[1]] : i <= j /\ Sender(s[j], c)
  <2>1. c[1] \in Stages
    BY <1>3, Tos, ChannelEnds
  <2>2. i \in 1..Len(s) /\ CoreOf(s[i]) = c[1]
    BY <1>2, <1>3, <2>1
  <2>3. PICK j \in 1..Len(s) : i <= j /\ CoreOf(s[j]) = c[1] /\ Sender(s[j], c)
    BY <1>3, <2>2 DEF Stream
  <2> QED
    BY <1>2, <2>1, <2>3
<1>4. ASSUME NEW c \in Channels
      PROVE  tok[c] + Cardinality(LeftSenders(s, left, c)) = Cardinality(LeftWaiters(s, left, c))
  <2>1. c[1] \in Stages /\ c[2] \in Stages
    BY ChannelEnds
  <2>2. LeftSenders(s, left, c) = Senders(s, c)
    <3>1. \A i \in 1..Len(s) : Sender(s[i], c) => CoreOf(s[i]) = c[1]
      BY DEF Sender, Sends
    <3> QED
      BY <1>2, <2>1, <3>1 DEF LeftSenders, Senders
  <2>3. LeftWaiters(s, left, c) = Waiters(s, c)
    <3>1. \A i \in 1..Len(s) : Waiter(s[i], c) => CoreOf(s[i]) = c[2]
      BY DEF Waiter, Waits
    <3> QED
      BY <1>2, <2>1, <3>1 DEF LeftWaiters, Waiters
  <2>4. Cardinality(Senders(s, c)) \in Nat
    BY <1>1, CountsAre
  <2>5. Cardinality(Senders(s, c)) = Cardinality(Waiters(s, c))
    BY DEF Stream
  <2> QED
    BY <2>2, <2>3, <2>4, <2>5
<1> QED
  BY <1>2, <1>3, <1>4 DEF Running

\* When every stage has run out no token is left.
LEMMA RunEnds ==
  ASSUME NEW s, NEW left, NEW tok, Running(s, left, tok, TRUE)
  PROVE  \A c \in Channels : tok[c] = 0
<1> SUFFICES ASSUME NEW c \in Channels PROVE tok[c] = 0
  OBVIOUS
<1>1. c[1] \in Stages /\ c[2] \in Stages
  BY ChannelEnds
<1>2. left[c[1]] = {} /\ left[c[2]] = {}
  BY <1>1 DEF Running
<1>3. LeftSenders(s, left, c) = {} /\ LeftWaiters(s, left, c) = {}
  BY <1>2 DEF LeftSenders, LeftWaiters
<1>4. tok[c] + Cardinality({}) = Cardinality({}) /\ tok[c] \in Nat
  BY <1>3 DEF Running
<1>5. Cardinality({}) = 0
  BY FS_EmptySet
<1> QED
  BY <1>4, <1>5

\* Stage g runs the instruction at k, its next: what is left then, and the tokens.
Turn(s, left, tok, g, k, left2, tok2, dn2) ==
  /\ left[g] # {} /\ k = Min(left[g])
  /\ \A c \in Waits(g, s[k]) : tok[c] > 0
  /\ left2 = [left EXCEPT ![g] = @ \ {k}]
  /\ tok2 = [c \in Channels |-> tok[c] - (IF c \in Waits(g, s[k]) THEN 1 ELSE 0)
                                      + (IF c \in Sends(g, s[k]) THEN 1 ELSE 0)]
  /\ dn2 = (s[k].opcode = "FINISH")

LEMMA RunStep ==
  ASSUME NEW s, NEW left, NEW tok, NEW dn, Running(s, left, tok, dn), NEW g \in Stages,
         NEW k, NEW left2, NEW tok2, NEW dn2, Turn(s, left, tok, g, k, left2, tok2, dn2)
  PROVE  Running(s, left2, tok2, dn2)
<1>0. /\ left[g] # {} /\ k = Min(left[g])
      /\ \A c \in Waits(g, s[k]) : tok[c] > 0
      /\ left2 = [left EXCEPT ![g] = @ \ {k}]
      /\ tok2 = [c \in Channels |-> tok[c] - (IF c \in Waits(g, s[k]) THEN 1 ELSE 0)
                                          + (IF c \in Sends(g, s[k]) THEN 1 ELSE 0)]
      /\ dn2 = (s[k].opcode = "FINISH")
  BY DEF Turn
<1> USE <1>0
<1>1. PICK n \in Nat : n = Len(s)
  BY DEF Running, Stream
<1>2. /\ DOMAIN left = Stages
      /\ \A h \in Stages : left[h] \subseteq {i \in 1..n : CoreOf(s[i]) = h}
      /\ tok \in [Channels -> Nat]
      /\ \A c \in Channels :
           tok[c] + Cardinality(LeftSenders(s, left, c)) = Cardinality(LeftWaiters(s, left, c))
  BY <1>1 DEF Running
<1>3. k \in left[g] /\ \A i \in left[g] : k <= i
  <2>1. left[g] \subseteq Nat
    BY <1>2
  <2> QED
    BY <2>1, MinIs
<1>4. k \in 1..n /\ CoreOf(s[k]) = g
  BY <1>2, <1>3
<1>5. /\ DOMAIN left2 = Stages /\ left2[g] = left[g] \ {k}
      /\ \A h \in Stages : h # g => left2[h] = left[h]
  BY <1>2
<1>6. \A h \in Stages : left2[h] \subseteq left[h]
  BY <1>5
<1>7. \A c : (c \in Waits(g, s[k]) <=> Waiter(s[k], c)) /\ (c \in Sends(g, s[k]) <=> Sender(s[k], c))
  BY <1>4 DEF Waiter, Sender
<1>8. \A c \in Channels : /\ IsFiniteSet(LeftSenders(s, left, c))
                          /\ IsFiniteSet(LeftWaiters(s, left, c))
                          /\ Cardinality(LeftSenders(s, left, c)) \in Nat
                          /\ Cardinality(LeftWaiters(s, left, c)) \in Nat
  <2> TAKE c \in Channels
  <2>1. c[1] \in Stages /\ c[2] \in Stages
    BY ChannelEnds
  <2>2. LeftSenders(s, left, c) \subseteq 1..n /\ LeftWaiters(s, left, c) \subseteq 1..n
    BY <1>2, <2>1 DEF LeftSenders, LeftWaiters
  <2>3. IsFiniteSet(1..n)
    BY FS_Interval
  <2>4. IsFiniteSet(LeftSenders(s, left, c)) /\ IsFiniteSet(LeftWaiters(s, left, c))
    BY <2>2, <2>3, FS_Subset
  <2> QED
    BY <2>4, FS_CardinalityType
<1>9. ASSUME NEW c \in Channels
      PROVE  /\ tok2[c] \in Nat
             /\ tok2[c] + Cardinality(LeftSenders(s, left2, c)) = Cardinality(LeftWaiters(s, left2, c))
  <2>1. c[1] \in Stages /\ c[2] \in Stages /\ c[1] # c[2]
    BY ChannelEnds
  <2>2. PICK a, b, t \in Nat : /\ a = Cardinality(LeftSenders(s, left, c))
                               /\ b = Cardinality(LeftWaiters(s, left, c)) /\ t = tok[c]
    BY <1>2, <1>8
  <2>3. t + a = b
    BY <1>2, <2>2
  <2>4. /\ Sender(s[k], c) => c[1] = g
        /\ Waiter(s[k], c) => c[2] = g
    BY <1>4 DEF Sender, Sends, Waiter, Waits
  <2>5. tok2[c] = t - (IF Waiter(s[k], c) THEN 1 ELSE 0) + (IF Sender(s[k], c) THEN 1 ELSE 0)
    BY <1>7, <2>2
  <2>6. CASE Sender(s[k], c)
    <3>1. c[1] = g /\ c[2] # g /\ ~Waiter(s[k], c)
      BY <2>1, <2>4, <2>6
    <3>2. LeftSenders(s, left2, c) = LeftSenders(s, left, c) \ {k}
      BY <1>5, <3>1 DEF LeftSenders
    <3>3. LeftWaiters(s, left2, c) = LeftWaiters(s, left, c)
      BY <1>5, <2>1, <3>1 DEF LeftWaiters
    <3>4. k \in LeftSenders(s, left, c)
      BY <1>3, <2>6, <3>1 DEF LeftSenders
    <3>5. Cardinality(LeftSenders(s, left, c) \ {k}) = a - 1
      BY <1>8, <2>2, <3>4, FS_RemoveElement
    <3>6. tok2[c] = t + 1
      BY <2>5, <2>6, <3>1
    <3>7. /\ Cardinality(LeftSenders(s, left2, c)) = a - 1 /\ Cardinality(LeftWaiters(s, left2, c)) = b
          /\ tok2[c] = t + 1
      BY <2>2, <3>2, <3>3, <3>5, <3>6, Zenon
    <3>8. t + 1 \in Nat /\ (t + 1) + (a - 1) = b
      BY <2>3
    <3> QED
      BY <3>7, <3>8
  <2>7. CASE Waiter(s[k], c)
    <3>1. c[2] = g /\ c[1] # g /\ ~Sender(s[k], c)
      BY <2>1, <2>4, <2>7
    <3>2. LeftWaiters(s, left2, c) = LeftWaiters(s, left, c) \ {k}
      BY <1>5, <3>1 DEF LeftWaiters
    <3>3. LeftSenders(s, left2, c) = LeftSenders(s, left, c)
      BY <1>5, <2>1, <3>1 DEF LeftSenders
    <3>4. k \in LeftWaiters(s, left, c)
      BY <1>3, <2>7, <3>1 DEF LeftWaiters
    <3>5. Cardinality(LeftWaiters(s, left, c) \ {k}) = b - 1
      BY <1>8, <2>2, <3>4, FS_RemoveElement
    <3>6. tok2[c] = t - 1 /\ t > 0
      BY <1>7, <2>2, <2>5, <2>7, <3>1
    <3>7. /\ Cardinality(LeftSenders(s, left2, c)) = a /\ Cardinality(LeftWaiters(s, left2, c)) = b - 1
          /\ tok2[c] = t - 1
      BY <2>2, <3>2, <3>3, <3>5, <3>6, Zenon
    <3>8. t - 1 \in Nat /\ (t - 1) + a = b - 1
      BY <2>3, <3>6
    <3> QED
      BY <3>7, <3>8
  <2>8. CASE ~Sender(s[k], c) /\ ~Waiter(s[k], c)
    <3>1. LeftSenders(s, left2, c) = LeftSenders(s, left, c)
      <4>1. ASSUME NEW i PROVE i \in left2[c[1]] /\ Sender(s[i], c) <=> i \in left[c[1]] /\ Sender(s[i], c)
        <5>1. CASE c[1] = g
          BY <1>5, <2>8, <5>1
        <5>2. CASE c[1] # g
          BY <1>5, <2>1, <5>2
        <5> QED
          BY <5>1, <5>2
      <4> QED
        BY <4>1 DEF LeftSenders
    <3>2. LeftWaiters(s, left2, c) = LeftWaiters(s, left, c)
      <4>1. ASSUME NEW i PROVE i \in left2[c[2]] /\ Waiter(s[i], c) <=> i \in left[c[2]] /\ Waiter(s[i], c)
        <5>1. CASE c[2] = g
          BY <1>5, <2>8, <5>1
        <5>2. CASE c[2] # g
          BY <1>5, <2>1, <5>2
        <5> QED
          BY <5>1, <5>2
      <4> QED
        BY <4>1 DEF LeftWaiters
    <3>3. tok2[c] = t
      BY <2>5, <2>8
    <3> QED
      BY <2>2, <2>3, <3>1, <3>2, <3>3
  <2> QED
    BY <2>6, <2>7, <2>8
<1>10. tok2 \in [Channels -> Nat]
  BY <1>9
<1>11. ASSUME NEW c \in {LoadToCompute, StoreToCompute}, NEW i \in left2[c[1]]
       PROVE  \E j \in left2[c[1]] : i <= j /\ Sender(s[j], c)
  <2>1. c[1] \in Stages
    BY <1>11, Tos, ChannelEnds
  <2>2. i \in left[c[1]] /\ (c[1] = g => i # k)
    BY <1>5, <1>11, <2>1
  <2>3. PICK j \in left[c[1]] : i <= j /\ Sender(s[j], c)
    BY <1>11, <2>2 DEF Running
  <2>4. i \in Nat /\ j \in Nat /\ k \in Nat
    BY <1>2, <1>4, <2>1, <2>2, <2>3
  <2>5. c[1] = g => j # k
    BY <1>3, <2>2, <2>3, <2>4
  <2>6. j \in left2[c[1]]
    BY <1>5, <2>1, <2>3, <2>5
  <2> QED
    BY <2>3, <2>6
<1>12. ASSUME s[k].opcode = "FINISH" PROVE \A h \in Stages : left2[h] = {}
  <2>1. k = n /\ g = kComputeStage
    BY <1>1, <1>4, <1>12 DEF Running, Stream
  <2>2. left2[kComputeStage] = {}
    <3>1. \A i \in left[g] : i = k
      BY <1>2, <1>3, <2>1
    <3> QED
      BY <1>5, <2>1, <3>1
  <2>3. ASSUME NEW c \in {LoadToCompute, StoreToCompute} PROVE left2[c[1]] = {}
    <3>1. c \in Channels /\ c[2] = kComputeStage
      BY <2>3, Tos
    <3>2. LeftWaiters(s, left2, c) = {}
      BY <2>2, <3>1 DEF LeftWaiters
    <3>3. Cardinality(LeftWaiters(s, left2, c)) = 0
      BY <3>2, FS_EmptySet
    <3>4. tok2[c] \in Nat /\ tok2[c] + Cardinality(LeftSenders(s, left2, c)) = 0
      BY <1>9, <3>1, <3>3
    <3>5. LeftSenders(s, left2, c) \subseteq LeftSenders(s, left, c)
      BY <1>6, <3>1, ChannelEnds DEF LeftSenders
    <3>6. IsFiniteSet(LeftSenders(s, left2, c)) /\ Cardinality(LeftSenders(s, left2, c)) \in Nat
      BY <1>8, <3>1, <3>5, FS_Subset, FS_CardinalityType
    <3>7. Cardinality(LeftSenders(s, left2, c)) = 0
      BY <3>4, <3>6
    <3>8. LeftSenders(s, left2, c) = {}
      BY <3>6, <3>7, FS_EmptySet
    <3> QED
      BY <1>11, <2>3, <3>8 DEF LeftSenders
  <2>4. left2[kLoadStage] = {} /\ left2[kStoreStage] = {}
    BY <2>3, Tos
  <2>5. \A h \in Stages : h = kLoadStage \/ h = kComputeStage \/ h = kStoreStage
    BY DEF Stages, kLoadStage, kComputeStage, kStoreStage
  <2> QED
    BY <2>2, <2>4, <2>5
<1>13. dn2 \in BOOLEAN /\ (dn2 => \A h \in Stages : left2[h] = {})
  BY <1>12
<1>14. Stream(s) /\ \A h \in Stages : left2[h] \subseteq {i \in 1..Len(s) : CoreOf(s[i]) = h}
  BY <1>1, <1>2, <1>6 DEF Running
<1> QED
  BY <1>5, <1>9, <1>10, <1>11, <1>13, <1>14 DEF Running

-----------------------------------------------------------------------------
(* Nothing is left on the device between two additions                     *)

\* The channels with a token ahead when an addition comes to its i-th call.
OwedAt(w, i) == IF i \in 6..(w + 6) THEN Owed(w, i - 6) ELSE {}

\* The addition has come to its i-th call; up to Synchronize the queue holds the
\* tokens of the calls before.
Reached(w, i) ==
  /\ Rest(calls, w, i)
  /\ i <= w + 6 => QueueOK(queue) /\ Balance(queue, OwedAt(w, i))

\* The queue, by where the addition is.
QueueAt ==
  /\ mode \in {"idle", "start"} => QueueOK(queue) /\ Balance(queue, {})
  /\ mode = "issue" => \E w \in Nat : \E i \in 1..(w + 11) : Reached(w, i)

\* The device: it holds tokens only while it runs a stream.
DeviceAt ==
  /\ DOMAIN insnq = Stages /\ tokens \in [Channels -> Nat] /\ done \in BOOLEAN
  /\ mode # "run" => ~done
  /\ mode \in {"idle", "start", "issue"} => \A c \in Channels : tokens[c] = 0
  /\ mode = "run" => Running(queue.insns, insnq, tokens, done)

JInv ==
  /\ evals \in 0..MaxEval /\ op \in 0..Len(model)
  /\ QueueAt /\ DeviceAt

LEMMA EmptyIsBalanced == QueueOK(EmptyQueue) /\ Balance(EmptyQueue, {})
<1>1. PICK q : q = EmptyQueue
  OBVIOUS
<1>2. /\ DOMAIN q = {"insns", "prev", "next", "cache", "cacheIdx", "sramBegin", "sramEnd"}
      /\ q.insns = <<>>
      /\ q.prev = [s \in Stages |-> FALSE] /\ q.next = [s \in Stages |-> FALSE]
  BY <1>1 DEF EmptyQueue
<1>3. Len(q.insns) = 0 /\ IsOf(q.insns, 0) /\ 1..0 = {}
  BY <1>2 DEF IsOf
<1>4. QueueOK(q)
  BY <1>2, <1>3 DEF QueueOK
<1>5. ASSUME NEW c \in Channels
      PROVE  Cardinality(Senders(q.insns, c)) =
               Cardinality(Waiters(q.insns, c)) + One(Pending(q, c)) + One(c \in {})
  <2>1. Senders(q.insns, c) = {} /\ Waiters(q.insns, c) = {}
    BY <1>3 DEF Senders, Waiters
  <2>2. ~Pending(q, c)
    <3>1. c[1] \in Stages /\ c[2] \in Stages
      BY ChannelEnds
    <3> QED
      BY <1>2, <3>1 DEF Pending
  <2>3. One(Pending(q, c)) = 0 /\ One(c \in {}) = 0
    BY <2>2 DEF One
  <2>4. Cardinality({}) = 0
    BY FS_EmptySet
  <2> QED
    BY <2>1, <2>3, <2>4
<1>6. Balance(q, {})
  BY <1>5 DEF Balance
<1> QED
  BY <1>1, <1>4, <1>6

\* Steps of the thread leave the device alone, but for those that start and end
\* its run.
LEMMA DeviceKept ==
  ASSUME DeviceAt, mode \in {"idle", "start", "issue"}, mode' \in {"idle", "start", "issue"},
         UNCHANGED <<insnq, tokens, done>>
  PROVE  DeviceAt'
BY DEF DeviceAt

\* Where the addition is when it makes its next call.
LEMMA CallingAt ==
  ASSUME JInv, NEW f, Calls(f)
  PROVE  /\ mode = "issue" /\ Head(calls).f = f
         /\ \E w \in Nat : \E i \in 1..(w + 11) : Reached(w, i) /\ Fits(Head(calls), w, i)
<1>0. PICK w \in Nat : \E i \in 1..(w + 11) : Reached(w, i)
  BY DEF JInv, QueueAt, Calls
<1>1. PICK i \in 1..(w + 11) : Reached(w, i)
  BY <1>0
<1>2. Fits(Head(calls), w, i)
  BY <1>1, NextCall DEF Reached
<1> QED
  BY <1>1, <1>2 DEF Calls

\* A call that is not for the queue.
LEMMA OtherCall ==
  ASSUME JInv, NEW f \in {"Handle", "Alloc", "CopyIn", "CopyOut", "Free"}, Calls(f),
         calls' = Tail(calls),
         UNCHANGED <<model, evals, op, mode, queue, insnq, tokens, done>>
  PROVE  JInv'
<1>0. PICK w \in Nat : \E i \in 1..(w + 11) : Reached(w, i) /\ Fits(Head(calls), w, i)
  BY CallingAt
<1>1. PICK i \in 1..(w + 11) : Reached(w, i) /\ Fits(Head(calls), w, i)
  BY <1>0
<1>2. mode = "issue" /\ Head(calls).f = f
  BY DEF Calls
<1>3. i \in 1..5 \/ i \in (w + 7)..(w + 10)
  <2>1. i = 1 \/ i \in 2..4 \/ i = 5 \/ i = w + 7 \/ i \in (w + 8)..(w + 10)
    BY <1>1, <1>2, WhichCall
  <2> QED
    BY <2>1
<1>4. PICK k \in 1..(w + 11) : k = i + 1
  BY <1>3
<1>5. Rest(Tail(calls), w, k)
  <2>1. i < w + 11
    BY <1>3
  <2> QED
    BY <1>1, <1>4, <2>1, NextCall DEF Reached
<1>6. ASSUME k <= w + 6 PROVE QueueOK(queue) /\ Balance(queue, OwedAt(w, k))
  <2>1. i \in 1..5 /\ i <= w + 6
    BY <1>3, <1>4, <1>6
  <2>2. OwedAt(w, i) = {}
    BY <2>1 DEF OwedAt
  <2>3. OwedAt(w, k) = {}
    <3>1. k = 6 => k - 6 = 0
      OBVIOUS
    <3>2. Owed(w, 0) = {}
      BY DEF Owed
    <3>3. k = 6 \/ k \notin 6..(w + 6)
      BY <1>4, <2>1
    <3> QED
      BY <3>1, <3>2, <3>3 DEF OwedAt
  <2> QED
    BY <1>1, <2>1, <2>2, <2>3 DEF Reached
<1>7. Reached(w, k)'
  BY <1>5, <1>6 DEF Reached
<1>8. QueueAt'
  BY <1>2, <1>7 DEF QueueAt
<1>9. DeviceAt'
  BY <1>2, DeviceKept DEF JInv
<1> QED
  BY <1>8, <1>9 DEF JInv

LEMMA InitJInv == Init => JInv
<1> SUFFICES ASSUME Init PROVE JInv
  OBVIOUS
<1>1. QueueAt
  BY EmptyIsBalanced DEF Init, QueueAt
<1>2. DeviceAt
  BY DEF Init, DeviceAt
<1>3. 0 \in 0..MaxEval /\ 0 \in 0..Len(model)
  <2>1. model \in Seq(OpType)
    BY DelegateAssumption DEF Init
  <2>2. Len(model) \in Nat
    BY <2>1
  <2> QED
    BY <2>2, DelegateAssumption
<1> QED
  BY <1>1, <1>2, <1>3 DEF Init, JInv

\* Eval and the additions that are turned down before they call anything.
LEMMA EvalRests ==
  ASSUME IInv, JInv, Eval \/ RejectSizes
  PROVE  JInv'
<1>1. /\ mode \in {"idle", "start"} /\ mode' \in {"idle", "start"}
      /\ UNCHANGED <<model, queue, insnq, tokens, done>>
  BY DEF Eval, RejectSizes, device
<1>2. QueueAt'
  BY <1>1 DEF JInv, QueueAt
<1>3. DeviceAt'
  BY <1>1, DeviceKept DEF JInv
<1>4. evals' \in 0..MaxEval /\ op' \in 0..Len(model)
  <2>1. model \in Seq(OpType) /\ model # <<>>
    BY DelegateAssumption DEF IInv, Place
  <2>2. Len(model) \in Nat /\ Len(model) >= 1
    BY <2>1
  <2>3. evals \in 0..MaxEval /\ MaxEval \in Nat
    BY DelegateAssumption DEF JInv
  <2>4. CASE Eval
    BY <2>2, <2>3, <2>4 DEF Eval
  <2>5. CASE RejectSizes
    BY <2>2, <2>3, <2>5 DEF RejectSizes
  <2> QED
    BY <2>4, <2>5
<1> QED
  BY <1>1, <1>2, <1>3, <1>4 DEF JInv

LEMMA StartAddRests ==
  ASSUME IInv, JInv, StartAdd
  PROVE  JInv'
<1>1. /\ model \in Models /\ op \in 1..Len(model) /\ calls' = aluAdd(model[op].n1)
      /\ mode = "start" /\ mode' = "issue"
      /\ UNCHANGED <<model, evals, op, queue, insnq, tokens, done>>
  BY DEF IInv, Place, StartAdd, device
<1>2. PICK n \in Nat \ {0} : n = model[op].n1
  <2>1. model \in Seq(OpType)
    BY <1>1, DelegateAssumption
  <2>2. model[op] \in OpType
    BY <1>1, <2>1
  <2> QED
    BY <2>2 DEF OpType
<1>3. PICK w \in Nat : Rest(aluAdd(n), w, 1)
  BY AddShape
<1>4. PICK i \in 1..(w + 11) : i = 1
  OBVIOUS
<1>5. OwedAt(w, i) = {}
  BY <1>4 DEF OwedAt
<1>6. QueueOK(queue) /\ Balance(queue, {})
  BY <1>1 DEF JInv, QueueAt
<1>7. Reached(w, i)'
  BY <1>1, <1>2, <1>3, <1>4, <1>5, <1>6 DEF Reached
<1>8. QueueAt'
  BY <1>1, <1>7 DEF QueueAt
<1>9. DeviceAt'
  BY <1>1, DeviceKept DEF JInv
<1> QED
  BY <1>1, <1>8, <1>9 DEF JInv

LEMMA RejectTypeRests ==
  ASSUME IInv, JInv, RejectType
  PROVE  JInv'
<1>0. PICK w \in Nat : \E i \in 1..(w + 11) : Reached(w, i) /\ Fits(Head(calls), w, i)
  BY CallingAt DEF RejectType
<1>1. PICK i \in 1..(w + 11) : Reached(w, i) /\ Fits(Head(calls), w, i)
  BY <1>0
<1>2. i = 5 /\ mode = "issue"
  <2>1. Head(calls).f = "CopyIn" /\ mode = "issue"
    BY DEF RejectType, Calls
  <2> QED
    BY <1>1, <2>1, WhichCall
<1>3. QueueOK(queue) /\ Balance(queue, {})
  <2>1. OwedAt(w, i) = {} /\ i <= w + 6
    BY <1>2 DEF OwedAt
  <2> QED
    BY <1>1, <2>1 DEF Reached
<1>4. mode' = "idle" /\ op' = 0 /\ UNCHANGED <<model, evals, queue, insnq, tokens, done>>
  BY DEF RejectType, device
<1>5. QueueAt'
  BY <1>3, <1>4 DEF QueueAt
<1>6. DeviceAt'
  BY <1>2, <1>4, DeviceKept DEF JInv
<1>7. Len(model) \in Nat
  <2>1. model \in Seq(OpType)
    BY DelegateAssumption DEF IInv, Place
  <2> QED
    BY <2>1
<1> QED
  BY <1>4, <1>5, <1>6, <1>7 DEF JInv

LEMMA IssueRests ==
  ASSUME IInv, JInv, Issue
  PROVE  JInv'
<1>0. PICK f \in Work : Calls(f)
  BY DEF Issue, Work
<1>1. PICK w \in Nat : \E i \in 1..(w + 11) : Reached(w, i) /\ Fits(Head(calls), w, i)
  BY <1>0, CallingAt
<1>2. PICK i \in 1..(w + 11) : Reached(w, i) /\ Fits(Head(calls), w, i)
  BY <1>1
<1>3. PICK c : c = Head(calls)
  OBVIOUS
<1>4. i \in 6..(w + 5) /\ mode = "issue"
  <2>1. c.f \in Work /\ mode = "issue"
    BY <1>0, <1>3 DEF Calls
  <2> QED
    BY <1>2, <1>3, <2>1, WhichCall
<1>5. PICK k \in 1..(w + 11) : k = i + 1
  BY <1>4
<1>6. PICK O, P : O = Owed(w, i - 6) /\ P = Owed(w, i - 5)
  OBVIOUS
<1>7. Moves(O, c, P)
  BY <1>2, <1>3, <1>4, <1>6, Zenon DEF Fits
<1>8. OwedAt(w, i) = O /\ OwedAt(w, k) = P
  <2>1. i \in 6..(w + 6) /\ k \in 6..(w + 6) /\ k - 6 = i - 5
    BY <1>4, <1>5
  <2> QED
    BY <1>6, <2>1 DEF OwedAt
<1>9. QueueOK(queue) /\ Balance(queue, O)
  <2>1. i <= w + 6
    BY <1>4
  <2> QED
    BY <1>2, <1>8, <2>1 DEF Reached
<1>10. PICK r : r = After(queue, c) /\ QueueOK(r) /\ Balance(r, P)
  BY <1>7, <1>9, AfterOK
<1>11. /\ queue' = r /\ calls' = Tail(calls)
       /\ UNCHANGED <<model, evals, op, mode, insnq, tokens, done>>
  BY <1>3, <1>10 DEF Issue, device
<1>12. Rest(Tail(calls), w, k)
  <2>1. i < w + 11
    BY <1>4
  <2> QED
    BY <1>2, <1>5, <2>1, NextCall DEF Reached
<1>13. Reached(w, k)'
  BY <1>8, <1>10, <1>11, <1>12 DEF Reached
<1>14. QueueAt'
  BY <1>4, <1>11, <1>13 DEF QueueAt
<1>15. DeviceAt'
  BY <1>4, <1>11, DeviceKept DEF JInv
<1> QED
  BY <1>11, <1>14, <1>15 DEF JInv

\* Synchronize gives the device a stream it can run to its end, or the process
\* ends there.
LEMMA SynchronizeRests ==
  ASSUME IInv, JInv, Synchronize
  PROVE  JInv'
<1>0. PICK w \in Nat : \E i \in 1..(w + 11) : Reached(w, i) /\ Fits(Head(calls), w, i)
  BY CallingAt DEF Synchronize
<1>1. PICK i \in 1..(w + 11) : Reached(w, i) /\ Fits(Head(calls), w, i)
  BY <1>0
<1>2. i = w + 6 /\ mode = "issue"
  <2>1. Head(calls).f = "Synchronize" /\ mode = "issue"
    BY DEF Synchronize, Calls
  <2> QED
    BY <1>1, <2>1, WhichCall
<1>3. QueueOK(queue) /\ Balance(queue, {})
  <2>1. i - 6 = w /\ i <= w + 6
    BY <1>2
  <2>2. Owed(w, w) = {}
    BY DEF Owed
  <2>3. OwedAt(w, i) = {}
    BY <2>1, <2>2 DEF OwedAt
  <2> QED
    BY <1>1, <2>1, <2>3 DEF Reached
<1>4. PICK r : r = Closed(queue)
  OBVIOUS
<1>5. /\ mode' = (IF PendingPop(r) THEN "aborted" ELSE "run") /\ queue' = r
      /\ insnq' = [g \in Stages |-> {j \in DOMAIN r.insns : CoreOf(r.insns[j]) = g}]
      /\ done' = FALSE /\ UNCHANGED <<model, evals, op, tokens>>
  BY <1>4 DEF Synchronize
<1>6. tokens \in [Channels -> Nat] /\ \A c \in Channels : tokens[c] = 0
  BY <1>2 DEF JInv, DeviceAt
<1>7. ASSUME mode' = "run" PROVE Running(r.insns, insnq', tokens, FALSE)
  <2>1. ~PendingPop(r)
    BY <1>5, <1>7
  <2>2. Stream(r.insns)
    BY <1>3, <1>4, <2>1, ClosedIs
  <2> QED
    BY <1>5, <1>6, <2>2, RunStarts
<1>8. DeviceAt'
  <2>1. mode' \in {"run", "aborted"}
    BY <1>5
  <2>2. DOMAIN insnq' = Stages
    BY <1>5
  <2> QED
    BY <1>5, <1>6, <1>7, <2>1, <2>2 DEF DeviceAt
<1>9. QueueAt'
  BY <1>5 DEF QueueAt
<1> QED
  BY <1>5, <1>8, <1>9 DEF JInv

LEMMA FinishedRests ==
  ASSUME IInv, JInv, Finished
  PROVE  JInv'
<1>1. /\ mode = "run" /\ done = TRUE /\ mode' = "issue" /\ done' = FALSE
      /\ insnq' = [g \in Stages |-> {}]
      /\ UNCHANGED <<model, evals, op, calls, tokens>>
  BY DEF Finished, JInv, DeviceAt
<1>2. Running(queue.insns, insnq, tokens, TRUE)
  BY <1>1 DEF JInv, DeviceAt
<1>3. \A c \in Channels : tokens[c] = 0
  BY <1>2, RunEnds
<1>4. DeviceAt'
  BY <1>1, <1>3 DEF JInv, DeviceAt
<1>5. PICK w \in Nat : Rest(calls, w, w + 7)
  BY <1>1 DEF IInv, Place, Before
<1>6. PICK k \in 1..(w + 11) : k = w + 7
  OBVIOUS
<1>7. Reached(w, k)'
  <2>1. ~(k <= w + 6)
    BY <1>6
  <2> QED
    BY <1>1, <1>5, <1>6, <2>1 DEF Reached
<1>8. QueueAt'
  BY <1>1, <1>7 DEF QueueAt
<1> QED
  BY <1>1, <1>4, <1>8 DEF JInv

LEMMA EndAddRests ==
  ASSUME IInv, JInv, EndAdd
  PROVE  JInv'
<1>1. /\ queue' = EmptyQueue /\ mode = "issue" /\ op \in 1..Len(model) /\ model \in Models
      /\ op' = (IF op < Len(model) THEN op + 1 ELSE 0)
      /\ mode' = (IF op < Len(model) THEN "start" ELSE "idle")
      /\ UNCHANGED <<model, evals, insnq, tokens, done>>
  BY DEF IInv, Place, EndAdd, Calls, device
<1>2. Len(model) \in Nat
  <2>1. model \in Seq(OpType)
    BY <1>1, DelegateAssumption
  <2> QED
    BY <2>1
<1>3. mode' \in {"start", "idle"} /\ op' \in 0..Len(model)
  BY <1>1, <1>2
<1>4. QueueAt'
  BY <1>1, <1>3, EmptyIsBalanced DEF QueueAt
<1>5. DeviceAt'
  BY <1>1, <1>3, DeviceKept DEF JInv
<1> QED
  BY <1>1, <1>3, <1>4, <1>5 DEF JInv

LEMMA CoreRunRests ==
  ASSUME IInv, JInv, NEW g \in Stages, CoreRun(g)
  PROVE  JInv'
<1>1. /\ mode = "run" /\ insnq[g] # {} /\ UNCHANGED <<model, evals, op, queue>>
  BY DEF CoreRun
<1>2. PICK k : k = Min(insnq[g])
  OBVIOUS
<1>3. PICK s : s = queue.insns
  OBVIOUS
<1>4. Running(s, insnq, tokens, done)
  BY <1>1, <1>3 DEF JInv, DeviceAt
<1>5. \A c \in Waits(g, s[k]) : tokens[c] > 0
  BY <1>2, <1>3, Zenon DEF CoreRun
<1>6. \/ mode' = "aborted" /\ UNCHANGED device
      \/ /\ mode' = mode
         /\ tokens' = [c \in Channels |-> tokens[c] - (IF c \in Waits(g, s[k]) THEN 1 ELSE 0)
                                                    + (IF c \in Sends(g, s[k]) THEN 1 ELSE 0)]
         /\ done' = (s[k].opcode = "FINISH")
         /\ insnq' = [insnq EXCEPT ![g] = @ \ {k}]
  BY <1>2, <1>3, Zenon DEF CoreRun
<1>7. QueueAt'
  <2>1. mode' \in {"run", "aborted"}
    BY <1>1, <1>6
  <2> QED
    BY <2>1 DEF QueueAt
<1>8. DeviceAt'
  <2>1. CASE mode' = "aborted" /\ UNCHANGED device
    <3>1. ~done
      BY <1>1, <1>4 DEF Running
    <3>2. UNCHANGED <<insnq, tokens, done>>
      BY <2>1 DEF device
    <3> QED
      BY <2>1, <3>1, <3>2 DEF JInv, DeviceAt
  <2>2. CASE /\ mode' = mode
             /\ tokens' = [c \in Channels |-> tokens[c] - (IF c \in Waits(g, s[k]) THEN 1 ELSE 0)
                                                        + (IF c \in Sends(g, s[k]) THEN 1 ELSE 0)]
             /\ done' = (s[k].opcode = "FINISH")
             /\ insnq' = [insnq EXCEPT ![g] = @ \ {k}]
    <3>1. Running(s, insnq', tokens', done')
      <4>1. PICK left, tok, dn : left = insnq /\ tok = tokens /\ dn = done
        OBVIOUS
      <4>2. PICK left2, tok2, dn2 : left2 = insnq' /\ tok2 = tokens' /\ dn2 = done'
        OBVIOUS
      <4>3. Running(s, left, tok, dn) /\ Turn(s, left, tok, g, k, left2, tok2, dn2)
        BY <1>1, <1>2, <1>4, <1>5, <2>2, <4>1, <4>2, Zenon DEF Turn
      <4>4. Running(s, left2, tok2, dn2)
        BY <4>3, RunStep
      <4> QED
        BY <4>2, <4>4
    <3>2. mode' = "run" /\ s = queue.insns'
      BY <1>1, <1>3, <2>2
    <3>3. DOMAIN insnq' = Stages /\ tokens' \in [Channels -> Nat] /\ done' \in BOOLEAN
      BY <3>1 DEF Running
    <3> QED
      BY <3>1, <3>2, <3>3 DEF DeviceAt
  <2> QED
    BY <1>6, <2>1, <2>2
<1> QED
  BY <1>1, <1>7, <1>8 DEF JInv

LEMMA StepJInv == IInv /\ JInv /\ [Next]_vars => JInv'
<1> SUFFICES ASSUME IInv, JInv, [Next]_vars PROVE JInv'
  OBVIOUS
<1>1. CASE Eval \/ RejectSizes
  BY <1>1, EvalRests
<1>2. CASE StartAdd
  BY <1>2, StartAddRests
<1>3. CASE GetHandle
  BY <1>3, OtherCall DEF GetHandle, device
<1>4. CASE VTABufferAlloc
  BY <1>4, OtherCall DEF VTABufferAlloc, device
<1>5. CASE CopyIn
  BY <1>5, OtherCall DEF CopyIn
<1>6. CASE RejectType
  BY <1>6, RejectTypeRests
<1>7. CASE Issue
  BY <1>7, IssueRests
<1>8. CASE Synchronize
  BY <1>8, SynchronizeRests
<1>9. CASE Finished
  BY <1>9, FinishedRests
<1>10. CASE CopyOut
  BY <1>10, OtherCall DEF CopyOut, device
<1>11. CASE VTABufferFree
  BY <1>11, OtherCall DEF VTABufferFree, device
<1>12. CASE EndAdd
  BY <1>12, EndAddRests
<1>13. CASE \E s \in Stages : CoreRun(s)
  BY <1>13, CoreRunRests
<1>14. CASE UNCHANGED vars
  <2>1. UNCHANGED <<model, evals, op, mode, calls, queue, insnq, tokens, done>>
    BY <1>14 DEF vars, host, device
  <2>2. QueueAt'
    BY <2>1 DEF JInv, QueueAt, Reached
  <2>3. DeviceAt'
    BY <2>1 DEF JInv, DeviceAt
  <2> QED
    BY <2>1, <2>2, <2>3 DEF JInv
<1> QED
  BY <1>1, <1>2, <1>3, <1>4, <1>5, <1>6, <1>7, <1>8, <1>9, <1>10, <1>11, <1>12, <1>13,
     <1>14 DEF Next, Thread

\* Whatever the models, their sizes and the number of evaluations, and however the
\* three stages of the device interleave: aluAdd's pushes and pops and those of
\* Synchronize make a stream that sends as many tokens on every dependency queue as
\* it waits for, so that FINISH runs when no stage has an instruction left, and no
\* token of an addition is there when the next one starts.
THEOREM DeviceAtRestHolds == Spec => []DeviceAtRest
<1>1. IInv /\ JInv => DeviceAtRest
  <2> SUFFICES ASSUME IInv, JInv PROVE DeviceAtRest
    OBVIOUS
  <2>1. TypeOK
    BY DEF IInv, Owners, Place, JInv, DeviceAt, TypeOK
  <2>2. FinishLast
    <3>1. ASSUME done = TRUE PROVE \A s \in Stages : insnq[s] = {}
      <4>1. Running(queue.insns, insnq, tokens, done)
        BY <3>1 DEF JInv, DeviceAt
      <4> QED
        BY <3>1, <4>1 DEF Running
    <3> QED
      BY <3>1 DEF FinishLast, JInv, DeviceAt
  <2>3. TokensDrained
    BY DEF JInv, DeviceAt, TokensDrained
  <2> QED
    BY <2>1, <2>2, <2>3 DEF DeviceAtRest
<1> QED
  BY <1>1, InitIInv, StepIInv, InitJInv, StepJInv, PTL DEF Spec
=============================================================================
