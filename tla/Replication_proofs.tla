-------------------------- MODULE Replication_proofs --------------------------
(***************************************************************************)
(* Proofs about replication, for every set of slaves, every backlog size   *)
(* And any number of writes, broken links, failed children and restarts.   *)
(*                                                                         *)
(* The invariant says of each slave, unless it was given the snapshot of a  *)
(* Child it did not have started for it (late), that what is on its way to *)
(* It is the master's stream from an offset o on (Catches), where o is the *)
(* Offset it counts, and that the stream from there leads from the last    *)
(* Write it has, or will have once it has loaded the file, to the last one *)
(* Of the master (Leads).  Of a slave that may ask for PSYNC it says the   *)
(* Same, provided the backlog still reaches back to o (Resumes).           *)
(***************************************************************************)
EXTENDS Replication, FiniteSetTheorems, SequenceTheorems, WellFoundedInduction, TLAPS

NatLess == {p \in Nat \X Nat : p[1] < p[2]}

LEMMA Smallest ==
    ASSUME NEW S \in SUBSET Nat, S # {}
    PROVE  \E m \in S : \A q \in S : m <= q
<1>1. IsWellFoundedOn(NatLess, Nat)
  <2>1. IsWellFoundedOn(OpToRel(<, Nat), Nat)
    BY NatLessThanWellFounded
  <2>2. OpToRel(<, Nat) = NatLess
    BY DEF OpToRel, NatLess
  <2> QED
    BY <2>1, <2>2
<1>2. PICK m \in S : \A q \in S : ~(<<q, m>> \in NatLess)
  BY <1>1, WFMin
<1>3. ASSUME NEW q \in S, ~(m <= q) PROVE FALSE
  <2>1. <<q, m>> \in NatLess
    BY <1>3 DEF NatLess
  <2> QED
    BY <1>2, <2>1
<1> QED
  BY <1>3

-----------------------------------------------------------------------------
(* The backlog, a circular buffer                                          *)

Bufs == {<<>>} \cup UNION {[0..(n - 1) -> Int] : n \in Sizes}
Shapes == [on : BOOLEAN, size : Sizes, idx : Nat, histlen : Nat, off : Int, buf : Bufs]

\* The backlog b holds the last b.histlen items of the stream h.
BacklogOf(b, h) ==
    /\ b \in Shapes
    /\ b.buf \in [0..(b.size - 1) -> Int] /\ b.idx < b.size /\ b.histlen <= b.size /\ b.histlen <= Len(h)
    /\ b.off + b.histlen = Len(h) + 1
    /\ \A j \in 1..b.histlen : b.buf[(b.idx + b.size - j) % b.size] = h[Len(h) + 1 - j]

LEMMA ModuloSize ==
    ASSUME NEW n \in Nat \ {0}
    PROVE  /\ \A a \in 0..(n - 1) : a % n = a
           /\ \A a \in n..(2 * n - 1) : a % n = a - n
<1>1. ASSUME NEW a \in 0..(n - 1) PROVE a % n = a
  BY <1>1
<1>2. ASSUME NEW a \in n..(2 * n - 1) PROVE a % n = a - n
  BY <1>2
<1> QED
  BY <1>1, <1>2

LEMMA StepBack ==
    ASSUME NEW n \in Nat \ {0}, NEW x \in 0..(n - 1), NEW j \in 1..n
    PROVE  (x + n - j) % n = IF x >= j THEN x - j ELSE x + n - j
<1> DEFINE a == x + n - j
<1>1. CASE x >= j
  <2>1. a \in n..(2 * n - 1) /\ a - n = x - j
    BY <1>1
  <2> HIDE DEF a
  <2>2. a % n = a - n
    BY <2>1, ModuloSize
  <2>3. a % n = x - j
    BY <2>1, <2>2
  <2> QED
    BY <1>1, <2>3 DEF a
<1>2. CASE ~(x >= j)
  <2>1. a \in 0..(n - 1)
    BY <1>2
  <2> HIDE DEF a
  <2>2. a % n = a
    BY <2>1, ModuloSize
  <2> QED
    BY <1>2, <2>2 DEF a
<1> QED
  BY <1>1, <1>2

LEMMA StepOn ==
    ASSUME NEW n \in Nat \ {0}, NEW x \in 0..(n - 1)
    PROVE  (x + 1) % n = IF x + 1 = n THEN 0 ELSE x + 1
<1> DEFINE a == x + 1
<1>1. CASE x + 1 = n
  <2>1. a \in n..(2 * n - 1) /\ a - n = 0
    BY <1>1
  <2> HIDE DEF a
  <2>2. a % n = a - n
    BY <2>1, ModuloSize
  <2>3. a % n = 0
    BY <2>1, <2>2
  <2> QED
    BY <1>1, <2>3 DEF a
<1>2. CASE x + 1 # n
  <2>1. a \in 0..(n - 1)
    BY <1>2
  <2> HIDE DEF a
  <2>2. a % n = a
    BY <2>1, ModuloSize
  <2> QED
    BY <1>2, <2>2 DEF a
<1> QED
  BY <1>1, <1>2

LEMMA AppendedItem ==
    ASSUME NEW h \in Seq(Int), NEW item \in Int
    PROVE  /\ Append(h, item) \in Seq(Int) /\ Len(Append(h, item)) = Len(h) + 1
           /\ Append(h, item)[Len(h) + 1] = item
           /\ \A j \in 1..Len(h) : Append(h, item)[j] = h[j]
OBVIOUS

LEMMA Joined ==
    ASSUME NEW S, NEW a \in Seq(S), NEW b \in Seq(S)
    PROVE  /\ a \o b \in Seq(S) /\ Len(a \o b) = Len(a) + Len(b)
           /\ \A i \in 1..(Len(a) + Len(b)) : (a \o b)[i] = IF i <= Len(a) THEN a[i] ELSE b[i - Len(a)]
BY ConcatProperties

LEMMA NotEmpty ==
    ASSUME NEW S, NEW a \in Seq(S)
    PROVE  /\ a # <<>> <=> Len(a) >= 1
           /\ a # <<>> => /\ Head(a) = a[1] /\ Head(a) \in S /\ Tail(a) \in Seq(S) /\ Len(Tail(a)) = Len(a) - 1
                          /\ \A i \in 1..(Len(a) - 1) : Tail(a)[i] = a[i + 1]
BY EmptySeq, HeadTailProperties

LEMMA TailOf ==
    ASSUME NEW h \in Seq(Int), NEW o \in 0..Len(h)
    PROVE  /\ SubSeq(h, o + 1, Len(h)) \in Seq(Int) /\ Len(SubSeq(h, o + 1, Len(h))) = Len(h) - o
           /\ \A i \in 1..(Len(h) - o) : SubSeq(h, o + 1, Len(h))[i] = h[o + i]
<1> DEFINE a == o + 1
           l == Len(h)
           q == SubSeq(h, a, l)
<1>1. l \in Nat /\ a \in 1..(l + 1) /\ l - a + 1 = l - o
  OBVIOUS
<1> HIDE DEF a
<1>2. q \in Seq(Int)
  BY <1>1
<1>3. Len(q) = l - a + 1 /\ \A i \in 1..(l - a + 1) : q[i] = h[a + i - 1]
  BY <1>1
<1> HIDE DEF q, l
<1>4. \A i \in 1..(l - a + 1) : a + i - 1 = o + i
  BY DEF a
<1> QED
  BY <1>1, <1>2, <1>3, <1>4 DEF q, l, a

LEMMA BacklogShape ==
    ASSUME BoundsAssumption, NEW b, NEW h \in Seq(Int), BacklogOf(b, h)
    PROVE  /\ b.size \in Nat \ {0} /\ b.size \in Sizes /\ b.histlen \in 0..b.size /\ b.idx \in 0..(b.size - 1)
           /\ Len(h) \in Nat /\ b.off \in Int /\ b.histlen <= Len(h) /\ b.off + b.histlen = Len(h) + 1
           /\ b.off >= 1 /\ b.on \in BOOLEAN
<1>1. b.size \in Sizes /\ b.idx \in Nat /\ b.histlen \in Nat /\ b.off \in Int /\ b.on \in BOOLEAN
  BY DEF BacklogOf, Shapes
<1>2. b.idx < b.size /\ b.histlen <= b.size /\ b.histlen <= Len(h) /\ b.off + b.histlen = Len(h) + 1
  BY DEF BacklogOf
<1>3. b.size \in Nat \ {0}
  BY <1>1 DEF BoundsAssumption
<1>4. Len(h) \in Nat
  OBVIOUS
<1> QED
  BY <1>1, <1>2, <1>3, <1>4

LEMMA FeedKeepsTail ==
    ASSUME BoundsAssumption, NEW h \in Seq(Int), NEW b, BacklogOf(b, h), NEW item \in Int,
           NEW c, c = feedReplicationBacklog(b, Len(h), item)
    PROVE  BacklogOf(c, Append(h, item)) /\ c.on = b.on /\ c.size = b.size /\ c.off >= b.off
<1> DEFINE n == b.size
           x == b.idx
           k == b.histlen
           l == IF k = n THEN n ELSE k + 1
           i == (x + 1) % n
           o == Len(h) + 1 - l + 1
           f == [b.buf EXCEPT ![x] = item]
           g == Append(h, item)
<1>1. /\ n \in Nat \ {0} /\ n \in Sizes /\ k \in 0..n /\ x \in 0..(n - 1) /\ Len(h) \in Nat
      /\ b.off \in Int /\ k <= Len(h) /\ b.off + k = Len(h) + 1
  BY BacklogShape
<1>2. b.buf \in [0..(n - 1) -> Int] /\ b \in Shapes
  BY DEF BacklogOf
<1>3. \A j \in 1..k : b.buf[(x + n - j) % n] = h[Len(h) + 1 - j]
  BY DEF BacklogOf
<1>4. c = [b EXCEPT !.buf = f, !.idx = i, !.histlen = l, !.off = o]
  BY DEF feedReplicationBacklog
<1>5. g \in Seq(Int) /\ Len(g) = Len(h) + 1 /\ g[Len(g)] = item /\ \A j \in 1..Len(h) : g[j] = h[j]
  <2> HIDE DEF n, x, k, l, i, o, f
  <2> QED
    BY AppendedItem
<1>6. \A j \in 1..l : j - 1 \in 0..k
  BY <1>1
<1>7. l \in 1..n /\ l <= Len(h) + 1 /\ o \in Int /\ o + l = Len(h) + 2 /\ o >= b.off
  <2> HIDE DEF n, x, k
  <2> QED
    BY <1>1
<1> HIDE DEF n, x, k, g
<1>8. f \in [0..(n - 1) -> Int] /\ f[x] = item /\ \A j \in 0..(n - 1) : j # x => f[j] = b.buf[j]
  BY <1>1, <1>2
<1> HIDE DEF f
<1>9. i = (IF x + 1 = n THEN 0 ELSE x + 1) /\ i \in 0..(n - 1)
  <2>1. i = (IF x + 1 = n THEN 0 ELSE x + 1)
    BY <1>1, StepOn
  <2> HIDE DEF i
  <2> QED
    BY <1>1, <2>1
<1> HIDE DEF l, i, o
<1>10. ASSUME NEW j \in 1..l PROVE f[(i + n - j) % n] = g[Len(g) + 1 - j]
  <2>1. j \in 1..n /\ j - 1 \in 0..k
    BY <1>1, <1>6, <1>7
  <2>2. (i + n - j) % n = (IF i >= j THEN i - j ELSE i + n - j)
    BY <1>1, <1>9, <2>1, StepBack
  <2>3. CASE j = 1
    <3>1. (IF i >= j THEN i - j ELSE i + n - j) = x
      BY <1>1, <1>9, <2>3
    <3>2. Len(g) + 1 - j = Len(g)
      BY <1>1, <1>5, <2>3
    <3> QED
      BY <1>5, <1>8, <2>2, <3>1, <3>2
  <2>4. CASE j # 1
    <3> DEFINE p == j - 1
               y == (x + n - p) % n
    <3>1. p \in 1..k /\ p \in 1..n
      BY <1>1, <2>1, <2>4
    <3>2. y = (IF x >= p THEN x - p ELSE x + n - p)
      BY <1>1, <3>1, StepBack
    <3>3. b.buf[y] = h[Len(h) + 1 - p]
      BY <1>3, <3>1
    <3> HIDE DEF y
    <3>4. p < n
      BY <1>1, <2>1, <2>4
    <3>5. y = (IF i >= j THEN i - j ELSE i + n - j) /\ y \in 0..(n - 1) /\ y # x
      BY <1>1, <1>9, <2>1, <2>4, <3>1, <3>2, <3>4
    <3>6. Len(g) + 1 - j = Len(h) + 1 - p /\ Len(h) + 1 - p \in 1..Len(h)
      BY <1>1, <1>5, <2>4, <3>1
    <3> HIDE DEF p
    <3> QED
      BY <1>5, <1>8, <2>2, <3>3, <3>5, <3>6
  <2> QED
    BY <2>3, <2>4
<1>11. c \in Shapes /\ c.buf = f /\ c.idx = i /\ c.histlen = l /\ c.off = o /\ c.size = n /\ c.on = b.on
  <2>1. f \in Bufs
    BY <1>1, <1>8 DEF Bufs
  <2>2. i \in Nat /\ l \in Nat
    BY <1>1, <1>7, <1>9
  <2> HIDE DEF Bufs
  <2> QED
    BY <1>2, <1>4, <1>7, <2>1, <2>2 DEF Shapes, n
<1>12. \A j \in 1..c.histlen : c.buf[(c.idx + c.size - j) % c.size] = g[Len(g) + 1 - j]
  BY <1>10, <1>11
<1>13. c.buf \in [0..(c.size - 1) -> Int]
  BY <1>8, <1>11
<1>14. c.idx < c.size /\ c.histlen <= c.size /\ c.histlen <= Len(g) /\ c.off + c.histlen = Len(g) + 1
  BY <1>1, <1>5, <1>7, <1>9, <1>11
<1>15. BacklogOf(c, g)
  BY <1>11, <1>12, <1>13, <1>14 DEF BacklogOf
<1> QED
  BY <1>7, <1>11, <1>15 DEF g, n

LEMMA TailIsSent ==
    ASSUME BoundsAssumption, hist \in Seq(Int), moff = Len(hist), BacklogOf(bl, hist), NEW o \in bl.off..(moff + 1)
    PROVE  addReplyReplicationBacklog(o) = SubSeq(hist, o, moff)
<1> DEFINE n == bl.size
           x == bl.idx
           k == bl.histlen
           skip == o - bl.off
           first == (x + (n - k)) % n
           l == k - skip
           a == [i \in 1..l |-> bl.buf[(first + skip + i - 1) % n]]
           c == SubSeq(hist, o, moff)
<1>1. n \in Nat \ {0} /\ k \in 0..n /\ x \in 0..(n - 1) /\ moff \in Nat /\ bl.off \in Int /\ k <= moff /\ bl.off + k = moff + 1
  BY BacklogShape
<1>2. bl.buf \in [0..(n - 1) -> Int] /\ \A j \in 1..k : bl.buf[(x + n - j) % n] = hist[moff + 1 - j]
  BY DEF BacklogOf
<1>3. l = moff + 1 - o /\ l \in Nat /\ o \in 1..(moff + 1) /\ l <= k /\ skip \in 0..k
  <2>1. o \in Int /\ bl.off <= o /\ o <= moff + 1
    BY <1>1
  <2> HIDE DEF n, x, k, first, a, c
  <2>2. skip \in 0..k
    BY <1>1, <2>1
  <2>3. l = moff + 1 - o
    <3>1. k \in Int /\ bl.off \in Int /\ moff \in Int /\ bl.off + k = moff + 1
      BY <1>1
    <3> QED
      BY <2>1, <3>1
  <2>4. o \in 1..(moff + 1)
    BY <1>1, <2>1
  <2> HIDE DEF l, skip
  <2>5. l \in Nat /\ l <= k
    BY <1>1, <2>1, <2>3
  <2> QED
    BY <2>2, <2>3, <2>4, <2>5
<1>4. c \in Seq(Int) /\ Len(c) = moff - o + 1 /\ \A i \in 1..(moff - o + 1) : c[i] = hist[o + i - 1]
  <2>1. o \in 1..(Len(hist) + 1)
    BY <1>3
  <2> HIDE DEF n, x, k, first, a, l
  <2>2. c \in Seq(Int)
    BY <1>1, <2>1
  <2>3. Len(c) = moff - o + 1 /\ \A i \in 1..(moff - o + 1) : c[i] = hist[o + i - 1]
    BY <1>1, <2>1
  <2> QED
    BY <2>2, <2>3
<1> HIDE DEF n, x, k
<1>5. ASSUME NEW i \in 1..l PROVE bl.buf[(first + skip + i - 1) % n] = hist[o + i - 1] /\ hist[o + i - 1] \in Int
  <2> DEFINE j == moff + 2 - o - i
             y == first + skip + i - 1
  <2>1. j \in 1..k /\ moff + 1 - j = o + i - 1 /\ skip + i - 1 = k - j /\ j \in 1..n /\ k \in 1..n /\ o + i - 1 \in 1..moff
    <3> HIDE DEF first, l, a, c, y
    <3>0. k \in Int /\ bl.off \in Int /\ moff \in Int /\ bl.off + k = moff + 1
      BY <1>1
    <3>3. i \in Nat /\ 1 <= i /\ i <= moff + 1 - o /\ o \in Int
      BY <1>3, <3>0
    <3>4. skip = k - (moff + 1 - o)
      BY <3>0, <3>3
    <3>1. i \in Nat /\ 1 <= i /\ i <= moff + 1 - o /\ o \in Int /\ skip = k - (moff + 1 - o)
      BY <3>3, <3>4
    <3> HIDE DEF skip
    <3>2. j \in 1..k /\ moff + 1 - j = o + i - 1 /\ skip + i - 1 = k - j
      BY <1>1, <1>3, <3>1
    <3> HIDE DEF j
    <3> QED
      BY <1>1, <3>1, <3>2
  <2> HIDE DEF j, l, skip
  <2>2. first = (IF x >= k THEN x - k ELSE x + n - k)
    <3>1. x + (n - k) = x + n - k
      BY <1>1
    <3> QED
      BY <1>1, <2>1, <3>1, StepBack
  <2>3. (x + n - j) % n = (IF x >= j THEN x - j ELSE x + n - j)
    BY <1>1, <2>1, StepBack
  <2>4. y = (IF x >= k THEN x - j ELSE x + n - j)
    <3> HIDE DEF first
    <3>1. first \in Int /\ skip \in Int
      BY <1>1, <1>3, <2>2
    <3>2. y = first + (k - j)
      BY <1>1, <2>1, <3>1
    <3> QED
      BY <1>1, <2>1, <2>2, <3>2
  <2> HIDE DEF y, first
  <2>5. y % n = (x + n - j) % n
    <3>1. CASE x >= k
      <4>1. y = x - j /\ y \in 0..(n - 1) /\ x >= j
        BY <1>1, <2>1, <2>4, <3>1
      <4>2. y % n = y
        BY <1>1, <4>1, ModuloSize
      <4> QED
        BY <2>3, <4>1, <4>2
    <3>2. CASE ~(x >= k)
      BY <2>4, <3>2
    <3> QED
      BY <3>1, <3>2
  <2>6. bl.buf[(x + n - j) % n] = hist[moff + 1 - j]
    BY <1>2, <2>1
  <2>7. hist[o + i - 1] \in Int
    BY <2>1
  <2> QED
    BY <2>1, <2>5, <2>6, <2>7 DEF y
<1>6. a \in Seq(Int) /\ Len(a) = l /\ \A i \in 1..l : a[i] = hist[o + i - 1]
  <2> HIDE DEF l, first, skip
  <2>1. \A i \in 1..l : a[i] = hist[o + i - 1] /\ a[i] \in Int
    BY <1>5
  <2>2. a \in [1..l -> Int]
    BY <2>1
  <2>3. l \in Nat
    BY <1>3
  <2> HIDE DEF a
  <2>4. a \in Seq(Int) /\ Len(a) = l
    BY <2>2, <2>3
  <2> QED
    BY <2>1, <2>4
<1> HIDE DEF a, c
<1>7. a = c
  <2>1. Len(a) = Len(c) /\ \A i \in 1..Len(a) : a[i] = c[i]
    BY <1>1, <1>3, <1>4, <1>6
  <2> QED
    BY SMTT(30), <1>4, <1>6, <2>1, SeqEqual
<1> QED
  BY <1>7 DEF a, c, l, first, skip, n, x, k, addReplyReplicationBacklog

-----------------------------------------------------------------------------
(* What a part of the stream does to the data of a slave                   *)

\* Writes 1..k with what follows offset o in the stream h are the writes 1..n: each write
\* in it is the next one.
Counts(h, o, f) ==
    \A i \in (o + 1)..Len(h) : IF h[i] > 0 THEN h[i] = f[i - 1] + 1 /\ f[i] = h[i] ELSE f[i] = f[i - 1]
Leads(h, o, k, n) == \E f \in [o..Len(h) -> Nat] : f[o] = k /\ f[Len(h)] = n /\ Counts(h, o, f)

LEMMA LeadsHere ==
    ASSUME NEW h \in Seq(Int), NEW n \in Nat
    PROVE  Leads(h, Len(h), n, n)
<1> DEFINE f == [i \in Len(h)..Len(h) |-> n]
<1>1. Len(h) \in Nat
  OBVIOUS
<1>2. f \in [Len(h)..Len(h) -> Nat] /\ f[Len(h)] = n
  BY <1>1
<1>3. Counts(h, Len(h), f)
  <2> HIDE DEF f
  <2>1. (Len(h) + 1)..Len(h) = {}
    BY <1>1
  <2> QED
    BY <2>1 DEF Counts
<1> HIDE DEF f
<1> QED
  BY <1>2, <1>3 DEF Leads

\* A write that comes next, or an item that is none, is added to the stream.
LEMMA LeadsGrow ==
    ASSUME NEW h \in Seq(Int), NEW o \in 0..Len(h), NEW k \in Nat, NEW n \in Nat, Leads(h, o, k, n),
           NEW x \in Int, x <= 0 \/ x = n + 1
    PROVE  Leads(Append(h, x), o, k, IF x > 0 THEN x ELSE n)
<1> DEFINE g == Append(h, x)
           l == Len(h)
           m == IF x > 0 THEN x ELSE n
<1>1. l \in Nat /\ o \in Nat /\ o <= l /\ m \in Nat
  OBVIOUS
<1>2. Len(g) = l + 1 /\ g[l + 1] = x /\ \A j \in 1..l : g[j] = h[j]
  BY AppendedItem
<1>3. PICK f \in [o..l -> Nat] : f[o] = k /\ f[l] = n /\ Counts(h, o, f)
  BY DEF Leads
<1> DEFINE e == [i \in o..(l + 1) |-> IF i = l + 1 THEN m ELSE f[i]]
<1> HIDE DEF g, l, m
<1>4. \A i \in o..l : f[i] \in Nat /\ e[i] = f[i]
  BY <1>1, <1>3
<1>5. e[l + 1] = m
  BY <1>1
<1>6. e \in [o..(l + 1) -> Nat]
  <2>1. \A i \in o..(l + 1) : e[i] \in Nat
    BY <1>1, <1>4, <1>5
  <2> QED
    BY <2>1
<1> HIDE DEF e
<1>7. ASSUME NEW i \in (o + 1)..(l + 1)
      PROVE  IF g[i] > 0 THEN g[i] = e[i - 1] + 1 /\ e[i] = g[i] ELSE e[i] = e[i - 1]
  <2>1. i - 1 \in o..l /\ e[i - 1] = f[i - 1]
    BY <1>1, <1>4
  <2>2. CASE i = l + 1
    <3>1. g[i] = x /\ e[i - 1] = n /\ e[i] = m
      BY <1>1, <1>2, <1>3, <1>5, <2>1, <2>2
    <3> QED
      BY <3>1 DEF m
  <2>3. CASE i # l + 1
    <3>1. i \in (o + 1)..l /\ i \in o..l /\ i \in 1..l
      BY <1>1, <2>3
    <3>2. e[i] = f[i] /\ g[i] = h[i]
      BY <1>2, <1>4, <3>1
    <3>3. IF h[i] > 0 THEN h[i] = f[i - 1] + 1 /\ f[i] = h[i] ELSE f[i] = f[i - 1]
      BY <1>3, <3>1 DEF Counts, l
    <3> QED
      BY <2>1, <3>2, <3>3
  <2> QED
    BY <2>2, <2>3
<1>8. Counts(g, o, e)
  BY <1>2, <1>7 DEF Counts
<1>9. e[o] = k
  BY <1>1, <1>3, <1>4
<1>10. Leads(g, o, k, m)
  BY <1>2, <1>5, <1>6, <1>8, <1>9 DEF Leads
<1> QED
  BY <1>10 DEF g, m

\* The next item of the stream is taken.
LEMMA LeadsNext ==
    ASSUME NEW h \in Seq(Int), NEW o \in 0..Len(h), o < Len(h), NEW k \in Nat, NEW n \in Nat, Leads(h, o, k, n)
    PROVE  /\ h[o + 1] \in Int
           /\ h[o + 1] > 0 => h[o + 1] = k + 1
           /\ Leads(h, o + 1, IF h[o + 1] > 0 THEN k + 1 ELSE k, n)
<1> DEFINE l == Len(h)
           p == o + 1
           m == IF h[p] > 0 THEN k + 1 ELSE k
<1>1. l \in Nat /\ o \in Nat /\ p \in Nat /\ p <= l /\ p \in 1..l /\ p - 1 = o
  OBVIOUS
<1>2. PICK f \in [o..l -> Nat] : f[o] = k /\ f[l] = n /\ Counts(h, o, f)
  BY DEF Leads
<1> DEFINE e == [i \in p..l |-> f[i]]
<1>3. h[p] \in Int
  <2> HIDE DEF p
  <2> QED
    BY <1>1
<1>4. IF h[p] > 0 THEN h[p] = f[p - 1] + 1 /\ f[p] = h[p] ELSE f[p] = f[p - 1]
  BY <1>1, <1>2 DEF Counts
<1>5. f[p] = m /\ (h[p] > 0 => h[p] = k + 1)
  <2> HIDE DEF p
  <2> QED
    BY <1>1, <1>2, <1>4
<1> HIDE DEF p, m, l
<1>6. e \in [p..l -> Nat] /\ \A i \in p..l : e[i] = f[i]
  <2>1. \A i \in p..l : f[i] \in Nat
    BY <1>1, <1>2
  <2> QED
    BY <2>1
<1> HIDE DEF e
<1>7. Counts(h, p, e)
  <2> SUFFICES ASSUME NEW i \in (p + 1)..l
               PROVE  IF h[i] > 0 THEN h[i] = e[i - 1] + 1 /\ e[i] = h[i] ELSE e[i] = e[i - 1]
    BY DEF Counts, l
  <2>1. i \in (o + 1)..l /\ i \in p..l /\ i - 1 \in p..l
    BY <1>1
  <2>2. IF h[i] > 0 THEN h[i] = f[i - 1] + 1 /\ f[i] = h[i] ELSE f[i] = f[i - 1]
    BY <1>2, <2>1 DEF Counts, l
  <2> QED
    BY <1>6, <2>1, <2>2
<1>8. e[p] = m /\ e[l] = n
  BY <1>1, <1>2, <1>5, <1>6
<1>9. Leads(h, p, m, n)
  BY <1>6, <1>7, <1>8 DEF Leads, l
<1> QED
  BY <1>3, <1>5, <1>9 DEF p, m

\* t lists what Writes takes of the first items of q.
Taken(t, q, n) ==
    t = [i \in 0..n |-> IF i = 0 THEN <<>>
                        ELSE IF q[i] > 0 THEN Append(t[i - 1], q[i]) ELSE t[i - 1]]

LEMMA TakenExists ==
    ASSUME NEW q, Len(q) \in Nat
    PROVE  \E t : Taken(t, q, Len(q))
<1> DEFINE S == {n \in Nat : ~ \E t : Taken(t, q, n)}
           Step(t, i) == IF q[i] > 0 THEN Append(t[i - 1], q[i]) ELSE t[i - 1]
<1> SUFFICES ASSUME S # {} PROVE FALSE
  OBVIOUS
<1>1. PICK m \in S : \A n \in S : m <= n
  <2>1. S \in SUBSET Nat
    OBVIOUS
  <2> HIDE DEF S
  <2> QED
    BY <2>1, Smallest
<1>2. CASE m = 0
  <2> DEFINE h0 == [i \in 0..0 |-> <<>>]
  <2>1. Taken(h0, q, 0)
    BY DEF Taken
  <2> QED
    BY <1>1, <1>2, <2>1
<1>3. CASE m # 0
  <2>1. m - 1 \in Nat /\ m - 1 \notin S /\ m \in Nat
    BY <1>1, <1>3
  <2>2. PICK g : Taken(g, q, m - 1)
    BY <2>1
  <2> DEFINE h == [i \in 0..m |-> IF i = m THEN Step(g, m) ELSE g[i]]
  <2>3. ASSUME NEW i \in 0..m PROVE h[i] = IF i = 0 THEN <<>> ELSE Step(h, i)
    <3>1. CASE i = 0
      <4>1. g[0] = <<>> /\ i # m /\ h[0] = g[0]
        BY <1>3, <2>1, <2>2, <3>1 DEF Taken
      <4> QED
        BY <3>1, <4>1
    <3>2. CASE i # 0 /\ i # m
      <4>1. i \in 0..(m - 1) /\ i - 1 \in 0..m /\ i - 1 # m /\ i - 1 \in 0..(m - 1)
        BY <2>1, <3>2
      <4>2. g[i] = Step(g, i)
        BY <2>2, <3>2, <4>1 DEF Taken
      <4>3. h[i] = g[i] /\ h[i - 1] = g[i - 1]
        BY <3>2, <4>1
      <4> HIDE DEF h
      <4> QED
        BY <3>2, <4>2, <4>3
    <3>3. CASE i = m
      <4>1. m - 1 \in 0..m /\ m - 1 # m
        BY <2>1
      <4>2. h[m - 1] = g[m - 1] /\ h[m] = Step(g, m)
        BY <2>1, <4>1
      <4> HIDE DEF h
      <4> QED
        BY <1>3, <3>3, <4>2
    <3> QED
      BY <3>1, <3>2, <3>3
  <2>4. Taken(h, q, m)
    <3>1. h = [i \in 0..m |-> h[i]]
      OBVIOUS
    <3> HIDE DEF h
    <3> QED
      BY <2>3, <3>1 DEF Taken
  <2> QED
    BY <1>1, <2>4
<1> QED
  BY <1>2, <1>3

LEMMA WritesTaken ==
    ASSUME NEW q, Len(q) \in Nat
    PROVE  \E t : Taken(t, q, Len(q)) /\ Writes(q) = t[Len(q)]
<1> DEFINE t == CHOOSE t : t = [i \in 0..Len(q) |->
                    IF i = 0 THEN <<>> ELSE IF q[i] > 0 THEN Append(t[i - 1], q[i]) ELSE t[i - 1]]
<1>1. Writes(q) = t[Len(q)]
  BY DEF Writes
<1>2. Taken(t, q, Len(q))
  BY TakenExists DEF Taken
<1> QED
  BY <1>1, <1>2

\* The writes k + 1, ..., k + d.
Run(k, d) == [j \in 1..d |-> k + j]

LEMMA RunGrows ==
    ASSUME NEW k \in Nat, NEW d \in Nat
    PROVE  Run(k, d) \in Seq(Int) /\ Len(Run(k, d)) = d /\ Append(Run(k, d), k + d + 1) = Run(k, d + 1)
<1> DEFINE a == Run(k, d)
           c == Run(k, d + 1)
           b == Append(a, k + d + 1)
<1>1. /\ a \in Seq(Int) /\ Len(a) = d /\ \A j \in 1..d : a[j] = k + j
      /\ c \in Seq(Int) /\ Len(c) = d + 1 /\ \A j \in 1..(d + 1) : c[j] = k + j
  BY DEF Run
<1> HIDE DEF a, c
<1>2. b \in Seq(Int) /\ Len(b) = d + 1 /\ b[d + 1] = k + d + 1 /\ \A j \in 1..d : b[j] = a[j]
  <2>1. k + d + 1 \in Int
    OBVIOUS
  <2> QED
    BY <1>1, <2>1, AppendedItem
<1> HIDE DEF b
<1>3. \A j \in 1..(d + 1) : b[j] = c[j]
  <2> TAKE j \in 1..(d + 1)
  <2>1. CASE j = d + 1
    BY <1>1, <1>2, <2>1
  <2>2. CASE j # d + 1
    <3>1. j \in 1..d
      BY <2>2
    <3> QED
      BY <1>1, <1>2, <3>1
  <2> QED
    BY <2>1, <2>2
<1>4. b = c
  BY <1>1, <1>2, <1>3, SeqEqual
<1> QED
  BY <1>1, <1>4 DEF a, b, c

LEMMA RunJoined ==
    ASSUME NEW k \in Nat, NEW d \in Nat
    PROVE  Upto(k) \o Run(k, d) = Upto(k + d)
<1> DEFINE a == Upto(k)
           b == Run(k, d)
           c == Upto(k + d)
           e == a \o b
<1>1. /\ a \in Seq(Int) /\ Len(a) = k /\ \A j \in 1..k : a[j] = j
      /\ b \in Seq(Int) /\ Len(b) = d /\ \A j \in 1..d : b[j] = k + j
      /\ c \in Seq(Int) /\ Len(c) = k + d /\ \A j \in 1..(k + d) : c[j] = j
  BY DEF Upto, Run
<1> HIDE DEF a, b, c
<1>2. e \in Seq(Int) /\ Len(e) = k + d
  BY <1>1
<1>3. \A j \in 1..(k + d) : e[j] = IF j <= k THEN a[j] ELSE b[j - k]
  BY <1>1
<1> HIDE DEF e
<1>4. \A j \in 1..(k + d) : e[j] = c[j]
  <2> TAKE j \in 1..(k + d)
  <2>1. CASE j <= k
    <3>1. j \in 1..k
      BY <2>1
    <3> QED
      BY <1>1, <1>3, <2>1, <3>1
  <2>2. CASE ~(j <= k)
    <3>1. j - k \in 1..d /\ k + (j - k) = j
      BY <2>2
    <3> QED
      BY <1>1, <1>3, <2>2, <3>1
  <2> QED
    BY <2>1, <2>2
<1>5. e = c
  BY <1>1, <1>2, <1>4, SeqEqual
<1> QED
  BY <1>5 DEF a, b, c, e

\* A slave that has the writes up to k and takes what follows offset o has those up to n.
LEMMA LeadsWrites ==
    ASSUME NEW h \in Seq(Int), NEW o \in 0..Len(h), NEW k \in Nat, NEW n \in Nat, Leads(h, o, k, n),
           NEW q, q = SubSeq(h, o + 1, Len(h))
    PROVE  Upto(k) \o Writes(q) = Upto(n)
<1> DEFINE l == Len(h)
           r == l - o
<1>1. l \in Nat /\ o \in Nat /\ r \in Nat /\ l = o + r /\ o + r = l
  OBVIOUS
<1>2. q \in Seq(Int) /\ Len(q) = r /\ \A i \in 1..r : q[i] = h[o + i]
  <2>1. q \in Seq(Int) /\ Len(q) = l - o /\ \A i \in 1..(l - o) : q[i] = h[o + i]
    BY TailOf
  <2> QED
    BY <2>1
<1>3. PICK f \in [o..l -> Nat] : f[o] = k /\ f[l] = n /\ Counts(h, o, f)
  BY DEF Leads
<1> HIDE DEF r, l
<1>4. PICK t : Taken(t, q, r) /\ Writes(q) = t[r]
  BY <1>1, <1>2, WritesTaken
<1>5. \A i \in 0..r : f[o + i] \in Nat
  BY <1>1, <1>3
<1> DEFINE Good(i) == f[o + i] >= k /\ t[i] = Run(k, f[o + i] - k)
           S == {i \in 0..r : ~Good(i)}
<1>6. S = {}
  <2> SUFFICES ASSUME S # {} PROVE FALSE
    OBVIOUS
  <2>1. PICK m \in S : \A i \in S : m <= i
    <3>1. S \in SUBSET Nat
      BY <1>1
    <3> HIDE DEF S
    <3> QED
      BY <3>1, Smallest
  <2>2. m \in 0..r /\ ~Good(m)
    BY <2>1
  <2>3. CASE m = 0
    <3>1. t[0] = <<>>
      BY <1>1, <1>4 DEF Taken
    <3>2. o + 0 = o /\ k - k = 0
      BY <1>1
    <3>3. Run(k, 0) = <<>>
      BY DEF Run
    <3> QED
      BY <1>3, <2>2, <2>3, <3>1, <3>2, <3>3
  <2>4. CASE m # 0
    <3> DEFINE p == m - 1
               x == q[m]
    <3>1. p \in 0..r /\ p \notin S /\ p \in Nat /\ m = p + 1 /\ m \in 1..r
      BY SMTT(30), <1>1, <2>1, <2>2, <2>4
    <3>2. Good(p)
      BY <3>1
    <3>3. t[m] = IF x > 0 THEN Append(t[p], x) ELSE t[p]
      BY <1>4, <2>2, <2>4 DEF Taken
    <3>4. x = h[o + m] /\ x \in Int
      BY SMTT(30), <1>2, <3>1
    <3>5. o + m \in (o + 1)..l /\ o + m - 1 = o + p
      BY <1>1, <3>1
    <3>6. IF h[o + m] > 0 THEN h[o + m] = f[o + m - 1] + 1 /\ f[o + m] = h[o + m] ELSE f[o + m] = f[o + m - 1]
      BY <1>3, <3>5 DEF Counts, l
    <3> DEFINE d == f[o + p] - k
    <3>7. f[o + p] \in Nat /\ f[o + p] >= k /\ t[p] = Run(k, d)
      BY <1>5, <3>1, <3>2
    <3>8. d \in Nat /\ k + d = f[o + p]
      BY SMTT(30), <3>7
    <3> HIDE DEF x, p, S
    <3>9. CASE x > 0
      <4>1. x = f[o + p] + 1 /\ f[o + m] = x
        BY <3>4, <3>5, <3>6, <3>9
      <4>2. f[o + m] = k + d + 1 /\ f[o + m] - k = d + 1 /\ f[o + m] >= k
        <5> HIDE DEF d
        <5> QED
          BY <3>7, <3>8, <4>1
      <4>3. t[m] = Append(Run(k, d), k + d + 1)
        BY <3>3, <3>7, <3>9, <4>1, <4>2
      <4> HIDE DEF d
      <4>4. t[m] = Run(k, d + 1)
        BY <3>8, <4>3, RunGrows
      <4>5. t[m] = Run(k, f[o + m] - k)
        BY <4>2, <4>4
      <4> QED
        BY <2>2, <4>2, <4>5
    <3>10. CASE ~(x > 0)
      <4>1. f[o + m] = f[o + p]
        BY <3>4, <3>5, <3>6, <3>10
      <4>2. t[m] = t[p]
        BY <3>3, <3>10
      <4> QED
        BY <2>2, <3>7, <4>1, <4>2
    <3> QED
      BY <3>9, <3>10
  <2> QED
    BY <2>3, <2>4
<1>7. Good(r)
  <2>1. r \in 0..r
    BY <1>1
  <2> HIDE DEF Good
  <2> QED
    BY <1>6, <2>1
<1>8. n >= k /\ Writes(q) = Run(k, n - k)
  BY <1>1, <1>3, <1>4, <1>7
<1>9. n - k \in Nat /\ k + (n - k) = n
  BY <1>8
<1>10. Upto(k) \o Run(k, n - k) = Upto(k + (n - k))
  BY <1>9, RunJoined
<1> QED
  BY <1>8, <1>9, <1>10

-----------------------------------------------------------------------------
(* The invariant                                                           *)

Ids == [id : Nat, off : Int]
Ends == [st : {"none", "start", "end", "bulk", "online"}, out : Seq(Int), ack : Int, onack : BOOLEAN, rdb : Nat]
Msgs == {Status} \cup [kind : {"bulk"}, snap : Nat] \cup [kind : {"item"}, item : Int]
Children == [type : {"none", "disk", "socket"}, snap : Nat, fds : SUBSET Slaves]
RunStates == {"connect", "connecting", "pong", "transfer", "connected"}

TopTyped ==
    /\ log \in 0..MaxLog /\ runid \in Nat \ {0} /\ seldb \in {-1, 0}
    /\ hist \in Seq(Int) /\ moff = Len(hist)
    /\ bl \in Shapes /\ (bl.on => BacklogOf(bl, hist)) /\ (~bl.on => bl.idx = 0 /\ bl.histlen = 0)
    /\ child \in Children /\ child.snap <= log
LinksTyped ==
    /\ sl \in [Slaves -> Ends] /\ wire \in [Slaves -> Seq(Msgs)] /\ rs \in [Slaves -> RunStates]
    /\ cached \in [Slaves -> Ids] /\ master \in [Slaves -> Ids] /\ initial \in [Slaves -> Ids]
    /\ data \in [Slaves -> Seq(Int)] /\ late \in [Slaves -> BOOLEAN]

\* What is said of a slave in terms of c: the master's client, w: the wire, r: its repl_state,
\* ca, m, i: the cached, current and initial master, d: its data, lt: late; and of the master's
\* log n, run id, stream h, backlog b and child ch.

OnlyItems(w) == \A k \in 1..Len(w) : w[k].kind = "item"
ItemsOf(w) == [k \in 1..Len(w) |-> w[k].item]
Packed(q) == [k \in 1..Len(q) |-> Item(q[k])]
Loads(w) == w # <<>> /\ Head(w).kind = "bulk"

\* The slave takes an answer to its PSYNC for the file, and will drop the connection.
Stale(w) == w # <<>> /\ Head(w).kind = "status"

\* What is on its way to the slave.
Flight(c, w) == ItemsOf(IF Loads(w) THEN Tail(w) ELSE w) \o c.out

\* Both ends of the link agree on where it stands.
Linked(c, w, r, ca, m, i, id, b) ==
    /\ c.st # "none" => b.on
    /\ c.st = "none" <=> r \in {"connect", "connecting", "pong"}
    /\ c.st = "none" => w = <<>>
    /\ r = "connected" => c.st = "online" /\ OnlyItems(w) /\ m.id = id
    /\ r # "connected" => m = NoMaster
    /\ r = "transfer" /\ ~Stale(w) =>
         /\ i.id = id
         /\ c.st # "online" => w = <<>>
         /\ c.st = "online" => Loads(w) /\ OnlyItems(Tail(w))
    /\ r \in {"transfer", "connected"} => ca = NoMaster
    /\ ca.id <= id /\ i.id <= id

Following(w, r) == r \in {"transfer", "connected"} /\ ~Stale(w)

\* Where in the stream what is on its way begins, and the last write that the slave has then.
From(r, m, i) == IF r = "transfer" THEN i.off ELSE m.off
Reached(c, w, d, ch) ==
    IF c.st = "end" THEN ch.snap
    ELSE IF c.st = "bulk" THEN c.rdb
    ELSE IF Loads(w) THEN Head(w).snap
    ELSE Len(d)

\* The slave has the first writes, and the stream from o on has the rest.
Whole(d) == d = Upto(Len(d))
Catches(c, w, d, n, h, ch, o) ==
    o \in 0..Len(h) /\ Flight(c, w) = SubSeq(h, o + 1, Len(h)) /\ Leads(h, o, Reached(c, w, d, ch), n)
Resumes(d, n, h, b, o) ==
    o \in 0..Len(h) /\ (b.on /\ o + 1 >= b.off => Whole(d) /\ Leads(h, o, Len(d), n))

\* A stream from the offset the slave counts takes its data to those of the master.
Exact(c, w, r, ca, m, i, d, n, id, h, b, ch) ==
    /\ c.st # "start"
    /\ c.st = "end" => ch.type = "disk"
    /\ Following(w, r) => Catches(c, w, d, n, h, ch, From(r, m, i))
    /\ r = "connected" => Whole(d)
    /\ ca.id = id => Resumes(d, n, h, b, ca.off)

Good(c, w, r, ca, m, i, d, lt, n, id, h, b, ch) ==
    Linked(c, w, r, ca, m, i, id, b) /\ (~lt => Exact(c, w, r, ca, m, i, d, n, id, h, b, ch))
SlaveGood(s) ==
    Good(sl[s], wire[s], rs[s], cached[s], master[s], initial[s], data[s], late[s], log, runid, hist, bl, child)
ReplInv == TopTyped /\ LinksTyped /\ \A s \in Slaves : SlaveGood(s)

-----------------------------------------------------------------------------
(* What is on a link                                                       *)

LEMMA Messages ==
    /\ \A m \in Msgs : /\ m.kind \in {"status", "bulk", "item"}
                       /\ m.kind = "bulk" => m.snap \in Nat
                       /\ m.kind = "item" => m.item \in Int
    /\ Status \in Msgs /\ Status.kind = "status"
    /\ \A n \in Nat : Bulk(n) \in Msgs /\ Bulk(n).kind = "bulk" /\ Bulk(n).snap = n
    /\ \A i \in Int : Item(i) \in Msgs /\ Item(i).kind = "item" /\ Item(i).item = i
<1>1. Status \in Msgs /\ Status.kind = "status"
  BY DEF Msgs, Status
<1>2. ASSUME NEW n \in Nat PROVE Bulk(n) \in Msgs /\ Bulk(n).kind = "bulk" /\ Bulk(n).snap = n
  BY DEF Msgs, Bulk
<1>3. ASSUME NEW i \in Int PROVE Item(i) \in Msgs /\ Item(i).kind = "item" /\ Item(i).item = i
  BY DEF Msgs, Item
<1>4. ASSUME NEW m \in Msgs
      PROVE  /\ m.kind \in {"status", "bulk", "item"}
             /\ m.kind = "bulk" => m.snap \in Nat
             /\ m.kind = "item" => m.item \in Int
  <2>1. CASE m = Status
    BY <1>1, <2>1
  <2>2. CASE m \in [kind : {"bulk"}, snap : Nat]
    BY <2>2
  <2>3. CASE m \in [kind : {"item"}, item : Int]
    BY <2>3
  <2> QED
    BY <2>1, <2>2, <2>3 DEF Msgs
<1> QED
  BY <1>1, <1>2, <1>3, <1>4

LEMMA ItemsTyped ==
    ASSUME NEW w \in Seq(Msgs), OnlyItems(w)
    PROVE  ItemsOf(w) \in Seq(Int) /\ Len(ItemsOf(w)) = Len(w) /\ \A i \in 1..Len(w) : ItemsOf(w)[i] = w[i].item
<1>1. Len(w) \in Nat /\ \A i \in 1..Len(w) : w[i] \in Msgs
  OBVIOUS
<1>2. \A i \in 1..Len(w) : w[i].item \in Int
  BY <1>1, Messages DEF OnlyItems
<1>3. ItemsOf(w) \in [1..Len(w) -> Int]
  BY <1>1, <1>2 DEF ItemsOf
<1>4. ItemsOf(w) \in Seq(Int) /\ Len(ItemsOf(w)) = Len(w)
  BY <1>1, <1>3
<1> QED
  BY <1>4 DEF ItemsOf

\* sendReplyToClient: what was queued is on the wire.
LEMMA ItemsSent ==
    ASSUME NEW w \in Seq(Msgs), NEW q \in Seq(Int)
    PROVE  /\ w \o Packed(q) \in Seq(Msgs)
           /\ OnlyItems(w) => OnlyItems(w \o Packed(q)) /\ ItemsOf(w \o Packed(q)) = ItemsOf(w) \o q
           /\ w # <<>> => /\ w \o Packed(q) # <<>> /\ Head(w \o Packed(q)) = Head(w)
                          /\ Tail(w \o Packed(q)) = Tail(w) \o Packed(q)
<1> DEFINE u == Packed(q)
           v == w \o u
           k == Len(w)
           l == Len(q)
<1>1. k \in Nat /\ l \in Nat /\ k = Len(w) /\ l = Len(q) /\ \A i \in 1..l : q[i] \in Int
  OBVIOUS
<1>2. u \in Seq(Msgs) /\ Len(u) = l /\ \A i \in 1..l : u[i] = Item(q[i])
  <2>1. u \in [1..l -> Msgs]
    BY <1>1, Messages DEF Packed
  <2>2. \A i \in 1..l : u[i] = Item(q[i])
    BY DEF Packed
  <2>3. l \in Nat
    BY <1>1
  <2> HIDE DEF u, l
  <2>4. u \in Seq(Msgs) /\ Len(u) = l
    BY <2>1, <2>3
  <2> QED
    BY <2>2, <2>4
<1> HIDE DEF u, k, l
<1>a. k \in Nat /\ l \in Nat
  BY <1>1
<1>b. Len(w) = k /\ Len(q) = l /\ Len(u) = l
  BY <1>1, <1>2
<1>3. v = w \o u
  OBVIOUS
<1> HIDE DEF v
<1>c. /\ v \in Seq(Msgs) /\ Len(v) = Len(w) + Len(u)
      /\ \A i \in 1..(Len(w) + Len(u)) : v[i] = IF i <= Len(w) THEN w[i] ELSE u[i - Len(w)]
  BY <1>2, <1>3, Joined
<1>4. v \in Seq(Msgs) /\ Len(v) = k + l
  BY <1>b, <1>c
<1>5. \A i \in 1..(k + l) : v[i] = IF i <= k THEN w[i] ELSE u[i - k]
  BY <1>b, <1>c
<1>6. ASSUME OnlyItems(w) PROVE OnlyItems(v) /\ ItemsOf(v) = ItemsOf(w) \o q
  <2>1. ASSUME NEW i \in 1..(k + l)
        PROVE  v[i].kind = "item" /\ v[i].item = IF i <= k THEN w[i].item ELSE q[i - k]
    <3>1. CASE i <= k
      <4>1. i \in 1..k
        BY <1>1, <3>1
      <4>2. v[i] = w[i]
        BY <1>5, <3>1
      <4>3. w[i].kind = "item"
        BY <1>1, <1>6, <4>1 DEF OnlyItems
      <4> QED
        BY <3>1, <4>2, <4>3
    <3>2. CASE ~(i <= k)
      <4>1. i - k \in 1..l
        BY <1>1, <3>2
      <4>2. v[i] = u[i - k]
        BY <1>5, <3>2
      <4>3. v[i] = Item(q[i - k]) /\ q[i - k] \in Int
        BY <1>1, <1>2, <4>1, <4>2
      <4> QED
        BY <3>2, <4>3, Messages
    <3> QED
      BY <3>1, <3>2
  <2>2. OnlyItems(v)
    BY <1>4, <2>1 DEF OnlyItems
  <2>3. ItemsOf(v) \in Seq(Int) /\ Len(ItemsOf(v)) = k + l /\ \A i \in 1..(k + l) : ItemsOf(v)[i] = v[i].item
    BY <1>4, <2>2, ItemsTyped
  <2> DEFINE a == ItemsOf(w)
             c == a \o q
  <2>4. a \in Seq(Int) /\ Len(a) = k /\ \A i \in 1..k : a[i] = w[i].item
    BY <1>1, <1>6, ItemsTyped
  <2> HIDE DEF a
  <2>9. /\ c \in Seq(Int) /\ Len(c) = Len(a) + Len(q)
        /\ \A i \in 1..(Len(a) + Len(q)) : c[i] = IF i <= Len(a) THEN a[i] ELSE q[i - Len(a)]
    BY <2>4, Joined
  <2>5. c \in Seq(Int) /\ Len(c) = k + l
    BY <1>b, <2>4, <2>9
  <2>6. \A i \in 1..(k + l) : c[i] = IF i <= k THEN a[i] ELSE q[i - k]
    BY <1>b, <2>4, <2>9
  <2> HIDE DEF c
  <2>7. \A i \in 1..(k + l) : ItemsOf(v)[i] = c[i]
    <3> TAKE i \in 1..(k + l)
    <3>1. CASE i <= k
      <4>1. i \in 1..k
        BY <1>1, <3>1
      <4> QED
        BY <2>1, <2>3, <2>4, <2>6, <3>1, <4>1
    <3>2. CASE ~(i <= k)
      BY <2>1, <2>3, <2>6, <3>2
    <3> QED
      BY <3>1, <3>2
  <2>8. ItemsOf(v) = c
    BY <2>3, <2>5, <2>7, SeqEqual
  <2> QED
    BY <2>2, <2>8 DEF a, c
<1>7. ASSUME w # <<>> PROVE v # <<>> /\ Head(v) = Head(w) /\ Tail(v) = Tail(w) \o u
  <2> DEFINE x == Tail(w)
             y == Tail(v)
             z == x \o u
  <2>1. k >= 1 /\ Head(w) = w[1] /\ x \in Seq(Msgs) /\ Len(x) = k - 1 /\ \A i \in 1..(k - 1) : x[i] = w[i + 1]
    BY <1>1, <1>7, NotEmpty
  <2>2. v # <<>> /\ v[1] = w[1]
    <3>1. 1 \in 1..(k + l) /\ 1 <= k /\ k + l >= 1
      BY <1>1, <2>1
    <3> QED
      BY <1>4, <1>5, <3>1, NotEmpty
  <2>3. Head(v) = v[1] /\ y \in Seq(Msgs) /\ Len(y) = k + l - 1 /\ \A i \in 1..(k + l - 1) : y[i] = v[i + 1]
    <3>1. Head(v) = v[1] /\ y \in Seq(Msgs) /\ Len(y) = Len(v) - 1 /\ \A i \in 1..(Len(v) - 1) : y[i] = v[i + 1]
      BY <1>4, <2>2, NotEmpty
    <3>2. Len(v) - 1 = k + l - 1
      BY <1>4, <1>a
    <3> HIDE DEF y
    <3> QED
      BY <3>1, <3>2
  <2> HIDE DEF x, y
  <2>4. z \in Seq(Msgs) /\ Len(z) = k - 1 + l /\ \A i \in 1..(k - 1 + l) : z[i] = IF i <= k - 1 THEN x[i] ELSE u[i - (k - 1)]
    <3>1. /\ z \in Seq(Msgs) /\ Len(z) = Len(x) + Len(u)
          /\ \A i \in 1..(Len(x) + Len(u)) : z[i] = IF i <= Len(x) THEN x[i] ELSE u[i - Len(x)]
      BY <1>2, <2>1, Joined
    <3> HIDE DEF z
    <3> QED
      BY <1>b, <2>1, <3>1
  <2> HIDE DEF z
  <2>5. k - 1 + l = k + l - 1
    BY <1>1
  <2>6. \A i \in 1..(k - 1 + l) : z[i] = y[i]
    <3> TAKE i \in 1..(k - 1 + l)
    <3>0. i \in 1..(k + l - 1) /\ i + 1 \in 1..(k + l)
      BY <1>a
    <3>1. i + 1 \in 1..(k + l) /\ y[i] = v[i + 1]
      BY <2>3, <3>0
    <3>2. CASE i <= k - 1
      <4>1. i \in 1..(k - 1) /\ i + 1 <= k
        BY <1>a, <3>2
      <4>2. z[i] = w[i + 1]
        BY <2>1, <2>4, <3>2, <4>1
      <4>3. v[i + 1] = w[i + 1]
        BY <1>5, <3>1, <4>1
      <4> QED
        BY <3>1, <4>2, <4>3
    <3>3. CASE ~(i <= k - 1)
      <4>1. i - (k - 1) = i + 1 - k /\ ~(i + 1 <= k)
        BY <1>a, <3>3
      <4> DEFINE j == i + 1
      <4>5. j \in 1..(k + l) /\ ~(j <= k)
        BY <3>1, <4>1
      <4> HIDE DEF j
      <4>6. v[j] = u[j - k]
        BY <1>5, <1>a, <4>5
      <4>2. v[i + 1] = u[i + 1 - k]
        BY <1>a, <4>6 DEF j
      <4>3. z[i] = u[i - (k - 1)]
        BY <2>4, <3>3
      <4> QED
        BY <3>1, <4>1, <4>2, <4>3
    <3> QED
      BY <3>2, <3>3
  <2>7. Len(z) = Len(y)
    BY <2>3, <2>4, <2>5
  <2>8. z = y
    BY <2>3, <2>4, <2>6, <2>7, SeqEqual
  <2>9. y = x \o u
    BY <2>8 DEF z
  <2> QED
    BY <2>1, <2>2, <2>3, <2>9 DEF x, y
<1> QED
  BY <1>4, <1>6, <1>7 DEF u, v

\* What is left of the stream grows with it.
LEMMA StreamGrows ==
    ASSUME NEW h \in Seq(Int), NEW o \in 0..Len(h), NEW q \in Seq(Int)
    PROVE  SubSeq(h \o q, o + 1, Len(h \o q)) = SubSeq(h, o + 1, Len(h)) \o q
<1> DEFINE g == h \o q
           a == SubSeq(h, o + 1, Len(h))
           b == SubSeq(g, o + 1, Len(g))
           c == a \o q
           l == Len(h)
           m == Len(q)
<1>1. l \in Nat /\ m \in Nat /\ o \in Nat /\ o <= l
  OBVIOUS
<1>2. g \in Seq(Int) /\ Len(g) = l + m /\ \A i \in 1..(l + m) : g[i] = IF i <= l THEN h[i] ELSE q[i - l]
  BY Joined
<1>3. a \in Seq(Int) /\ Len(a) = l - o /\ \A i \in 1..(l - o) : a[i] = h[o + i]
  BY TailOf
<1> HIDE DEF g
<1>4. b \in Seq(Int) /\ Len(b) = l + m - o /\ \A i \in 1..(l + m - o) : b[i] = g[o + i]
  <2>1. o \in 0..Len(g)
    BY <1>1, <1>2
  <2>2. b \in Seq(Int) /\ Len(b) = Len(g) - o /\ \A i \in 1..(Len(g) - o) : b[i] = g[o + i]
    BY <1>2, <2>1, TailOf
  <2> HIDE DEF b, l, m
  <2>3. Len(g) - o = l + m - o
    BY <1>1, <1>2
  <2> QED
    BY <2>2, <2>3
<1> HIDE DEF a, b
<1>5. c \in Seq(Int) /\ Len(c) = Len(a) + Len(q) /\ \A i \in 1..(Len(a) + Len(q)) : c[i] = IF i <= Len(a) THEN a[i] ELSE q[i - Len(a)]
  BY <1>3, Joined
<1>a. Len(q) = m
  OBVIOUS
<1> HIDE DEF c, l, m
<1>6. Len(c) = l + m - o /\ \A i \in 1..(l + m - o) : c[i] = IF i <= l - o THEN a[i] ELSE q[i - (l - o)]
  <2>1. Len(a) + Len(q) = l + m - o
    BY <1>1, <1>a, <1>3
  <2> QED
    BY <1>3, <1>5, <2>1
<1>7. \A i \in 1..(l + m - o) : b[i] = c[i]
  <2> TAKE i \in 1..(l + m - o)
  <2> DEFINE j == o + i
  <2>1. j \in 1..(l + m)
    BY <1>1
  <2>2. b[i] = g[j]
    BY <1>4
  <2>3. CASE i <= l - o
    <3>1. i \in 1..(l - o) /\ j <= l
      BY <1>1, <2>3
    <3>2. a[i] = h[j]
      BY <1>3, <3>1
    <3> HIDE DEF j
    <3>3. g[j] = h[j]
      BY <1>2, <2>1, <3>1
    <3> QED
      BY <1>6, <2>2, <2>3, <3>2, <3>3
  <2>4. CASE ~(i <= l - o)
    <3>1. ~(j <= l) /\ j - l = i - (l - o)
      BY <1>1, <2>4
    <3> HIDE DEF j
    <3>2. g[j] = q[j - l]
      BY <1>2, <2>1, <3>1
    <3>3. c[i] = q[i - (l - o)]
      BY <1>6, <2>4
    <3> QED
      BY <2>2, <3>1, <3>2, <3>3
  <2> QED
    BY <2>3, <2>4
<1>8. b = c
  BY <1>4, <1>5, <1>6, <1>7, SeqEqual
<1> QED
  BY <1>8 DEF a, b, c, g

\* The first item on its way is the next one of the stream.
LEMMA StreamNext ==
    ASSUME NEW h \in Seq(Int), NEW o \in 0..Len(h), NEW w \in Seq(Int), w # <<>>, NEW q \in Seq(Int),
           w \o q = SubSeq(h, o + 1, Len(h))
    PROVE  o < Len(h) /\ Head(w) = h[o + 1] /\ Tail(w) \o q = SubSeq(h, o + 1 + 1, Len(h))
<1> DEFINE l == Len(h)
           k == Len(w)
           m == Len(q)
           a == SubSeq(h, o + 1, Len(h))
           p == o + 1
           b == SubSeq(h, p + 1, Len(h))
           x == Tail(w)
           c == x \o q
<1>1. l \in Nat /\ k \in Nat /\ m \in Nat /\ o \in Nat /\ o <= l
  OBVIOUS
<1>2. k >= 1 /\ Head(w) = w[1] /\ x \in Seq(Int) /\ Len(x) = k - 1 /\ \A i \in 1..(k - 1) : x[i] = w[i + 1]
  BY NotEmpty
<1>3. a \in Seq(Int) /\ Len(a) = l - o /\ \A i \in 1..(l - o) : a[i] = h[o + i]
  BY TailOf
<1>4. Len(a) = k + m /\ \A i \in 1..(k + m) : a[i] = IF i <= k THEN w[i] ELSE q[i - k]
  <2> DEFINE e == w \o q
  <2>1. e = a
    OBVIOUS
  <2>2. /\ Len(e) = Len(w) + Len(q)
        /\ \A i \in 1..(Len(w) + Len(q)) : e[i] = IF i <= Len(w) THEN w[i] ELSE q[i - Len(w)]
    BY Joined
  <2> HIDE DEF a, e
  <2> QED
    BY <2>1, <2>2
<1>a. Len(q) = m
  OBVIOUS
<1> HIDE DEF a, x, k, m
<1>5. l - o = k + m /\ o < l
  <2> HIDE DEF l
  <2>1. Len(a) = l - o
    BY <1>3
  <2>2. Len(a) = k + m
    BY <1>4
  <2>3. k >= 1
    BY <1>2
  <2> QED
    BY <1>1, <2>1, <2>2, <2>3
<1>6. Head(w) = h[o + 1]
  <2>1. 1 \in 1..(l - o) /\ 1 \in 1..(k + m) /\ 1 <= k
    BY <1>1, <1>2, <1>5
  <2>2. a[1] = w[1]
    BY <1>4, <2>1
  <2>3. a[1] = h[o + 1]
    BY <1>3, <2>1
  <2> QED
    BY <1>2, <2>2, <2>3
<1>7. b \in Seq(Int) /\ Len(b) = l - p /\ \A i \in 1..(l - p) : b[i] = h[p + i]
  <2>1. p \in 0..Len(h)
    BY <1>1, <1>5
  <2> HIDE DEF p
  <2> QED
    BY <2>1, TailOf
<1>8. c \in Seq(Int) /\ Len(c) = Len(x) + Len(q) /\ \A i \in 1..(Len(x) + Len(q)) : c[i] = IF i <= Len(x) THEN x[i] ELSE q[i - Len(x)]
  BY <1>2, Joined
<1> HIDE DEF b, c, l
<1>9. Len(c) = k - 1 + m /\ \A i \in 1..(k - 1 + m) : c[i] = IF i <= k - 1 THEN x[i] ELSE q[i - (k - 1)]
  <2>1. Len(x) + Len(q) = k - 1 + m
    BY <1>1, <1>2, <1>a
  <2> QED
    BY <1>2, <1>8, <2>1
<1>10. l - p = k - 1 + m
  BY <1>1, <1>5
<1>11. \A i \in 1..(k - 1 + m) : b[i] = c[i]
  <2> TAKE i \in 1..(k - 1 + m)
  <2> DEFINE j == i + 1
  <2>1. j \in 1..(k + m) /\ j \in 1..(l - o)
    BY <1>1, <1>5
  <2>2. b[i] = h[o + j]
    <3>1. i \in 1..(l - p) /\ p + i = o + j
      BY <1>1, <1>10
    <3> HIDE DEF p, j
    <3> QED
      BY <1>7, <3>1
  <2>3. CASE i <= k - 1
    <3>1. i \in 1..(k - 1) /\ j <= k
      BY <1>1, <2>3
    <3>2. c[i] = w[j]
      BY <1>2, <1>9, <2>3, <3>1
    <3> HIDE DEF j
    <3> QED
      BY <1>3, <1>4, <2>1, <2>2, <3>1, <3>2
  <2>4. CASE ~(i <= k - 1)
    <3>1. ~(j <= k) /\ j - k = i - (k - 1)
      BY <1>1, <2>4
    <3>2. c[i] = q[i - (k - 1)]
      BY <1>9, <2>4
    <3> HIDE DEF j
    <3> QED
      BY <1>3, <1>4, <2>1, <2>2, <3>1, <3>2
  <2> QED
    BY <2>3, <2>4
<1>12. b = c
  BY <1>7, <1>8, <1>9, <1>10, <1>11, SeqEqual
<1> QED
  BY <1>5, <1>6, <1>12 DEF b, c, x, l, p

LEMMA ItemsNext ==
    ASSUME NEW w \in Seq(Msgs), OnlyItems(w), w # <<>>
    PROVE  /\ Tail(w) \in Seq(Msgs) /\ OnlyItems(Tail(w)) /\ ItemsOf(w) # <<>>
           /\ Head(ItemsOf(w)) = Head(w).item /\ Tail(ItemsOf(w)) = ItemsOf(Tail(w))
<1> DEFINE x == Tail(w)
           k == Len(w)
           a == ItemsOf(w)
           b == ItemsOf(x)
<1>1. k \in Nat /\ k >= 1 /\ Head(w) = w[1] /\ x \in Seq(Msgs) /\ Len(x) = k - 1 /\ \A i \in 1..(k - 1) : x[i] = w[i + 1]
  BY NotEmpty
<1>2. a \in Seq(Int) /\ Len(a) = k /\ \A i \in 1..k : a[i] = w[i].item
  BY ItemsTyped
<1>3. \A i \in 1..k : w[i].kind = "item"
  BY DEF OnlyItems
<1> HIDE DEF x, k, a
<1>4. \A i \in 1..(k - 1) : i + 1 \in 1..k
  BY <1>1
<1>5. OnlyItems(x)
  BY <1>1, <1>3, <1>4 DEF OnlyItems
<1>6. b \in Seq(Int) /\ Len(b) = k - 1 /\ \A i \in 1..(k - 1) : b[i] = x[i].item
  BY <1>1, <1>5, ItemsTyped
<1> HIDE DEF b
<1>7. a # <<>> /\ Head(a) = a[1] /\ Tail(a) \in Seq(Int) /\ Len(Tail(a)) = k - 1 /\ \A i \in 1..(k - 1) : Tail(a)[i] = a[i + 1]
  <2>1. a # <<>>
    BY <1>1, <1>2, NotEmpty
  <2> QED
    BY <1>2, <2>1, NotEmpty
<1>8. \A i \in 1..(k - 1) : Tail(a)[i] = b[i]
  BY <1>1, <1>2, <1>4, <1>6, <1>7
<1>9. Tail(a) = b
  BY <1>6, <1>7, <1>8, SeqEqual
<1>10. a[1] = w[1].item
  <2>1. 1 \in 1..k
    BY <1>1
  <2> QED
    BY <1>2, <2>1
<1> QED
  BY <1>1, <1>5, <1>7, <1>9, <1>10 DEF x, a, b
-----------------------------------------------------------------------------
(* What each step does to a slave                                          *)

LEMMA Ints == 
    /\ \A i \in Ids : i.id \in Nat /\ i.off \in Int
    /\ NoMaster \in Ids /\ NoMaster.id = 0 /\ NoMaster.off = -1
    /\ \A c \in Ends : c.st \in {"none", "start", "end", "bulk", "online"} /\ c.out \in Seq(Int) /\ c.ack \in Int /\ c.onack \in BOOLEAN /\ c.rdb \in Nat
    /\ NoClient \in Ends /\ NoClient.st = "none" /\ NoClient.out = <<>>
    /\ \A ch \in Children : ch.type \in {"none", "disk", "socket"} /\ ch.snap \in Nat /\ ch.fds \in SUBSET Slaves
    /\ NoChild \in Children /\ NoChild.type = "none" /\ NoChild.snap = 0
    /\ \A b \in Shapes : b.off \in Int /\ b.on \in BOOLEAN /\ b.size \in Sizes /\ b.histlen \in Nat /\ b.idx \in Nat
BY DEF Ids, Ends, Children, Shapes, NoMaster, NoClient, NoChild

LEMMA NotLoading ==
    ASSUME NEW w \in Seq(Msgs), OnlyItems(w)
    PROVE  ~Loads(w) /\ ~Stale(w)
<1>1. CASE w = <<>>
  BY <1>1 DEF Loads, Stale
<1>2. CASE w # <<>>
  <2>1. Head(w) = w[1] /\ Len(w) >= 1 /\ Len(w) \in Nat
    BY <1>2, NotEmpty
  <2>2. w[1].kind = "item"
    BY <2>1 DEF OnlyItems
  <2> QED
    BY <2>1, <2>2 DEF Loads, Stale
<1> QED
  BY <1>1, <1>2

\* While a slave follows, what is on its way are items of the stream.
LEMMA FlightTyped ==
    ASSUME NEW c \in Ends, NEW w \in Seq(Msgs), NEW r \in RunStates, NEW ca, NEW m, NEW i, NEW id, NEW b,
           Linked(c, w, r, ca, m, i, id, b), Following(w, r)
    PROVE  /\ OnlyItems(IF Loads(w) THEN Tail(w) ELSE w) /\ (IF Loads(w) THEN Tail(w) ELSE w) \in Seq(Msgs)
           /\ ItemsOf(IF Loads(w) THEN Tail(w) ELSE w) \in Seq(Int)
<1> DEFINE v == IF Loads(w) THEN Tail(w) ELSE w
<1>1. OnlyItems(v)
  <2>1. CASE r = "connected"
    <3>1. OnlyItems(w)
      BY <2>1 DEF Linked
    <3>2. ~Loads(w)
      BY <3>1, NotLoading
    <3> QED
      BY <3>1, <3>2
  <2>2. CASE r = "transfer" /\ c.st = "online"
    BY <2>2 DEF Linked, Following
  <2>3. CASE r = "transfer" /\ c.st # "online"
    <3>1. w = <<>>
      BY <2>3 DEF Linked, Following
    <3> QED
      BY <3>1 DEF OnlyItems, Loads
  <2> QED
    BY <2>1, <2>2, <2>3 DEF Following
<1>2. v \in Seq(Msgs)
  <2>1. CASE Loads(w)
    <3>1. Tail(w) \in Seq(Msgs)
      BY <2>1, NotEmpty DEF Loads
    <3> QED
      BY <2>1, <3>1
  <2>2. CASE ~Loads(w)
    BY <2>2
  <2> QED
    BY <2>1, <2>2
<1> HIDE DEF v
<1>3. ItemsOf(v) \in Seq(Int)
  BY <1>1, <1>2, ItemsTyped
<1> QED
  BY <1>1, <1>2, <1>3 DEF v

LEMMA QueueGrows ==
    ASSUME NEW y \in Seq(Int), NEW z \in Seq(Int), NEW x \in Int
    PROVE  y \o Append(z, x) = Append(y \o z, x)
<1> DEFINE q == <<x>>
<1>1. q \in Seq(Int) /\ Append(z, x) = z \o q
  OBVIOUS
<1>2. y \o z \in Seq(Int) /\ Append(y \o z, x) = (y \o z) \o q
  OBVIOUS
<1> HIDE DEF q
<1>3. y \o (z \o q) = (y \o z) \o q
  BY SMTT(30), <1>1, ConcatAssociative
<1> QED
  BY <1>1, <1>2, <1>3

LEMMA ReachedEnd ==
    ASSUME NEW c, NEW w, NEW d, NEW ch, c.st = "end"
    PROVE  Reached(c, w, d, ch) = ch.snap
BY DEF Reached

LEMMA ReachedTyped ==
    ASSUME NEW c \in Ends, NEW w \in Seq(Msgs), NEW d \in Seq(Int), NEW ch \in Children
    PROVE  Reached(c, w, d, ch) \in Nat
<1>1. Loads(w) => Head(w).snap \in Nat
  BY NotEmpty, Messages DEF Loads
<1>2. Len(d) \in Nat
  OBVIOUS
<1>3. c.rdb \in Nat /\ ch.snap \in Nat
  BY Ints
<1> QED
  BY <1>1, <1>2, <1>3 DEF Reached

\* Nothing happens at either end.
LEMMA GoodSame ==
    ASSUME NEW c \in Ends, NEW w \in Seq(Msgs), NEW r \in RunStates, NEW ca \in Ids, NEW m \in Ids, NEW i \in Ids,
           NEW d \in Seq(Int), NEW lt, NEW n \in Nat, NEW id \in Nat \ {0}, NEW h \in Seq(Int),
           NEW b \in Shapes, NEW ch \in Children, Good(c, w, r, ca, m, i, d, lt, n, id, h, b, ch),
           NEW b2 \in Shapes, NEW ch2 \in Children,
           c.st # "none" => b2.on,
           b2.on /\ b2.off <= Len(h) + 1 => b.on /\ b.off <= b2.off,
           c.st = "end" /\ ch.type = "disk" => ch2 = ch
    PROVE  Good(c, w, r, ca, m, i, d, lt, n, id, h, b2, ch2)
<1>1. Linked(c, w, r, ca, m, i, id, b)
  BY DEF Good
<1>2. Linked(c, w, r, ca, m, i, id, b2)
  BY <1>1 DEF Linked
<1>3. ASSUME ~lt PROVE Exact(c, w, r, ca, m, i, d, n, id, h, b2, ch2)
  <2>1. Exact(c, w, r, ca, m, i, d, n, id, h, b, ch)
    BY <1>3 DEF Good
  <2>2. c.st # "start" /\ (c.st = "end" => ch.type = "disk" /\ ch2 = ch)
    BY <2>1 DEF Exact
  <2>3. Reached(c, w, d, ch2) = Reached(c, w, d, ch)
    BY <2>2 DEF Reached
  <2>4. ASSUME Following(w, r) PROVE Catches(c, w, d, n, h, ch2, From(r, m, i))
    BY <2>1, <2>3, <2>4 DEF Exact, Catches
  <2>5. ASSUME ca.id = id PROVE Resumes(d, n, h, b2, ca.off)
    <3>1. Resumes(d, n, h, b, ca.off)
      BY <2>1, <2>5 DEF Exact
    <3>2. Len(h) \in Nat /\ ca.off \in 0..Len(h)
      BY <3>1 DEF Resumes
    <3>3. ASSUME b2.on, ca.off + 1 >= b2.off PROVE b.on /\ ca.off + 1 >= b.off
      <4>1. b2.off \in Int /\ b.off \in Int
        BY Ints
      <4>2. b2.off <= Len(h) + 1
        BY <3>2, <3>3, <4>1
      <4>3. b.on /\ b.off <= b2.off
        BY <3>3, <4>2
      <4> QED
        BY <3>2, <3>3, <4>1, <4>3
    <3> QED
      BY <3>1, <3>2, <3>3 DEF Resumes
  <2> QED
    BY <2>1, <2>2, <2>4, <2>5 DEF Exact
<1> QED
  BY <1>2, <1>3 DEF Good

\* The backlog is created: nobody is attached.
LEMMA GoodCreated ==
    ASSUME NEW c \in Ends, NEW w \in Seq(Msgs), NEW r \in RunStates, NEW ca \in Ids, NEW m \in Ids, NEW i \in Ids,
           NEW d \in Seq(Int), NEW lt, NEW n \in Nat, NEW id \in Nat \ {0}, NEW h \in Seq(Int),
           NEW b \in Shapes, NEW ch \in Children, Good(c, w, r, ca, m, i, d, lt, n, id, h, b, ch),
           ~b.on, NEW b2 \in Shapes, NEW ch2 \in Children, NEW x \in Int, b2.off = Len(h) + 2
    PROVE  Good(c, w, r, ca, m, i, d, lt, n, id, Append(h, x), b2, ch2)
<1>1. Linked(c, w, r, ca, m, i, id, b)
  BY DEF Good
<1>2. c.st = "none"
  BY <1>1 DEF Linked
<1>3. Linked(c, w, r, ca, m, i, id, b2)
  BY <1>1, <1>2 DEF Linked
<1>4. ASSUME ~lt PROVE Exact(c, w, r, ca, m, i, d, n, id, Append(h, x), b2, ch2)
  <2>1. Exact(c, w, r, ca, m, i, d, n, id, h, b, ch)
    BY <1>4 DEF Good
  <2>2. ~Following(w, r) /\ r # "connected"
    BY <1>1, <1>2 DEF Linked, Following
  <2>3. ASSUME ca.id = id PROVE Resumes(d, n, Append(h, x), b2, ca.off)
    <3>1. Resumes(d, n, h, b, ca.off)
      BY <2>1, <2>3 DEF Exact
    <3>2. Len(h) \in Nat /\ ca.off \in 0..Len(h)
      BY <3>1 DEF Resumes
    <3>3. Len(Append(h, x)) = Len(h) + 1
      BY AppendedItem
    <3>4. ca.off \in 0..Len(Append(h, x)) /\ ~(ca.off + 1 >= b2.off)
      BY <3>2, <3>3
    <3> QED
      BY <3>4 DEF Resumes
  <2> QED
    BY <1>2, <2>2, <2>3 DEF Exact
<1> QED
  BY <1>3, <1>4 DEF Good

\* A write that no stream records: nobody is attached and there is no backlog.
LEMMA GoodUnrecorded ==
    ASSUME NEW c \in Ends, NEW w \in Seq(Msgs), NEW r \in RunStates, NEW ca \in Ids, NEW m \in Ids, NEW i \in Ids,
           NEW d \in Seq(Int), NEW lt, NEW n \in Nat, NEW id \in Nat \ {0}, NEW h \in Seq(Int),
           NEW b \in Shapes, NEW ch \in Children, Good(c, w, r, ca, m, i, d, lt, n, id, h, b, ch),
           ~b.on, NEW n2 \in Nat
    PROVE  Good(c, w, r, ca, m, i, d, lt, n2, id, h, b, ch)
<1>1. Linked(c, w, r, ca, m, i, id, b)
  BY DEF Good
<1>2. c.st = "none"
  BY <1>1 DEF Linked
<1>4. ASSUME ~lt PROVE Exact(c, w, r, ca, m, i, d, n2, id, h, b, ch)
  <2>1. Exact(c, w, r, ca, m, i, d, n, id, h, b, ch)
    BY <1>4 DEF Good
  <2>2. ~Following(w, r) /\ r # "connected"
    BY <1>1, <1>2 DEF Linked, Following
  <2>3. ASSUME ca.id = id PROVE Resumes(d, n2, h, b, ca.off)
    <3>1. Resumes(d, n, h, b, ca.off)
      BY <2>1, <2>3 DEF Exact
    <3> QED
      BY <3>1 DEF Resumes
  <2> QED
    BY <1>2, <2>2, <2>3 DEF Exact
<1> QED
  BY <1>1, <1>4 DEF Good

\* c2 is c after an item of the stream was queued for it.
Queued(c, c2, x) ==
    /\ c2.st = c.st /\ c2.rdb = c.rdb
    /\ c.st = "none" => c2 = c
    /\ c.st \in {"end", "bulk", "online"} => c2.out = Append(c.out, x)

\* replicationFeedSlaves: an item is added to the stream.
LEMMA GoodFed ==
    ASSUME NEW c \in Ends, NEW w \in Seq(Msgs), NEW r \in RunStates, NEW ca \in Ids, NEW m \in Ids, NEW i \in Ids,
           NEW d \in Seq(Int), NEW lt, NEW n \in Nat, NEW id \in Nat \ {0}, NEW h \in Seq(Int),
           NEW b \in Shapes, NEW ch \in Children, Good(c, w, r, ca, m, i, d, lt, n, id, h, b, ch),
           NEW x \in Int, x <= 0 \/ x = n + 1, NEW c2 \in Ends, Queued(c, c2, x),
           NEW b2 \in Shapes, b.on, b2.on, b2.off >= b.off
    PROVE  Good(c2, w, r, ca, m, i, d, lt, IF x > 0 THEN x ELSE n, id, Append(h, x), b2, ch)
<1> DEFINE g == Append(h, x)
           n2 == IF x > 0 THEN x ELSE n
<1>1. Linked(c, w, r, ca, m, i, id, b)
  BY DEF Good
<1>2. Linked(c2, w, r, ca, m, i, id, b2)
  <2>1. c2.st = c.st
    BY DEF Queued
  <2> QED
    BY <1>1, <2>1 DEF Linked
<1>3. g \in Seq(Int) /\ Len(g) = Len(h) + 1 /\ Len(h) \in Nat
  BY AppendedItem
<1>4. \A k \in Nat, o \in 0..Len(h) : Leads(h, o, k, n) => Leads(g, o, k, n2)
  BY LeadsGrow
<1>a. \A o \in 0..Len(h) : SubSeq(g, o + 1, Len(g)) = Append(SubSeq(h, o + 1, Len(h)), x)
  <2> TAKE o \in 0..Len(h)
  <2>1. h \o <<x>> = g /\ <<x>> \in Seq(Int)
    OBVIOUS
  <2> HIDE DEF g
  <2> DEFINE q == <<x>>
  <2> HIDE DEF q
  <2>a. q \in Seq(Int) /\ h \o q = g
    BY <2>1 DEF q
  <2>b. SubSeq(h \o q, o + 1, Len(h \o q)) = SubSeq(h, o + 1, Len(h)) \o q
    BY <2>a, StreamGrows
  <2> DEFINE u == SubSeq(h, o + 1, Len(h))
  <2>2. SubSeq(g, o + 1, Len(g)) = u \o q
    BY <2>a, <2>b
  <2>3. u \in Seq(Int)
    BY TailOf
  <2> HIDE DEF u
  <2>4. Append(u, x) = u \o q
    BY <2>3, AppendIsConcat DEF q
  <2> QED
    BY <2>2, <2>4 DEF u
<1> HIDE DEF g, n2
<1>5. ASSUME ~lt PROVE Exact(c2, w, r, ca, m, i, d, n2, id, g, b2, ch)
  <2>1. Exact(c, w, r, ca, m, i, d, n, id, h, b, ch)
    BY <1>5 DEF Good
  <2>2. c.st # "start" /\ c2.st = c.st /\ c2.rdb = c.rdb
    BY <2>1 DEF Exact, Queued
  <2>3. Reached(c2, w, d, ch) = Reached(c, w, d, ch)
    BY <2>2 DEF Reached
  <2>4. ASSUME Following(w, r) PROVE Catches(c2, w, d, n2, g, ch, From(r, m, i))
    <3> DEFINE o == From(r, m, i)
               v == IF Loads(w) THEN Tail(w) ELSE w
               k == Reached(c, w, d, ch)
    <3>1. Catches(c, w, d, n, h, ch, o)
      BY <2>1, <2>4 DEF Exact
    <3> HIDE DEF o
    <3>2. c.st \in {"end", "bulk", "online"}
      BY <1>1, <2>2, <2>4, Ints DEF Linked, Following
    <3>3. c2.out = Append(c.out, x)
      BY <3>2 DEF Queued
    <3>4. ItemsOf(v) \in Seq(Int)
      BY <1>1, <2>4, FlightTyped
    <3>5. Flight(c2, w) = Append(Flight(c, w), x)
      <4>1. c.out \in Seq(Int)
        BY Ints
      <4> DEFINE y == ItemsOf(v)
                 z == c.out
      <4> HIDE DEF y, z
      <4>2. y \o Append(z, x) = Append(y \o z, x)
        BY <3>4, <4>1, QueueGrows DEF y, z
      <4> QED
        BY <3>3, <4>2 DEF Flight, y, z
    <3>6. o \in 0..Len(h) /\ Flight(c, w) = SubSeq(h, o + 1, Len(h)) /\ Leads(h, o, k, n)
      BY <3>1 DEF Catches
    <3>7. o \in 0..Len(g)
      BY <1>3, <3>6
    <3>8. Flight(c2, w) = SubSeq(g, o + 1, Len(g))
      BY <1>a, <3>5, <3>6
    <3>9. k \in Nat
      BY <1>1, <2>4, <3>2, ReachedTyped
    <3> HIDE DEF k
    <3>10. Leads(g, o, k, n2)
      BY <1>4, <3>6, <3>9
    <3> QED
      BY <2>3, <3>7, <3>8, <3>10 DEF Catches, o, k
  <2>5. ASSUME ca.id = id PROVE Resumes(d, n2, g, b2, ca.off)
    <3>1. Resumes(d, n, h, b, ca.off)
      BY <2>1, <2>5 DEF Exact
    <3>2. Len(h) \in Nat /\ ca.off \in 0..Len(h)
      BY <3>1 DEF Resumes
    <3>3. ca.off \in 0..Len(g)
      BY <1>3, <3>2
    <3>4. ASSUME b2.on, ca.off + 1 >= b2.off PROVE Whole(d) /\ Leads(g, ca.off, Len(d), n2)
      <4>1. b2.off \in Int /\ b.off \in Int
        BY Ints
      <4>2. ca.off + 1 >= b.off
        BY <3>2, <3>4, <4>1
      <4>3. Whole(d) /\ Leads(h, ca.off, Len(d), n)
        BY <3>1, <4>2 DEF Resumes
      <4>4. Len(d) \in Nat
        OBVIOUS
      <4> QED
        BY <1>4, <3>2, <4>3, <4>4
    <3> QED
      BY <3>3, <3>4 DEF Resumes
  <2> QED
    BY <2>1, <2>2, <2>4, <2>5 DEF Exact
<1> QED
  BY <1>2, <1>5 DEF Good, g, n2
-----------------------------------------------------------------------------
(* Links that are opened and closed                                        *)

\* A link that is down, with nothing cached.
LEMMA GoodFree ==
    ASSUME NEW i \in Ids, NEW d \in Seq(Int), NEW lt, NEW n \in Nat, NEW id \in Nat \ {0}, NEW h \in Seq(Int),
           NEW b \in Shapes, NEW ch \in Children, i.id <= id
    PROVE  Good(NoClient, <<>>, "connect", NoMaster, NoMaster, i, d, lt, n, id, h, b, ch)
<1>1. Linked(NoClient, <<>>, "connect", NoMaster, NoMaster, i, id, b)
  BY Ints DEF Linked
<1>2. Exact(NoClient, <<>>, "connect", NoMaster, NoMaster, i, d, n, id, h, b, ch)
  BY Ints DEF Exact, Following
<1> QED
  BY <1>1, <1>2 DEF Good

\* The answer to PSYNC comes too late and will be taken for the file.
LEMMA GoodMisread ==
    ASSUME NEW c \in Ends, NEW d \in Seq(Int), NEW lt, NEW n \in Nat, NEW id \in Nat \ {0}, NEW h \in Seq(Int),
           NEW b \in Shapes, NEW ch \in Children, b.on, c.st # "none",
           ~lt => c.st # "start" /\ (c.st = "end" => ch.type = "disk")
    PROVE  Good(c, <<Status>>, "transfer", NoMaster, NoMaster, NoMaster, d, lt, n, id, h, b, ch)
<1> DEFINE w == <<Status>>
<1>1. Stale(w)
  <2>1. w # <<>> /\ Head(w) = Status
    OBVIOUS
  <2>2. Status.kind = "status"
    BY Messages
  <2> HIDE DEF w
  <2> QED
    BY <2>1, <2>2 DEF Stale
<1> HIDE DEF w
<1>2. Linked(c, w, "transfer", NoMaster, NoMaster, NoMaster, id, b)
  <2>1. NoMaster.id <= id
    BY Ints
  <2>2. c.st = "none" <=> "transfer" \in {"connect", "connecting", "pong"}
    OBVIOUS
  <2> QED
    BY <1>1, <2>1, <2>2 DEF Linked
<1>3. ~lt => Exact(c, w, "transfer", NoMaster, NoMaster, NoMaster, d, n, id, h, b, ch)
  BY <1>1, Ints DEF Exact, Following
<1>4. Good(c, w, "transfer", NoMaster, NoMaster, NoMaster, d, lt, n, id, h, b, ch)
  BY <1>2, <1>3 DEF Good
<1> QED
  BY <1>4 DEF w

\* A full resynchronization begins; unless it is late, the child saves the data of this moment.
LEMMA GoodAttached ==
    ASSUME NEW c \in Ends, NEW i \in Ids, NEW d \in Seq(Int), NEW lt, NEW n \in Nat, NEW id \in Nat \ {0},
           NEW h \in Seq(Int), NEW b \in Shapes, NEW ch \in Children, b.on, c.st \in {"start", "end"},
           i.id = id, i.off = Len(h),
           ~lt => c.st = "end" /\ c.out = <<>> /\ ch.type = "disk" /\ ch.snap = n
    PROVE  Good(c, <<>>, "transfer", NoMaster, NoMaster, i, d, lt, n, id, h, b, ch)
<1>1. ~Stale(<<>>) /\ ~Loads(<<>>)
  BY DEF Stale, Loads
<1>2. Linked(c, <<>>, "transfer", NoMaster, NoMaster, i, id, b)
  <2>1. i.id <= id /\ NoMaster.id <= id
    BY Ints
  <2> QED
    BY <1>1, <2>1 DEF Linked
<1>3. ASSUME ~lt PROVE Catches(c, <<>>, d, n, h, ch, i.off)
  <2>1. Flight(c, <<>>) = <<>>
    <3>1. ItemsOf(<<>>) = <<>>
      BY DEF ItemsOf
    <3> QED
      BY <1>1, <1>3, <3>1 DEF Flight
  <2>2. Len(h) \in Nat /\ SubSeq(h, Len(h) + 1, Len(h)) = <<>>
    OBVIOUS
  <2>3. Reached(c, <<>>, d, ch) = n
    <3>1. c.st = "end" /\ ch.snap = n
      BY <1>3
    <3>2. Reached(c, <<>>, d, ch) = ch.snap
      BY <3>1, ReachedEnd
    <3> QED
      BY <3>1, <3>2
  <2>4. Leads(h, Len(h), n, n)
    BY LeadsHere
  <2>5. i.off \in 0..Len(h) /\ SubSeq(h, i.off + 1, Len(h)) = <<>>
    BY <2>2
  <2>6. Leads(h, i.off, Reached(c, <<>>, d, ch), n)
    BY <2>3, <2>4
  <2> QED
    BY <2>1, <2>5, <2>6 DEF Catches
<1>4. ASSUME ~lt PROVE Exact(c, <<>>, "transfer", NoMaster, NoMaster, i, d, n, id, h, b, ch)
  BY <1>3, <1>4, Ints DEF Exact, From
<1> QED
  BY <1>2, <1>4 DEF Good

\* PSYNC: the stream goes on where the cached master stood.
LEMMA GoodResumed ==
    ASSUME NEW c \in Ends, NEW w \in Seq(Msgs), NEW r \in RunStates, NEW ca \in Ids, NEW m \in Ids, NEW i \in Ids,
           NEW d \in Seq(Int), NEW lt, NEW n \in Nat, NEW id \in Nat \ {0}, NEW h \in Seq(Int),
           NEW b \in Shapes, NEW ch \in Children, Good(c, w, r, ca, m, i, d, lt, n, id, h, b, ch),
           ca.id = id, b.on, ca.off + 1 >= b.off, NEW c2 \in Ends, c2.st = "online",
           c2.out = SubSeq(h, ca.off + 1, Len(h))
    PROVE  Good(c2, <<>>, "connected", NoMaster, ca, NoMaster, d, lt, n, id, h, b, ch)
<1>1. ~Stale(<<>>) /\ ~Loads(<<>>) /\ OnlyItems(<<>>)
  BY DEF Stale, Loads, OnlyItems
<1>2. Linked(c2, <<>>, "connected", NoMaster, ca, NoMaster, id, b)
  BY <1>1, Ints DEF Linked
<1>3. ASSUME ~lt PROVE Exact(c2, <<>>, "connected", NoMaster, ca, NoMaster, d, n, id, h, b, ch)
  <2>1. Resumes(d, n, h, b, ca.off)
    BY <1>3 DEF Good, Exact
  <2>2. ca.off \in 0..Len(h) /\ Whole(d) /\ Leads(h, ca.off, Len(d), n)
    BY <2>1 DEF Resumes
  <2>3. Flight(c2, <<>>) = c2.out
    <3>1. ItemsOf(<<>>) = <<>>
      BY DEF ItemsOf
    <3>2. c2.out \in Seq(Int)
      BY Ints
    <3>3. <<>> \o c2.out = c2.out
      BY <3>2, ConcatEmptySeq
    <3> QED
      BY <1>1, <3>1, <3>3 DEF Flight
  <2>4. Reached(c2, <<>>, d, ch) = Len(d)
    BY <1>1 DEF Reached
  <2>5. Catches(c2, <<>>, d, n, h, ch, ca.off)
    BY <2>2, <2>3, <2>4 DEF Catches
  <2> QED
    BY <2>2, <2>5, Ints DEF Exact, From
<1> QED
  BY <1>2, <1>3 DEF Good

\* The link breaks: what the slave has counted is cached.
LEMMA GoodDown ==
    ASSUME NEW c \in Ends, NEW w \in Seq(Msgs), NEW r \in RunStates, NEW ca \in Ids, NEW m \in Ids, NEW i \in Ids,
           NEW d \in Seq(Int), NEW lt, NEW n \in Nat, NEW id \in Nat \ {0}, NEW h \in Seq(Int),
           NEW b \in Shapes, NEW ch \in Children, Good(c, w, r, ca, m, i, d, lt, n, id, h, b, ch),
           NEW ca2 \in Ids, r = "connected" => ca2 = m, r # "connected" => ca2 \in {ca, NoMaster}
    PROVE  Good(NoClient, <<>>, "connect", ca2, NoMaster, i, d, lt, n, id, h, b, ch)
<1>1. Linked(c, w, r, ca, m, i, id, b)
  BY DEF Good
<1>2. ca2 \in Ids /\ ca2.id <= id
  BY <1>1, Ints DEF Linked
<1>3. Linked(NoClient, <<>>, "connect", ca2, NoMaster, i, id, b)
  BY <1>1, <1>2, Ints DEF Linked
<1>4. ASSUME ~lt PROVE Exact(NoClient, <<>>, "connect", ca2, NoMaster, i, d, n, id, h, b, ch)
  <2>1. Exact(c, w, r, ca, m, i, d, n, id, h, b, ch)
    BY <1>4 DEF Good
  <2>2. ASSUME ca2.id = id PROVE Resumes(d, n, h, b, ca2.off)
    <3>1. CASE r = "connected"
      <4>1. ca2 = m /\ OnlyItems(w) /\ c.st = "online"
        BY <1>1, <3>1 DEF Linked
      <4>2. Following(w, r) /\ ~Loads(w)
        BY <3>1, <4>1, NotLoading DEF Following
      <4>3. From(r, m, i) = m.off
        BY <3>1 DEF From
      <4>4. Catches(c, w, d, n, h, ch, m.off)
        BY <2>1, <4>2, <4>3 DEF Exact
      <4>5. Whole(d)
        BY <2>1, <3>1 DEF Exact
      <4>6. Reached(c, w, d, ch) = Len(d)
        BY <4>1, <4>2 DEF Reached
      <4> QED
        BY <4>1, <4>4, <4>5, <4>6 DEF Catches, Resumes
    <3>2. CASE r # "connected"
      <4>1. ca2 = ca
        BY <2>2, <3>2, Ints
      <4> QED
        BY <2>1, <2>2, <4>1 DEF Exact
    <3> QED
      BY <3>1, <3>2
  <2> QED
    BY <2>2, Ints DEF Exact, Following
<1> QED
  BY <1>3, <1>4 DEF Good

\* The master restarts: nothing cached is of its new run id.
LEMMA GoodRestarted ==
    ASSUME NEW c \in Ends, NEW w \in Seq(Msgs), NEW r \in RunStates, NEW ca \in Ids, NEW m \in Ids, NEW i \in Ids,
           NEW d \in Seq(Int), NEW lt, NEW n \in Nat, NEW id \in Nat \ {0}, NEW h \in Seq(Int),
           NEW b \in Shapes, NEW ch \in Children, Good(c, w, r, ca, m, i, d, lt, n, id, h, b, ch),
           NEW ca2 \in Ids, ca2 \in {m, NoMaster, ca},
           NEW id2 \in Nat \ {0}, id < id2, NEW h2, NEW b2, NEW ch2
    PROVE  Good(NoClient, <<>>, "connect", ca2, NoMaster, i, d, lt, n, id2, h2, b2, ch2)
<1>1. Linked(c, w, r, ca, m, i, id, b)
  BY DEF Good
<1>2. ca2.id \in Nat /\ ca2.id <= id /\ i.id \in Nat /\ i.id <= id
  BY <1>1, Ints DEF Linked
<1>3. ca2.id <= id2 /\ i.id <= id2 /\ ca2.id # id2
  BY <1>2
<1>4. Linked(NoClient, <<>>, "connect", ca2, NoMaster, i, id2, b2)
  BY <1>3, Ints DEF Linked
<1>5. Exact(NoClient, <<>>, "connect", ca2, NoMaster, i, d, n, id2, h2, b2, ch2)
  BY <1>3, Ints DEF Exact, Following
<1> QED
  BY <1>4, <1>5 DEF Good

\* connectWithMaster, PING
LEMMA GoodAsks ==
    ASSUME NEW c \in Ends, NEW w \in Seq(Msgs), NEW r \in RunStates, NEW ca \in Ids, NEW m \in Ids, NEW i \in Ids,
           NEW d \in Seq(Int), NEW lt, NEW n \in Nat, NEW id \in Nat \ {0}, NEW h \in Seq(Int),
           NEW b \in Shapes, NEW ch \in Children, Good(c, w, r, ca, m, i, d, lt, n, id, h, b, ch),
           r \in {"connect", "connecting"}, NEW r2 \in {"connecting", "pong"}
    PROVE  Good(c, w, r2, ca, m, i, d, lt, n, id, h, b, ch)
<1>1. Linked(c, w, r2, ca, m, i, id, b)
  BY DEF Good, Linked
<1>2. ASSUME ~lt PROVE Exact(c, w, r2, ca, m, i, d, n, id, h, b, ch)
  BY <1>2 DEF Good, Exact, Following
<1> QED
  BY <1>1, <1>2 DEF Good

\* REPLCONF ACK
LEMMA GoodAcked ==
    ASSUME NEW c \in Ends, NEW w \in Seq(Msgs), NEW r \in RunStates, NEW ca \in Ids, NEW m \in Ids, NEW i \in Ids,
           NEW d \in Seq(Int), NEW lt, NEW n \in Nat, NEW id \in Nat \ {0}, NEW h \in Seq(Int),
           NEW b \in Shapes, NEW ch \in Children, Good(c, w, r, ca, m, i, d, lt, n, id, h, b, ch),
           NEW c2 \in Ends, c2.st = c.st, c2.out = c.out, c2.rdb = c.rdb
    PROVE  Good(c2, w, r, ca, m, i, d, lt, n, id, h, b, ch)
<1>1. Linked(c2, w, r, ca, m, i, id, b)
  BY DEF Good, Linked
<1>2. Reached(c2, w, d, ch) = Reached(c, w, d, ch) /\ Flight(c2, w) = Flight(c, w)
  BY DEF Reached, Flight
<1>3. ASSUME ~lt PROVE Exact(c2, w, r, ca, m, i, d, n, id, h, b, ch)
  <2>1. Exact(c, w, r, ca, m, i, d, n, id, h, b, ch)
    BY <1>3 DEF Good
  <2> QED
    BY <1>2, <2>1 DEF Exact, Catches
<1> QED
  BY <1>1, <1>3 DEF Good
-----------------------------------------------------------------------------
(* Snapshots and streams that arrive                                       *)

\* The file is put on the wire.
LEMMA BulkSent ==
    ASSUME NEW w \in Seq(Msgs), NEW k \in Nat
    PROVE  /\ Append(w, Bulk(k)) \in Seq(Msgs)
           /\ Stale(w) => Stale(Append(w, Bulk(k)))
           /\ w = <<>> => /\ Loads(Append(w, Bulk(k))) /\ ~Stale(Append(w, Bulk(k)))
                          /\ Head(Append(w, Bulk(k))).snap = k /\ Tail(Append(w, Bulk(k))) = <<>>
<1> DEFINE x == Bulk(k)
           v == Append(w, x)
<1>1. x \in Msgs /\ x.kind = "bulk" /\ x.snap = k
  BY Messages
<1> HIDE DEF x
<1>2. v \in Seq(Msgs) /\ v # <<>>
  BY <1>1, AppendProperties
<1>3. Head(v) = (IF w = <<>> THEN x ELSE Head(w)) /\ Tail(v) = (IF w = <<>> THEN <<>> ELSE Append(Tail(w), x))
  BY <1>1, HeadTailAppend
<1> HIDE DEF v
<1>4. Stale(w) => Stale(v)
  BY <1>2, <1>3 DEF Stale
<1>5. w = <<>> => Loads(v) /\ ~Stale(v) /\ Head(v).snap = k /\ Tail(v) = <<>>
  BY <1>1, <1>2, <1>3 DEF Stale, Loads
<1> QED
  BY <1>2, <1>4, <1>5 DEF v, x

\* A slave that waited for the next BGSAVE has its offset from before.
LEMMA GoodJoins ==
    ASSUME NEW c \in Ends, NEW w \in Seq(Msgs), NEW r \in RunStates, NEW ca \in Ids, NEW m \in Ids, NEW i \in Ids,
           NEW d \in Seq(Int), NEW lt, NEW n \in Nat, NEW id \in Nat \ {0}, NEW h \in Seq(Int),
           NEW b \in Shapes, NEW ch \in Children, Good(c, w, r, ca, m, i, d, lt, n, id, h, b, ch),
           c.st = "start", NEW c2 \in Ends, c2.st = "end", NEW ch2
    PROVE  Good(c2, w, r, ca, m, i, d, lt, n, id, h, b, ch2)
<1>1. Linked(c2, w, r, ca, m, i, id, b)
  BY DEF Good, Linked
<1>2. lt
  BY DEF Good, Exact
<1> QED
  BY <1>1, <1>2 DEF Good

\* The child has written the file.
LEMMA GoodServed ==
    ASSUME NEW c \in Ends, NEW w \in Seq(Msgs), NEW r \in RunStates, NEW ca \in Ids, NEW m \in Ids, NEW i \in Ids,
           NEW d \in Seq(Int), NEW lt, NEW n \in Nat, NEW id \in Nat \ {0}, NEW h \in Seq(Int),
           NEW b \in Shapes, NEW ch \in Children, Good(c, w, r, ca, m, i, d, lt, n, id, h, b, ch),
           c.st = "end", NEW c2 \in Ends, c2.st = "bulk", c2.out = c.out, c2.rdb = ch.snap, NEW ch2
    PROVE  Good(c2, w, r, ca, m, i, d, lt, n, id, h, b, ch2)
<1>1. Linked(c2, w, r, ca, m, i, id, b)
  BY DEF Good, Linked
<1>2. Reached(c2, w, d, ch2) = Reached(c, w, d, ch) /\ Flight(c2, w) = Flight(c, w)
  BY DEF Reached, Flight
<1>3. ASSUME ~lt PROVE Exact(c2, w, r, ca, m, i, d, n, id, h, b, ch2)
  <2>1. Exact(c, w, r, ca, m, i, d, n, id, h, b, ch)
    BY <1>3 DEF Good
  <2> QED
    BY <1>2, <2>1 DEF Exact, Catches
<1> QED
  BY <1>1, <1>3 DEF Good

\* While the master still holds the file back, nothing is on the wire, or an answer that is taken for it.
LEMMA Waiting ==
    ASSUME NEW c \in Ends, NEW w, NEW r \in RunStates, NEW ca, NEW m, NEW i, NEW id, NEW b,
           Linked(c, w, r, ca, m, i, id, b), c.st \in {"start", "end", "bulk"}
    PROVE  r = "transfer" /\ (~Stale(w) => w = <<>>) /\ (w = <<>> => ~Stale(w))
<1>1. r = "transfer"
  BY DEF Linked, RunStates
<1>2. ~Stale(w) => w = <<>>
  BY <1>1 DEF Linked
<1>3. w = <<>> => ~Stale(w)
  BY DEF Stale
<1> QED
  BY <1>1, <1>2, <1>3

\* The child has sent its snapshot to the socket.
LEMMA GoodPiped ==
    ASSUME NEW c \in Ends, NEW w \in Seq(Msgs), NEW r \in RunStates, NEW ca \in Ids, NEW m \in Ids, NEW i \in Ids,
           NEW d \in Seq(Int), NEW lt, NEW n \in Nat, NEW id \in Nat \ {0}, NEW h \in Seq(Int),
           NEW b \in Shapes, NEW ch \in Children, Good(c, w, r, ca, m, i, d, lt, n, id, h, b, ch),
           c.st = "end", ch.type # "disk", NEW c2 \in Ends, c2.st = "online", NEW k \in Nat, NEW ch2
    PROVE  Good(c2, Append(w, Bulk(k)), r, ca, m, i, d, lt, n, id, h, b, ch2)
<1> DEFINE v == Append(w, Bulk(k))
<1>1. Linked(c, w, r, ca, m, i, id, b)
  BY DEF Good
<1>2. r = "transfer" /\ (~Stale(w) => w = <<>>)
  <2>1. c.st \in {"start", "end", "bulk"}
    OBVIOUS
  <2> QED
    BY <1>1, <2>1, Waiting
<1>3. OnlyItems(<<>>)
  BY DEF OnlyItems
<1>4. (Stale(w) => Stale(v)) /\ (w = <<>> => Loads(v) /\ ~Stale(v) /\ OnlyItems(Tail(v)))
  BY <1>3, BulkSent
<1> HIDE DEF v
<1>a. ~Stale(v) => ~Stale(w)
  BY <1>4
<1>5. Linked(c2, v, r, ca, m, i, id, b)
  BY <1>1, <1>2, <1>4, <1>a DEF Linked
<1>6. lt
  BY DEF Good, Exact
<1> QED
  BY <1>5, <1>6 DEF Good, v

\* sendBulkToSlave
LEMMA GoodBulk ==
    ASSUME NEW c \in Ends, NEW w \in Seq(Msgs), NEW r \in RunStates, NEW ca \in Ids, NEW m \in Ids, NEW i \in Ids,
           NEW d \in Seq(Int), NEW lt, NEW n \in Nat, NEW id \in Nat \ {0}, NEW h \in Seq(Int),
           NEW b \in Shapes, NEW ch \in Children, Good(c, w, r, ca, m, i, d, lt, n, id, h, b, ch),
           c.st = "bulk", NEW c2 \in Ends, c2.st = "online", c2.out = c.out
    PROVE  Good(c2, Append(w, Bulk(c.rdb)), r, ca, m, i, d, lt, n, id, h, b, ch)
<1> DEFINE v == Append(w, Bulk(c.rdb))
<1>1. Linked(c, w, r, ca, m, i, id, b)
  BY DEF Good
<1>2. r = "transfer" /\ (~Stale(w) => w = <<>>) /\ (w = <<>> => ~Stale(w))
  <2>1. c.st \in {"start", "end", "bulk"}
    OBVIOUS
  <2> QED
    BY <1>1, <2>1, Waiting
<1>3. OnlyItems(<<>>)
  BY DEF OnlyItems
<1>4. c.rdb \in Nat
  BY Ints
<1>5. /\ Stale(w) => Stale(v)
      /\ w = <<>> => Loads(v) /\ ~Stale(v) /\ Tail(v) = <<>> /\ Head(v).snap = c.rdb
  BY <1>4, BulkSent
<1> HIDE DEF v
<1>a. ~Stale(v) => ~Stale(w) /\ w = <<>>
  BY <1>2, <1>5
<1>6. Linked(c2, v, r, ca, m, i, id, b)
  BY <1>1, <1>2, <1>3, <1>5, <1>a DEF Linked
<1>7. ASSUME ~lt PROVE Exact(c2, v, r, ca, m, i, d, n, id, h, b, ch)
  <2>1. Exact(c, w, r, ca, m, i, d, n, id, h, b, ch)
    BY <1>7 DEF Good
  <2>2. ASSUME Following(v, r) PROVE Catches(c2, v, d, n, h, ch, From(r, m, i))
    <3>1. w = <<>> /\ ~Loads(w) /\ Following(w, r)
      BY <1>2, <1>a, <2>2 DEF Following, Loads
    <3>2. Loads(v) /\ Tail(v) = w /\ Head(v).snap = c.rdb
      BY <1>5, <3>1
    <3>3. Flight(c2, v) = Flight(c, w)
      BY <3>1, <3>2 DEF Flight
    <3>4. Reached(c2, v, d, ch) = Reached(c, w, d, ch)
      BY <3>2 DEF Reached
    <3>5. Catches(c, w, d, n, h, ch, From(r, m, i))
      BY <2>1, <3>1 DEF Exact
    <3> QED
      BY <3>3, <3>4, <3>5 DEF Catches
  <2> QED
    BY <2>1, <2>2 DEF Exact
<1> QED
  BY <1>6, <1>7 DEF Good, v

\* sendReplyToClient
LEMMA GoodSent ==
    ASSUME NEW c \in Ends, NEW w \in Seq(Msgs), NEW r \in RunStates, NEW ca \in Ids, NEW m \in Ids, NEW i \in Ids,
           NEW d \in Seq(Int), NEW lt, NEW n \in Nat, NEW id \in Nat \ {0}, NEW h \in Seq(Int),
           NEW b \in Shapes, NEW ch \in Children, Good(c, w, r, ca, m, i, d, lt, n, id, h, b, ch),
           c.st = "online", NEW c2 \in Ends, c2.st = "online", c2.out = <<>>
    PROVE  Good(c2, w \o Packed(c.out), r, ca, m, i, d, lt, n, id, h, b, ch)
<1> DEFINE v == w \o Packed(c.out)
           q == c.out
<1>1. Linked(c, w, r, ca, m, i, id, b)
  BY DEF Good
<1>2. q \in Seq(Int)
  BY Ints
<1>3. /\ v \in Seq(Msgs)
      /\ OnlyItems(w) => OnlyItems(v) /\ ItemsOf(v) = ItemsOf(w) \o q
      /\ w # <<>> => v # <<>> /\ Head(v) = Head(w) /\ Tail(v) = Tail(w) \o Packed(q)
  BY <1>2, ItemsSent
<1>4. Loads(w) /\ OnlyItems(Tail(w)) => OnlyItems(Tail(v)) /\ ItemsOf(Tail(v)) = ItemsOf(Tail(w)) \o q
  <2> SUFFICES ASSUME Loads(w), OnlyItems(Tail(w)) PROVE OnlyItems(Tail(v)) /\ ItemsOf(Tail(v)) = ItemsOf(Tail(w)) \o q
    OBVIOUS
  <2>1. w # <<>>
    BY DEF Loads
  <2>2. Tail(w) \in Seq(Msgs)
    BY <2>1, NotEmpty
  <2> DEFINE t == Tail(w)
             u == Tail(v)
  <2>3. u = t \o Packed(q)
    BY <1>3, <2>1
  <2> HIDE DEF t, q, v, u
  <2>4. OnlyItems(t \o Packed(q)) /\ ItemsOf(t \o Packed(q)) = ItemsOf(t) \o q
    BY <1>2, <2>2, ItemsSent DEF t
  <2> QED
    BY <2>3, <2>4 DEF t, u
<1> HIDE DEF v, q
<1>5. Loads(w) => Loads(v)
  BY <1>3 DEF Loads
<1>6. Stale(w) => Stale(v)
  BY <1>3 DEF Stale
<1>7. r = "connected" => OnlyItems(w) /\ OnlyItems(v) /\ ~Loads(w) /\ ~Loads(v)
  BY <1>1, <1>3, NotLoading DEF Linked
<1>8. r = "transfer" /\ ~Stale(w) => Loads(w) /\ Loads(v) /\ OnlyItems(Tail(w)) /\ OnlyItems(Tail(v))
  BY <1>1, <1>4, <1>5 DEF Linked
<1>9. Linked(c2, v, r, ca, m, i, id, b)
  BY <1>1, <1>6, <1>7, <1>8 DEF Linked
<1>10. ASSUME ~lt PROVE Exact(c2, v, r, ca, m, i, d, n, id, h, b, ch)
  <2>1. Exact(c, w, r, ca, m, i, d, n, id, h, b, ch)
    BY <1>10 DEF Good
  <2>2. ASSUME Following(v, r) PROVE Catches(c2, v, d, n, h, ch, From(r, m, i))
    <3> DEFINE x == IF Loads(w) THEN Tail(w) ELSE w
               y == IF Loads(v) THEN Tail(v) ELSE v
    <3>1. Following(w, r)
      BY <1>6, <2>2 DEF Following
    <3>2. Loads(w) <=> Loads(v)
      BY <1>7, <1>8, <3>1 DEF Following
    <3>3. ItemsOf(y) = ItemsOf(x) \o q
      <4>1. CASE r = "connected"
        BY <1>3, <1>7, <4>1
      <4>2. CASE r = "transfer"
        BY <1>4, <1>8, <3>1, <4>2 DEF Following
      <4> QED
        BY <3>1, <4>1, <4>2 DEF Following
    <3>4. ItemsOf(x) \in Seq(Int)
      BY <1>1, <3>1, FlightTyped
    <3>5. Flight(c2, v) = ItemsOf(y) \o <<>> /\ Flight(c, w) = ItemsOf(x) \o q
      BY DEF Flight, q
    <3>6. Flight(c2, v) = Flight(c, w)
      <4> HIDE DEF x, y
      <4>1. ItemsOf(y) \in Seq(Int)
        BY <1>2, <3>3, <3>4, Joined
      <4>2. ItemsOf(y) \o <<>> = ItemsOf(y)
        BY <4>1, ConcatEmptySeq
      <4> QED
        BY <3>3, <3>5, <4>2
    <3>7. Reached(c2, v, d, ch) = Reached(c, w, d, ch)
      <4>1. Loads(w) => Head(v) = Head(w)
        BY <1>3 DEF Loads
      <4> QED
        BY <3>2, <4>1 DEF Reached
    <3>8. Catches(c, w, d, n, h, ch, From(r, m, i))
      BY <2>1, <3>1 DEF Exact
    <3> QED
      BY <3>6, <3>7, <3>8 DEF Catches
  <2> QED
    BY <2>1, <2>2 DEF Exact
<1> QED
  BY <1>9, <1>10 DEF Good, v, q

LEMMA UptoTyped ==
    ASSUME NEW k \in Nat
    PROVE  /\ Upto(k) \in Seq(Int) /\ Len(Upto(k)) = k /\ Whole(Upto(k))
           /\ Append(Upto(k), k + 1) = Upto(k + 1)
<1>1. Upto(k) \in Seq(Int) /\ Len(Upto(k)) = k /\ \A j \in 1..k : Upto(k)[j] = j
  BY DEF Upto
<1>2. Upto(k + 1) \in Seq(Int) /\ Len(Upto(k + 1)) = k + 1 /\ \A j \in 1..(k + 1) : Upto(k + 1)[j] = j
  BY DEF Upto
<1> DEFINE a == Upto(k)
           e == Append(a, k + 1)
           g == Upto(k + 1)
<1>3. Whole(a)
  BY <1>1 DEF Whole
<1> HIDE DEF a, g
<1>4. e \in Seq(Int) /\ Len(e) = k + 1 /\ e[k + 1] = k + 1 /\ \A j \in 1..k : e[j] = a[j]
  BY <1>1, AppendedItem DEF a
<1> HIDE DEF e
<1>5. \A j \in 1..(k + 1) : e[j] = j
  <2> TAKE j \in 1..(k + 1)
  <2>1. CASE j = k + 1
    BY <1>4, <2>1
  <2>2. CASE j \in 1..k
    BY <1>1, <1>4, <2>2 DEF a
  <2> QED
    BY <2>1, <2>2
<1>6. \A j \in 1..(k + 1) : e[j] = g[j]
  BY <1>2, <1>5 DEF g
<1>7. e = g
  BY <1>2, <1>4, <1>6, SeqEqual DEF g
<1> QED
  BY <1>1, <1>3, <1>7 DEF a, e, g

\* readSyncBulkPayload: the file is loaded, and the stream is taken to start where FULLRESYNC said.
LEMMA GoodLoads ==
    ASSUME NEW c \in Ends, NEW w \in Seq(Msgs), NEW r \in RunStates, NEW ca \in Ids, NEW m \in Ids, NEW i \in Ids,
           NEW d \in Seq(Int), NEW lt, NEW n \in Nat, NEW id \in Nat \ {0}, NEW h \in Seq(Int),
           NEW b \in Shapes, NEW ch \in Children, Good(c, w, r, ca, m, i, d, lt, n, id, h, b, ch),
           r = "transfer", Loads(w)
    PROVE  Good(c, Tail(w), "connected", ca, i, i, Upto(Head(w).snap), lt, n, id, h, b, ch)
<1> DEFINE k == Head(w).snap
           e == Upto(k)
           v == Tail(w)
<1>1. Linked(c, w, r, ca, m, i, id, b)
  BY DEF Good
<1>2. ~Stale(w) /\ w # <<>>
  BY DEF Loads, Stale
<1>3. i.id = id /\ c.st = "online" /\ OnlyItems(v) /\ ca = NoMaster
  BY <1>1, <1>2 DEF Linked
<1>4. k \in Nat /\ v \in Seq(Msgs)
  BY NotEmpty, Messages, <1>2 DEF Loads
<1>5. ~Loads(v) /\ ~Stale(v)
  BY <1>3, <1>4, NotLoading
<1>6. Whole(e) /\ Len(e) = k
  BY <1>4, UptoTyped
<1> HIDE DEF v, e
<1>7. Linked(c, v, "connected", ca, i, i, id, b)
  BY <1>1, <1>3 DEF Linked
<1>8. ASSUME ~lt PROVE Exact(c, v, "connected", ca, i, i, e, n, id, h, b, ch)
  <2>1. Exact(c, w, r, ca, m, i, d, n, id, h, b, ch)
    BY <1>8 DEF Good
  <2>2. Catches(c, w, d, n, h, ch, i.off)
    <3>1. Following(w, r) /\ From(r, m, i) = i.off
      BY <1>2 DEF Following, From
    <3> QED
      BY <2>1, <3>1 DEF Exact
  <2>3. Flight(c, v) = Flight(c, w)
    BY <1>5 DEF Flight, v
  <2>4. Reached(c, v, e, ch) = k
    BY <1>3, <1>5, <1>6 DEF Reached
  <2>5. Reached(c, w, d, ch) = k
    BY <1>3 DEF Reached
  <2>6. Catches(c, v, e, n, h, ch, i.off)
    BY <2>2, <2>3, <2>4, <2>5 DEF Catches
  <2>7. ca.id # id
    BY <1>3, Ints
  <2> QED
    BY <1>3, <1>6, <2>6, <2>7 DEF Exact, From
<1> QED
  BY <1>7, <1>8 DEF Good, v, e

\* A command of the stream is applied and counted.
LEMMA GoodApplies ==
    ASSUME NEW c \in Ends, NEW w \in Seq(Msgs), NEW r \in RunStates, NEW ca \in Ids, NEW m \in Ids, NEW i \in Ids,
           NEW d \in Seq(Int), NEW lt, NEW n \in Nat, NEW id \in Nat \ {0}, NEW h \in Seq(Int),
           NEW b \in Shapes, NEW ch \in Children, Good(c, w, r, ca, m, i, d, lt, n, id, h, b, ch),
           r = "connected", w # <<>>, NEW m2 \in Ids, m2.id = m.id, m2.off = m.off + 1
    PROVE  Good(c, Tail(w), r, ca, m2, i, IF Head(w).item > 0 THEN Append(d, Head(w).item) ELSE d, lt, n, id, h, b, ch)
<1> DEFINE x == Head(w).item
           e == IF x > 0 THEN Append(d, x) ELSE d
           v == Tail(w)
<1>1. Linked(c, w, r, ca, m, i, id, b)
  BY DEF Good
<1>2. OnlyItems(w) /\ c.st = "online" /\ m.id = id /\ ca = NoMaster
  BY <1>1 DEF Linked
<1>3. /\ v \in Seq(Msgs) /\ OnlyItems(v) /\ ItemsOf(w) # <<>>
      /\ Head(ItemsOf(w)) = x /\ Tail(ItemsOf(w)) = ItemsOf(v)
  BY <1>2, ItemsNext
<1>4. ~Loads(w) /\ ~Stale(w) /\ ~Loads(v) /\ ~Stale(v)
  BY <1>2, <1>3, NotLoading
<1> HIDE DEF v, e
<1>5. Linked(c, v, r, ca, m2, i, id, b)
  BY <1>1, <1>2, <1>3 DEF Linked
<1>6. ASSUME ~lt PROVE Exact(c, v, r, ca, m2, i, e, n, id, h, b, ch)
  <2> DEFINE o == m.off
             k == Len(d)
             l == Len(e)
             a == ItemsOf(w)
             q == c.out
  <2>1. Exact(c, w, r, ca, m, i, d, n, id, h, b, ch)
    BY <1>6 DEF Good
  <2>2. Catches(c, w, d, n, h, ch, o) /\ Whole(d)
    <3>1. Following(w, r) /\ From(r, m, i) = o
      BY <1>4 DEF Following, From
    <3> QED
      BY <2>1, <3>1 DEF Exact
  <2>3. Reached(c, w, d, ch) = k /\ Reached(c, v, e, ch) = l
    BY <1>2, <1>4 DEF Reached
  <2>4. a \o q = SubSeq(h, o + 1, Len(h)) /\ o \in 0..Len(h) /\ Leads(h, o, k, n)
    BY <1>4, <2>2, <2>3 DEF Catches, Flight
  <2>5. a \in Seq(Int) /\ q \in Seq(Int) /\ k \in Nat /\ a # <<>>
    BY <1>2, <1>3, ItemsTyped, Ints
  <2> HIDE DEF a, q, k, o, l
  <2>6. o < Len(h) /\ Head(a) = h[o + 1] /\ Tail(a) \o q = SubSeq(h, o + 1 + 1, Len(h))
    BY <2>4, <2>5, StreamNext
  <2>7. x = h[o + 1]
    BY <1>3, <2>6 DEF a
  <2>8. x \in Int /\ (x > 0 => x = k + 1) /\ Leads(h, o + 1, IF x > 0 THEN k + 1 ELSE k, n)
    BY <2>4, <2>5, <2>6, <2>7, LeadsNext
  <2> HIDE DEF x
  <2>9. Whole(e) /\ l = IF x > 0 THEN k + 1 ELSE k
    <3>1. CASE x > 0
      <4>1. d = Upto(k) /\ e = Append(d, k + 1)
        BY <2>2, <2>8, <3>1 DEF Whole, e, k
      <4>2. e = Upto(k + 1)
        BY <2>5, <4>1, UptoTyped
      <4>3. Whole(Upto(k + 1)) /\ Len(Upto(k + 1)) = k + 1
        <5> DEFINE j == k + 1
        <5>1. j \in Nat
          BY <2>5
        <5> HIDE DEF j
        <5>2. Whole(Upto(j)) /\ Len(Upto(j)) = j
          BY <5>1, UptoTyped
        <5> QED
          BY <5>2 DEF j
      <4> QED
        BY <3>1, <4>2, <4>3 DEF l
    <3>2. CASE ~(x > 0)
      BY <2>2, <3>2 DEF e, l, k
    <3> QED
      BY <3>1, <3>2
  <2>10. Catches(c, v, e, n, h, ch, m2.off)
    <3>1. m2.off = o + 1
      BY DEF o
    <3>2. Len(h) \in Nat /\ m2.off \in 0..Len(h)
      BY SMTT(30), <2>4, <2>6, <3>1
    <3>3. Flight(c, v) = SubSeq(h, m2.off + 1, Len(h))
      BY <1>3, <1>4, <2>6, <3>1 DEF Flight, a, q
    <3>4. Leads(h, m2.off, Reached(c, v, e, ch), n)
      BY <2>3, <2>8, <2>9, <3>1
    <3> QED
      BY <3>2, <3>3, <3>4 DEF Catches
  <2>11. ca.id # id
    BY <1>2, Ints
  <2>12. From(r, m2, i) = m2.off
    BY DEF From
  <2> QED
    BY <1>2, <2>9, <2>10, <2>11, <2>12 DEF Exact
<1> QED
  BY <1>5, <1>6 DEF Good, v, e
-----------------------------------------------------------------------------
(* Every step keeps the invariant                                          *)

\* What is where for a slave.
LEMMA SlaveTyped ==
    ASSUME ReplInv, NEW s \in Slaves
    PROVE  /\ sl[s] \in Ends /\ wire[s] \in Seq(Msgs) /\ rs[s] \in RunStates /\ cached[s] \in Ids /\ master[s] \in Ids
           /\ initial[s] \in Ids /\ data[s] \in Seq(Int) /\ late[s] \in BOOLEAN
           /\ Good(sl[s], wire[s], rs[s], cached[s], master[s], initial[s], data[s], late[s], log, runid, hist, bl, child)
BY DEF ReplInv, LinksTyped, SlaveGood

LEMMA TopFacts ==
    ASSUME ReplInv
    PROVE  /\ log \in Nat /\ log \in 0..MaxLog /\ runid \in Nat \ {0} /\ runid \in Nat /\ hist \in Seq(Int)
           /\ moff = Len(hist) /\ moff \in Nat /\ bl \in Shapes /\ child \in Children /\ (bl.on => BacklogOf(bl, hist))
           /\ child.snap \in Nat /\ child.snap <= log /\ bl.off \in Int /\ seldb \in {-1, 0}
<1>1. /\ log \in 0..MaxLog /\ runid \in Nat \ {0} /\ hist \in Seq(Int) /\ seldb \in {-1, 0}
      /\ moff = Len(hist) /\ bl \in Shapes /\ child \in Children /\ (bl.on => BacklogOf(bl, hist)) /\ child.snap <= log
  BY DEF ReplInv, TopTyped
<1>2. log \in Nat /\ moff \in Nat /\ runid \in Nat
  BY <1>1
<1>3. child.snap \in Nat /\ bl.off \in Int
  BY <1>1, Ints
<1> QED
  BY <1>1, <1>2, <1>3

\* g is f with v for s.
Put(f, g, s, v, T) == g \in [Slaves -> T] /\ g[s] = v /\ \A t \in Slaves \ {s} : g[t] = f[t]

LEMMA PutNew ==
    ASSUME NEW T, NEW f \in [Slaves -> T], NEW s \in Slaves, NEW v \in T
    PROVE  Put(f, [f EXCEPT ![s] = v], s, v, T)
BY DEF Put

LEMMA PutOld ==
    ASSUME NEW T, NEW f \in [Slaves -> T], NEW s \in Slaves
    PROVE  Put(f, f, s, f[s], T)
BY DEF Put

\* A step of one slave.
LEMMA OneSlave ==
    ASSUME ReplInv, TopTyped', NEW s \in Slaves,
           NEW c, NEW w, NEW r, NEW ca, NEW m, NEW i, NEW d, NEW lt,
           Put(sl, sl', s, c, Ends), Put(wire, wire', s, w, Seq(Msgs)), Put(rs, rs', s, r, RunStates),
           Put(cached, cached', s, ca, Ids), Put(master, master', s, m, Ids), Put(initial, initial', s, i, Ids),
           Put(data, data', s, d, Seq(Int)), Put(late, late', s, lt, BOOLEAN),
           Good(c, w, r, ca, m, i, d, lt, log', runid', hist', bl', child'),
           \A t \in Slaves \ {s} : Good(sl[t], wire[t], rs[t], cached[t], master[t], initial[t], data[t], late[t],
                                        log', runid', hist', bl', child')
    PROVE  ReplInv'
<1>1. LinksTyped'
  BY DEF LinksTyped, Put
<1>2. ASSUME NEW t \in Slaves PROVE SlaveGood(t)'
  <2>1. CASE t = s
    BY <2>1 DEF SlaveGood, Put
  <2>2. CASE t # s
    <3>1. t \in Slaves \ {s}
      BY <2>2
    <3> QED
      BY <3>1 DEF SlaveGood, Put
  <2> QED
    BY <2>1, <2>2
<1> QED
  BY <1>1, <1>2 DEF ReplInv

\* The same, when it is nothing to the rest.
LEMMA OnlySlave ==
    ASSUME ReplInv, UNCHANGED <<log, runid, moff, seldb, bl, child, hist>>, NEW s \in Slaves,
           NEW c, NEW w, NEW r, NEW ca, NEW m, NEW i, NEW d,
           Put(sl, sl', s, c, Ends), Put(wire, wire', s, w, Seq(Msgs)), Put(rs, rs', s, r, RunStates),
           Put(cached, cached', s, ca, Ids), Put(master, master', s, m, Ids), Put(initial, initial', s, i, Ids),
           Put(data, data', s, d, Seq(Int)), late' = late,
           Good(c, w, r, ca, m, i, d, late[s], log, runid, hist, bl, child)
    PROVE  ReplInv'
<1>1. TopTyped'
  BY DEF ReplInv, TopTyped
<1>2. Put(late, late', s, late[s], BOOLEAN)
  BY PutOld DEF ReplInv, LinksTyped
<1>3. \A t \in Slaves \ {s} : Good(sl[t], wire[t], rs[t], cached[t], master[t], initial[t], data[t], late[t],
                                   log', runid', hist', bl', child')
  BY SlaveTyped
<1>4. Good(c, w, r, ca, m, i, d, late[s], log', runid', hist', bl', child')
  OBVIOUS
<1> QED
  BY <1>1, <1>2, <1>3, <1>4, OneSlave

LEMMA BulkStep ==
    ASSUME ReplInv, NEW s \in Slaves, sendBulkToSlave(s)
    PROVE  ReplInv'
<1> DEFINE c2 == [sl[s] EXCEPT !.st = "online"]
           w2 == Append(wire[s], Bulk(sl[s].rdb))
<1>k. /\ sl[s] \in Ends /\ wire[s] \in Seq(Msgs) /\ rs[s] \in RunStates /\ cached[s] \in Ids /\ master[s] \in Ids
      /\ initial[s] \in Ids /\ data[s] \in Seq(Int) /\ late[s] \in BOOLEAN
      /\ log \in Nat /\ runid \in Nat \ {0} /\ hist \in Seq(Int) /\ bl \in Shapes /\ child \in Children
  BY SlaveTyped, TopFacts
<1>g. Good(sl[s], wire[s], rs[s], cached[s], master[s], initial[s], data[s], late[s], log, runid, hist, bl, child)
  BY SlaveTyped
<1>1. /\ sl[s] \in Ends /\ wire[s] \in Seq(Msgs) /\ sl[s].rdb \in Nat
  BY SlaveTyped, Ints
<1>2. c2 \in Ends /\ c2.st = "online" /\ c2.out = sl[s].out
  BY <1>1 DEF Ends
<1>3. w2 \in Seq(Msgs)
  BY <1>1, BulkSent
<1>4. sl' = [sl EXCEPT ![s] = c2] /\ wire' = [wire EXCEPT ![s] = w2] /\ sl[s].st = "bulk"
  BY DEF sendBulkToSlave
<1> HIDE DEF c2
<1>5. Good(c2, w2, rs[s], cached[s], master[s], initial[s], data[s], late[s], log, runid, hist, bl, child)
  BY <1>2, <1>4, <1>k, <1>g, GoodBulk
<1> HIDE DEF w2
<1>6. Put(sl, sl', s, c2, Ends) /\ Put(wire, wire', s, w2, Seq(Msgs))
  BY <1>2, <1>3, <1>4, PutNew DEF ReplInv, LinksTyped
<1>7. Put(rs, rs', s, rs[s], RunStates) /\ Put(cached, cached', s, cached[s], Ids) /\ Put(master, master', s, master[s], Ids) /\ Put(initial, initial', s, initial[s], Ids) /\ Put(data, data', s, data[s], Seq(Int))
  BY PutOld DEF ReplInv, LinksTyped, sendBulkToSlave, replicas
<1>8. UNCHANGED <<log, runid, moff, seldb, bl, child, hist>> /\ late' = late
  BY DEF sendBulkToSlave
<1> QED
  BY <1>5, <1>6, <1>7, <1>8, OnlySlave

LEMMA SendStep ==
    ASSUME ReplInv, NEW s \in Slaves, SendReplies(s)
    PROVE  ReplInv'
<1> DEFINE c2 == [sl[s] EXCEPT !.out = <<>>]
           w2 == wire[s] \o Packed(sl[s].out)
<1>k. /\ sl[s] \in Ends /\ wire[s] \in Seq(Msgs) /\ rs[s] \in RunStates /\ cached[s] \in Ids /\ master[s] \in Ids
      /\ initial[s] \in Ids /\ data[s] \in Seq(Int) /\ late[s] \in BOOLEAN
      /\ log \in Nat /\ runid \in Nat \ {0} /\ hist \in Seq(Int) /\ bl \in Shapes /\ child \in Children
  BY SlaveTyped, TopFacts
<1>g. Good(sl[s], wire[s], rs[s], cached[s], master[s], initial[s], data[s], late[s], log, runid, hist, bl, child)
  BY SlaveTyped
<1>1. /\ sl[s] \in Ends /\ wire[s] \in Seq(Msgs) /\ sl[s].out \in Seq(Int)
  BY SlaveTyped, Ints
<1>2. c2 \in Ends /\ c2.st = sl[s].st /\ c2.out = <<>>
  <2> DEFINE q == <<>>
  <2>1. q \in Seq(Int)
    OBVIOUS
  <2>2. c2 = [sl[s] EXCEPT !.out = q]
    OBVIOUS
  <2> HIDE DEF q, c2
  <2>3. c2 \in Ends /\ c2.st = sl[s].st /\ c2.out = q
    BY <1>1, <2>1, <2>2 DEF Ends
  <2> QED
    BY <2>3 DEF q
<1>3. w2 \in Seq(Msgs)
  BY <1>1, ItemsSent
<1>4. sl' = [sl EXCEPT ![s] = c2] /\ wire' = [wire EXCEPT ![s] = w2] /\ sl[s].st = "online"
  BY DEF SendReplies, Packed
<1> HIDE DEF c2
<1>5. Good(c2, w2, rs[s], cached[s], master[s], initial[s], data[s], late[s], log, runid, hist, bl, child)
  BY <1>2, <1>4, <1>k, <1>g, GoodSent
<1> HIDE DEF w2
<1>6. Put(sl, sl', s, c2, Ends) /\ Put(wire, wire', s, w2, Seq(Msgs))
  BY <1>2, <1>3, <1>4, PutNew DEF ReplInv, LinksTyped
<1>7. Put(rs, rs', s, rs[s], RunStates) /\ Put(cached, cached', s, cached[s], Ids) /\ Put(master, master', s, master[s], Ids) /\ Put(initial, initial', s, initial[s], Ids) /\ Put(data, data', s, data[s], Seq(Int))
  BY PutOld DEF ReplInv, LinksTyped, SendReplies, replicas
<1>8. UNCHANGED <<log, runid, moff, seldb, bl, child, hist>> /\ late' = late
  BY DEF SendReplies
<1> QED
  BY <1>5, <1>6, <1>7, <1>8, OnlySlave

LEMMA AckStep ==
    ASSUME ReplInv, NEW s \in Slaves, replconfAck(s)
    PROVE  ReplInv'
<1> DEFINE a == IF master[s].off > sl[s].ack THEN master[s].off ELSE sl[s].ack
           o == IF sl[s].st = "online" THEN FALSE ELSE sl[s].onack
           c2 == [sl[s] EXCEPT !.ack = a, !.onack = o]
<1>k. /\ sl[s] \in Ends /\ wire[s] \in Seq(Msgs) /\ rs[s] \in RunStates /\ cached[s] \in Ids /\ master[s] \in Ids
      /\ initial[s] \in Ids /\ data[s] \in Seq(Int) /\ late[s] \in BOOLEAN
      /\ log \in Nat /\ runid \in Nat \ {0} /\ hist \in Seq(Int) /\ bl \in Shapes /\ child \in Children
  BY SlaveTyped, TopFacts
<1>g. Good(sl[s], wire[s], rs[s], cached[s], master[s], initial[s], data[s], late[s], log, runid, hist, bl, child)
  BY SlaveTyped
<1>1. /\ sl[s] \in Ends /\ a \in Int /\ o \in BOOLEAN
  BY SlaveTyped, Ints
<1>2. sl' = [sl EXCEPT ![s] = c2]
  BY <1>1 DEF replconfAck, ReplInv, LinksTyped, Ends
<1> HIDE DEF a, o
<1>3. c2 \in Ends /\ c2.st = sl[s].st /\ c2.out = sl[s].out /\ c2.rdb = sl[s].rdb
  BY <1>1 DEF Ends
<1> HIDE DEF c2
<1>5. Good(c2, wire[s], rs[s], cached[s], master[s], initial[s], data[s], late[s], log, runid, hist, bl, child)
  BY <1>3, <1>k, <1>g, GoodAcked
<1>6. Put(sl, sl', s, c2, Ends)
  BY <1>2, <1>3, PutNew DEF ReplInv, LinksTyped
<1>7. Put(wire, wire', s, wire[s], Seq(Msgs)) /\ Put(rs, rs', s, rs[s], RunStates) /\ Put(cached, cached', s, cached[s], Ids) /\ Put(master, master', s, master[s], Ids) /\ Put(initial, initial', s, initial[s], Ids) /\ Put(data, data', s, data[s], Seq(Int))
  BY PutOld DEF ReplInv, LinksTyped, replconfAck, replicas
<1>8. UNCHANGED <<log, runid, moff, seldb, bl, child, hist>> /\ late' = late
  BY DEF replconfAck
<1> QED
  BY <1>5, <1>6, <1>7, <1>8, OnlySlave

LEMMA AskStep ==
    ASSUME ReplInv, NEW s \in Slaves, connectWithMaster(s) \/ SendPing(s)
    PROVE  ReplInv'
<1>k. /\ sl[s] \in Ends /\ wire[s] \in Seq(Msgs) /\ rs[s] \in RunStates /\ cached[s] \in Ids /\ master[s] \in Ids
      /\ initial[s] \in Ids /\ data[s] \in Seq(Int) /\ late[s] \in BOOLEAN
      /\ log \in Nat /\ runid \in Nat \ {0} /\ hist \in Seq(Int) /\ bl \in Shapes /\ child \in Children
  BY SlaveTyped, TopFacts
<1>g. Good(sl[s], wire[s], rs[s], cached[s], master[s], initial[s], data[s], late[s], log, runid, hist, bl, child)
  BY SlaveTyped
<1>1. PICK r2 \in {"connecting", "pong"} : rs' = [rs EXCEPT ![s] = r2] /\ rs[s] \in {"connect", "connecting"}
  BY DEF connectWithMaster, SendPing
<1>2. UNCHANGED <<log, runid, moff, seldb, bl, child, sl, wire, cached, master, initial, data, hist, late>>
  BY DEF connectWithMaster, SendPing
<1>3. r2 \in RunStates
  BY DEF RunStates
<1>5. Good(sl[s], wire[s], r2, cached[s], master[s], initial[s], data[s], late[s], log, runid, hist, bl, child)
  BY <1>1, <1>k, <1>g, GoodAsks
<1>6. Put(rs, rs', s, r2, RunStates)
  BY <1>1, <1>3, PutNew DEF ReplInv, LinksTyped
<1>7. Put(sl, sl', s, sl[s], Ends) /\ Put(wire, wire', s, wire[s], Seq(Msgs)) /\ Put(cached, cached', s, cached[s], Ids) /\ Put(master, master', s, master[s], Ids) /\ Put(initial, initial', s, initial[s], Ids) /\ Put(data, data', s, data[s], Seq(Int))
  BY <1>2, PutOld DEF ReplInv, LinksTyped
<1> QED
  BY <1>2, <1>5, <1>6, <1>7, OnlySlave

LEMMA LoadStep ==
    ASSUME ReplInv, NEW s \in Slaves, readSyncBulkPayload(s)
    PROVE  ReplInv'
<1> DEFINE w == wire[s]
<1>k. /\ sl[s] \in Ends /\ wire[s] \in Seq(Msgs) /\ rs[s] \in RunStates /\ cached[s] \in Ids /\ master[s] \in Ids
      /\ initial[s] \in Ids /\ data[s] \in Seq(Int) /\ late[s] \in BOOLEAN
      /\ log \in Nat /\ runid \in Nat \ {0} /\ hist \in Seq(Int) /\ bl \in Shapes /\ child \in Children
  BY SlaveTyped, TopFacts
<1>g. Good(sl[s], wire[s], rs[s], cached[s], master[s], initial[s], data[s], late[s], log, runid, hist, bl, child)
  BY SlaveTyped
<1>1. rs[s] = "transfer" /\ w # <<>>
  BY DEF readSyncBulkPayload
<1>2. UNCHANGED <<log, runid, moff, seldb, bl, child, hist>> /\ late' = late /\ initial' = initial
  BY DEF readSyncBulkPayload
<1>3. "connected" \in RunStates /\ "connect" \in RunStates
  BY DEF RunStates
<1>4. CASE Head(w).kind = "bulk"
  <2> DEFINE k == Head(w).snap
  <2>1. /\ data' = [data EXCEPT ![s] = Upto(k)] /\ master' = [master EXCEPT ![s] = initial[s]]
        /\ rs' = [rs EXCEPT ![s] = "connected"] /\ wire' = [wire EXCEPT ![s] = Tail(w)]
        /\ UNCHANGED <<cached, sl>>
    BY <1>4 DEF readSyncBulkPayload, LoadBulk
  <2>2. w \in Seq(Msgs) /\ Loads(w)
    BY <1>1, <1>4, SlaveTyped DEF Loads
  <2>3. Tail(w) \in Seq(Msgs) /\ k \in Nat
    BY <1>1, <1>4, <2>2, NotEmpty, Messages
  <2>4. Upto(k) \in Seq(Int) /\ initial[s] \in Ids
    BY <2>3, UptoTyped, SlaveTyped
  <2>5. Good(sl[s], Tail(w), "connected", cached[s], initial[s], initial[s], Upto(k), late[s], log, runid, hist, bl, child)
    BY <1>1, <2>2, <1>k, <1>g, GoodLoads
  <2> HIDE DEF w, k
  <2>6. Put(data, data', s, Upto(k), Seq(Int)) /\ Put(master, master', s, initial[s], Ids)
    BY <2>1, <2>4, PutNew DEF ReplInv, LinksTyped
  <2>7. Put(rs, rs', s, "connected", RunStates) /\ Put(wire, wire', s, Tail(w), Seq(Msgs))
    BY <1>3, <2>1, <2>3, PutNew DEF ReplInv, LinksTyped
  <2>8. Put(sl, sl', s, sl[s], Ends) /\ Put(cached, cached', s, cached[s], Ids) /\ Put(initial, initial', s, initial[s], Ids)
    BY <1>2, <2>1, PutOld DEF ReplInv, LinksTyped
  <2> QED
    BY <1>2, <2>5, <2>6, <2>7, <2>8, OnlySlave
<1>5. CASE Head(w).kind # "bulk"
  <2>1. Abort(s) /\ UNCHANGED <<data, master>>
    BY <1>5 DEF readSyncBulkPayload
  <2>2. master[s] = NoMaster
    BY <1>1, SlaveTyped DEF Good, Linked
  <2>3. initial[s].id <= runid
    BY SlaveTyped DEF Good, Linked
  <2>4. Good(NoClient, <<>>, "connect", NoMaster, master[s], initial[s], data[s], late[s], log, runid, hist, bl, child)
    BY <2>2, <2>3, <1>k, <1>g, GoodFree
  <2>5. Put(sl, sl', s, NoClient, Ends) /\ Put(wire, wire', s, <<>>, Seq(Msgs))
    <3>1. <<>> \in Seq(Msgs)
      OBVIOUS
    <3> QED
      BY <2>1, <3>1, Ints, PutNew DEF ReplInv, LinksTyped, Abort
  <2>6. Put(rs, rs', s, "connect", RunStates) /\ Put(cached, cached', s, NoMaster, Ids)
    BY <1>3, <2>1, Ints, PutNew DEF ReplInv, LinksTyped, Abort
  <2>7. Put(master, master', s, master[s], Ids) /\ Put(initial, initial', s, initial[s], Ids) /\ Put(data, data', s, data[s], Seq(Int))
    BY <1>2, <2>1, PutOld DEF ReplInv, LinksTyped
  <2> QED
    BY <1>2, <2>4, <2>5, <2>6, <2>7, OnlySlave
<1> QED
  BY <1>4, <1>5

LEMMA ApplyStep ==
    ASSUME ReplInv, NEW s \in Slaves, ApplyItem(s)
    PROVE  ReplInv'
<1> DEFINE w == wire[s]
           x == Head(w).item
           d2 == IF x > 0 THEN Append(data[s], x) ELSE data[s]
           o == master[s].off + 1
           m2 == [master[s] EXCEPT !.off = o]
<1>k. /\ sl[s] \in Ends /\ wire[s] \in Seq(Msgs) /\ rs[s] \in RunStates /\ cached[s] \in Ids /\ master[s] \in Ids
      /\ initial[s] \in Ids /\ data[s] \in Seq(Int) /\ late[s] \in BOOLEAN
      /\ log \in Nat /\ runid \in Nat \ {0} /\ hist \in Seq(Int) /\ bl \in Shapes /\ child \in Children
  BY SlaveTyped, TopFacts
<1>g. Good(sl[s], wire[s], rs[s], cached[s], master[s], initial[s], data[s], late[s], log, runid, hist, bl, child)
  BY SlaveTyped
<1>1. rs[s] = "connected" /\ w # <<>>
  BY DEF ApplyItem
<1>2. UNCHANGED <<log, runid, moff, seldb, bl, child, hist, sl, rs, cached, initial>> /\ late' = late
  BY DEF ApplyItem
<1>3. data' = [data EXCEPT ![s] = d2] /\ master' = [master EXCEPT ![s] = m2] /\ wire' = [wire EXCEPT ![s] = Tail(w)]
  BY DEF ApplyItem
<1>4. w \in Seq(Msgs) /\ master[s] \in Ids /\ data[s] \in Seq(Int)
  BY SlaveTyped
<1>5. OnlyItems(w)
  BY <1>1, SlaveTyped DEF Good, Linked
<1>6. Tail(w) \in Seq(Msgs) /\ x \in Int
  <2>1. Head(w) = w[1] /\ Head(w) \in Msgs /\ Tail(w) \in Seq(Msgs) /\ Len(w) >= 1 /\ Len(w) \in Nat
    BY <1>1, <1>4, NotEmpty
  <2>2. w[1].kind = "item"
    BY <1>5, <2>1 DEF OnlyItems
  <2> QED
    BY <2>1, <2>2, Messages
<1>7. d2 \in Seq(Int)
  BY <1>4, <1>6
<1>8. o \in Int
  BY <1>4, Ints
<1> HIDE DEF o
<1>9. m2 \in Ids /\ m2.id = master[s].id /\ m2.off = o
  BY <1>4, <1>8 DEF Ids
<1> HIDE DEF m2
<1>10. Good(sl[s], Tail(w), rs[s], cached[s], m2, initial[s], d2, late[s], log, runid, hist, bl, child)
  <2>1. m2.off = master[s].off + 1
    BY <1>9 DEF o
  <2> QED
    BY <1>1, <1>9, <2>1, <1>k, <1>g, GoodApplies
<1> HIDE DEF w, x, d2
<1>11. Put(data, data', s, d2, Seq(Int)) /\ Put(master, master', s, m2, Ids) /\ Put(wire, wire', s, Tail(w), Seq(Msgs))
  BY <1>3, <1>6, <1>7, <1>9, PutNew DEF ReplInv, LinksTyped
<1>12. Put(sl, sl', s, sl[s], Ends) /\ Put(rs, rs', s, rs[s], RunStates) /\ Put(cached, cached', s, cached[s], Ids) /\ Put(initial, initial', s, initial[s], Ids)
  BY <1>2, PutOld DEF ReplInv, LinksTyped
<1> QED
  BY <1>2, <1>10, <1>11, <1>12, OnlySlave

LEMMA DownStep ==
    ASSUME ReplInv, NEW s \in Slaves, LinkDown(s) \/ replicationSetMaster(s)
    PROVE  ReplInv'
<1>k. /\ sl[s] \in Ends /\ wire[s] \in Seq(Msgs) /\ rs[s] \in RunStates /\ cached[s] \in Ids /\ master[s] \in Ids
      /\ initial[s] \in Ids /\ data[s] \in Seq(Int) /\ late[s] \in BOOLEAN
      /\ log \in Nat /\ runid \in Nat \ {0} /\ hist \in Seq(Int) /\ bl \in Shapes /\ child \in Children
  BY SlaveTyped, TopFacts
<1>g. Good(sl[s], wire[s], rs[s], cached[s], master[s], initial[s], data[s], late[s], log, runid, hist, bl, child)
  BY SlaveTyped
<1>1. /\ UNCHANGED <<log, runid, moff, seldb, bl, child, hist, initial, data>> /\ late' = late
      /\ rs' = [rs EXCEPT ![s] = "connect"] /\ master' = [master EXCEPT ![s] = NoMaster]
      /\ sl' = [sl EXCEPT ![s] = NoClient] /\ wire' = [wire EXCEPT ![s] = <<>>]
  BY DEF LinkDown, replicationSetMaster, Abort
<1> DEFINE ca == IF rs[s] = "connected" THEN master[s] ELSE IF rs[s] = "transfer" THEN NoMaster ELSE cached[s]
<1>2. PICK ca2 \in Ids :
        /\ cached' = [cached EXCEPT ![s] = ca2]
        /\ Good(NoClient, <<>>, "connect", ca2, NoMaster, initial[s], data[s], late[s], log, runid, hist, bl, child)
  <2>1. CASE LinkDown(s)
    <3>1. cached' = [cached EXCEPT ![s] = ca]
      BY <2>1 DEF LinkDown, CacheMaster
    <3>2. ca \in Ids
      BY SlaveTyped, Ints
    <3>3. Good(NoClient, <<>>, "connect", ca, NoMaster, initial[s], data[s], late[s], log, runid, hist, bl, child)
      <4> DEFINE ca2 == ca
      <4>1. /\ ca2 \in Ids /\ (rs[s] = "connected" => ca2 = master[s])
            /\ rs[s] # "connected" => ca2 \in {cached[s], NoMaster}
        BY <3>2
      <4> HIDE DEF ca2
      <4>2. Good(NoClient, <<>>, "connect", ca2, NoMaster, initial[s], data[s], late[s], log, runid, hist, bl, child)
        BY <4>1, <1>k, <1>g, GoodDown
      <4> QED
        BY <4>2 DEF ca2
    <3> HIDE DEF ca
    <3> QED
      BY <3>1, <3>2, <3>3
  <2>2. CASE replicationSetMaster(s)
    <3>1. cached' = [cached EXCEPT ![s] = NoMaster] /\ NoMaster \in Ids
      BY <2>2, Ints DEF replicationSetMaster, Abort
    <3>2. initial[s].id <= runid
      BY SlaveTyped DEF Good, Linked
    <3>3. Good(NoClient, <<>>, "connect", NoMaster, NoMaster, initial[s], data[s], late[s], log, runid, hist, bl, child)
      BY <3>2, <1>k, <1>g, GoodFree
    <3> QED
      BY <3>1, <3>3
  <2> QED
    BY <2>1, <2>2
<1>3. Put(sl, sl', s, NoClient, Ends) /\ Put(wire, wire', s, <<>>, Seq(Msgs))
  <2>1. <<>> \in Seq(Msgs)
    OBVIOUS
  <2> QED
    BY <1>1, <2>1, Ints, PutNew DEF ReplInv, LinksTyped
<1>4. Put(rs, rs', s, "connect", RunStates)
  <2>1. "connect" \in RunStates
    BY DEF RunStates
  <2> QED
    BY <1>1, <2>1, PutNew DEF ReplInv, LinksTyped
<1>5. Put(cached, cached', s, ca2, Ids) /\ Put(master, master', s, NoMaster, Ids)
  BY <1>1, <1>2, Ints, PutNew DEF ReplInv, LinksTyped
<1>6. Put(initial, initial', s, initial[s], Ids) /\ Put(data, data', s, data[s], Seq(Int))
  BY <1>1, PutOld DEF ReplInv, LinksTyped
<1> QED
  BY <1>1, <1>2, <1>3, <1>4, <1>5, <1>6, OnlySlave
-----------------------------------------------------------------------------
(* Steps of the master                                                     *)

LEMMA Edits ==
    ASSUME NEW c \in Ends
    PROVE  /\ \A x \in {"none", "start", "end", "bulk", "online"} :
                [c EXCEPT !.st = x] \in Ends /\ [c EXCEPT !.st = x].st = x
                  /\ [c EXCEPT !.st = x].out = c.out /\ [c EXCEPT !.st = x].rdb = c.rdb
           /\ [c EXCEPT !.st = "online", !.onack = TRUE] \in Ends /\ [c EXCEPT !.st = "online", !.onack = TRUE].st = "online"
           /\ \A k \in Nat :
                [c EXCEPT !.st = "bulk", !.rdb = k] \in Ends /\ [c EXCEPT !.st = "bulk", !.rdb = k].st = "bulk"
                  /\ [c EXCEPT !.st = "bulk", !.rdb = k].out = c.out /\ [c EXCEPT !.st = "bulk", !.rdb = k].rdb = k
           /\ \A q \in Seq(Int) :
                [c EXCEPT !.out = q] \in Ends /\ [c EXCEPT !.out = q].st = c.st
                  /\ [c EXCEPT !.out = q].out = q /\ [c EXCEPT !.out = q].rdb = c.rdb
           /\ \A x \in {"none", "start", "end", "bulk", "online"}, q \in Seq(Int) :
                [c EXCEPT !.st = x, !.out = q] \in Ends /\ [c EXCEPT !.st = x, !.out = q].st = x
                  /\ [c EXCEPT !.st = x, !.out = q].out = q
BY DEF Ends

LEMMA ForkedTyped ==
    ASSUME ReplInv, NEW c
    PROVE  /\ Forked(c) \in Children /\ Forked(c).snap = log
           /\ ~Diskless => Forked(c).type = "disk"
BY TopFacts DEF Forked, Children

LEMMA CronStep ==
    ASSUME ReplInv, CronBgsave
    PROVE  ReplInv'
<1>1. /\ UNCHANGED <<log, runid, moff, seldb, bl, hist, wire, rs, cached, master, initial, data>> /\ late' = late
      /\ child.type = "none" /\ child' = Forked(sl)
      /\ sl' = [s \in Slaves |-> IF sl[s].st = "start" THEN [sl[s] EXCEPT !.st = "end"] ELSE sl[s]]
  BY DEF CronBgsave, replicas, Started
<1>2. child' \in Children /\ child'.snap = log
  BY <1>1, ForkedTyped
<1>3. TopTyped'
  BY <1>1, <1>2, TopFacts DEF ReplInv, TopTyped
<1>4. ASSUME NEW s \in Slaves PROVE sl'[s] \in Ends /\ SlaveGood(s)'
  <2> DEFINE c == sl[s]
             c2 == IF c.st = "start" THEN [c EXCEPT !.st = "end"] ELSE c
  <2>k. /\ sl[s] \in Ends /\ wire[s] \in Seq(Msgs) /\ rs[s] \in RunStates /\ cached[s] \in Ids /\ master[s] \in Ids
        /\ initial[s] \in Ids /\ data[s] \in Seq(Int)
        /\ log \in Nat /\ runid \in Nat \ {0} /\ hist \in Seq(Int) /\ bl \in Shapes /\ child \in Children
    BY SlaveTyped, TopFacts
  <2>g. Good(sl[s], wire[s], rs[s], cached[s], master[s], initial[s], data[s], late[s], log, runid, hist, bl, child)
    BY SlaveTyped
  <2>1. sl'[s] = c2
    BY <1>1
  <2>2. c2 \in Ends
    BY <2>k, Edits
  <2>3. Good(c2, wire[s], rs[s], cached[s], master[s], initial[s], data[s], late[s], log, runid, hist, bl, child')
    <3>1. CASE c.st = "start"
      <4>1. c2.st = "end"
        BY <2>k, <3>1, Edits
      <4> HIDE DEF c2
      <4> QED
        BY <2>2, <2>k, <2>g, <3>1, <4>1, GoodJoins
    <3>2. CASE c.st # "start"
      <4>1. c2 = c
        BY <3>2
      <4>2. Good(c, wire[s], rs[s], cached[s], master[s], initial[s], data[s], late[s], log, runid, hist, bl, child')
        <5>1. c.st # "none" => bl.on
          BY <2>g DEF Good, Linked
        <5>2. child.type # "disk"
          BY <1>1
        <5> DEFINE b2 == bl
        <5>3. b2 = bl /\ b2 \in Shapes
          BY <2>k
        <5>4. bl.off \in Int
          BY <2>k, Ints
        <5>5. (c.st # "none" => b2.on) /\ (b2.on /\ b2.off <= Len(hist) + 1 => bl.on /\ bl.off <= b2.off)
          BY <5>1, <5>3, <5>4
        <5> HIDE DEF b2
        <5>6. Good(c, wire[s], rs[s], cached[s], master[s], initial[s], data[s], late[s], log, runid, hist, b2, child')
          BY <1>2, <2>k, <2>g, <5>2, <5>3, <5>5, GoodSame
        <5> QED
          BY <5>3, <5>6
      <4> QED
        BY <4>1, <4>2
    <3> QED
      BY <3>1, <3>2
  <2> HIDE DEF c2
  <2>4. sl'[s] \in Ends
    BY <2>1, <2>2
  <2>5. SlaveGood(s)'
    BY <1>1, <2>1, <2>3 DEF SlaveGood
  <2> QED
    BY <2>4, <2>5
<1>5. LinksTyped'
  BY <1>1, <1>4 DEF ReplInv, LinksTyped
<1> QED
  BY <1>3, <1>4, <1>5 DEF ReplInv

\* Another child, which is nothing to the slave.
LEMMA GoodChild ==
    ASSUME NEW c \in Ends, NEW w \in Seq(Msgs), NEW r \in RunStates, NEW ca \in Ids, NEW m \in Ids, NEW i \in Ids,
           NEW d \in Seq(Int), NEW lt, NEW n \in Nat, NEW id \in Nat \ {0}, NEW h \in Seq(Int),
           NEW b \in Shapes, NEW ch \in Children, Good(c, w, r, ca, m, i, d, lt, n, id, h, b, ch),
           NEW ch2 \in Children, c.st = "end" => ch.type # "disk"
    PROVE  Good(c, w, r, ca, m, i, d, lt, n, id, h, b, ch2)
<1>1. c.st # "none" => b.on
  BY DEF Good, Linked
<1> DEFINE b2 == b
<1>2. b2 = b /\ b2 \in Shapes
  OBVIOUS
<1>3. b.off \in Int
  BY Ints
<1>4. (c.st # "none" => b2.on) /\ (b2.on /\ b2.off <= Len(h) + 1 => b.on /\ b.off <= b2.off)
  BY <1>1, <1>2, <1>3
<1>5. c.st = "end" /\ ch.type = "disk" => ch2 = ch
  OBVIOUS
<1> HIDE DEF b2
<1>6. Good(c, w, r, ca, m, i, d, lt, n, id, h, b2, ch2)
  BY <1>2, <1>4, <1>5, GoodSame
<1> QED
  BY <1>2, <1>6

LEMMA UpdateStep ==
    ASSUME ReplInv, NEW ok \in BOOLEAN, NEW forks \in BOOLEAN, updateSlavesWaitingBgsave(ok, forks)
    PROVE  ReplInv'
<1>1. UNCHANGED <<log, runid, moff, seldb, bl, hist, cached, master, initial, data>> /\ late' = late /\ child.type # "none"
  BY DEF updateSlavesWaitingBgsave
<1>2. sl' = [s \in Slaves |-> Served(s, ok)]
  BY DEF updateSlavesWaitingBgsave
<1>3. wire' = [s \in Slaves |->
          CASE sl[s].st = "end" /\ sl'[s].st = "online" -> Append(wire[s], Bulk(child.snap))
            [] sl[s].st = "end" /\ sl'[s].st = "none" -> <<>>
            [] OTHER -> wire[s]]
  BY DEF updateSlavesWaitingBgsave
<1>4. rs' = [s \in Slaves |-> IF sl[s].st = "end" /\ sl'[s].st = "none" THEN "connect" ELSE rs[s]]
  BY DEF updateSlavesWaitingBgsave
<1>5. child' \in Children /\ child'.snap <= log
  <2>1. child' = Forked(sl') \/ child' = NoChild
    BY DEF updateSlavesWaitingBgsave
  <2>2. Forked(sl') \in Children /\ Forked(sl').snap = log
    BY ForkedTyped
  <2>3. NoChild \in Children /\ NoChild.snap = 0
    BY Ints
  <2>4. log \in Nat
    BY TopFacts
  <2>5. CASE child' = Forked(sl')
    BY <2>2, <2>4, <2>5
  <2>6. CASE child' = NoChild
    BY <2>3, <2>4, <2>6
  <2> QED
    BY <2>1, <2>5, <2>6
<1>6. TopTyped'
  BY <1>1, <1>5, TopFacts DEF ReplInv, TopTyped
<1>7. ASSUME NEW s \in Slaves PROVE sl'[s] \in Ends /\ wire'[s] \in Seq(Msgs) /\ rs'[s] \in RunStates /\ SlaveGood(s)'
  <2> DEFINE c == sl[s]
             w == wire[s]
             done == ok /\ (child.type = "socket" => s \in child.fds)
             k == child.snap
  <2>k. /\ sl[s] \in Ends /\ wire[s] \in Seq(Msgs) /\ rs[s] \in RunStates /\ cached[s] \in Ids /\ master[s] \in Ids
        /\ initial[s] \in Ids /\ data[s] \in Seq(Int)
        /\ log \in Nat /\ runid \in Nat \ {0} /\ hist \in Seq(Int) /\ bl \in Shapes /\ child \in Children
    BY SlaveTyped, TopFacts
  <2>g. Good(sl[s], wire[s], rs[s], cached[s], master[s], initial[s], data[s], late[s], log, runid, hist, bl, child)
    BY SlaveTyped
  <2>s. k \in Nat /\ NoClient \in Ends /\ NoClient.st = "none"
    BY <2>k, Ints
  <2>u. sl'[s] = Served(s, ok)
    BY <1>2
  <2>v. SlaveGood(s)' <=> Good(sl'[s], wire'[s], rs'[s], cached[s], master[s], initial[s], data[s], late[s],
                               log, runid, hist, bl, child')
    BY <1>1 DEF SlaveGood
  <2>1. CASE c.st = "start"
    <3> DEFINE c2 == [c EXCEPT !.st = "end"]
    <3>1. sl'[s] = c2
      BY <2>u, <2>1 DEF Served
    <3>2. c2 \in Ends /\ c2.st = "end"
      BY <2>k, Edits
    <3> HIDE DEF c2
    <3>3. wire'[s] = w /\ rs'[s] = rs[s]
      BY <1>3, <1>4, <2>1
    <3>4. Good(c2, w, rs[s], cached[s], master[s], initial[s], data[s], late[s], log, runid, hist, bl, child')
      BY <2>k, <2>g, <2>1, <3>2, GoodJoins
    <3> QED
      BY <2>k, <2>v, <3>1, <3>2, <3>3, <3>4
  <2>2. CASE c.st = "end" /\ done /\ child.type = "socket"
    <3> DEFINE c2 == [c EXCEPT !.st = "online", !.onack = TRUE]
               w2 == Append(w, Bulk(k))
    <3>1. sl'[s] = c2
      BY <2>u, <2>2 DEF Served
    <3>2. c2 \in Ends /\ c2.st = "online"
      BY <2>k, Edits
    <3> HIDE DEF c2
    <3>3. wire'[s] = w2 /\ rs'[s] = rs[s]
      BY <1>3, <1>4, <2>2, <3>1, <3>2
    <3>4. w2 \in Seq(Msgs)
      BY <2>k, <2>s, BulkSent
    <3> HIDE DEF k
    <3>5. Good(c2, w2, rs[s], cached[s], master[s], initial[s], data[s], late[s], log, runid, hist, bl, child')
      BY <2>k, <2>g, <2>s, <2>2, <3>2, GoodPiped
    <3> HIDE DEF w2
    <3> QED
      BY <2>k, <2>v, <3>1, <3>2, <3>3, <3>4, <3>5
  <2>3. CASE c.st = "end" /\ done /\ child.type # "socket"
    <3> DEFINE c2 == [c EXCEPT !.st = "bulk", !.rdb = k]
    <3>1. sl'[s] = c2
      BY <2>u, <2>3 DEF Served
    <3> HIDE DEF c, k
    <3>2. c2 \in Ends /\ c2.st = "bulk" /\ c2.out = c.out /\ c2.rdb = k
      <4>1. c \in Ends
        BY <2>k DEF c
      <4> QED
        BY <4>1, <2>s DEF Ends
    <3> USE DEF c, k
    <3> HIDE DEF c2
    <3>3. wire'[s] = w /\ rs'[s] = rs[s]
      BY <1>3, <1>4, <2>3, <3>1, <3>2
    <3>4. Good(c2, w, rs[s], cached[s], master[s], initial[s], data[s], late[s], log, runid, hist, bl, child')
      BY <2>k, <2>g, <2>3, <3>2, GoodServed
    <3> QED
      BY <2>k, <2>v, <3>1, <3>2, <3>3, <3>4
  <2>4. CASE c.st = "end" /\ ~done
    <3>1. sl'[s] = NoClient
      BY <2>u, <2>4 DEF Served
    <3>2. wire'[s] = <<>> /\ rs'[s] = "connect"
      BY <1>3, <1>4, <2>s, <2>4, <3>1
    <3>3. Linked(c, w, rs[s], cached[s], master[s], initial[s], runid, bl)
      BY <2>g DEF Good
    <3>4. rs[s] = "transfer"
      <4>1. c.st \in {"start", "end", "bulk"}
        BY <2>4
      <4> HIDE DEF c, w
      <4> QED
        BY <2>k, <3>3, <4>1, Waiting DEF c, w
    <3>5. cached[s] = NoMaster /\ master[s] = NoMaster /\ initial[s].id <= runid
      BY <3>3, <3>4 DEF Linked
    <3>6. Good(NoClient, <<>>, "connect", NoMaster, NoMaster, initial[s], data[s], late[s], log, runid, hist, bl, child')
      BY <1>5, <2>k, <3>5, GoodFree
    <3>7. <<>> \in Seq(Msgs) /\ "connect" \in RunStates
      BY DEF RunStates
    <3> QED
      BY <2>s, <2>v, <3>1, <3>2, <3>5, <3>6, <3>7
  <2>5. CASE c.st \notin {"start", "end"}
    <3>1. sl'[s] = c
      BY <2>u, <2>5 DEF Served
    <3>2. wire'[s] = w /\ rs'[s] = rs[s]
      BY <1>3, <1>4, <2>5
    <3>3. Good(c, w, rs[s], cached[s], master[s], initial[s], data[s], late[s], log, runid, hist, bl, child')
      <4>1. c.st = "end" => child.type # "disk"
        BY <2>5
      <4> QED
        BY <1>5, <2>k, <2>g, <4>1, GoodChild
    <3> QED
      BY <2>k, <2>v, <3>1, <3>2, <3>3
  <2> QED
    BY <2>1, <2>2, <2>3, <2>4, <2>5
<1>8. sl' \in [Slaves -> Ends]
  BY <1>2, <1>7
<1>9. wire' \in [Slaves -> Seq(Msgs)]
  <2>1. wire' = [s \in Slaves |-> wire'[s]]
    BY <1>3
  <2>2. \A s \in Slaves : wire'[s] \in Seq(Msgs)
    BY <1>7
  <2> QED
    BY <2>1, <2>2
<1>10. rs' \in [Slaves -> RunStates]
  BY <1>4, <1>7
<1>11. LinksTyped'
  BY <1>1, <1>8, <1>9, <1>10 DEF ReplInv, LinksTyped
<1> QED
  BY <1>6, <1>7, <1>11 DEF ReplInv

\* Nothing but the child or the backlog changes.
LEMMA TopOnly ==
    ASSUME ReplInv, TopTyped', UNCHANGED <<sl, wire, rs, cached, master, initial, data, late>>,
           \A s \in Slaves : Good(sl[s], wire[s], rs[s], cached[s], master[s], initial[s], data[s], late[s],
                                  log', runid', hist', bl', child')
    PROVE  ReplInv'
<1>1. LinksTyped'
  BY DEF ReplInv, LinksTyped
<1>2. \A s \in Slaves : SlaveGood(s)'
  BY DEF SlaveGood
<1> QED
  BY <1>1, <1>2 DEF ReplInv

LEMMA BgsaveStep ==
    ASSUME ReplInv, bgsaveCommand
    PROVE  ReplInv'
<1>1. /\ UNCHANGED <<log, runid, moff, seldb, bl, hist, sl, wire, rs, cached, master, initial, data, late>>
      /\ child.type = "none" /\ child' = [type |-> "disk", snap |-> log, fds |-> {}]
  BY DEF bgsaveCommand, replicas
<1>2. child' \in Children /\ child'.snap = log /\ log \in Nat
  BY <1>1, TopFacts DEF Children
<1>3. TopTyped'
  BY <1>1, <1>2, TopFacts DEF ReplInv, TopTyped
<1>4. ASSUME NEW s \in Slaves
      PROVE  Good(sl[s], wire[s], rs[s], cached[s], master[s], initial[s], data[s], late[s], log, runid, hist, bl, child')
  <2>k. /\ sl[s] \in Ends /\ wire[s] \in Seq(Msgs) /\ rs[s] \in RunStates /\ cached[s] \in Ids /\ master[s] \in Ids
        /\ initial[s] \in Ids /\ data[s] \in Seq(Int)
        /\ log \in Nat /\ runid \in Nat \ {0} /\ hist \in Seq(Int) /\ bl \in Shapes /\ child \in Children
    BY SlaveTyped, TopFacts
  <2>g. Good(sl[s], wire[s], rs[s], cached[s], master[s], initial[s], data[s], late[s], log, runid, hist, bl, child)
    BY SlaveTyped
  <2>1. sl[s].st = "end" => child.type # "disk"
    BY <1>1
  <2> QED
    BY <1>2, <2>k, <2>g, <2>1, GoodChild
<1> QED
  BY <1>1, <1>3, <1>4, TopOnly

LEMMA FreeStep ==
    ASSUME BoundsAssumption, ReplInv, freeReplicationBacklog
    PROVE  ReplInv'
<1> DEFINE b2 == [bl EXCEPT !.on = FALSE, !.histlen = 0, !.idx = 0, !.buf = <<>>]
<1>1. /\ UNCHANGED <<log, runid, moff, seldb, child, hist, sl, wire, rs, cached, master, initial, data, late>>
      /\ Attached(sl) = {} /\ bl' = b2
  BY DEF freeReplicationBacklog, replicas
<1>2. b2 \in Shapes /\ ~b2.on /\ b2.idx = 0 /\ b2.histlen = 0 /\ b2.size = bl.size
  <2> DEFINE q == <<>>
             e == [bl EXCEPT !.on = FALSE, !.histlen = 0, !.idx = 0, !.buf = q]
  <2>1. q \in Bufs
    BY DEF Bufs
  <2>2. b2 = e
    OBVIOUS
  <2> HIDE DEF q, b2
  <2>3. e \in Shapes /\ ~e.on /\ e.idx = 0 /\ e.histlen = 0 /\ e.size = bl.size
    BY <2>1, TopFacts DEF Shapes
  <2> QED
    BY <2>2, <2>3
<1> HIDE DEF b2
<1>3. bl.size \in Nat \ {0}
  BY TopFacts, Ints DEF BoundsAssumption
<1>4. TopTyped'
  BY <1>1, <1>2, <1>3, TopFacts DEF ReplInv, TopTyped
<1>5. ASSUME NEW s \in Slaves
      PROVE  Good(sl[s], wire[s], rs[s], cached[s], master[s], initial[s], data[s], late[s], log, runid, hist, b2, child)
  <2>k. /\ sl[s] \in Ends /\ wire[s] \in Seq(Msgs) /\ rs[s] \in RunStates /\ cached[s] \in Ids /\ master[s] \in Ids
        /\ initial[s] \in Ids /\ data[s] \in Seq(Int)
        /\ log \in Nat /\ runid \in Nat \ {0} /\ hist \in Seq(Int) /\ bl \in Shapes /\ child \in Children
    BY SlaveTyped, TopFacts
  <2>g. Good(sl[s], wire[s], rs[s], cached[s], master[s], initial[s], data[s], late[s], log, runid, hist, bl, child)
    BY SlaveTyped
  <2>1. sl[s].st = "none"
    BY <1>1 DEF Attached
  <2> DEFINE h2 == child
  <2>2. h2 = child /\ h2 \in Children
    BY <2>k
  <2> HIDE DEF h2
  <2>3. Good(sl[s], wire[s], rs[s], cached[s], master[s], initial[s], data[s], late[s], log, runid, hist, b2, h2)
    BY <1>2, <2>k, <2>g, <2>1, <2>2, GoodSame
  <2> QED
    BY <2>2, <2>3
<1> QED
  BY <1>1, <1>4, <1>5, TopOnly

\* A backlog with nothing in it yet.
LEMMA EmptyBacklog ==
    ASSUME BoundsAssumption, NEW n \in Sizes, NEW h \in Seq(Int), NEW b, NEW q,
           q = [j \in 0..(n - 1) |-> Gap],
           b = [on |-> TRUE, size |-> n, idx |-> 0, histlen |-> 0, off |-> Len(h) + 1, buf |-> q]
    PROVE  b \in Shapes /\ BacklogOf(b, h)
<1> DEFINE o == Len(h) + 1
<1>1. n \in Nat \ {0} /\ Len(h) \in Nat /\ o \in Int
  BY DEF BoundsAssumption
<1>2. q \in [0..(n - 1) -> Int]
  BY DEF Gap
<1>3. q \in Bufs
  BY <1>2 DEF Bufs
<1> HIDE DEF o
<1>4. b \in Shapes
  BY <1>1, <1>3 DEF Shapes, o
<1>5. b.size = n /\ b.idx = 0 /\ b.histlen = 0 /\ b.off = o /\ b.buf = q
  BY DEF o
<1>6. \A j \in 1..b.histlen : b.buf[(b.idx + b.size - j) % b.size] = h[Len(h) + 1 - j]
  <2>1. 1..b.histlen = {}
    BY <1>5
  <2> QED
    BY <2>1
<1>7. b.off + b.histlen = Len(h) + 1
  BY <1>1, <1>5 DEF o
<1>8. b.buf \in [0..(b.size - 1) -> Int] /\ b.idx < b.size /\ b.histlen <= b.size /\ b.histlen <= Len(h)
  BY <1>1, <1>2, <1>5
<1> QED
  BY <1>4, <1>6, <1>7, <1>8 DEF BacklogOf

LEMMA ResizeStep ==
    ASSUME BoundsAssumption, ReplInv, NEW n \in Sizes, resizeReplicationBacklog(n)
    PROVE  ReplInv'
<1>1. UNCHANGED <<log, runid, moff, seldb, child, hist, sl, wire, rs, cached, master, initial, data, late>>
  BY DEF resizeReplicationBacklog, replicas
<1>2. bl \in Shapes /\ n \in Nat \ {0} /\ hist \in Seq(Int) /\ moff = Len(hist) /\ moff \in Nat /\ bl.off \in Int
  BY TopFacts DEF BoundsAssumption
<1>3. /\ bl' \in Shapes /\ bl'.on = bl.on /\ (bl.on => BacklogOf(bl', hist)) /\ (~bl.on => bl'.idx = 0 /\ bl'.histlen = 0)
      /\ bl.on => bl'.off = moff + 1
  <2>1. CASE bl.on
    <3> DEFINE q == [j \in 0..(n - 1) |-> Gap]
               o == moff + 1
               b == [on |-> TRUE, size |-> n, idx |-> 0, histlen |-> 0, off |-> Len(hist) + 1, buf |-> q]
    <3>1. bl' = [bl EXCEPT !.size = n, !.idx = 0, !.histlen = 0, !.off = o, !.buf = q]
      BY <2>1 DEF resizeReplicationBacklog
    <3> HIDE DEF q
    <3>2. bl' = b
      BY <1>2, <2>1, <3>1 DEF Shapes
    <3> HIDE DEF b
    <3>3. b \in Shapes /\ BacklogOf(b, hist)
      BY <1>2, EmptyBacklog DEF b, q
    <3>4. b.on = TRUE /\ b.off = moff + 1
      BY <1>2 DEF b
    <3> QED
      BY <2>1, <3>2, <3>3, <3>4
  <2>2. CASE ~bl.on
    <3>1. bl' = [bl EXCEPT !.size = n]
      BY <2>2 DEF resizeReplicationBacklog
    <3>2. bl.idx = 0 /\ bl.histlen = 0
      BY <2>2 DEF ReplInv, TopTyped
    <3> QED
      BY <1>2, <2>2, <3>1, <3>2 DEF Shapes
  <2> QED
    BY <2>1, <2>2
<1>4. TopTyped'
  BY <1>1, <1>3, TopFacts DEF ReplInv, TopTyped
<1>5. ASSUME NEW s \in Slaves
      PROVE  Good(sl[s], wire[s], rs[s], cached[s], master[s], initial[s], data[s], late[s], log, runid, hist, bl', child)
  <2>k. /\ sl[s] \in Ends /\ wire[s] \in Seq(Msgs) /\ rs[s] \in RunStates /\ cached[s] \in Ids /\ master[s] \in Ids
        /\ initial[s] \in Ids /\ data[s] \in Seq(Int)
        /\ log \in Nat /\ runid \in Nat \ {0} /\ hist \in Seq(Int) /\ bl \in Shapes /\ child \in Children
    BY SlaveTyped, TopFacts
  <2>g. Good(sl[s], wire[s], rs[s], cached[s], master[s], initial[s], data[s], late[s], log, runid, hist, bl, child)
    BY SlaveTyped
  <2>1. sl[s].st # "none" => bl.on
    BY <2>g DEF Good, Linked
  <2>2. bl.on => bl.off <= moff + 1
    <3>1. bl.on => bl.off + bl.histlen = Len(hist) + 1 /\ bl.histlen \in Nat
      BY TopFacts DEF BacklogOf, Shapes
    <3> QED
      BY <1>2, <3>1
  <2>3. (sl[s].st # "none" => bl'.on) /\ (bl'.on /\ bl'.off <= Len(hist) + 1 => bl.on /\ bl.off <= bl'.off)
    BY <1>2, <1>3, <2>1, <2>2
  <2> DEFINE h2 == child
  <2>4. h2 = child /\ h2 \in Children
    BY <2>k
  <2> HIDE DEF h2
  <2>5. Good(sl[s], wire[s], rs[s], cached[s], master[s], initial[s], data[s], late[s], log, runid, hist, bl', h2)
    BY <1>3, <2>k, <2>g, <2>3, <2>4, GoodSame
  <2> QED
    BY <2>4, <2>5
<1> QED
  BY <1>1, <1>4, <1>5, TopOnly

LEMMA RestartStep ==
    ASSUME BoundsAssumption, ReplInv, RestartMaster
    PROVE  ReplInv'
<1> DEFINE b2 == [bl EXCEPT !.on = FALSE, !.histlen = 0, !.idx = 0, !.buf = <<>>]
           Cached(s) == IF rs[s] = "connected" THEN master[s] ELSE IF rs[s] = "transfer" THEN NoMaster ELSE cached[s]
<1>1. /\ runid' = runid + 1 /\ moff' = 0 /\ seldb' = -1 /\ hist' = <<>> /\ bl' = b2 /\ child' = NoChild
      /\ UNCHANGED <<log, initial, data, late>>
  BY DEF RestartMaster
<1>2. /\ sl' = [s \in Slaves |-> NoClient] /\ wire' = [s \in Slaves |-> <<>>]
      /\ cached' = [s \in Slaves |-> Cached(s)]
      /\ master' = [s \in Slaves |-> NoMaster] /\ rs' = [s \in Slaves |-> "connect"]
  BY DEF RestartMaster
<1>3. b2 \in Shapes /\ ~b2.on /\ b2.idx = 0 /\ b2.histlen = 0
  <2> DEFINE q == <<>>
             e == [bl EXCEPT !.on = FALSE, !.histlen = 0, !.idx = 0, !.buf = q]
  <2>1. q \in Bufs
    BY DEF Bufs
  <2>2. b2 = e
    OBVIOUS
  <2> HIDE DEF q, b2
  <2>3. e \in Shapes /\ ~e.on /\ e.idx = 0 /\ e.histlen = 0
    BY <2>1, TopFacts DEF Shapes
  <2> QED
    BY <2>2, <2>3
<1> HIDE DEF b2, Cached
<1>4. TopTyped'
  <2>1. hist' \in Seq(Int) /\ Len(hist') = 0
    BY <1>1
  <2>2. child' \in Children /\ child'.snap <= log
    BY <1>1, TopFacts, Ints
  <2>3. runid' \in Nat \ {0}
    BY <1>1, TopFacts
  <2> QED
    BY <1>1, <1>3, <2>1, <2>2, <2>3, TopFacts DEF TopTyped
<1>5. ASSUME NEW s \in Slaves PROVE Cached(s) \in Ids /\ SlaveGood(s)'
  <2>k. /\ sl[s] \in Ends /\ wire[s] \in Seq(Msgs) /\ rs[s] \in RunStates /\ cached[s] \in Ids /\ master[s] \in Ids
        /\ initial[s] \in Ids /\ data[s] \in Seq(Int)
        /\ log \in Nat /\ runid \in Nat \ {0} /\ hist \in Seq(Int) /\ bl \in Shapes /\ child \in Children
    BY SlaveTyped, TopFacts
  <2>g. Good(sl[s], wire[s], rs[s], cached[s], master[s], initial[s], data[s], late[s], log, runid, hist, bl, child)
    BY SlaveTyped
  <2>1. Cached(s) \in Ids
    BY <2>k, Ints DEF Cached
  <2> DEFINE ca2 == Cached(s)
  <2>2. ca2 \in Ids /\ ca2 \in {master[s], NoMaster, cached[s]}
    BY <2>1 DEF Cached
  <2> HIDE DEF ca2
  <2> DEFINE q2 == hist'
             h2 == bl'
             g2 == child'
             id2 == runid + 1
  <2>5. id2 = runid + 1 /\ id2 \in Nat \ {0} /\ runid < id2
    BY <2>k
  <2> HIDE DEF q2, h2, g2, id2
  <2>6. Good(NoClient, <<>>, "connect", ca2, NoMaster, initial[s], data[s], late[s], log, id2, q2, h2, g2)
    BY <2>k, <2>g, <2>2, <2>5, GoodRestarted
  <2>3. Good(NoClient, <<>>, "connect", ca2, NoMaster, initial[s], data[s], late[s], log, runid + 1, hist', bl', child')
    BY <2>5, <2>6 DEF q2, h2, g2
  <2>4. /\ sl'[s] = NoClient /\ wire'[s] = <<>> /\ cached'[s] = ca2 /\ master'[s] = NoMaster /\ rs'[s] = "connect"
    BY <1>2 DEF ca2
  <2>7. SlaveGood(s)'
    BY <1>1, <2>3, <2>4 DEF SlaveGood
  <2> QED
    BY <2>1, <2>7
<1>6. LinksTyped'
  <2>1. NoClient \in Ends /\ NoMaster \in Ids /\ <<>> \in Seq(Msgs) /\ "connect" \in RunStates
    BY Ints DEF RunStates
  <2>2. sl' \in [Slaves -> Ends] /\ master' \in [Slaves -> Ids] /\ rs' \in [Slaves -> RunStates]
    BY <1>2, <2>1
  <2>3. wire' \in [Slaves -> Seq(Msgs)]
    BY <1>2, <2>1
  <2>4. cached' \in [Slaves -> Ids]
    BY <1>2, <1>5
  <2> QED
    BY <1>1, <2>2, <2>3, <2>4 DEF ReplInv, LinksTyped
<1> QED
  BY <1>4, <1>5, <1>6 DEF ReplInv

LEMMA ReplInit ==
    ASSUME BoundsAssumption, Init
    PROVE  ReplInv
<1>1. /\ log = 0 /\ runid = 1 /\ moff = 0 /\ seldb = -1 /\ child = NoChild /\ hist = <<>>
      /\ bl = [on |-> FALSE, size |-> InitSize, idx |-> 0, histlen |-> 0, off |-> 0, buf |-> <<>>]
  BY DEF Init
<1>2. /\ sl = [s \in Slaves |-> NoClient] /\ wire = [s \in Slaves |-> <<>>] /\ rs = [s \in Slaves |-> "connect"]
      /\ cached = [s \in Slaves |-> NoMaster] /\ master = [s \in Slaves |-> NoMaster]
      /\ initial = [s \in Slaves |-> NoMaster] /\ data = [s \in Slaves |-> <<>>] /\ late = [s \in Slaves |-> FALSE]
  BY DEF Init
<1>3. bl \in Shapes /\ ~bl.on /\ bl.idx = 0 /\ bl.histlen = 0
  <2> DEFINE q == <<>>
  <2>1. q \in Bufs
    BY DEF Bufs
  <2>2. bl = [on |-> FALSE, size |-> InitSize, idx |-> 0, histlen |-> 0, off |-> 0, buf |-> q] /\ InitSize \in Sizes
    BY <1>1 DEF BoundsAssumption
  <2> HIDE DEF q
  <2> QED
    BY <2>1, <2>2 DEF Shapes
<1>4. TopTyped
  <2>1. hist \in Seq(Int) /\ Len(hist) = 0
    BY <1>1
  <2>2. child \in Children /\ child.snap = 0
    BY <1>1, Ints
  <2>3. 0 \in 0..MaxLog
    BY DEF BoundsAssumption
  <2> QED
    BY <1>1, <1>3, <2>1, <2>2, <2>3 DEF TopTyped
<1>5. NoClient \in Ends /\ NoMaster \in Ids /\ NoMaster.id = 0 /\ "connect" \in RunStates
  BY Ints DEF RunStates
<1>6. LinksTyped
  <2> DEFINE q == <<>>
  <2>1. q \in Seq(Msgs) /\ q \in Seq(Int)
    OBVIOUS
  <2>2. wire = [s \in Slaves |-> q] /\ data = [s \in Slaves |-> q]
    BY <1>2
  <2> HIDE DEF q
  <2>3. wire \in [Slaves -> Seq(Msgs)] /\ data \in [Slaves -> Seq(Int)]
    BY <2>1, <2>2
  <2>4. late \in [Slaves -> BOOLEAN]
    BY <1>2
  <2> QED
    BY <1>2, <1>5, <2>3, <2>4 DEF LinksTyped
<1>7. ASSUME NEW s \in Slaves PROVE SlaveGood(s)
  <2>1. /\ sl[s] = NoClient /\ wire[s] = <<>> /\ rs[s] = "connect" /\ cached[s] = NoMaster
        /\ master[s] = NoMaster /\ initial[s] = NoMaster
    BY <1>2
  <2>2. data[s] \in Seq(Int) /\ log \in Nat /\ runid \in Nat \ {0} /\ hist \in Seq(Int) /\ child \in Children
    BY <1>1, <1>4, <1>6 DEF TopTyped, LinksTyped
  <2>3. NoMaster.id <= runid
    BY <1>1, <1>5
  <2>4. Good(NoClient, <<>>, "connect", NoMaster, NoMaster, NoMaster, data[s], late[s], log, runid, hist, bl, child)
    BY <1>3, <1>5, <2>2, <2>3, GoodFree
  <2> QED
    BY <2>1, <2>4 DEF SlaveGood
<1> QED
  BY <1>4, <1>6, <1>7 DEF ReplInv

\* createReplicationBacklog, which skips an offset.
LEMMA Created ==
    ASSUME BoundsAssumption, ReplInv
    PROVE  /\ createReplicationBacklog(moff) \in Shapes
           /\ BacklogOf(createReplicationBacklog(moff), Append(hist, Gap))
           /\ createReplicationBacklog(moff).on /\ createReplicationBacklog(moff).off = Len(hist) + 2
<1> DEFINE h == Append(hist, Gap)
           n == bl.size
           q == [j \in 0..(n - 1) |-> Gap]
           o == moff + 2
           b == [on |-> TRUE, size |-> n, idx |-> 0, histlen |-> 0, off |-> Len(h) + 1, buf |-> q]
<1>1. bl \in Shapes /\ moff = Len(hist) /\ hist \in Seq(Int) /\ Len(hist) \in Nat /\ Gap \in Int
  BY TopFacts DEF Gap
<1>2. h \in Seq(Int) /\ Len(h) = Len(hist) + 1
  BY <1>1, AppendedItem
<1>3. n \in Sizes
  BY <1>1, Ints
<1>4. createReplicationBacklog(moff) = [bl EXCEPT !.on = TRUE, !.idx = 0, !.histlen = 0, !.off = o, !.buf = q]
  BY DEF createReplicationBacklog
<1>5. o = Len(h) + 1
  BY <1>1, <1>2
<1> HIDE DEF q, o, h
<1>6. createReplicationBacklog(moff) = b
  BY <1>1, <1>4, <1>5 DEF Shapes, n
<1> HIDE DEF b, n
<1>7. b \in Shapes /\ BacklogOf(b, h)
  <2>1. q = [j \in 0..(n - 1) |-> Gap] /\ b = [on |-> TRUE, size |-> n, idx |-> 0, histlen |-> 0, off |-> Len(h) + 1, buf |-> q]
    BY DEF q, b
  <2> QED
    BY <1>2, <1>3, <2>1, EmptyBacklog
<1>8. b.on /\ b.off = Len(hist) + 2
  BY <1>1, <1>5 DEF b, o
<1> QED
  BY <1>6, <1>7, <1>8 DEF h

\* What a slave that must resynchronize is to the master.
LEMMA Attaches ==
    ASSUME ReplInv, NEW s \in Slaves
    PROVE  \E c \in Ends : /\ AttachSlave(s) = [sl EXCEPT ![s] = c] /\ c.st \in {"start", "end"}
                           /\ StartsChild => c.st = "end" /\ c.out = <<>>
<1> DEFINE peers == {t \in Slaves : sl[t].st = "end"}
           q == <<>>
<1>1. /\ child.type = "disk" /\ peers # {} =>
            AttachSlave(s) = LET t == CHOOSE t \in peers : TRUE
                               IN  [sl EXCEPT ![s] = [NoClient EXCEPT !.st = "end", !.out = sl[t].out]]
      /\ child.type = "none" /\ ~Diskless => AttachSlave(s) = [sl EXCEPT ![s] = [NoClient EXCEPT !.st = "end"]]
      /\ ~(child.type = "disk" /\ peers # {}) /\ ~(child.type = "none" /\ ~Diskless) =>
            AttachSlave(s) = [sl EXCEPT ![s] = [NoClient EXCEPT !.st = "start"]]
  BY DEF AttachSlave
<1>2. NoClient \in Ends /\ NoClient.out = <<>>
  BY Ints
<1>3. CASE child.type = "disk" /\ peers # {}
  <2> DEFINE t == CHOOSE t \in peers : TRUE
             c == [NoClient EXCEPT !.st = "end", !.out = sl[t].out]
  <2>1. t \in Slaves
    BY <1>3
  <2>2. sl[t].out \in Seq(Int)
    <3> HIDE DEF t
    <3>1. sl[t] \in Ends
      BY <2>1, SlaveTyped
    <3> QED
      BY <3>1, Ints
  <2>3. AttachSlave(s) = [sl EXCEPT ![s] = c]
    BY <1>1, <1>3
  <2> HIDE DEF t
  <2>4. c \in Ends /\ c.st = "end"
    BY <1>2, <2>2 DEF Ends
  <2>5. ~StartsChild
    BY <1>3 DEF StartsChild
  <2> HIDE DEF c
  <2> QED
    BY <2>3, <2>4, <2>5
<1>4. CASE child.type = "none" /\ ~Diskless
  <2> DEFINE c == [NoClient EXCEPT !.st = "end"]
  <2>1. AttachSlave(s) = [sl EXCEPT ![s] = c]
    BY <1>1, <1>4
  <2>2. c \in Ends /\ c.st = "end" /\ c.out = <<>>
    BY <1>2, Edits
  <2> HIDE DEF c
  <2> QED
    BY <2>1, <2>2
<1>5. CASE ~(child.type = "disk" /\ peers # {}) /\ ~(child.type = "none" /\ ~Diskless)
  <2> DEFINE c == [NoClient EXCEPT !.st = "start"]
  <2>1. AttachSlave(s) = [sl EXCEPT ![s] = c]
    BY <1>1, <1>5
  <2>2. c \in Ends /\ c.st = "start"
    BY <1>2, Edits
  <2>3. ~StartsChild
    BY <1>5 DEF StartsChild
  <2> HIDE DEF c
  <2> QED
    BY <2>1, <2>2, <2>3
<1> QED
  BY <1>3, <1>4, <1>5

\* syncCommand without a partial resynchronization.
LEMMA PsyncFull ==
    ASSUME BoundsAssumption, ReplInv, NEW s \in Slaves, NEW m, NEW reply, ~CanContinue(m),
           masterPsync(s, m, reply), UNCHANGED <<log, runid>>
    PROVE  /\ TopTyped' /\ bl'.on /\ Len(hist') = FullOffset /\ wire' = [wire EXCEPT ![s] = reply]
           /\ Put(late, late', s, late'[s], BOOLEAN)
           /\ \E c \in Ends : /\ Put(sl, sl', s, c, Ends) /\ c.st \in {"start", "end"}
                              /\ ~late'[s] => c.st = "end" /\ c.out = <<>> /\ child'.type = "disk" /\ child'.snap = log
           /\ \A t \in Slaves \ {s} : Good(sl[t], wire[t], rs[t], cached[t], master[t], initial[t], data[t], late[t],
                                           log', runid', hist', bl', child')
<1>1. /\ sl' = AttachSlave(s) /\ child' = (IF StartsChild THEN Forked(sl) ELSE child) /\ seldb' = -1
      /\ wire' = [wire EXCEPT ![s] = reply] /\ late' = [late EXCEPT ![s] = ~StartsChild]
      /\ IF bl.on THEN UNCHANGED <<moff, bl, hist>>
         ELSE bl' = createReplicationBacklog(moff) /\ moff' = moff + 1 /\ hist' = Append(hist, Gap)
  BY DEF masterPsync
<1>2. child' \in Children /\ child'.snap <= log /\ (StartsChild => child'.type = "disk" /\ child'.snap = log)
  <2>1. StartsChild => ~Diskless
    BY DEF StartsChild
  <2>2. Forked(sl) \in Children /\ Forked(sl).snap = log /\ (~Diskless => Forked(sl).type = "disk")
    BY ForkedTyped
  <2> QED
    BY <1>1, <2>1, <2>2, TopFacts
<1>3. /\ bl' \in Shapes /\ bl'.on /\ hist' \in Seq(Int) /\ moff' = Len(hist') /\ BacklogOf(bl', hist')
      /\ Len(hist') = FullOffset
  <2>1. CASE bl.on
    BY <1>1, <2>1, TopFacts DEF FullOffset
  <2>2. CASE ~bl.on
    <3>1. hist \in Seq(Int) /\ Gap \in Int /\ moff = Len(hist)
      BY TopFacts DEF Gap
    <3>2. Append(hist, Gap) \in Seq(Int) /\ Len(Append(hist, Gap)) = Len(hist) + 1
      BY <3>1, AppendedItem
    <3> QED
      BY <1>1, <2>2, <3>1, <3>2, Created DEF FullOffset
  <2> QED
    BY <2>1, <2>2
<1>4. TopTyped'
  <2>1. log' \in 0..MaxLog /\ runid' \in Nat \ {0} /\ seldb' \in {-1, 0}
    BY <1>1, TopFacts
  <2>2. log' = log
    OBVIOUS
  <2> QED
    BY <1>2, <1>3, <2>1, <2>2 DEF TopTyped
<1>5. late'[s] = ~StartsChild /\ Put(late, late', s, late'[s], BOOLEAN)
  <2>1. late \in [Slaves -> BOOLEAN]
    BY DEF ReplInv, LinksTyped
  <2>2. late'[s] = ~StartsChild
    BY <1>1, <2>1
  <2>3. late' \in [Slaves -> BOOLEAN] /\ \A t \in Slaves \ {s} : late'[t] = late[t]
    BY <1>1, <2>1
  <2> QED
    BY <2>2, <2>3 DEF Put
<1>6. \E c \in Ends : /\ Put(sl, sl', s, c, Ends) /\ c.st \in {"start", "end"}
                      /\ ~late'[s] => c.st = "end" /\ c.out = <<>> /\ child'.type = "disk" /\ child'.snap = log
  <2>1. PICK c \in Ends : /\ AttachSlave(s) = [sl EXCEPT ![s] = c] /\ c.st \in {"start", "end"}
                          /\ StartsChild => c.st = "end" /\ c.out = <<>>
    BY Attaches
  <2>2. sl \in [Slaves -> Ends] /\ sl' = [sl EXCEPT ![s] = c]
    BY <1>1, <2>1 DEF ReplInv, LinksTyped
  <2>3. Put(sl, sl', s, c, Ends)
    BY <2>2, PutNew
  <2> QED
    BY <1>2, <1>5, <2>1, <2>3
<1>7. ASSUME NEW t \in Slaves
      PROVE  Good(sl[t], wire[t], rs[t], cached[t], master[t], initial[t], data[t], late[t],
                  log', runid', hist', bl', child')
  <2>k. /\ sl[t] \in Ends /\ wire[t] \in Seq(Msgs) /\ rs[t] \in RunStates /\ cached[t] \in Ids /\ master[t] \in Ids
        /\ initial[t] \in Ids /\ data[t] \in Seq(Int)
        /\ log \in Nat /\ runid \in Nat \ {0} /\ hist \in Seq(Int) /\ bl \in Shapes /\ child \in Children
    BY SlaveTyped, TopFacts
  <2>g. Good(sl[t], wire[t], rs[t], cached[t], master[t], initial[t], data[t], late[t], log, runid, hist, bl, child)
    BY SlaveTyped
  <2> DEFINE ch2 == child'
             b2 == bl'
  <2>1. ch2 \in Children /\ b2 \in Shapes
    BY <1>2, <1>3
  <2>2. StartsChild => child.type # "disk"
    BY DEF StartsChild
  <2>3. CASE bl.on
    <3>1. CASE StartsChild
      <4>1. child.type # "disk"
        BY <2>2, <3>1
      <4> HIDE DEF ch2
      <4>2. Good(sl[t], wire[t], rs[t], cached[t], master[t], initial[t], data[t], late[t], log, runid, hist, bl, ch2)
        BY <2>k, <2>g, <2>1, <4>1, GoodChild
      <4> QED
        BY <1>1, <2>3, <4>2 DEF ch2
    <3>2. CASE ~StartsChild
      BY <1>1, <2>g, <2>3, <3>2
    <3> QED
      BY <3>1, <3>2
  <2>4. CASE ~bl.on
    <3>1. b2.off = Len(hist) + 2 /\ Gap \in Int
      BY <1>1, <2>4, Created DEF Gap
    <3> DEFINE x == Gap
    <3>2. x \in Int /\ x = Gap
      BY <3>1
    <3> HIDE DEF ch2, b2, x
    <3>3. Good(sl[t], wire[t], rs[t], cached[t], master[t], initial[t], data[t], late[t], log, runid, Append(hist, x), b2, ch2)
      BY <2>k, <2>g, <2>1, <2>4, <3>1, <3>2, GoodCreated
    <3> QED
      BY <1>1, <2>4, <3>2, <3>3 DEF ch2, b2
  <2> QED
    BY <2>3, <2>4
<1> QED
  BY <1>1, <1>3, <1>4, <1>5, <1>6, <1>7

\* PSYNC from the backlog: the slave gets the stream from the offset it asked for.
LEMMA PsyncPart ==
    ASSUME BoundsAssumption, ReplInv, NEW s \in Slaves, NEW m \in Ids, NEW reply, CanContinue(m),
           masterPsync(s, m, reply)
    PROVE  /\ UNCHANGED <<moff, seldb, bl, child, hist, late>> /\ wire' = [wire EXCEPT ![s] = reply]
           /\ m.id = runid /\ bl.on /\ m.off + 1 >= bl.off
           /\ \E c \in Ends : Put(sl, sl', s, c, Ends) /\ c.st = "online" /\ c.out = SubSeq(hist, m.off + 1, Len(hist))
<1> DEFINE o == m.off + 1
           q == addReplyReplicationBacklog(o)
           c == [NoClient EXCEPT !.st = "online", !.out = q]
<1>1. /\ UNCHANGED <<moff, seldb, bl, child, hist, late>> /\ wire' = [wire EXCEPT ![s] = reply]
      /\ sl' = [sl EXCEPT ![s] = c]
  BY DEF masterPsync
<1>2. m.id = runid /\ bl.on /\ m.off + 1 >= bl.off /\ m.off + 1 <= bl.off + bl.histlen
  BY DEF CanContinue
<1>3. m.off \in Int /\ bl.off \in Int /\ hist \in Seq(Int) /\ moff = Len(hist) /\ moff \in Nat /\ BacklogOf(bl, hist)
  BY <1>2, TopFacts, Ints
<1>4. bl.off + bl.histlen = moff + 1 /\ bl.histlen \in Nat /\ bl.off >= 1
  BY <1>3, BacklogShape
<1>5. o \in bl.off..(moff + 1) /\ o >= 1 /\ o \in Int
  BY <1>2, <1>3, <1>4
<1> HIDE DEF o
<1>6. q = SubSeq(hist, o, moff)
  BY <1>3, <1>5, TailIsSent
<1>7. SubSeq(hist, o, moff) \in Seq(Int)
  BY <1>3, <1>5
<1> HIDE DEF q
<1>8. c \in Ends /\ c.st = "online" /\ c.out = q
  BY <1>6, <1>7, Ints DEF Ends
<1> HIDE DEF c
<1>9. Put(sl, sl', s, c, Ends)
  BY <1>1, <1>8, PutNew DEF ReplInv, LinksTyped
<1>10. c.out = SubSeq(hist, m.off + 1, Len(hist))
  BY <1>3, <1>6, <1>8 DEF o
<1> QED
  BY <1>1, <1>2, <1>8, <1>9, <1>10

\* A slave that waits for an answer to its PSYNC.
LEMMA Asking ==
    ASSUME ReplInv, NEW s \in Slaves, rs[s] = "pong"
    PROVE  wire[s] = <<>> /\ master[s] = NoMaster
<1>1. Linked(sl[s], wire[s], rs[s], cached[s], master[s], initial[s], runid, bl)
  BY SlaveTyped DEF Good
<1> QED
  BY <1>1 DEF Linked

LEMMA TryStep ==
    ASSUME BoundsAssumption, ReplInv, NEW s \in Slaves, TryPartial(s)
    PROVE  ReplInv'
<1> DEFINE q == <<>>
<1>1. /\ rs[s] = "pong" /\ cached' = [cached EXCEPT ![s] = NoMaster] /\ UNCHANGED <<log, runid, data>>
      /\ masterPsync(s, cached[s], q)
      /\ IF CanContinue(cached[s])
         THEN /\ rs' = [rs EXCEPT ![s] = "connected"] /\ master' = [master EXCEPT ![s] = cached[s]]
              /\ initial' = [initial EXCEPT ![s] = NoMaster]
         ELSE /\ rs' = [rs EXCEPT ![s] = "transfer"]
              /\ initial' = [initial EXCEPT ![s] = [id |-> runid, off |-> FullOffset]] /\ master' = master
  BY DEF TryPartial
<1>2. q \in Seq(Msgs)
  OBVIOUS
<1>3. NoMaster \in Ids /\ "connected" \in RunStates /\ "transfer" \in RunStates
  BY Ints DEF RunStates
<1>k. /\ sl[s] \in Ends /\ wire[s] \in Seq(Msgs) /\ rs[s] \in RunStates /\ cached[s] \in Ids /\ master[s] \in Ids
      /\ initial[s] \in Ids /\ data[s] \in Seq(Int)
      /\ log \in Nat /\ runid \in Nat \ {0} /\ hist \in Seq(Int) /\ bl \in Shapes /\ child \in Children
  BY SlaveTyped, TopFacts
<1>g. Good(sl[s], wire[s], rs[s], cached[s], master[s], initial[s], data[s], late[s], log, runid, hist, bl, child)
  BY SlaveTyped
<1>t. /\ sl \in [Slaves -> Ends] /\ wire \in [Slaves -> Seq(Msgs)] /\ rs \in [Slaves -> RunStates]
      /\ cached \in [Slaves -> Ids] /\ master \in [Slaves -> Ids] /\ initial \in [Slaves -> Ids]
      /\ data \in [Slaves -> Seq(Int)]
  BY DEF ReplInv, LinksTyped
<1>4. Put(cached, cached', s, NoMaster, Ids)
  BY <1>1, <1>3, <1>t, PutNew
<1>5. Put(data, data', s, data[s], Seq(Int))
  BY <1>1, <1>t, PutOld
<1> HIDE DEF q
<1>6. CASE CanContinue(cached[s])
  <2>1. /\ UNCHANGED <<moff, seldb, bl, child, hist, late>> /\ wire' = [wire EXCEPT ![s] = q]
        /\ cached[s].id = runid /\ bl.on /\ cached[s].off + 1 >= bl.off
        /\ \E c \in Ends : Put(sl, sl', s, c, Ends) /\ c.st = "online" /\ c.out = SubSeq(hist, cached[s].off + 1, Len(hist))
    BY <1>1, <1>6, <1>k, PsyncPart
  <2>2. PICK c \in Ends : Put(sl, sl', s, c, Ends) /\ c.st = "online" /\ c.out = SubSeq(hist, cached[s].off + 1, Len(hist))
    BY <2>1
  <2>3. Good(c, <<>>, "connected", NoMaster, cached[s], NoMaster, data[s], late[s], log, runid, hist, bl, child)
    BY <1>k, <1>g, <2>1, <2>2, GoodResumed
  <2>4. Put(wire, wire', s, q, Seq(Msgs))
    BY <1>2, <1>t, <2>1, PutNew
  <2>0. rs' = [rs EXCEPT ![s] = "connected"] /\ master' = [master EXCEPT ![s] = cached[s]]
        /\ initial' = [initial EXCEPT ![s] = NoMaster]
    BY <1>1, <1>6
  <2>5. Put(rs, rs', s, "connected", RunStates)
    BY <1>3, <1>t, <2>0, PutNew
  <2>6. Put(master, master', s, cached[s], Ids)
    BY <1>k, <1>t, <2>0, PutNew
  <2>7. Put(initial, initial', s, NoMaster, Ids)
    BY <1>3, <1>t, <2>0, PutNew
  <2>8. Good(c, q, "connected", NoMaster, cached[s], NoMaster, data[s], late[s], log, runid, hist, bl, child)
    BY <2>3 DEF q
  <2>9. UNCHANGED <<log, runid, moff, seldb, bl, child, hist>> /\ late' = late
    BY <1>1, <2>1
  <2> QED
    BY <1>4, <1>5, <2>2, <2>4, <2>5, <2>6, <2>7, <2>8, <2>9, OnlySlave
<1>7. CASE ~CanContinue(cached[s])
  <2>1. /\ TopTyped' /\ bl'.on /\ Len(hist') = FullOffset /\ wire' = [wire EXCEPT ![s] = q]
        /\ Put(late, late', s, late'[s], BOOLEAN)
        /\ \E c \in Ends : /\ Put(sl, sl', s, c, Ends) /\ c.st \in {"start", "end"}
                           /\ ~late'[s] => c.st = "end" /\ c.out = <<>> /\ child'.type = "disk" /\ child'.snap = log
        /\ \A t \in Slaves \ {s} : Good(sl[t], wire[t], rs[t], cached[t], master[t], initial[t], data[t], late[t],
                                        log', runid', hist', bl', child')
    BY <1>1, <1>7, PsyncFull
  <2>2. PICK c \in Ends : /\ Put(sl, sl', s, c, Ends) /\ c.st \in {"start", "end"}
                          /\ ~late'[s] => c.st = "end" /\ c.out = <<>> /\ child'.type = "disk" /\ child'.snap = log
    BY <2>1
  <2> DEFINE i == [id |-> runid, off |-> FullOffset]
             h2 == hist'
             b2 == bl'
             ch2 == child'
             l2 == late'[s]
  <2>3. h2 \in Seq(Int) /\ b2 \in Shapes /\ ch2 \in Children
    BY <2>1 DEF TopTyped
  <2>4. Len(h2) \in Nat
    BY <2>3
  <2>5. i \in Ids /\ i.id = runid /\ i.off = Len(h2)
    BY <1>k, <2>1, <2>4 DEF Ids
  <2> HIDE DEF i, h2, b2, ch2, l2
  <2>6. b2.on /\ (~l2 => c.st = "end" /\ c.out = <<>> /\ ch2.type = "disk" /\ ch2.snap = log)
    BY <2>1, <2>2 DEF b2, ch2, l2
  <2>7. Good(c, <<>>, "transfer", NoMaster, NoMaster, i, data[s], l2, log, runid, h2, b2, ch2)
    BY <1>k, <2>2, <2>3, <2>5, <2>6, GoodAttached
  <2>8. Good(c, q, "transfer", NoMaster, NoMaster, i, data[s], late'[s], log', runid', hist', bl', child')
    BY <1>1, <2>7 DEF h2, b2, ch2, l2, q
  <2>9. Put(wire, wire', s, q, Seq(Msgs))
    BY <1>2, <1>t, <2>1, PutNew
  <2>10. Put(rs, rs', s, "transfer", RunStates)
    <3>1. rs' = [rs EXCEPT ![s] = "transfer"]
      BY <1>1, <1>7
    <3> QED
      BY <1>3, <1>t, <3>1, PutNew
  <2>11. Put(master, master', s, NoMaster, Ids)
    <3>1. master[s] = NoMaster /\ master' = master
      BY <1>1, <1>7, Asking
    <3> QED
      BY <1>t, <3>1, PutOld
  <2>12. Put(initial, initial', s, i, Ids)
    <3>1. initial' = [initial EXCEPT ![s] = i]
      BY <1>1, <1>7 DEF i
    <3> QED
      BY <1>t, <2>5, <3>1, PutNew
  <2> QED
    BY <1>4, <1>5, <2>1, <2>2, <2>8, <2>9, <2>10, <2>11, <2>12, OneSlave
<1> QED
  BY <1>6, <1>7

LEMMA TimeoutStep ==
    ASSUME BoundsAssumption, ReplInv, NEW s \in Slaves, TryPartialTimeout(s)
    PROVE  ReplInv'
<1> DEFINE q == <<Status>>
<1>1. /\ rs[s] = "pong" /\ cached' = [cached EXCEPT ![s] = NoMaster] /\ UNCHANGED <<log, runid, data, master>>
      /\ masterPsync(s, cached[s], q) /\ rs' = [rs EXCEPT ![s] = "transfer"]
      /\ initial' = [initial EXCEPT ![s] = NoMaster]
  BY DEF TryPartialTimeout
<1>2. q \in Seq(Msgs)
  <2>1. Status \in Msgs
    BY DEF Msgs
  <2> QED
    BY <2>1
<1>3. NoMaster \in Ids /\ "transfer" \in RunStates
  BY Ints DEF RunStates
<1>k. /\ sl[s] \in Ends /\ wire[s] \in Seq(Msgs) /\ rs[s] \in RunStates /\ cached[s] \in Ids /\ master[s] \in Ids
      /\ initial[s] \in Ids /\ data[s] \in Seq(Int)
      /\ log \in Nat /\ runid \in Nat \ {0} /\ hist \in Seq(Int) /\ bl \in Shapes /\ child \in Children
  BY SlaveTyped, TopFacts
<1>t. /\ sl \in [Slaves -> Ends] /\ wire \in [Slaves -> Seq(Msgs)] /\ rs \in [Slaves -> RunStates]
      /\ cached \in [Slaves -> Ids] /\ master \in [Slaves -> Ids] /\ initial \in [Slaves -> Ids]
      /\ data \in [Slaves -> Seq(Int)]
  BY DEF ReplInv, LinksTyped
<1>4. Put(cached, cached', s, NoMaster, Ids)
  BY <1>1, <1>3, <1>t, PutNew
<1>5. Put(data, data', s, data[s], Seq(Int))
  BY <1>1, <1>t, PutOld
<1>6. Put(rs, rs', s, "transfer", RunStates)
  BY <1>1, <1>3, <1>t, PutNew
<1>7. Put(initial, initial', s, NoMaster, Ids)
  BY <1>1, <1>3, <1>t, PutNew
<1>8. Put(master, master', s, NoMaster, Ids)
  <2>1. master[s] = NoMaster /\ master' = master
    BY <1>1, Asking
  <2> QED
    BY <1>t, <2>1, PutOld
<1> HIDE DEF q
<1>9. CASE CanContinue(cached[s])
  <2> DEFINE m == cached[s]
  <2>a. m \in Ids /\ CanContinue(m) /\ masterPsync(s, m, q)
    BY <1>1, <1>9, <1>k
  <2> HIDE DEF m
  <2>1. /\ UNCHANGED <<moff, seldb, bl, child, hist, late>> /\ wire' = [wire EXCEPT ![s] = q] /\ bl.on
        /\ \E c \in Ends : Put(sl, sl', s, c, Ends) /\ c.st = "online"
    BY <2>a, PsyncPart
  <2>2. PICK c \in Ends : Put(sl, sl', s, c, Ends) /\ c.st = "online"
    BY <2>1
  <2>3. Good(c, <<Status>>, "transfer", NoMaster, NoMaster, NoMaster, data[s], late[s], log, runid, hist, bl, child)
    BY <1>k, <2>1, <2>2, GoodMisread
  <2>4. Put(wire, wire', s, q, Seq(Msgs))
    BY <1>2, <1>t, <2>1, PutNew
  <2>5. Good(c, q, "transfer", NoMaster, NoMaster, NoMaster, data[s], late[s], log, runid, hist, bl, child)
    BY <2>3 DEF q
  <2>6. UNCHANGED <<log, runid, moff, seldb, bl, child, hist>> /\ late' = late
    BY <1>1, <2>1
  <2> QED
    BY <1>4, <1>5, <1>6, <1>7, <1>8, <2>2, <2>4, <2>5, <2>6, OnlySlave
<1>10. CASE ~CanContinue(cached[s])
  <2>1. /\ TopTyped' /\ bl'.on /\ wire' = [wire EXCEPT ![s] = q] /\ Put(late, late', s, late'[s], BOOLEAN)
        /\ \E c \in Ends : /\ Put(sl, sl', s, c, Ends) /\ c.st \in {"start", "end"}
                           /\ ~late'[s] => c.st = "end" /\ c.out = <<>> /\ child'.type = "disk" /\ child'.snap = log
        /\ \A t \in Slaves \ {s} : Good(sl[t], wire[t], rs[t], cached[t], master[t], initial[t], data[t], late[t],
                                        log', runid', hist', bl', child')
    BY <1>1, <1>10, PsyncFull
  <2>2. PICK c \in Ends : /\ Put(sl, sl', s, c, Ends) /\ c.st \in {"start", "end"}
                          /\ ~late'[s] => c.st = "end" /\ c.out = <<>> /\ child'.type = "disk" /\ child'.snap = log
    BY <2>1
  <2> DEFINE h2 == hist'
             b2 == bl'
             ch2 == child'
             l2 == late'[s]
  <2>3. h2 \in Seq(Int) /\ b2 \in Shapes /\ ch2 \in Children
    BY <2>1 DEF TopTyped
  <2> HIDE DEF h2, b2, ch2, l2
  <2>4. b2.on /\ c.st # "none" /\ (~l2 => c.st # "start" /\ (c.st = "end" => ch2.type = "disk"))
    BY <2>1, <2>2 DEF b2, ch2, l2
  <2>5. Good(c, <<Status>>, "transfer", NoMaster, NoMaster, NoMaster, data[s], l2, log, runid, h2, b2, ch2)
    BY <1>k, <2>2, <2>3, <2>4, GoodMisread
  <2>6. Good(c, q, "transfer", NoMaster, NoMaster, NoMaster, data[s], late'[s], log', runid', hist', bl', child')
    BY <1>1, <2>5 DEF h2, b2, ch2, l2, q
  <2>7. Put(wire, wire', s, q, Seq(Msgs))
    BY <1>2, <1>t, <2>1, PutNew
  <2> QED
    BY <1>4, <1>5, <1>6, <1>7, <1>8, <2>1, <2>2, <2>6, <2>7, OneSlave
<1> QED
  BY <1>9, <1>10

LEMMA OneMore ==
    ASSUME NEW q \in Seq(Int), NEW a \in Int, NEW x \in Int
    PROVE  /\ <<x>> \in Seq(Int) /\ <<a, x>> \in Seq(Int) /\ Len(<<x>>) = 1 /\ Len(<<a, x>>) = 2
           /\ q \o <<x>> = Append(q, x) /\ q \o <<a, x>> = Append(Append(q, a), x)
           /\ q \o <<x>> \in Seq(Int) /\ q \o <<a, x>> \in Seq(Int)
           /\ Append(q, a) \in Seq(Int) /\ Append(Append(q, a), x) \in Seq(Int) /\ Len(Append(Append(q, a), x)) = Len(q) + 2
           /\ SubSeq(<<x>>, 1, 0) = <<>> /\ SubSeq(<<a, x>>, 1, 1) \in Seq(Int)
OBVIOUS

\* What a client's queue is after the items were fed.
Fed(c, items) ==
    CASE c.st = "none" -> c
      [] c.st = "start" -> [c EXCEPT !.out = @ \o SubSeq(items, 1, Len(items) - 1)]
      [] OTHER -> [c EXCEPT !.out = @ \o items]

LEMMA FedOne ==
    ASSUME NEW c \in Ends, NEW x \in Int
    PROVE  Fed(c, <<x>>) \in Ends /\ Queued(c, Fed(c, <<x>>), x)
<1> DEFINE items == <<x>>
           less == SubSeq(items, 1, Len(items) - 1)
           o1 == c.out \o less
           o2 == c.out \o items
           e1 == [c EXCEPT !.out = o1]
           e2 == [c EXCEPT !.out = o2]
<1>1. c.out \in Seq(Int)
  BY Ints
<1>2. items \in Seq(Int) /\ Len(items) = 1 /\ o2 = Append(c.out, x) /\ o2 \in Seq(Int)
  BY <1>1, OneMore
<1>3. less \in Seq(Int)
  BY <1>2
<1>4. o1 \in Seq(Int)
  BY <1>1, <1>3
<1>5. /\ c.st = "none" => Fed(c, items) = c
      /\ c.st = "start" => Fed(c, items) = e1
      /\ c.st \notin {"none", "start"} => Fed(c, items) = e2
  BY DEF Fed
<1> HIDE DEF items, less, o1, o2
<1>6. /\ e1 \in Ends /\ e1.st = c.st /\ e1.rdb = c.rdb
      /\ e2 \in Ends /\ e2.st = c.st /\ e2.rdb = c.rdb /\ e2.out = o2
  BY <1>2, <1>4 DEF Ends
<1> HIDE DEF e1, e2
<1>7. Fed(c, items) \in Ends /\ Queued(c, Fed(c, items), x)
  BY <1>2, <1>5, <1>6 DEF Queued
<1> QED
  BY <1>7 DEF items

LEMMA FedTwo ==
    ASSUME NEW c \in Ends, NEW a \in Int, NEW x \in Int
    PROVE  /\ Fed(c, <<a, x>>) \in Ends
           /\ \E c1 \in Ends : Queued(c, c1, a) /\ Queued(c1, Fed(c, <<a, x>>), x)
<1> DEFINE items == <<a, x>>
           less == SubSeq(items, 1, Len(items) - 1)
           o1 == c.out \o less
           o2 == c.out \o items
           o3 == Append(c.out, a)
           e1 == [c EXCEPT !.out = o1]
           e2 == [c EXCEPT !.out = o2]
           e3 == [c EXCEPT !.out = o3]
<1>1. c.out \in Seq(Int)
  BY Ints
<1>2. items \in Seq(Int) /\ Len(items) = 2 /\ o2 = Append(o3, x) /\ o2 \in Seq(Int) /\ o3 \in Seq(Int)
  BY <1>1, OneMore
<1>3. less \in Seq(Int)
  BY <1>2
<1>4. o1 \in Seq(Int)
  BY <1>1, <1>3
<1>5. /\ c.st = "none" => Fed(c, items) = c
      /\ c.st = "start" => Fed(c, items) = e1
      /\ c.st \notin {"none", "start"} => Fed(c, items) = e2
  BY DEF Fed
<1>6. o3 = Append(c.out, a)
  OBVIOUS
<1> HIDE DEF items, less, o1, o2, o3
<1>7. /\ e1 \in Ends /\ e1.st = c.st /\ e1.rdb = c.rdb
      /\ e2 \in Ends /\ e2.st = c.st /\ e2.rdb = c.rdb /\ e2.out = o2
      /\ e3 \in Ends /\ e3.st = c.st /\ e3.rdb = c.rdb /\ e3.out = o3
  BY <1>2, <1>4 DEF Ends
<1> HIDE DEF e1, e2, e3
<1>8. Fed(c, items) \in Ends /\ Fed(c, items).st = c.st /\ Fed(c, items).rdb = c.rdb
  BY <1>5, <1>7
<1>9. CASE c.st = "none"
  <2>1. Queued(c, c, a) /\ Queued(c, Fed(c, items), x)
    BY <1>5, <1>9 DEF Queued
  <2> QED
    BY <1>8, <2>1 DEF items
<1>10. CASE c.st # "none"
  <2>1. Queued(c, e3, a)
    BY <1>6, <1>7, <1>10 DEF Queued
  <2>2. c.st # "start" => Fed(c, items).out = Append(e3.out, x)
    BY <1>2, <1>5, <1>7, <1>10
  <2>3. Queued(e3, Fed(c, items), x)
    BY <1>7, <1>8, <1>10, <2>2 DEF Queued
  <2> QED
    BY <1>7, <1>8, <2>1, <2>3 DEF items
<1> QED
  BY <1>9, <1>10

\* replicationFeedSlaves with the write that was applied, or with PING.
LEMMA FeedStep ==
    ASSUME BoundsAssumption, ReplInv, NEW select \in BOOLEAN, NEW x \in Int, replicationFeedSlaves(select, x),
           \/ select /\ x = log + 1 /\ log < MaxLog /\ log' = log + 1
           \/ ~select /\ x = 0 /\ log' = log,
           UNCHANGED <<runid, child, wire, rs, cached, master, initial, data, late>>
    PROVE  ReplInv'
<1> DEFINE two == select /\ seldb # 0
           items == IF two THEN <<Other, x>> ELSE <<x>>
           b1 == feedReplicationBacklog(bl, moff, items[1])
<1>1. log \in Nat /\ log' \in Nat /\ log' \in 0..MaxLog /\ log' = (IF x > 0 THEN x ELSE log) /\ (x <= 0 \/ x = log + 1)
      /\ log <= log'
  BY TopFacts DEF BoundsAssumption
<1>t. /\ hist \in Seq(Int) /\ moff = Len(hist) /\ moff \in Nat /\ bl \in Shapes /\ child \in Children
      /\ runid \in Nat \ {0} /\ child.snap \in Nat /\ child.snap <= log /\ seldb \in {-1, 0}
  BY TopFacts
<1>2. CASE ~bl.on /\ Attached(sl) = {}
  <2>1. UNCHANGED <<moff, seldb, bl, sl, hist>>
    BY <1>2 DEF replicationFeedSlaves
  <2>2. TopTyped'
    <3>1. child'.snap <= log'
      BY <1>1, <1>t
    <3> QED
      BY <1>1, <1>t, <2>1, <3>1 DEF ReplInv, TopTyped
  <2>3. ASSUME NEW s \in Slaves
        PROVE  Good(sl[s], wire[s], rs[s], cached[s], master[s], initial[s], data[s], late[s], log', runid', hist', bl', child')
    <3>k. /\ sl[s] \in Ends /\ wire[s] \in Seq(Msgs) /\ rs[s] \in RunStates /\ cached[s] \in Ids /\ master[s] \in Ids
          /\ initial[s] \in Ids /\ data[s] \in Seq(Int)
          /\ log \in Nat /\ runid \in Nat \ {0} /\ hist \in Seq(Int) /\ bl \in Shapes /\ child \in Children
      BY SlaveTyped, TopFacts
    <3>g. Good(sl[s], wire[s], rs[s], cached[s], master[s], initial[s], data[s], late[s], log, runid, hist, bl, child)
      BY SlaveTyped
    <3> DEFINE n2 == log'
    <3>1. n2 \in Nat
      BY <1>1
    <3> HIDE DEF n2
    <3>2. Good(sl[s], wire[s], rs[s], cached[s], master[s], initial[s], data[s], late[s], n2, runid, hist, bl, child)
      BY <1>2, <3>k, <3>g, <3>1, GoodUnrecorded
    <3> QED
      BY <2>1, <3>2 DEF n2
  <2> QED
    BY <2>1, <2>2, <2>3, TopOnly
<1>3. CASE ~(~bl.on /\ Attached(sl) = {})
  <2>1. bl.on
    <3>1. CASE Attached(sl) # {}
      <4>1. PICK s \in Slaves : sl[s].st # "none"
        BY <3>1 DEF Attached
      <4>2. Linked(sl[s], wire[s], rs[s], cached[s], master[s], initial[s], runid, bl)
        BY SlaveTyped DEF Good
      <4> QED
        BY <4>1, <4>2 DEF Linked
    <3> QED
      BY <1>3, <3>1
  <2>2. /\ moff' = moff + Len(items) /\ seldb' = (IF select THEN 0 ELSE seldb)
        /\ bl' = (IF Len(items) = 1 THEN b1 ELSE feedReplicationBacklog(b1, moff + 1, x))
        /\ hist' = hist \o items /\ sl' = [s \in Slaves |-> Fed(sl[s], items)]
    BY <1>3 DEF replicationFeedSlaves, Fed
  <2>3. BacklogOf(bl, hist)
    BY <2>1, TopFacts
  <2>4. Other = 0 /\ Other \in Int
    BY DEF Other
  <2>5. CASE ~two
    <3> DEFINE h2 == Append(hist, x)
               b2 == bl'
    <3>1. items = <<x>> /\ items[1] = x /\ Len(items) = 1
      BY <2>5
    <3>2. hist' = h2 /\ h2 \in Seq(Int) /\ Len(h2) = Len(hist) + 1 /\ moff' = Len(hist')
      <4>1. hist \o <<x>> = Append(hist, x)
        BY <1>t, OneMore
      <4>2. h2 \in Seq(Int) /\ Len(h2) = Len(hist) + 1
        BY <1>t, AppendedItem
      <4> QED
        BY <1>t, <2>2, <3>1, <4>1, <4>2
    <3>3. bl' = feedReplicationBacklog(bl, Len(hist), x)
      BY <1>t, <2>2, <3>1
    <3>4. BacklogOf(bl', h2) /\ bl'.on /\ bl'.off >= bl.off
      BY <1>t, <2>1, <2>3, <3>3, FeedKeepsTail
    <3>5. b2 \in Shapes
      BY <3>4 DEF BacklogOf
    <3>6. TopTyped'
      <4>1. child'.snap <= log' /\ child' \in Children /\ seldb' \in {-1, 0}
        BY <1>1, <1>t, <2>2
      <4> QED
        BY <1>1, <1>t, <3>2, <3>4, <3>5, <4>1 DEF TopTyped
    <3>7. ASSUME NEW s \in Slaves PROVE sl'[s] \in Ends /\ SlaveGood(s)'
      <4>k. /\ sl[s] \in Ends /\ wire[s] \in Seq(Msgs) /\ rs[s] \in RunStates /\ cached[s] \in Ids /\ master[s] \in Ids
            /\ initial[s] \in Ids /\ data[s] \in Seq(Int)
            /\ log \in Nat /\ runid \in Nat \ {0} /\ hist \in Seq(Int) /\ bl \in Shapes /\ child \in Children
        BY SlaveTyped, TopFacts
      <4>g. Good(sl[s], wire[s], rs[s], cached[s], master[s], initial[s], data[s], late[s], log, runid, hist, bl, child)
        BY SlaveTyped
      <4> DEFINE c2 == Fed(sl[s], <<x>>)
      <4>1. c2 \in Ends /\ Queued(sl[s], c2, x)
        BY <4>k, FedOne
      <4>2. sl'[s] = c2
        BY <2>2, <3>1
      <4>3. bl.on /\ b2.on /\ b2.off >= bl.off /\ (x <= 0 \/ x = log + 1)
        BY <1>1, <2>1, <3>4
      <4> HIDE DEF c2, b2
      <4>4. Good(c2, wire[s], rs[s], cached[s], master[s], initial[s], data[s], late[s], IF x > 0 THEN x ELSE log,
                 runid, Append(hist, x), b2, child)
        BY <3>5, <4>k, <4>g, <4>1, <4>3, GoodFed
      <4>5. Good(c2, wire[s], rs[s], cached[s], master[s], initial[s], data[s], late[s], log', runid', hist', bl', child')
        BY <1>1, <3>2, <4>4 DEF b2
      <4> QED
        BY <4>1, <4>2, <4>5 DEF SlaveGood
    <3>8. LinksTyped'
      <4>1. sl' \in [Slaves -> Ends]
        BY <2>2, <3>7
      <4> QED
        BY <4>1 DEF ReplInv, LinksTyped
    <3> QED
      BY <3>6, <3>7, <3>8 DEF ReplInv
  <2>6. CASE two
    <3> DEFINE h1 == Append(hist, Other)
               h2 == Append(h1, x)
               b2 == bl'
    <3>1. items = <<Other, x>> /\ items[1] = Other /\ Len(items) = 2
      BY <2>6
    <3>2. hist' = h2 /\ h1 \in Seq(Int) /\ h2 \in Seq(Int) /\ Len(h1) = Len(hist) + 1 /\ moff' = Len(hist')
      <4>1. hist \o <<Other, x>> = h2
        BY <1>t, <2>4, OneMore
      <4>2. h1 \in Seq(Int) /\ Len(h1) = Len(hist) + 1
        BY <1>t, <2>4, AppendedItem
      <4>3. h2 \in Seq(Int) /\ Len(h2) = Len(h1) + 1
        BY <4>2, AppendedItem
      <4> QED
        BY <1>t, <2>2, <3>1, <4>1, <4>2, <4>3
    <3>3. b1 = feedReplicationBacklog(bl, Len(hist), Other)
      BY <1>t, <3>1
    <3>4. BacklogOf(b1, h1) /\ b1.on /\ b1.off >= bl.off
      <4> HIDE DEF b1
      <4> QED
        BY <1>t, <2>1, <2>3, <2>4, <3>3, FeedKeepsTail
    <3>5. bl' = feedReplicationBacklog(b1, Len(h1), x)
      BY <1>t, <2>2, <3>1, <3>2
    <3>6. BacklogOf(bl', h2) /\ bl'.on /\ bl'.off >= b1.off
      <4> HIDE DEF b1, h1
      <4> QED
        BY <3>2, <3>4, <3>5, FeedKeepsTail
    <3>7. b1 \in Shapes /\ b2 \in Shapes
      BY <3>4, <3>6 DEF BacklogOf
    <3> HIDE DEF b1
    <3>8. TopTyped'
      <4>1. child'.snap <= log' /\ child' \in Children /\ seldb' \in {-1, 0}
        BY <1>1, <1>t, <2>2
      <4> QED
        BY <1>1, <1>t, <3>2, <3>6, <3>7, <4>1 DEF TopTyped
    <3>9. ASSUME NEW s \in Slaves PROVE sl'[s] \in Ends /\ SlaveGood(s)'
      <4>k. /\ sl[s] \in Ends /\ wire[s] \in Seq(Msgs) /\ rs[s] \in RunStates /\ cached[s] \in Ids /\ master[s] \in Ids
            /\ initial[s] \in Ids /\ data[s] \in Seq(Int)
            /\ log \in Nat /\ runid \in Nat \ {0} /\ hist \in Seq(Int) /\ bl \in Shapes /\ child \in Children
        BY SlaveTyped, TopFacts
      <4>g. Good(sl[s], wire[s], rs[s], cached[s], master[s], initial[s], data[s], late[s], log, runid, hist, bl, child)
        BY SlaveTyped
      <4> DEFINE c2 == Fed(sl[s], <<Other, x>>)
                 y == Other
      <4>1. y \in Int /\ y = 0 /\ y <= 0 /\ y = Other
        BY <2>4
      <4>2. c2 \in Ends /\ \E c1 \in Ends : Queued(sl[s], c1, y) /\ Queued(c1, c2, x)
        BY <4>k, <4>1, FedTwo
      <4>3. PICK c1 \in Ends : Queued(sl[s], c1, y) /\ Queued(c1, c2, x)
        BY <4>2
      <4>4. sl'[s] = c2
        BY <2>2, <3>1
      <4>5. bl.on /\ b1.on /\ b2.on /\ b1.off >= bl.off /\ b2.off >= b1.off /\ (x <= 0 \/ x = log + 1)
        BY <1>1, <2>1, <3>4, <3>6
      <4> HIDE DEF c2, b2, y
      <4>6. Good(c1, wire[s], rs[s], cached[s], master[s], initial[s], data[s], late[s], IF y > 0 THEN y ELSE log,
                 runid, Append(hist, y), b1, child)
        BY <3>7, <4>k, <4>g, <4>1, <4>3, <4>5, GoodFed
      <4>7. Good(c1, wire[s], rs[s], cached[s], master[s], initial[s], data[s], late[s], log, runid, h1, b1, child)
        <5>1. (IF y > 0 THEN y ELSE log) = log /\ Append(hist, y) = h1
          BY <4>1
        <5> QED
          BY <4>6, <5>1
      <4> HIDE DEF h1
      <4>8. Good(c2, wire[s], rs[s], cached[s], master[s], initial[s], data[s], late[s], IF x > 0 THEN x ELSE log,
                 runid, Append(h1, x), b2, child)
        BY <3>2, <3>7, <4>k, <4>2, <4>3, <4>5, <4>7, GoodFed
      <4>9. Good(c2, wire[s], rs[s], cached[s], master[s], initial[s], data[s], late[s], log', runid', hist', bl', child')
        BY <1>1, <3>2, <4>8 DEF b2
      <4> QED
        BY <4>2, <4>4, <4>9 DEF SlaveGood
    <3>10. LinksTyped'
      <4>1. sl' \in [Slaves -> Ends]
        BY <2>2, <3>9
      <4> QED
        BY <4>1 DEF ReplInv, LinksTyped
    <3> QED
      BY <3>8, <3>9, <3>10 DEF ReplInv
  <2> QED
    BY <2>5, <2>6
<1> QED
  BY <1>2, <1>3

\* Every step keeps the invariant.
LEMMA ReplNext ==
    ASSUME BoundsAssumption, ReplInv, [Next]_vars
    PROVE  ReplInv'
<1>1. CASE Write
  <2>1. /\ log < MaxLog /\ log' = log + 1 /\ replicationFeedSlaves(TRUE, log + 1)
        /\ UNCHANGED <<runid, child, wire, rs, cached, master, initial, data, late>>
    BY <1>1 DEF Write, replicas
  <2> DEFINE x == log + 1
  <2>2. x \in Int /\ x = log + 1
    BY TopFacts
  <2> HIDE DEF x
  <2>3. replicationFeedSlaves(TRUE, x)
    BY <2>1, <2>2
  <2> QED
    BY <2>1, <2>2, <2>3, FeedStep
<1>2. CASE Ping
  <2> DEFINE x == Other
             select == FALSE
  <2>1. replicationFeedSlaves(select, x) /\ log' = log
        /\ UNCHANGED <<runid, child, wire, rs, cached, master, initial, data, late>>
    BY <1>2 DEF Ping, replicas
  <2>2. x \in Int /\ x = 0 /\ select \in BOOLEAN /\ ~select
    BY DEF Other
  <2> HIDE DEF x, select
  <2> QED
    BY <2>1, <2>2, FeedStep
<1>3. CASE MasterStep
  <2>1. CASE updateSlavesWaitingBgsave(~Unserved, TRUE)
    <3> DEFINE ok == ~Unserved
    <3>1. ok \in BOOLEAN /\ updateSlavesWaitingBgsave(ok, TRUE)
      BY <2>1 DEF Unserved
    <3> HIDE DEF ok
    <3> QED
      BY <3>1, UpdateStep
  <2>2. CASE CronBgsave
    BY <2>2, CronStep
  <2>3. ASSUME NEW s \in Slaves, sendBulkToSlave(s) \/ SendReplies(s) \/ replconfAck(s) PROVE ReplInv'
    BY <2>3, BulkStep, SendStep, AckStep
  <2> QED
    BY <1>3, <2>1, <2>2, <2>3 DEF MasterStep
<1>4. CASE Fault
  <2>1. CASE updateSlavesWaitingBgsave(FALSE, TRUE) \/ updateSlavesWaitingBgsave(TRUE, FALSE)
    BY <2>1, UpdateStep
  <2>2. CASE bgsaveCommand
    BY <2>2, BgsaveStep
  <2>3. CASE RestartMaster
    BY <2>3, RestartStep
  <2>4. ASSUME NEW s \in Slaves, TryPartialTimeout(s) \/ LinkDown(s) \/ replicationSetMaster(s) PROVE ReplInv'
    BY <2>4, TimeoutStep, DownStep
  <2> QED
    BY <1>4, <2>1, <2>2, <2>3, <2>4 DEF Fault
<1>5. CASE freeReplicationBacklog
  BY <1>5, FreeStep
<1>6. CASE \E n \in Sizes : resizeReplicationBacklog(n)
  BY <1>6, ResizeStep
<1>7. CASE \E s \in Slaves : SlaveStep(s)
  <2>1. PICK s \in Slaves : SlaveStep(s)
    BY <1>7
  <2> QED
    BY <2>1, AskStep, TryStep, LoadStep, ApplyStep DEF SlaveStep
<1>8. CASE UNCHANGED vars
  <2>1. UNCHANGED <<log, runid, moff, seldb, bl, child, hist, sl, wire, rs, cached, master, initial, data, late>>
    BY <1>8 DEF vars, replicas
  <2>2. TopTyped'
    BY <2>1 DEF ReplInv, TopTyped
  <2>3. \A s \in Slaves : Good(sl[s], wire[s], rs[s], cached[s], master[s], initial[s], data[s], late[s],
                               log', runid', hist', bl', child')
    BY <2>1, SlaveTyped
  <2> QED
    BY <2>1, <2>2, <2>3, TopOnly
<1> QED
  BY <1>1, <1>2, <1>3, <1>4, <1>5, <1>6, <1>7, <1>8 DEF Next

\* A slave that is attached and will take what is on its way.
LEMMA Followed ==
    ASSUME ReplInv, NEW s \in Slaves, Follows(s), ~late[s]
    PROVE  /\ InFlight(s) = SubSeq(hist, From(rs[s], master[s], initial[s]) + 1, Len(hist))
           /\ From(rs[s], master[s], initial[s]) \in 0..Len(hist)
           /\ Leads(hist, From(rs[s], master[s], initial[s]), Reached(sl[s], wire[s], data[s], child), log)
           /\ Base(s) = Upto(Reached(sl[s], wire[s], data[s], child))
<1> DEFINE c == sl[s]
           w == wire[s]
           d == data[s]
           o == From(rs[s], master[s], initial[s])
<1>1. c \in Ends /\ w \in Seq(Msgs) /\ d \in Seq(Int) /\ child \in Children
  BY SlaveTyped, TopFacts
<1>2. /\ Linked(c, w, rs[s], cached[s], master[s], initial[s], runid, bl)
      /\ Exact(c, w, rs[s], cached[s], master[s], initial[s], d, log, runid, hist, bl, child)
  BY SlaveTyped DEF Good
<1>3. /\ c.st \in {"end", "bulk", "online"} /\ rs[s] \in {"transfer", "connected"}
      /\ ~\E j \in 1..Len(w) : w[j].kind = "status"
  BY DEF Follows
<1>4. ~Stale(w)
  <2>1. ASSUME w # <<>> PROVE Head(w).kind # "status"
    <3>1. Head(w) = w[1] /\ Len(w) >= 1 /\ Len(w) \in Nat
      BY <1>1, <2>1, NotEmpty
    <3> QED
      BY <1>3, <3>1
  <2> QED
    BY <2>1 DEF Stale
<1>5. Catches(c, w, d, log, hist, child, o) /\ (rs[s] = "connected" => Whole(d))
  BY <1>2, <1>3, <1>4 DEF Exact, Following
<1>6. Loading(s) <=> Loads(w)
  BY DEF Loading, Loads
<1>7. InFlight(s) = Flight(c, w)
  BY <1>6 DEF InFlight, Flight, ItemsOf
<1>8. Base(s) = Upto(Reached(c, w, d, child))
  <2>1. CASE c.st = "end"
    <3>1. Base(s) = Upto(child.snap)
      BY <2>1 DEF Base
    <3>2. Reached(c, w, d, child) = child.snap
      BY <2>1 DEF Reached
    <3> QED
      BY <3>1, <3>2
  <2>2. CASE c.st = "bulk"
    <3>1. Base(s) = Upto(c.rdb)
      BY <2>2 DEF Base
    <3>2. Reached(c, w, d, child) = c.rdb
      BY <2>2 DEF Reached
    <3> QED
      BY <3>1, <3>2
  <2>3. CASE c.st = "online" /\ Loads(w)
    <3>1. Base(s) = Upto(Head(w).snap)
      BY <1>6, <2>3 DEF Base
    <3>2. Reached(c, w, d, child) = Head(w).snap
      BY <2>3 DEF Reached
    <3> QED
      BY <3>1, <3>2
  <2>4. CASE c.st = "online" /\ ~Loads(w)
    <3>1. Base(s) = d
      BY <1>6, <2>4 DEF Base
    <3>2. Reached(c, w, d, child) = Len(d)
      BY <2>4 DEF Reached
    <3>3. rs[s] = "connected"
      BY <1>2, <1>3, <1>4, <2>4 DEF Linked
    <3> QED
      BY <1>5, <3>1, <3>2, <3>3 DEF Whole
  <2> QED
    BY <1>3, <2>1, <2>2, <2>3, <2>4
<1> QED
  BY <1>5, <1>7, <1>8 DEF Catches

\* The replication backlog (replication.c) is the last part of the stream: for every offset
\* that masterTryPartialResynchronization accepts, addReplyReplicationBacklog sends exactly
\* what the slave has missed, for every size, after every wrap and every resize.
THEOREM BacklogSendsTheTail ==
    ASSUME BoundsAssumption
    PROVE  Spec => [](TypeOK /\ BacklogIsTail)
<1>1. Init => ReplInv
  BY ReplInit
<1>2. ReplInv /\ [Next]_vars => ReplInv'
  BY ReplNext
<1>3. ReplInv => TypeOK /\ BacklogIsTail
  <2> SUFFICES ASSUME ReplInv PROVE TypeOK /\ BacklogIsTail
    OBVIOUS
  <2>1. bl.size \in Sizes /\ bl.size \in Nat \ {0} /\ bl.on \in BOOLEAN /\ bl.idx \in Nat /\ bl.histlen \in Nat
    BY TopFacts, Ints DEF BoundsAssumption
  <2>2. bl.idx \in 0..bl.size - 1 /\ bl.histlen \in 0..bl.size
    <3>1. CASE bl.on
      <4>1. BacklogOf(bl, hist)
        BY <3>1, TopFacts
      <4> QED
        BY <2>1, <4>1 DEF BacklogOf
    <3>2. CASE ~bl.on
      BY <2>1, <3>2 DEF ReplInv, TopTyped
    <3> QED
      BY <3>1, <3>2
  <2>3. child.type \in {"none", "disk", "socket"} /\ child.snap \in 0..log
    BY TopFacts, Ints
  <2>4. ASSUME NEW s \in Slaves
        PROVE  /\ sl[s].st \in {"none", "start", "end", "bulk", "online"}
               /\ rs[s] \in {"connect", "connecting", "pong", "transfer", "connected"}
               /\ (rs[s] = "connected") = (master[s] # NoMaster)
               /\ cached[s] # NoMaster => master[s] = NoMaster
    <3>1. Linked(sl[s], wire[s], rs[s], cached[s], master[s], initial[s], runid, bl)
      BY SlaveTyped DEF Good
    <3>2. sl[s] \in Ends /\ rs[s] \in RunStates /\ runid \in Nat \ {0}
      BY SlaveTyped, TopFacts
    <3>3. sl[s].st \in {"none", "start", "end", "bulk", "online"}
      BY <3>2, Ints
    <3>4. rs[s] = "connected" => master[s].id = runid
      BY <3>1 DEF Linked
    <3>5. NoMaster.id = 0
      BY Ints
    <3>6. rs[s] = "connected" => master[s] # NoMaster
      BY <3>2, <3>4, <3>5
    <3>7. (rs[s] # "connected" => master[s] = NoMaster) /\ (rs[s] = "connected" => cached[s] = NoMaster)
      BY <3>1 DEF Linked
    <3> QED
      BY <3>2, <3>3, <3>6, <3>7 DEF RunStates
  <2>5. TypeOK
    BY <2>1, <2>2, <2>3, <2>4, TopFacts DEF TypeOK
  <2>6. BacklogIsTail
    <3> SUFFICES ASSUME bl.on PROVE BacklogIsTail
      BY DEF BacklogIsTail
    <3>1. BacklogOf(bl, hist) /\ hist \in Seq(Int) /\ moff = Len(hist) /\ moff \in Nat
      BY TopFacts
    <3>2. bl.off + bl.histlen = moff + 1 /\ bl.off \in Int
      BY <3>1, BacklogShape
    <3>3. ASSUME NEW o \in bl.off..moff PROVE addReplyReplicationBacklog(o) = SubSeq(hist, o, moff)
      <4>1. o \in bl.off..(moff + 1)
        BY <3>1, <3>2
      <4> QED
        BY <3>1, <4>1, TailIsSent
    <3> QED
      BY <3>2, <3>3 DEF BacklogIsTail
  <2> QED
    BY <2>5, <2>6
<1> QED
  BY <1>1, <1>2, <1>3, PTL DEF Spec

\* Once it has taken what is on its way, a slave that was synchronized by a BGSAVE of its
\* own (replication.c:550-600) has exactly the master's data, and it counts the offset of the
\* master's stream it has reached, so that its next PSYNC asks for the right place: through
\* resynchronizations of both kinds, broken links, failed children, late answers,
\* a backlog that wraps, is resized or freed, and restarts of the master.
THEOREM SlavesFollow ==
    ASSUME BoundsAssumption
    PROVE  Spec => [](ExactSlavesConsistent /\ OffsetExact)
<1>1. Init => ReplInv
  BY ReplInit
<1>2. ReplInv /\ [Next]_vars => ReplInv'
  BY ReplNext
<1>3. ReplInv => ExactSlavesConsistent
  <2> SUFFICES ASSUME ReplInv, NEW s \in Slaves, Follows(s), ~late[s]
               PROVE  Base(s) \o Writes(InFlight(s)) = Upto(log)
    BY DEF ExactSlavesConsistent
  <2> DEFINE o == From(rs[s], master[s], initial[s])
             k == Reached(sl[s], wire[s], data[s], child)
             q == InFlight(s)
  <2>1. q = SubSeq(hist, o + 1, Len(hist)) /\ o \in 0..Len(hist) /\ Leads(hist, o, k, log) /\ Base(s) = Upto(k)
    BY Followed
  <2>2. k \in Nat
    BY SlaveTyped, TopFacts, ReachedTyped
  <2>3. log \in Nat /\ hist \in Seq(Int)
    BY TopFacts
  <2> HIDE DEF o, k, q
  <2>4. Upto(k) \o Writes(q) = Upto(log)
    BY <2>1, <2>2, <2>3, LeadsWrites
  <2> QED
    BY <2>1, <2>4 DEF q
<1>4. ReplInv => OffsetExact
  <2> SUFFICES ASSUME ReplInv, NEW s \in Slaves, rs[s] = "connected", sl[s].st = "online", ~late[s],
                      \A j \in 1..Len(wire[s]) : wire[s][j].kind = "item"
               PROVE  master[s].off + Len(InFlight(s)) = moff
    BY DEF OffsetExact
  <2>1. Follows(s)
    BY DEF Follows
  <2> DEFINE o == master[s].off
             q == InFlight(s)
  <2>2. From(rs[s], master[s], initial[s]) = o
    BY DEF From
  <2>3. q = SubSeq(hist, o + 1, Len(hist)) /\ o \in 0..Len(hist)
    BY <2>1, <2>2, Followed
  <2>4. hist \in Seq(Int) /\ moff = Len(hist) /\ Len(hist) \in Nat
    BY TopFacts
  <2> HIDE DEF o, q
  <2>5. Len(q) = Len(hist) - o
    BY <2>3, <2>4
  <2>6. o + Len(q) = moff
    BY <2>3, <2>4, <2>5
  <2> QED
    BY <2>6 DEF o, q
<1> QED
  BY <1>1, <1>2, <1>3, <1>4, PTL DEF Spec
=============================================================================
