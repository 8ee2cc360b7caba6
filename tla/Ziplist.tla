------------------------------- MODULE Ziplist -------------------------------
(***************************************************************************)
(* The ziplist (ziplist.c), byte by byte: every entry starts with the       *)
(* length of the entry before it, in one byte or, from ZIP_BIGLEN on, in    *)
(* five, so that an insertion or a deletion may change the size of entries  *)
(* far behind it.                                                           *)
(*                                                                         *)
(* Scaled down: ZIP_BIGLEN and the limit of the count are constants, the    *)
(* encoding is one byte, the length of the payload.  All bytes of a payload *)
(* of n bytes are 100 + n.  Offsets leave the header out.                    *)
(***************************************************************************)
EXTENDS Integers, Sequences, SequencesExt

CONSTANTS
    ZIP_BIGLEN, LEN_MAX,    \* 254, UINT16_MAX
    Payloads,               \* sizes of the entries
    MaxEntries              \* bound
ZiplistAssumption == {ZIP_BIGLEN, LEN_MAX, MaxEntries} \subseteq Nat /\ Payloads \subseteq 0..99 /\ ZIP_BIGLEN < 99

VARIABLES
    zl,     \* [mem |-> bytes, tail |-> offset of the last entry, length |-> count in the header]
    list    \* the payloads it should hold
vars == <<zl, list>>

ZIP_END == 255
Garbage == 254      \* memory that was not written, or not ours

-----------------------------------------------------------------------------
(* Memory and entries                                                       *)

Byte(m, p) == IF p + 1 \in DOMAIN m THEN m[p + 1] ELSE Garbage
memmove(m, dst, src, n) == [i \in DOMAIN m |-> IF i \in (dst + 1)..(dst + n) THEN Byte(m, i - 1 - dst + src) ELSE m[i]]
Store(m, p, bytes) == [i \in DOMAIN m |-> IF i \in (p + 1)..(p + Len(bytes)) THEN bytes[i - p] ELSE m[i]]
ziplistResize(m, n) == [i \in 1..n |-> IF i = n THEN ZIP_END ELSE Byte(m, i - 1)]

zipPrevEncodeLengthForceLarge(len) == <<ZIP_BIGLEN, len, 0, 0, 0>>
zipPrevEncodeLength(len) == IF len < ZIP_BIGLEN THEN <<len>> ELSE zipPrevEncodeLengthForceLarge(len)
prevrawlensize(m, p) == IF Byte(m, p) = ZIP_BIGLEN THEN 5 ELSE 1
prevrawlen(m, p) == IF Byte(m, p) = ZIP_BIGLEN THEN Byte(m, p + 1) ELSE Byte(m, p)
entrylen(m, p) == LET n == Byte(m, p + prevrawlensize(m, p)) IN IF n < 100 THEN n ELSE 0
zipRawEntryLength(m, p) == prevrawlensize(m, p) + 1 + entrylen(m, p)
zipPrevLenByteDiff(m, p, len) == Len(zipPrevEncodeLength(len)) - prevrawlensize(m, p)
zipEncodeEntry(prevlen, n) == zipPrevEncodeLength(prevlen) \o <<n>> \o [i \in 1..n |-> 100 + n]

-----------------------------------------------------------------------------
(* Insertion and deletion                                                   *)

Widen(z, np, need, have, rawlen) ==
    LET wider == memmove(ziplistResize(z.mem, Len(z.mem) + need - have), np + need, np + have, Len(z.mem) - np - have - 1)
    IN  [z EXCEPT !.mem = Store(wider, np, zipPrevEncodeLength(rawlen)), !.tail = IF @ # np THEN @ + need - have ELSE @]
\* The entry at np has room for the length: it is stored in what there is.
Fits(z, np, need, have, rawlen) ==
    [z EXCEPT !.mem = Store(@, np, IF have > need THEN zipPrevEncodeLengthForceLarge(rawlen) ELSE zipPrevEncodeLength(rawlen))]
RECURSIVE ziplistCascadeUpdate(_, _)
ziplistCascadeUpdate_One(z, p) ==
    LET m == z.mem
        rawlen == zipRawEntryLength(m, p)
        np == p + rawlen
        need == Len(zipPrevEncodeLength(rawlen))
        have == prevrawlensize(m, np)
    IN  IF Byte(m, p) = ZIP_END \/ Byte(m, np) = ZIP_END \/ prevrawlen(m, np) = rawlen THEN z
        ELSE IF have < need THEN Widen(z, np, need, have, rawlen)
        ELSE Fits(z, np, need, have, rawlen)
\* An entry that grows makes the next one grow when its prevlen no longer fits; nothing ever shrinks here.
ziplistCascadeUpdate(z, p) ==
    LET m == z.mem
        rawlen == zipRawEntryLength(m, p)
        np == p + rawlen
        need == Len(zipPrevEncodeLength(rawlen))
        have == prevrawlensize(m, np)
    IN  IF Byte(m, p) = ZIP_END \/ Byte(m, np) = ZIP_END \/ prevrawlen(m, np) = rawlen THEN z
        ELSE IF have < need THEN ziplistCascadeUpdate(Widen(z, np, need, have, rawlen), np)
        ELSE Fits(z, np, need, have, rawlen)
\* A count of LEN_MAX means that it is not known.
IncrLength(n, incr) == IF n < LEN_MAX THEN n + incr ELSE n
MoreThanOne(m, p) == Byte(m, p + zipRawEntryLength(m, p)) # ZIP_END

ziplistInsert(z, p, n) ==
    LET m == z.mem
        prevlen == IF Byte(m, p) # ZIP_END THEN prevrawlen(m, p)
                   ELSE IF Byte(m, z.tail) # ZIP_END THEN zipRawEntryLength(m, z.tail) ELSE 0
        entry == zipEncodeEntry(prevlen, n)
        reqlen == Len(entry)
        nextdiff == IF Byte(m, p) # ZIP_END THEN zipPrevLenByteDiff(m, p, reqlen) ELSE 0
        m1 == ziplistResize(m, Len(m) + reqlen + nextdiff)
        m2 == Store(memmove(m1, p + reqlen, p - nextdiff, Len(m) - p - 1 + nextdiff), p + reqlen, zipPrevEncodeLength(reqlen))
        z1 == IF Byte(m1, p) # ZIP_END
              THEN [z EXCEPT !.mem = m2, !.tail = @ + reqlen + IF MoreThanOne(m2, p + reqlen) THEN nextdiff ELSE 0]
              ELSE [z EXCEPT !.mem = m1, !.tail = p]
        z2 == IF nextdiff # 0 THEN ziplistCascadeUpdate(z1, p + reqlen) ELSE z1
    IN  [z2 EXCEPT !.mem = Store(@, p, entry), !.length = IncrLength(@, 1)]

\* The offset after num entries, or at the end.
RECURSIVE Skip(_, _, _)
Skip(m, p, num) == IF num = 0 \/ Byte(m, p) = ZIP_END THEN p ELSE Skip(m, p + zipRawEntryLength(m, p), num - 1)
ziplistIndex(z, i) == Skip(z.mem, 0, i)

TailAfterDelete(m, tail, q, totlen, nextdiff) == tail - totlen + IF MoreThanOne(m, q) THEN nextdiff ELSE 0
ziplistDelete(z, p, num, deleted) ==
    LET m == z.mem
        q == Skip(m, p, num)
        prev == prevrawlen(m, p)
        nextdiff == IF Byte(m, q) # ZIP_END THEN zipPrevLenByteDiff(m, q, prev) ELSE 0
        from == q - nextdiff
        m1 == Store(m, from, zipPrevEncodeLength(prev))
        m2 == ziplistResize(memmove(m1, p, from, Len(m) - from - 1), Len(m) - (q - p) + nextdiff)
        z1 == IF Byte(m, q) # ZIP_END
              THEN [mem |-> m2, tail |-> TailAfterDelete(m1, z.tail, from, q - p, nextdiff), length |-> IncrLength(z.length, -deleted)]
              ELSE [mem |-> ziplistResize(m, Len(m) - (q - p)), tail |-> p - prev, length |-> IncrLength(z.length, -deleted)]
    IN  IF nextdiff # 0 THEN ziplistCascadeUpdate(z1, p) ELSE z1

-----------------------------------------------------------------------------
(* Reading                                                                  *)

\* The payload of an entry, or -1 when its bytes are not what was stored.
ziplistGet(m, p) ==
    LET h == prevrawlensize(m, p) + 1   n == entrylen(m, p)
    IN  IF \A i \in 0..(n - 1) : Byte(m, p + h + i) = 100 + n THEN n ELSE -1
RECURSIVE Forward(_, _)
Forward(m, p) ==
    IF Byte(m, p) = ZIP_END THEN <<>>
    ELSE IF p >= Len(m) THEN <<-1>>
    ELSE <<ziplistGet(m, p)>> \o Forward(m, p + zipRawEntryLength(m, p))
RECURSIVE ziplistPrev(_, _, _)
ziplistPrev(m, p, fuel) ==
    IF p < 0 \/ fuel = 0 THEN <<-1>>
    ELSE <<ziplistGet(m, p)>> \o IF p = 0 THEN <<>> ELSE ziplistPrev(m, p - prevrawlen(m, p), fuel - 1)
Backward(z) == IF Byte(z.mem, z.tail) = ZIP_END THEN <<>> ELSE ziplistPrev(z.mem, z.tail, MaxEntries)
ziplistLen(z) == IF z.length < LEN_MAX THEN z.length ELSE Len(Forward(z.mem, 0))

-----------------------------------------------------------------------------
Init == zl = [mem |-> <<ZIP_END>>, tail |-> 0, length |-> 0] /\ list = <<>>
Insert(i, n) ==
    /\ Len(list) < MaxEntries /\ zl' = ziplistInsert(zl, ziplistIndex(zl, i), n)
    /\ list' = SubSeq(list, 1, i) \o <<n>> \o SubSeq(list, i + 1, Len(list))
DeleteRange(i, num) ==
    LET deleted == IF i + num > Len(list) THEN Len(list) - i ELSE num
    IN  /\ zl' = ziplistDelete(zl, ziplistIndex(zl, i), num, deleted)
        /\ list' = SubSeq(list, 1, i) \o SubSeq(list, i + deleted + 1, Len(list))
\* A count that is known again is stored.
Length == zl' = [zl EXCEPT !.length = IF ziplistLen(zl) < LEN_MAX THEN ziplistLen(zl) ELSE @] /\ UNCHANGED list
Next ==
    \/ \E i \in 0..Len(list), n \in Payloads : Insert(i, n)
    \/ \E i \in 0..(Len(list) - 1), num \in 1..2 : DeleteRange(i, num)
    \/ Length
Spec == Init /\ [][Next]_vars

-----------------------------------------------------------------------------
\* The end is where the header says, the tail is the last entry, nothing is left over.
TypeOK ==
    /\ \A p \in 0..(Len(zl.mem) - 1) : Byte(zl.mem, p) \in 0..199 \cup {ZIP_END}
    /\ Byte(zl.mem, Len(zl.mem) - 1) = ZIP_END /\ zl.length \in 0..LEN_MAX
    /\ (list = <<>> => zl.mem = <<ZIP_END>> /\ zl.tail = 0)
    /\ (list # <<>> => zl.tail = ziplistIndex(zl, Len(list) - 1))

\* Whatever was inserted and deleted, and however entries grew, the entries are there, unharmed.
ForwardIsTheList == Forward(zl.mem, 0) = list

\* Every prevlen is right: the list can be walked from the tail ("to traverse the list from back to front").
BackwardIsTheList == Backward(zl) = Reverse(list)

\* The count is right, before and after it has passed the limit of its two bytes.
CountRight == ziplistLen(zl) = Len(list)
=============================================================================
