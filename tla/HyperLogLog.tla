----------------------------- MODULE HyperLogLog -----------------------------
(***************************************************************************)
(* PFADD, PFCOUNT and PFMERGE (hyperloglog.c): registers that only grow,    *)
(* held as a sequence of run lengths (ZERO, XZERO and VAL opcodes) that is  *)
(* split and merged in place, until it is too long, or a value too large;   *)
(* then as an array. The cardinality is cached in the value.                *)
(*                                                                         *)
(* An element is its register and its count (hllPatLen). The estimate is a  *)
(* function of the registers: it is modelled by them.                       *)
(***************************************************************************)
EXTENDS Integers, Sequences, SequencesExt, FiniteSets, FiniteSetsExt

CONSTANTS
    Keys,
    HLL_REGISTERS, HLL_MAX_COUNT,               \* registers 0..HLL_REGISTERS-1 of 0..HLL_MAX_COUNT
    HLL_SPARSE_ZERO_MAX_LEN, HLL_SPARSE_XZERO_MAX_LEN, HLL_SPARSE_VAL_MAX_LEN, HLL_SPARSE_VAL_MAX_VALUE,
    hll_sparse_max_bytes, replica_sparse_max_bytes      \* without the header
HyperLogLogAssumption ==
    /\ {hll_sparse_max_bytes, replica_sparse_max_bytes, HLL_MAX_COUNT} \subseteq Nat
    /\ {HLL_REGISTERS, HLL_SPARSE_ZERO_MAX_LEN, HLL_SPARSE_XZERO_MAX_LEN,
        HLL_SPARSE_VAL_MAX_LEN, HLL_SPARSE_VAL_MAX_VALUE} \subseteq Nat \ {0}

VARIABLES
    db,         \* key -> [enc |-> "none" | "sparse" | "dense", ops |-> opcodes, regs |-> array, card |-> cached, or Invalid]
    replica,    \* the same at a replica
    added       \* key -> the largest count added to each register, or NoRegs without a key
vars == <<db, replica, added>>

Registers == 0..(HLL_REGISTERS - 1)
Elements == Registers \X (1..HLL_MAX_COUNT)
NoRegs == <<>>
Invalid == <<>>
Zeros == [r \in Registers |-> 0]
NoKey == [enc |-> "none", ops |-> <<>>, regs |-> NoRegs, card |-> Invalid]

-----------------------------------------------------------------------------
(* Opcodes                                                                  *)

ZERO(len) == [op |-> "ZERO", len |-> len, val |-> 0]
XZERO(len) == [op |-> "XZERO", len |-> len, val |-> 0]
VAL(val, len) == [op |-> "VAL", len |-> len, val |-> val]
Zero(len) == IF len > HLL_SPARSE_ZERO_MAX_LEN THEN XZERO(len) ELSE ZERO(len)
Bytes(ops) == FoldLeft(LAMBDA n, p : n + IF p.op = "XZERO" THEN 2 ELSE 1, 0, ops)
\* The first register of the i-th opcode.
First(ops, i) == FoldLeft(LAMBDA n, p : n + p.len, 0, SubSeq(ops, 1, i - 1))
OpcodeOf(ops, index) == CHOOSE i \in DOMAIN ops : First(ops, i) <= index /\ index < First(ops, i) + ops[i].len
Expand(ops) == [r \in Registers |-> ops[OpcodeOf(ops, r)].val]
RegsOf(o) == IF o.enc = "dense" THEN o.regs ELSE IF o.enc = "sparse" THEN Expand(o.ops) ELSE Zeros

RECURSIVE XZeros(_)
XZeros(n) == IF n = 0 THEN <<>>
             ELSE LET len == Min({n, HLL_SPARSE_XZERO_MAX_LEN}) IN <<XZERO(len)>> \o XZeros(n - len)
createHLLObject == [enc |-> "sparse", ops |-> XZeros(HLL_REGISTERS), regs |-> NoRegs, card |-> Zeros]
hllSparseToDense(o) == [o EXCEPT !.enc = "dense", !.ops = <<>>, !.regs = RegsOf(o)]
hllDenseAdd(o, e) == [o EXCEPT !.regs[e[1]] = e[2]]

-----------------------------------------------------------------------------
(* Adding                                                                   *)

\* The opcodes that take the place of p when one of its registers becomes count.
Split(p, first, index, count) ==
    LET part(len) == IF len = 0 THEN <<>> ELSE IF p.op = "VAL" THEN <<VAL(p.val, len)>> ELSE <<Zero(len)>>
    IN  part(index - first) \o <<VAL(count, 1)>> \o part(first + p.len - 1 - index)
Mergeable(ops, i) ==
    /\ i < Len(ops) /\ ops[i].op = "VAL" /\ ops[i + 1].op = "VAL" /\ ops[i].val = ops[i + 1].val
    /\ ops[i].len + ops[i + 1].len <= HLL_SPARSE_VAL_MAX_LEN
RECURSIVE Merge(_, _, _)
\* From the opcode before the change, five steps.
Merge(ops, i, scanlen) ==
    IF i > Len(ops) \/ scanlen = 0 THEN ops
    ELSE IF Mergeable(ops, i)
         THEN Merge([RemoveAt(ops, i) EXCEPT ![i].len = ops[i].len + ops[i + 1].len], i, scanlen - 1)
         ELSE Merge(ops, i + 1, scanlen - 1)
MergeFrom(i) == IF i = 1 THEN 1 ELSE i - 1
hllSparseAdd(o, e, max) ==
    LET i == OpcodeOf(o.ops, e[1])
        p == o.ops[i]
        seq == Split(p, First(o.ops, i), e[1], e[2])
        new == SubSeq(o.ops, 1, i - 1) \o seq \o SubSeq(o.ops, i + 1, Len(o.ops))
        promote == hllDenseAdd(hllSparseToDense(o), e)
    IN  IF e[2] > HLL_SPARSE_VAL_MAX_VALUE \/ (Bytes(new) > Bytes(o.ops) /\ Bytes(new) > max) THEN promote
        ELSE [o EXCEPT !.ops = Merge(new, MergeFrom(i), 5), !.card = Invalid]
\* Whether the register has to be changed, and the result.
hllAdd(o, e, max) ==
    IF e[2] <= RegsOf(o)[e[1]] THEN o
    ELSE IF o.enc = "dense" THEN hllDenseAdd(o, e) ELSE hllSparseAdd(o, e, max)
hllMerge(regs, o) == LET r == RegsOf(o) IN [i \in Registers |-> IF r[i] > regs[i] THEN r[i] ELSE regs[i]]

-----------------------------------------------------------------------------
(* Commands, at a server with the limit max                                 *)

\* PFADD: one if the key is new or a register has changed. The cache is invalid then.
Updated(o, es) == o = NoKey \/ \E e \in ToSet(es) : e[2] > RegsOf(o)[e[1]]
pfadd(o, es, max) ==
    LET new == FoldLeft(LAMBDA x, e : hllAdd(x, e, max), IF o = NoKey THEN createHLLObject ELSE o, es)
    IN  IF Updated(o, es) THEN [new EXCEPT !.card = Invalid] ELSE new
hllCount(o) == RegsOf(o)
pfcount(o) == IF o # NoKey /\ o.card = Invalid THEN [o EXCEPT !.card = hllCount(o)] ELSE o
\* The destination is merged with the sources, and is dense from then on.
pfmerge(d, dest, srcs) ==
    LET regs == FoldSet(LAMBDA k, r : hllMerge(r, d[k]), Zeros, srcs \cup {dest})
    IN  [hllSparseToDense(IF d[dest] = NoKey THEN createHLLObject ELSE d[dest]) EXCEPT !.regs = regs, !.card = Invalid]

Largest(k) == IF added[k] = NoRegs THEN Zeros ELSE added[k]
pfaddCommand(k, es) ==
    /\ db' = [db EXCEPT ![k] = pfadd(@, es, hll_sparse_max_bytes)]
    /\ replica' = IF Updated(db[k], es) THEN [replica EXCEPT ![k] = pfadd(@, es, replica_sparse_max_bytes)] ELSE replica
    /\ added' = [added EXCEPT ![k] = [r \in Registers |-> Max({Largest(k)[r]} \cup {e[2] : e \in {x \in ToSet(es) : x[1] = r}})]]
\* The cached cardinality is the answer; when it had to be computed the replica is told.
pfcountCommand(k) ==
    LET o == pfcount(db[k])
    IN  /\ db' = [db EXCEPT ![k] = o] /\ replica' = IF o = db[k] THEN replica ELSE [replica EXCEPT ![k] = pfcount(@)]
        /\ UNCHANGED added
pfmergeCommand(dest, srcs) ==
    /\ db' = [db EXCEPT ![dest] = pfmerge(db, dest, srcs)]
    /\ replica' = [replica EXCEPT ![dest] = pfmerge(replica, dest, srcs)]
    /\ added' = [added EXCEPT ![dest] = [r \in Registers |-> Max({Largest(k)[r] : k \in srcs \cup {dest}})]]
delCommand(k) ==
    /\ db' = [db EXCEPT ![k] = NoKey] /\ replica' = [replica EXCEPT ![k] = NoKey]
    /\ added' = [added EXCEPT ![k] = NoRegs]

Init ==
    /\ db = [k \in Keys |-> NoKey] /\ replica = db /\ added = [k \in Keys |-> NoRegs]
Next ==
    \/ \E k \in Keys : \/ \E e \in Elements : pfaddCommand(k, <<e>>)
                       \/ \E e, f \in Elements : e[1] < f[1] /\ pfaddCommand(k, <<e, f>>)
                       \/ pfcountCommand(k) \/ delCommand(k)
                       \/ \E srcs \in SUBSET Keys : pfmergeCommand(k, srcs)
Spec == Init /\ [][Next]_vars

-----------------------------------------------------------------------------
WellFormed(o, max) ==
    /\ o.enc \in {"none", "sparse", "dense"}
    /\ (o.enc = "sparse" => /\ First(o.ops, Len(o.ops) + 1) = HLL_REGISTERS
                            /\ \A p \in ToSet(o.ops) :
                                 p.len \in 1..(CASE p.op = "ZERO" -> HLL_SPARSE_ZERO_MAX_LEN
                                                 [] p.op = "XZERO" -> HLL_SPARSE_XZERO_MAX_LEN
                                                 [] OTHER -> HLL_SPARSE_VAL_MAX_LEN))
\* Every sparse value is valid: its runs cover the registers, and each has a length its opcode can hold.
TypeOK == \A k \in Keys : WellFormed(db[k], hll_sparse_max_bytes) /\ WellFormed(replica[k], replica_sparse_max_bytes)

\* A register holds the largest count that was added to it, whatever was split, merged and promoted,
\* at the replica too, which promotes at another time.
RegistersRight ==
    \A k \in Keys : added[k] # NoRegs => RegsOf(db[k]) = added[k] /\ RegsOf(replica[k]) = added[k]

\* A cached cardinality is the one of the registers.
CacheRight == \A k \in Keys : db[k].card # Invalid => db[k].card = RegsOf(db[k])

\* "Merge adjacent values if possible": no two neighbours could still be one opcode.
MergedWhenPossible == \A k \in Keys : db[k].enc = "sparse" => \A i \in DOMAIN db[k].ops : ~Mergeable(db[k].ops, i)

\* A sparse value is longer than the limit only while it is as it was created.
SizeBounded ==
    \A k \in Keys : db[k].enc = "sparse" => Bytes(db[k].ops) <= Max({hll_sparse_max_bytes, Bytes(createHLLObject.ops)})
=============================================================================
