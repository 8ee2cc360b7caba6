---------------------------- MODULE ClientOutput ----------------------------
(***************************************************************************)
(* The output buffers of a client of redis (networking.c): replies go into  *)
(* a static buffer and, when it is full, into a list of string objects,     *)
(* which may be the database's own values; a write handler sends both as    *)
(* the socket allows; buffers over the limits close the client later.       *)
(*                                                                         *)
(* Bytes are numbers: fresh ones count up from 1, those of the value of the *)
(* one key start at 101.  Memory of a string is its length, twice that when *)
(* sdscatlen has made it grow.                                              *)
(***************************************************************************)
EXTENDS Integers, Sequences, SequencesExt, FiniteSetsExt

CONSTANTS BufSize,    \* REDIS_REPLY_CHUNK_BYTES: the static buffer
          Chunk,      \* REDIS_REPLY_CHUNK_BYTES: up to this length the last object grows
          MaxWrite,   \* REDIS_MAX_WRITE_PER_EVENT
          Item,       \* sizeof(listNode) + sizeof(robj)
          Hard, Soft, SoftSecs,    \* client_obuf_limits of the client's class, 0: none
          ValLen,     \* length of the key's value at first
          Embedded,   \* is the value an EMBSTR object?
          MaxBytes, MaxTime    \* bounds

ClientOutputAssumption ==
    /\ {BufSize, Chunk, MaxWrite, Item, Hard, Soft, SoftSecs, ValLen, MaxBytes, MaxTime} \subseteq Nat
    /\ Embedded \in BOOLEAN

VARIABLES c,     \* the client, with the value object its list may share
          made,  \* history: the bytes of the replies
          out,   \* history: the bytes written to the socket
          nb,    \* fresh bytes used
          now,   \* server.unixtime
          below  \* history: was the buffer below the soft limit since the clock was started?

vars == <<c, made, out, nb, now, below>>

\* A string object in the list; shared: it is also the key's value.
Node(d) == [data |-> d, null |-> FALSE, raw |-> TRUE, mem |-> Len(d), shared |-> FALSE]
Null == [data |-> <<>>, null |-> TRUE, raw |-> FALSE, mem |-> 0, shared |-> FALSE]
Value(x) == [data |-> x.val, null |-> FALSE, raw |-> ~Embedded, mem |-> Len(x.val), shared |-> TRUE]

Empty(x) == x.buf = <<>> /\ x.reply = <<>>
getClientOutputBufferMemoryUsage(x) == x.rb + Len(x.reply) * Item

-----------------------------------------------------------------------------
(* Adding output                                                            *)

\* A slave that is not online yet only accumulates.
Writes(x) == x.repl = "none" \/ (x.repl = "online" /\ ~x.onack)
prepareClientToWrite(x) == IF Empty(x) /\ Writes(x) THEN [x EXCEPT !.handler = TRUE] ELSE x

\* checkClientOutputBufferLimits and asyncCloseClientOnOutputBufferLimitReached.
OverSoft(x) == Soft # 0 /\ getClientOutputBufferMemoryUsage(x) >= Soft
checkLimits(x) ==
    LET hard == Hard # 0 /\ getClientOutputBufferMemoryUsage(x) >= Hard
        soft == OverSoft(x) /\ x.since # 0 /\ now - x.since > SoftSecs
    IN  IF x.rb = 0 \/ x.asap # "no" THEN x
        ELSE [x EXCEPT !.since = IF ~OverSoft(x) THEN 0 ELSE IF @ = 0 THEN now ELSE @,
                       !.asap = IF hard THEN "hard" ELSE IF soft THEN "soft" ELSE "no"]

\* dupLastObjectIfNeeded and sdscatlen on the last object.
Grow(x, d) ==
    LET t == Last(x.reply)  n == Len(t.data) + Len(d)
    IN  [x EXCEPT !.reply[Len(x.reply)] = [t EXCEPT !.data = @ \o d, !.mem = 2 * n, !.shared = FALSE],
                  !.rb = @ - t.mem + 2 * n]
addToList(x, o) ==
    LET t == Last(x.reply)
    IN  IF x.reply # <<>> /\ ~t.null /\ t.raw /\ Len(t.data) + Len(o.data) <= Chunk
        THEN Grow(x, o.data)
        ELSE [x EXCEPT !.reply = Append(@, o), !.rb = @ + o.mem]
\* The static buffer is used only as long as the list is empty.
Fits(x, o) == x.reply = <<>> /\ Len(o.data) + Len(x.buf) <= BufSize
addReply(x, o) ==
    LET p == prepareClientToWrite(x)
    IN  IF p.closing THEN p
        ELSE IF Fits(p, o) THEN [p EXCEPT !.buf = @ \o o.data]
        ELSE checkLimits(addToList(p, o))

addDeferredMultiBulkLength(x) ==
    LET p == prepareClientToWrite(x) IN [p EXCEPT !.reply = Append(@, Null)]
\* Mutant: the limits are not checked when the header is filled in.
setDeferredMultiBulkLength_NoCheck(x, i, d) ==
    LET nxt == x.reply[i + 1]
        n == Len(d) + Len(nxt.data)
    IN  IF i < Len(x.reply) /\ ~nxt.null
          THEN [x EXCEPT !.reply = SubSeq(@, 1, i - 1) \o <<[Node(d \o nxt.data) EXCEPT !.mem = 2 * n]>>
                                   \o SubSeq(@, i + 2, Len(@)), !.rb = @ - nxt.mem + 2 * n]
          ELSE [x EXCEPT !.reply[i] = Node(d), !.rb = @ + Len(d)]
\* The header is filled in, and glued to the next object if that is a string.
setDeferredMultiBulkLength(x, i, d) ==
    LET nxt == x.reply[i + 1]
        glue == i < Len(x.reply) /\ ~nxt.null
        n == Len(d) + Len(nxt.data)
    IN  checkLimits(
          IF glue THEN [x EXCEPT !.reply = SubSeq(@, 1, i - 1) \o <<[Node(d \o nxt.data) EXCEPT !.mem = 2 * n]>>
                                            \o SubSeq(@, i + 2, Len(@)), !.rb = @ - nxt.mem + 2 * n]
          ELSE [x EXCEPT !.reply[i] = Node(d), !.rb = @ + Len(d)])

-----------------------------------------------------------------------------
(* Replies                                                                  *)

Fresh(k) == [i \in 1..k |-> nb + i]
\* The history of the soft limit: since the clock runs, has the buffer been below?
Reply(x, bytes, fresh) ==
    /\ c.alive /\ nb + fresh <= MaxBytes
    /\ c' = x /\ nb' = nb + fresh /\ made' = made \o bytes
    /\ below' = (below /\ x.since # 0 /\ c.since # 0)
    /\ UNCHANGED <<out, now>>

\* addReplyString, addReplySds: a string of its own.
addReplyString(k) == ~c.closing /\ Reply(addReply(c, Node(Fresh(k))), Fresh(k), k)

\* Somebody else's message for a client that is about to be closed.
addReplyClosing == c.closing /\ Reply(addReply(c, Node(<<0>>)), <<>>, 0)

\* addReplyBulk: length, the value itself, CR LF.
addReplyBulk ==
    LET f == Fresh(2)
        x == addReply(addReply(addReply(c, Node(<<f[1]>>)), Value(c)), Node(<<f[2]>>))
    IN  ~c.closing /\ Reply(x, <<f[1]>> \o c.val \o <<f[2]>>, 2)

\* A command that learns the number of its elements last (KEYS).
keysCommand(k) ==
    LET f == Fresh(2)
        d == addDeferredMultiBulkLength(c)
        x == IF k = 0 THEN d ELSE addReply(d, Node(<<f[2]>>))
    IN  /\ ~c.closing
        /\ Reply(setDeferredMultiBulkLength(x, Len(d.reply), <<f[1]>>), SubSeq(f, 1, 1 + k), 1 + k)
\* And one that does so twice over (CLUSTER SLOTS).
clusterSlots ==
    LET f == Fresh(3)
        d == addDeferredMultiBulkLength(c)
        e == addDeferredMultiBulkLength(d)
        x == addReply(e, Node(<<f[3]>>))
        y == setDeferredMultiBulkLength(x, Len(e.reply), <<f[2]>>)
    IN  ~c.closing /\ Reply(setDeferredMultiBulkLength(y, Len(d.reply), <<f[1]>>), f, 3)

\* An error that ends the connection: the reply, then REDIS_CLOSE_AFTER_REPLY.
errorAndClose ==
    ~c.closing /\ Reply([addReply(c, Node(Fresh(1))) EXCEPT !.closing = TRUE], Fresh(1), 1)

\* APPEND on the key: dbUnshareStringValue copies a value that someone else refers to.
Unshare(x, b) ==
    [x EXCEPT !.val = @ \o b, !.reply = [i \in DOMAIN @ |-> [@[i] EXCEPT !.shared = FALSE]]]
appendCommand ==
    /\ Len(c.val) = ValLen /\ c' = Unshare(c, <<101 + Len(c.val)>>)
    /\ UNCHANGED <<made, out, nb, now, below>>

-----------------------------------------------------------------------------
(* Sending                                                                  *)

freeClient(x) == [x EXCEPT !.alive = FALSE, !.handler = FALSE]

\* n bytes of the buffer, or else of the first object, have been written.
Sent(x, n) ==
    IF x.buf # <<>> THEN IF x.sentlen + n < Len(x.buf) THEN [x EXCEPT !.sentlen = @ + n]
                         ELSE [x EXCEPT !.buf = <<>>, !.sentlen = 0]
    ELSE IF x.sentlen + n < Len(x.reply[1].data) THEN [x EXCEPT !.sentlen = @ + n]
    ELSE [x EXCEPT !.sentlen = 0, !.reply = Tail(@), !.rb = @ - x.reply[1].mem]
\* One turn of the loop; the socket has room for w.room more bytes.
WriteTurn(w) ==
    LET x == w.x
        src == IF x.buf # <<>> THEN x.buf ELSE x.reply[1].data
        n == Min({w.room, Len(src) - x.sentlen})
    IN  IF ~w.go \/ Empty(x) THEN w
        ELSE IF src = <<>> THEN [w EXCEPT !.x.reply = Tail(@), !.x.rb = @ - x.reply[1].mem]
        ELSE IF n <= 0 THEN [w EXCEPT !.go = FALSE]
        ELSE [x |-> Sent(x, n), room |-> w.room - n, go |-> w.tot + n <= MaxWrite, tot |-> w.tot + n,
              bytes |-> w.bytes \o SubSeq(src, x.sentlen + 1, x.sentlen + n)]
sendReplyToClient(k) ==
    LET w == FoldLeft(LAMBDA v, i : WriteTurn(v),
                      [x |-> c, room |-> k, bytes |-> <<>>, go |-> TRUE, tot |-> 0],
                      [i \in 1..(2 * Len(c.reply) + 3) |-> i])
        done == [w.x EXCEPT !.handler = FALSE, !.sentlen = 0]
        x == IF ~Empty(w.x) THEN w.x ELSE IF w.x.closing THEN freeClient(done) ELSE done
    IN  /\ c.alive /\ c.handler
        /\ c' = x /\ out' = out \o w.bytes
        /\ below' = (below \/ (c.since # 0 /\ ~OverSoft(x)))
        /\ UNCHANGED <<made, nb, now>>

writeError ==
    /\ c.alive /\ c.handler /\ c' = freeClient(c) /\ UNCHANGED <<made, out, nb, now, below>>

\* serverCron.
freeClientsInAsyncFreeQueue ==
    /\ c.alive /\ c.asap # "no" /\ c' = freeClient(c) /\ UNCHANGED <<made, out, nb, now, below>>
tick == now < MaxTime /\ now' = now + 1 /\ UNCHANGED <<c, made, out, nb, below>>

\* SYNC is accepted only from a client with nothing to be sent; the RDB file then goes
\* over the socket by another handler.
syncCommand ==
    /\ c.alive /\ c.repl = "none" /\ Empty(c) /\ ~c.closing /\ c' = [c EXCEPT !.repl = "wait"]
    /\ UNCHANGED <<made, out, nb, now, below>>
\* updateSlavesWaitingBgsave, diskless: online, but the handler waits for an ACK.
onlineOnAck ==
    /\ c.alive /\ c.repl = "wait" /\ c' = [c EXCEPT !.repl = "online", !.onack = TRUE]
    /\ UNCHANGED <<made, out, nb, now, below>>
putSlaveOnline(x) == [x EXCEPT !.repl = "online", !.onack = FALSE, !.handler = TRUE]
slaveOnline ==
    /\ c.alive /\ (c.repl = "wait" \/ c.onack)
    /\ c' = putSlaveOnline(c)
    /\ UNCHANGED <<made, out, nb, now, below>>

Init ==
    /\ c = [buf |-> <<>>, sentlen |-> 0, reply |-> <<>>, rb |-> 0, closing |-> FALSE, asap |-> "no",
            handler |-> FALSE, since |-> 0, repl |-> "none", onack |-> FALSE, alive |-> TRUE,
            val |-> [i \in 1..ValLen |-> 100 + i]]
    /\ made = <<>> /\ out = <<>> /\ nb = 0 /\ now = 1 /\ below = FALSE

Next ==
    \/ \E k \in 1..3 : addReplyString(k)
    \/ addReplyClosing
    \/ addReplyBulk
    \/ \E k \in 0..1 : keysCommand(k)
    \/ clusterSlots
    \/ errorAndClose
    \/ appendCommand
    \/ \E k \in 0..(MaxBytes + ValLen) : sendReplyToClient(k)
    \/ writeError
    \/ freeClientsInAsyncFreeQueue
    \/ tick
    \/ syncCommand
    \/ onlineOnAck
    \/ slaveOnline

Spec == Init /\ [][Next]_vars

-----------------------------------------------------------------------------
Pending(x) ==
    LET all == x.buf \o FlattenSeq([i \in DOMAIN x.reply |-> x.reply[i].data])
    IN  SubSeq(all, x.sentlen + 1, Len(all))

\* The send position is within what is being sent; only the head may be part of the way.
TypeOK ==
    /\ c.sentlen >= 0 /\ c.rb >= 0
    /\ c.sentlen < IF c.buf # <<>> THEN Len(c.buf) ELSE IF c.reply # <<>> THEN Max({1, Len(c.reply[1].data)}) ELSE 1
    /\ \A i \in DOMAIN c.reply : ~c.reply[i].null

\* What has been written and what waits is what was said, in that order: nothing is lost
\* between the buffer and the list, sent twice, or changed by somebody else's write.
InOrder == c.alive => out \o Pending(c) = made

\* The value of the key is not changed by replies that are glued to it.
ValueKept == c.val = [i \in 1..Len(c.val) |-> 100 + i] /\ Len(c.val) <= ValLen + 1

\* reply_bytes is the memory of the strings in the list: it neither leaks nor underflows.
Accounted == c.rb = FoldLeft(LAMBDA s, o : s + o.mem, 0, c.reply)

\* Output that may be sent has a handler to send it; nothing goes to a slave that is still
\* receiving the RDB file ("we want to just accumulate writes in the buffer but not actually
\* sending them yet", networking.c:146).
HandlerRight == c.alive => /\ ~Empty(c) /\ Writes(c) => c.handler
                           /\ ~Writes(c) => ~c.handler

\* A client over its hard limit is on its way out.
LimitEnforced ==
    c.alive /\ Hard # 0 /\ getClientOutputBufferMemoryUsage(c) >= Hard => c.asap # "no"

\* A client is closed for the soft limit only when it was over it all the time ("We need to
\* check if the soft limit is reached continuously for the specified amount of seconds",
\* networking.c:1634).
SoftContinuous == c.asap = "no" /\ c'.asap = "soft" => ~below

=============================================================================
