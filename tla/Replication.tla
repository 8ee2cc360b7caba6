---------------------------- MODULE Replication ----------------------------
(***************************************************************************)
(* Redis replication (replication.c): a master, its replication backlog and *)
(* the slaves that follow it, by full resynchronization (an RDB snapshot,   *)
(* then the commands the master queued since) or by partial one (PSYNC,     *)
(* from the backlog).                                                       *)
(*                                                                         *)
(* The dataset is the sequence of writes that were applied.  An item of the *)
(* replication stream is one write, by its number, or Other for PING and    *)
(* SELECT, which carry no data; each counts one in the offsets.             *)
(***************************************************************************)
EXTENDS Integers, Sequences, FiniteSets

CONSTANTS Slaves,
          Sizes,       \* backlog sizes CONFIG SET may choose, the first one ...
          InitSize,    \* ... being this one
          Diskless,    \* repl-diskless-sync
          UserBgsave,  \* BGSAVE may also be started by a user
          ForkFails,   \* fork() may fail
          MaxLog, MaxOff, MaxDrops  \* bounds on writes, offsets, faults

BoundsAssumption ==
    /\ Sizes \subseteq Nat \ {0} /\ InitSize \in Sizes
    /\ {Diskless, UserBgsave, ForkFails} \subseteq BOOLEAN
    /\ MaxLog \in Nat /\ MaxOff \in Nat /\ MaxDrops \in Nat

VARIABLES
    log,     \* writes the master has applied: its data is 1..log
    runid,   \* of the master; a restart changes it
    moff,    \* master_repl_offset
    seldb,   \* slaveseldb: -1 or 0
    bl,      \* repl_backlog and its size, idx, histlen, off
    child,   \* the RDB child: its type and what it saves
    sl,      \* per slave, the master's client: replstate, output buffer, ...
    wire,    \* per slave, what the master has written to the socket
    rs,      \* per slave, its repl_state
    cached,  \* per slave, cached_master: run id and offset, or NoMaster
    master,  \* per slave, the same of server.master
    initial, \* per slave, what FULLRESYNC said (repl_master_runid, ...)
    data,    \* per slave, its dataset
    hist,    \* history: the stream of this run id, by offset
    late,    \* history: per slave, the snapshot it got is not of the offset
             \* FULLRESYNC named
    drops    \* faults so far

replicas == <<rs, cached, master, initial, data>>
vars == <<log, runid, moff, seldb, bl, child, sl, wire, replicas, hist, late, drops>>

Other == 0
Gap   == -1      \* the offset createReplicationBacklog skips
NoMaster == [id |-> 0, off |-> -1]
NoClient == [st |-> "none", out |-> <<>>, ack |-> 0, onack |-> FALSE, rdb |-> 0]
NoChild  == [type |-> "none", snap |-> 0, fds |-> {}]

Upto(n) == [i \in 1..n |-> i]
\* The writes among items, in their order.
Writes(items) ==
    LET taken[i \in 0..Len(items)] ==
            IF i = 0 THEN <<>>
            ELSE IF items[i] > 0 THEN Append(taken[i - 1], items[i]) ELSE taken[i - 1]
    IN  taken[Len(items)]
Attached(c) == {s \in Slaves : c[s].st # "none"}

Bulk(n)   == [kind |-> "bulk", snap |-> n]
Status    == [kind |-> "status"]        \* a reply nobody expects any more
Item(i)   == [kind |-> "item", item |-> i]

TypeOK ==
    /\ log \in 0..MaxLog /\ moff \in Nat /\ seldb \in {-1, 0}
    /\ bl.on \in BOOLEAN /\ bl.size \in Sizes /\ bl.idx \in 0..bl.size - 1
    /\ bl.histlen \in 0..bl.size
    /\ child.type \in {"none", "disk", "socket"} /\ child.snap \in 0..log
    /\ \A s \in Slaves :
          /\ sl[s].st \in {"none", "start", "end", "bulk", "online"}
          /\ rs[s] \in {"connect", "connecting", "pong", "transfer", "connected"}
          /\ (rs[s] = "connected") = (master[s] # NoMaster)
          /\ cached[s] # NoMaster => master[s] = NoMaster

Init ==
    /\ log = 0 /\ runid = 1 /\ moff = 0 /\ seldb = -1
    /\ bl = [on |-> FALSE, size |-> InitSize, idx |-> 0, histlen |-> 0,
             off |-> 0, buf |-> <<>>]
    /\ child = NoChild
    /\ sl = [s \in Slaves |-> NoClient] /\ wire = [s \in Slaves |-> <<>>]
    /\ rs = [s \in Slaves |-> "connect"]
    /\ cached = [s \in Slaves |-> NoMaster] /\ master = [s \in Slaves |-> NoMaster]
    /\ initial = [s \in Slaves |-> NoMaster]
    /\ data = [s \in Slaves |-> <<>>]
    /\ hist = <<>> /\ late = [s \in Slaves |-> FALSE] /\ drops = 0

-----------------------------------------------------------------------------
(***************************************************************************)
(* The backlog, a circular buffer.                                         *)
(***************************************************************************)

createReplicationBacklog(off) ==
    [bl EXCEPT !.on = TRUE, !.idx = 0, !.histlen = 0, !.off = off + 2,
               !.buf = [i \in 0..bl.size - 1 |-> Gap]]

\* The old content is dropped, not copied.
resizeReplicationBacklog(n) ==
    /\ n # bl.size /\ drops < MaxDrops
    /\ drops' = drops + 1
    /\ bl' = IF bl.on
               THEN [bl EXCEPT !.size = n, !.idx = 0, !.histlen = 0,
                               !.off = moff + 1, !.buf = [i \in 0..n - 1 |-> Gap]]
               ELSE [bl EXCEPT !.size = n]
    /\ UNCHANGED <<log, runid, moff, seldb, child, sl, wire, replicas, hist, late>>

\* One item is written at idx, which wraps round; off is the offset of the
\* oldest item kept.
feedReplicationBacklog(b, off, item) ==
    LET h == IF b.histlen = b.size THEN b.size ELSE b.histlen + 1
    IN  [b EXCEPT !.buf[b.idx] = item, !.idx = (b.idx + 1) % b.size,
                  !.histlen = h, !.off = off + 1 - h + 1]

\* What a slave gets that asks for the stream from offset o on.
addReplyReplicationBacklog(o) ==
    LET skip  == o - bl.off
        first == (bl.idx + (bl.size - bl.histlen)) % bl.size
    IN  [i \in 1..bl.histlen - skip |-> bl.buf[(first + skip + i - 1) % bl.size]]

\* replicationCron frees it when there has been no slave for a while.
freeReplicationBacklog ==
    /\ bl.on /\ Attached(sl) = {}
    /\ bl' = [bl EXCEPT !.on = FALSE, !.histlen = 0, !.idx = 0, !.buf = <<>>]
    /\ UNCHANGED <<log, runid, moff, seldb, child, sl, wire, replicas, hist, late, drops>>

\* SELECT goes to every slave, even to those that wait for BGSAVE to start;
\* the command itself does not.
replicationFeedSlaves(select, item) ==
    IF ~bl.on /\ Attached(sl) = {}
      THEN UNCHANGED <<moff, seldb, bl, sl, hist>>
      ELSE LET items == IF select /\ seldb # 0 THEN <<Other, item>> ELSE <<item>>
               b1 == feedReplicationBacklog(bl, moff, items[1])
           IN  /\ moff + Len(items) <= MaxOff
               /\ moff' = moff + Len(items)
               /\ seldb' = IF select THEN 0 ELSE seldb
               /\ bl' = IF Len(items) = 1 THEN b1
                        ELSE feedReplicationBacklog(b1, moff + 1, item)
               /\ hist' = hist \o items
               /\ sl' = [s \in Slaves |->
                     CASE sl[s].st = "none"  -> sl[s]
                       [] sl[s].st = "start" ->
                            [sl[s] EXCEPT !.out = @ \o SubSeq(items, 1, Len(items) - 1)]
                       [] OTHER -> [sl[s] EXCEPT !.out = @ \o items]]

Write ==
    /\ log < MaxLog
    /\ log' = log + 1
    /\ replicationFeedSlaves(TRUE, log + 1)
    /\ UNCHANGED <<runid, child, wire, replicas, late, drops>>

\* replicationCron: PING is sent in the database selected last.
Ping ==
    /\ Attached(sl) # {}
    /\ replicationFeedSlaves(FALSE, Other)
    /\ UNCHANGED <<log, runid, child, wire, replicas, late, drops>>

-----------------------------------------------------------------------------
(***************************************************************************)
(* The master: PSYNC, BGSAVE and what follows it.                          *)
(***************************************************************************)

\* Mutant: an item beyond the end of the backlog is taken to be there.
CanContinue_OffByOne(m) ==
    /\ m.id = runid /\ bl.on
    /\ m.off + 1 >= bl.off - 1 /\ m.off + 1 <= bl.off + bl.histlen

\* masterTryPartialResynchronization
CanContinue(m) ==
    /\ m.id = runid /\ bl.on
    /\ m.off + 1 >= bl.off /\ m.off + 1 <= bl.off + bl.histlen

FullOffset == IF bl.on THEN moff ELSE moff + 1

\* startBgsaveForReplication: the child saves the data of this moment; a
\* socket child serves the slaves that wait for it to start.
Started(c) ==
    [s \in Slaves |-> IF c[s].st = "start" THEN [c[s] EXCEPT !.st = "end"] ELSE c[s]]

Forked(c) == [type |-> IF Diskless THEN "socket" ELSE "disk", snap |-> log,
              fds |-> IF Diskless THEN {s \in Slaves : c[s].st = "start"} ELSE {}]

\* syncCommand, full resynchronization: join the slaves that already record
\* the differences since the fork, wait for the next BGSAVE, or start one.
AttachSlave(s) ==
    LET peers == {t \in Slaves : sl[t].st = "end"}
    IN  CASE child.type = "disk" /\ peers # {} ->
               LET t == CHOOSE t \in peers : TRUE
               IN  [sl EXCEPT ![s] = [NoClient EXCEPT !.st = "end", !.out = sl[t].out]]
          [] child.type = "none" /\ ~Diskless ->
               [sl EXCEPT ![s] = [NoClient EXCEPT !.st = "end"]]
          [] OTHER -> [sl EXCEPT ![s] = [NoClient EXCEPT !.st = "start"]]

StartsChild == child.type = "none" /\ ~Diskless

\* The master's half of PSYNC; reply is put before what else is on the wire.
masterPsync(s, m, reply) ==
    IF CanContinue(m)
      THEN /\ sl' = [sl EXCEPT ![s] =
                 [NoClient EXCEPT !.st = "online",
                                  !.out = addReplyReplicationBacklog(m.off + 1)]]
           /\ wire' = [wire EXCEPT ![s] = reply]
           /\ UNCHANGED <<moff, seldb, bl, child, hist, late>>
      ELSE /\ sl' = AttachSlave(s)
           /\ child' = IF StartsChild THEN Forked(sl) ELSE child
           /\ seldb' = -1
           /\ wire' = [wire EXCEPT ![s] = reply]
           /\ late' = [late EXCEPT ![s] = ~StartsChild]
           /\ IF bl.on THEN UNCHANGED <<moff, bl, hist>>
                       ELSE /\ bl' = createReplicationBacklog(moff)
                            /\ moff' = moff + 1
                            /\ hist' = Append(hist, Gap)

\* backgroundSaveDoneHandlerSocket frees the slaves that the child did not report;
\* updateSlavesWaitingBgsave is called when the child has ended.
Served(s, ok) ==
    LET c == sl[s]
        done == ok /\ (child.type = "socket" => s \in child.fds)
    IN  CASE c.st = "start" -> [c EXCEPT !.st = "end"]
          [] c.st = "end" /\ done /\ child.type = "socket" ->
               [c EXCEPT !.st = "online", !.onack = TRUE]
          [] c.st = "end" /\ done /\ child.type # "socket" ->
               [c EXCEPT !.st = "bulk", !.rdb = child.snap]
          [] c.st = "end" /\ ~done -> NoClient
          [] OTHER -> c

\* A socket child that was given no slave ends with an error.
Unserved == child.type = "socket" /\ child.fds = {}

\* Slaves that waited for a start have the next BGSAVE started for them; if
\* that fails they are left waiting for its end.
updateSlavesWaitingBgsave(ok, forks) ==
    /\ child.type # "none"
    /\ ok \/ Unserved \/ drops < MaxDrops
    /\ ok => ~Unserved
    /\ drops' = IF (ok \/ Unserved) /\ forks THEN drops ELSE drops + 1
    /\ sl' = [s \in Slaves |-> Served(s, ok)]
    /\ LET starts == \E s \in Slaves : sl[s].st = "start"
       IN  /\ ~forks => ForkFails /\ starts /\ drops < MaxDrops
           /\ child' = IF starts /\ forks THEN Forked(sl') ELSE NoChild
    /\ wire' = [s \in Slaves |->
          CASE sl[s].st = "end" /\ sl'[s].st = "online" -> Append(wire[s], Bulk(child.snap))
            [] sl[s].st = "end" /\ sl'[s].st = "none" -> <<>>
            [] OTHER -> wire[s]]
    \* a slave that is freed finds its connection closed
    /\ rs' = [s \in Slaves |->
          IF sl[s].st = "end" /\ sl'[s].st = "none" THEN "connect" ELSE rs[s]]
    /\ UNCHANGED <<log, runid, moff, seldb, bl, cached, master, initial, data, hist, late>>

\* Looks for the slaves whose BGSAVE has been started already.
CronBgsave_Started ==
    /\ child.type = "none"
    /\ \E s \in Slaves : sl[s].st = "end"
    /\ child' = Forked(sl)
    /\ sl' = Started(sl)
    /\ UNCHANGED <<log, runid, moff, seldb, bl, wire, replicas, hist, late, drops>>

\* replicationCron starts the BGSAVE of a diskless synchronization, and
\* one that slaves wait for when no child is there.
CronBgsave ==
    /\ child.type = "none"
    /\ \E s \in Slaves : sl[s].st = "start"
    /\ child' = Forked(sl)
    /\ sl' = Started(sl)
    /\ UNCHANGED <<log, runid, moff, seldb, bl, wire, replicas, hist, late, drops>>

\* BGSAVE by a user or by the save points.
bgsaveCommand ==
    /\ UserBgsave /\ child.type = "none" /\ drops < MaxDrops
    /\ child' = [type |-> "disk", snap |-> log, fds |-> {}]
    /\ drops' = drops + 1
    /\ UNCHANGED <<log, runid, moff, seldb, bl, sl, wire, replicas, hist, late>>

\* sendBulkToSlave sends the file; putSlaveOnline lets the queue go.
sendBulkToSlave(s) ==
    /\ sl[s].st = "bulk"
    /\ wire' = [wire EXCEPT ![s] = Append(@, Bulk(sl[s].rdb))]
    /\ sl' = [sl EXCEPT ![s].st = "online"]
    /\ UNCHANGED <<log, runid, moff, seldb, bl, child, replicas, hist, late, drops>>

\* sendReplyToClient
SendReplies(s) ==
    /\ sl[s].st = "online" /\ ~sl[s].onack /\ sl[s].out # <<>>
    /\ wire' = [wire EXCEPT ![s] = @ \o [i \in 1..Len(sl[s].out) |-> Item(sl[s].out[i])]]
    /\ sl' = [sl EXCEPT ![s].out = <<>>]
    /\ UNCHANGED <<log, runid, moff, seldb, bl, child, replicas, hist, late, drops>>

\* REPLCONF ACK, which replicationSendAck sends every second and on GETACK.
replconfAck(s) ==
    /\ sl[s].st # "none" /\ master[s] # NoMaster /\ master[s].off >= 0
    /\ sl' = [sl EXCEPT ![s].ack = IF master[s].off > @ THEN master[s].off ELSE @,
                        ![s].onack = IF sl[s].st = "online" THEN FALSE ELSE @]
    /\ sl' # sl
    /\ UNCHANGED <<log, runid, moff, seldb, bl, child, wire, replicas, hist, late, drops>>

-----------------------------------------------------------------------------
(***************************************************************************)
(* The slave.                                                              *)
(***************************************************************************)

connectWithMaster(s) ==
    /\ rs[s] = "connect"
    /\ rs' = [rs EXCEPT ![s] = "connecting"]
    /\ UNCHANGED <<log, runid, moff, seldb, bl, child, sl, wire, cached, master,
                   initial, data, hist, late, drops>>

\* syncWithMaster, called when connected: PING, then wait for PONG.
SendPing(s) ==
    /\ rs[s] = "connecting"
    /\ rs' = [rs EXCEPT ![s] = "pong"]
    /\ UNCHANGED <<log, runid, moff, seldb, bl, child, sl, wire, cached, master,
                   initial, data, hist, late, drops>>

\* slaveTryPartialResynchronization with its answer in time.
TryPartial(s) ==
    /\ rs[s] = "pong" /\ sl[s].st = "none"
    /\ IF CanContinue(cached[s])
         THEN /\ rs' = [rs EXCEPT ![s] = "connected"]
              /\ master' = [master EXCEPT ![s] = cached[s]]
              /\ initial' = [initial EXCEPT ![s] = NoMaster]
         ELSE /\ rs' = [rs EXCEPT ![s] = "transfer"]
              /\ initial' = [initial EXCEPT ![s] = [id |-> runid, off |-> FullOffset]]
              /\ UNCHANGED master
    /\ cached' = [cached EXCEPT ![s] = NoMaster]
    /\ masterPsync(s, cached[s], <<>>)
    /\ UNCHANGED <<log, runid, data, drops>>

\* The answer is late: the slave falls back to SYNC, which the master
\* ignores from its slave, and finds the answer where the file should be.
TryPartialTimeout(s) ==
    /\ rs[s] = "pong" /\ sl[s].st = "none"
    /\ drops < MaxDrops
    /\ rs' = [rs EXCEPT ![s] = "transfer"]
    /\ initial' = [initial EXCEPT ![s] = NoMaster]
    /\ cached' = [cached EXCEPT ![s] = NoMaster]
    /\ masterPsync(s, cached[s], <<Status>>)
    /\ drops' = drops + 1
    /\ UNCHANGED <<log, runid, master, data>>

Abort(s) ==
    /\ rs' = [rs EXCEPT ![s] = "connect"]
    /\ cached' = [cached EXCEPT ![s] = NoMaster]
    /\ sl' = [sl EXCEPT ![s] = NoClient]
    /\ wire' = [wire EXCEPT ![s] = <<>>]

\* The file is complete: the old data goes, the new is loaded, and the
\* stream is taken to start at the offset FULLRESYNC named.
LoadBulk(s) ==
    /\ data' = [data EXCEPT ![s] = Upto(Head(wire[s]).snap)]
    /\ master' = [master EXCEPT ![s] = initial[s]]

readSyncBulkPayload(s) ==
    /\ rs[s] = "transfer" /\ wire[s] # <<>>
    /\ IF Head(wire[s]).kind = "bulk"
         THEN /\ LoadBulk(s)
              /\ rs' = [rs EXCEPT ![s] = "connected"]
              /\ wire' = [wire EXCEPT ![s] = Tail(@)]
              /\ UNCHANGED <<cached, sl>>
         ELSE Abort(s) /\ UNCHANGED <<data, master>>
    /\ UNCHANGED <<log, runid, moff, seldb, bl, child, initial, hist, late, drops>>

\* readQueryFromClient: a command of the stream is applied and counted.
ApplyItem(s) ==
    /\ rs[s] = "connected" /\ wire[s] # <<>>
    /\ LET i == Head(wire[s]).item
       IN  data' = [data EXCEPT ![s] = IF i > 0 THEN Append(@, i) ELSE @]
    /\ master' = [master EXCEPT ![s].off = @ + 1]
    /\ wire' = [wire EXCEPT ![s] = Tail(@)]
    /\ UNCHANGED <<log, runid, moff, seldb, bl, child, sl, rs, cached, initial, hist, late, drops>>

\* replicationCacheMaster, or the end of a transfer.
CacheMaster(s) ==
    /\ cached' = [cached EXCEPT ![s] =
          IF rs[s] = "connected" THEN master[s]
          ELSE IF rs[s] = "transfer" THEN NoMaster ELSE @]

\* The connection is lost, or one end timed out: what was written and not
\* read is gone.
LinkDown(s) ==
    /\ drops < MaxDrops
    /\ rs[s] # "connect"
    /\ CacheMaster(s)
    /\ rs' = [rs EXCEPT ![s] = "connect"]
    /\ master' = [master EXCEPT ![s] = NoMaster]
    /\ sl' = [sl EXCEPT ![s] = NoClient]
    /\ wire' = [wire EXCEPT ![s] = <<>>]
    /\ drops' = drops + 1
    /\ UNCHANGED <<log, runid, moff, seldb, bl, child, initial, data, hist, late>>

\* SLAVEOF elsewhere and back: no PSYNC with what is left.
replicationSetMaster(s) ==
    /\ drops < MaxDrops
    /\ Abort(s)
    /\ master' = [master EXCEPT ![s] = NoMaster]
    /\ drops' = drops + 1
    /\ UNCHANGED <<log, runid, moff, seldb, bl, child, initial, data, hist, late>>

\* The master restarts with its data: a new run id and no backlog.
RestartMaster ==
    /\ drops < MaxDrops
    /\ drops' = drops + 1
    /\ runid' = runid + 1 /\ moff' = 0 /\ seldb' = -1 /\ hist' = <<>>
    /\ bl' = [bl EXCEPT !.on = FALSE, !.histlen = 0, !.idx = 0, !.buf = <<>>]
    /\ child' = NoChild
    /\ sl' = [s \in Slaves |-> NoClient] /\ wire' = [s \in Slaves |-> <<>>]
    /\ cached' = [s \in Slaves |->
          IF rs[s] = "connected" THEN master[s]
          ELSE IF rs[s] = "transfer" THEN NoMaster ELSE cached[s]]
    /\ master' = [s \in Slaves |-> NoMaster]
    /\ rs' = [s \in Slaves |-> "connect"]
    /\ UNCHANGED <<log, initial, data, late>>

-----------------------------------------------------------------------------

MasterStep ==
    \/ updateSlavesWaitingBgsave(~Unserved, TRUE) \/ CronBgsave
    \/ \E s \in Slaves : sendBulkToSlave(s) \/ SendReplies(s) \/ replconfAck(s)

SlaveStep(s) ==
    \/ connectWithMaster(s) \/ SendPing(s) \/ TryPartial(s)
    \/ readSyncBulkPayload(s) \/ ApplyItem(s)

Fault ==
    \/ updateSlavesWaitingBgsave(FALSE, TRUE) \/ bgsaveCommand \/ RestartMaster
    \/ updateSlavesWaitingBgsave(TRUE, FALSE)
    \/ \E s \in Slaves : TryPartialTimeout(s) \/ LinkDown(s) \/ replicationSetMaster(s)

Next ==
    \/ Write \/ Ping \/ MasterStep \/ Fault \/ freeReplicationBacklog
    \/ \E n \in Sizes : resizeReplicationBacklog(n)
    \/ \E s \in Slaves : SlaveStep(s)

\* Both event loops and replicationCron run on.
Weak(i) == i = 1 /\ MasterStep
WeakSlave(s) == SlaveStep(s)
Spec == Init /\ [][Next]_vars

-----------------------------------------------------------------------------
(***************************************************************************)
(* Properties.                                                             *)
(***************************************************************************)

(***************************************************************************)
(* The backlog holds the last histlen items of the stream: what             *)
(* addReplyReplicationBacklog sends for an offset is the stream from there. *)
(***************************************************************************)
BacklogIsTail ==
    bl.on =>
        /\ bl.off + bl.histlen = moff + 1
        /\ \A o \in bl.off..moff :
              addReplyReplicationBacklog(o) = SubSeq(hist, o, moff)

\* The file, if it is on the wire, is in front of the stream.
Loading(s) == wire[s] # <<>> /\ Head(wire[s]).kind = "bulk"
InFlight(s) ==
    LET items == IF Loading(s) THEN Tail(wire[s]) ELSE wire[s]
    IN  [i \in 1..Len(items) |-> items[i].item] \o sl[s].out

Base(s) ==
    CASE sl[s].st = "end"  -> Upto(child.snap)
      [] sl[s].st = "bulk" -> Upto(sl[s].rdb)
      [] sl[s].st = "online" /\ Loading(s) -> Upto(Head(wire[s]).snap)
      [] OTHER -> data[s]

Follows(s) ==
    /\ sl[s].st \in {"end", "bulk", "online"} /\ rs[s] \in {"transfer", "connected"}
    /\ ~\E i \in 1..Len(wire[s]) : wire[s][i].kind = "status"

(***************************************************************************)
(* Once it has taken what is queued for it, an attached slave has exactly   *)
(* the master's data: snapshot, queue and stream leave out nothing and      *)
(* repeat nothing, whatever BGSAVE served it and however often the link     *)
(* went down.                                                               *)
(***************************************************************************)
NothingLostOrRepeated ==
    \A s \in Slaves : Follows(s) => Base(s) \o Writes(InFlight(s)) = Upto(log)

\* The same for slaves whose offset was the one of their snapshot.
ExactSlavesConsistent ==
    \A s \in Slaves :
        Follows(s) /\ ~late[s] => Base(s) \o Writes(InFlight(s)) = Upto(log)

(***************************************************************************)
(* The offset a slave has counted is the one of the master's stream it has  *)
(* reached, so that PSYNC asks for the right place; slaves that came while  *)
(* another BGSAVE was on are left out, see NothingLostOrRepeated.           *)
(***************************************************************************)
OffsetExact ==
    \A s \in Slaves :
        rs[s] = "connected" /\ sl[s].st = "online" /\ ~late[s]
          /\ (\A i \in 1..Len(wire[s]) : wire[s][i].kind = "item")
        => master[s].off + Len(InFlight(s)) = moff

(***************************************************************************)
(* An offset a slave has acknowledged is one it has processed: WAIT counts  *)
(* only slaves that have the write.                                         *)
(***************************************************************************)
AckMeansProcessed ==
    \A s \in Slaves :
        Follows(s) /\ sl[s].ack > 0 /\ sl[s].ack <= moff =>
            \A o \in 1..sl[s].ack : hist[o] > 0 => \E i \in 1..Len(data[s]) : data[s][i] = hist[o]

(***************************************************************************)
(* Faults being finitely many, every slave is connected in the end and has  *)
(* taken all that was sent to it.                                           *)
(***************************************************************************)
Settled == \A s \in Slaves : rs[s] = "connected" /\ sl[s].st = "online" /\ InFlight(s) = <<>>
=============================================================================
