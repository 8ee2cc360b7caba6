-------------------------------- MODULE Aof --------------------------------
(***************************************************************************)
(* The append only file (aof.c): the buffer and the ways it gets to the     *)
(* disk, the rewriting child with its two pipes, the switch to the new file, *)
(* AOF switched off and on, write errors, crashes and the load after them.  *)
(*                                                                         *)
(* The dataset is the sequence of the commands run; only the database each  *)
(* was run in is kept.  Files and buffers hold entries: a SELECT, a command *)
(* by its number, or a snapshot of the first n commands; each is two bytes, *)
(* so that a write may end in its middle.                                   *)
(***************************************************************************)
EXTENDS Integers, Sequences

CONSTANTS Dbs, Policy,   \* appendfsync: "always", "everysec" or "no"
          MaxCmds, MaxFaults, MaxRewrites, MaxSwitches, MaxCrashes, \* bounds
          PowerFails,       \* does a crash lose what is not synced?
          CrashInSwap,      \* may it happen inside the switch of the files?
          StartInRewrite    \* appendonly yes during a rewrite started without AOF?

AofAssumption ==
    /\ Policy \in {"always", "everysec", "no"} /\ Dbs \subseteq Nat
    /\ {MaxCmds, MaxFaults, MaxRewrites, MaxSwitches, MaxCrashes} \subseteq Nat
    /\ {PowerFails, CrashInSwap, StartInRewrite} \subseteq BOOLEAN

VARIABLES
    hist,   \* the database of each command run
    aof,    \* server.aof_*: see Fresh
    file, synced,  \* the append only file and how much of it is on the disk
    jobs,   \* fsync jobs of the background thread: for the current or an old file
    child, pipe, rwbuf, \* the rewriting child, the data pipe, aof_rewrite_buf_blocks
    swap,   \* is the switch to the new file between rename and the new descriptor?
    acked,  \* commands whose clients have their reply
    ghost   \* history: acknowledged commands lost, a foreign descriptor closed; bounds

disk == <<file, synced>>
rewrite == <<child, pipe, rwbuf>>
vars == <<hist, aof, disk, jobs, rewrite, swap, acked, ghost>>

Bytes(e) == <<<<e, 1>>, <<e, 2>>>>
Fresh == [state |-> "on", fd |-> "open", sel |-> -1, buf |-> <<>>, size |-> 0, err |-> FALSE,
          post |-> "no",      \* aof_flush_postponed_start: 0, less or more than two seconds ago
          newsec |-> FALSE,   \* unixtime > aof_last_fsync
          sched |-> FALSE, stop |-> FALSE]
NoChild == [stage |-> "none", snap |-> 0, diff |-> <<>>]

-----------------------------------------------------------------------------
(* loadAppendOnlyFile                                                       *)

WellFormed(b) == \A i \in 1..Len(b) : /\ b[i][2] = 2 - (i % 2)
                                      /\ i % 2 = 0 => b[i][1] = b[i - 1][1]
Dataset(n) == [i \in 1..n |-> <<i, hist[i]>>]
Run(s, e) == CASE e[1] = "sel"  -> [s EXCEPT !.db = e[2]]
               [] e[1] = "cmd"  -> [s EXCEPT !.out = Append(@, <<e[2], s.db>>)]
               [] e[1] = "snap" -> [db |-> -1, out |-> Dataset(e[2])]
\* The commands run; an incomplete one at the end is cut off (aof-load-truncated).
Load(b) ==
    LET n == Len(b) \div 2
        loaded[i \in 0..n] == IF i = 0 THEN [db |-> 0, out |-> <<>>] ELSE Run(loaded[i - 1], b[2 * i][1])
    IN  loaded[n].out
Rebuilds(b) == WellFormed(b) /\ Len(b) % 2 = 0 /\ Load(b) = Dataset(Len(hist))

-----------------------------------------------------------------------------
(* Writing                                                                  *)

\* feedAppendOnlyFile: to the buffer, and to the child's if there is one.
feedAppendOnlyFile(d) ==
    LET b == (IF aof.sel = d THEN <<>> ELSE Bytes(<<"sel", d>>)) \o Bytes(<<"cmd", Len(hist) + 1>>)
    IN  /\ aof' = [aof EXCEPT !.sel = d, !.buf = IF aof.state = "on" THEN @ \o b ELSE @]
        /\ rwbuf' = IF child.stage # "none" THEN rwbuf \o b ELSE rwbuf

\* A write command; refused while the last write to the file has failed.
Call(d) ==
    /\ Len(hist) < MaxCmds /\ ~aof.err /\ swap = "no"
    /\ hist' = Append(hist, d)
    /\ \/ aof.state # "off" /\ feedAppendOnlyFile(d)
       \/ aof.state = "off" /\ UNCHANGED <<aof, rwbuf>>
    /\ UNCHANGED <<disk, jobs, child, pipe, swap, acked, ghost>>

Fault == ghost.faults < MaxFaults
Syncing == Policy = "everysec" /\ jobs # <<>>

\* The write of the whole buffer, and the fsync that goes with it.
Written ==
    LET sync == Policy = "everysec" /\ aof.newsec
    IN  /\ file' = file \o aof.buf
        /\ synced' = IF Policy = "always" THEN Len(file') ELSE synced
        /\ aof' = [aof EXCEPT !.buf = <<>>, !.size = @ + Len(aof.buf), !.err = FALSE, !.post = "no",
                              !.newsec = @ /\ ~sync]
        /\ jobs' = IF sync /\ ~Syncing THEN Append(jobs, "cur") ELSE jobs
        /\ UNCHANGED ghost

\* A short write of n bytes: cut off again (back to aof_current_size), or kept.  With
\* "always" the server exits instead: see ExitOnError.
ShortWrite(n, cut) ==
    /\ aof' = [aof EXCEPT !.size = IF cut THEN @ ELSE @ + n, !.err = TRUE, !.post = "no",
                          !.buf = IF cut THEN @ ELSE SubSeq(@, n + 1, Len(@))]
    /\ file' = IF cut THEN SubSeq(file, 1, aof.size) ELSE file \o SubSeq(aof.buf, 1, n)

\* flushAppendOnlyFile
flushAppendOnlyFile(force) ==
    LET postpone == Syncing /\ ~force /\ aof.post # "long"
    IN  \/ aof.buf = <<>> /\ UNCHANGED <<aof, disk, jobs, ghost>>
        \/ /\ aof.buf # <<>> /\ postpone
           /\ aof' = [aof EXCEPT !.post = IF @ = "no" THEN "recent" ELSE @]
           /\ UNCHANGED <<disk, jobs, ghost>>
        \/ aof.buf # <<>> /\ ~postpone /\ Written
        \/ /\ aof.buf # <<>> /\ ~postpone /\ Fault /\ Policy # "always"
           /\ \E n \in 0..(Len(aof.buf) - 1), cut \in BOOLEAN : ShortWrite(n, cut)
           /\ ghost' = [ghost EXCEPT !.faults = @ + 1]
           /\ UNCHANGED <<synced, jobs>>

\* beforeSleep; then the replies are sent.
beforeSleep ==
    /\ swap = "no" /\ aof.fd = "open" /\ (aof.buf # <<>> \/ acked < Len(hist))
    /\ flushAppendOnlyFile(FALSE) /\ acked' = Len(hist)
    /\ UNCHANGED <<hist, rewrite, swap>>

\* With AOF off nothing is written before the replies.
Replies ==
    /\ swap = "no" /\ aof.fd # "open" /\ acked < Len(hist) /\ acked' = Len(hist)
    /\ UNCHANGED <<hist, aof, disk, jobs, rewrite, swap, ghost>>

\* serverCron: a postponed flush, or one that failed.
CronFlush ==
    /\ swap = "no" /\ (aof.post # "no" \/ aof.err) /\ aof.fd = "open"
    /\ flushAppendOnlyFile(FALSE)
    /\ UNCHANGED <<hist, rewrite, swap, acked>>

Tick ==
    /\ aof.newsec = FALSE \/ aof.post = "recent"
    /\ aof' = [aof EXCEPT !.newsec = TRUE, !.post = IF @ = "recent" THEN "long" ELSE @]
    /\ UNCHANGED <<hist, disk, jobs, rewrite, swap, acked, ghost>>

\* The background thread's fsync.
BioFsync ==
    /\ jobs # <<>> /\ jobs' = Tail(jobs)
    /\ synced' = IF Head(jobs) = "cur" THEN Len(file) ELSE synced
    /\ UNCHANGED <<hist, aof, file, rewrite, swap, acked, ghost>>

-----------------------------------------------------------------------------
(* Rewriting                                                                *)

\* fork: the differences must start with a SELECT.
Forked(a) == [a EXCEPT !.sel = -1, !.sched = FALSE, !.stop = FALSE]

\* rewriteAppendOnlyFileBackground, by BGREWRITEAOF or by the cron.
rewriteAppendOnlyFileBackground ==
    /\ child = NoChild /\ swap = "no" /\ (aof.sched \/ ghost.rewrites < MaxRewrites)
    /\ aof' = Forked(aof) /\ pipe' = <<>>
    /\ child' = [NoChild EXCEPT !.stage = "saving", !.snap = Len(hist)]
    /\ ghost' = [ghost EXCEPT !.rewrites = IF aof.sched THEN @ ELSE @ + 1]
    /\ UNCHANGED <<hist, disk, jobs, rwbuf, swap, acked>>

\* aofChildWriteDiffData: as much as the pipe takes.
aofChildWriteDiffData ==
    /\ child.stage # "none" /\ ~aof.stop /\ rwbuf # <<>>
    /\ \E n \in {1, Len(rwbuf)} :
          pipe' = pipe \o SubSeq(rwbuf, 1, n) /\ rwbuf' = SubSeq(rwbuf, n + 1, Len(rwbuf))
    /\ UNCHANGED <<hist, aof, disk, jobs, child, swap, acked, ghost>>

aofReadDiffFromParent ==
    /\ child.stage = "saving" /\ pipe # <<>>
    /\ child' = [child EXCEPT !.diff = @ \o pipe] /\ pipe' = <<>>
    /\ UNCHANGED <<hist, aof, disk, jobs, rwbuf, swap, acked, ghost>>

ChildAsks ==
    /\ child.stage = "saving" /\ child' = [child EXCEPT !.stage = "asked"]
    /\ UNCHANGED <<hist, aof, disk, jobs, pipe, rwbuf, swap, acked, ghost>>

\* The parent stops sending and agrees.
aofChildPipeReadable ==
    /\ child.stage = "asked" /\ child' = [child EXCEPT !.stage = "agreed"]
    /\ aof' = [aof EXCEPT !.stop = TRUE]
    /\ UNCHANGED <<hist, disk, jobs, pipe, rwbuf, swap, acked, ghost>>

\* The child reads what is left, writes, syncs and exits.
ChildExits ==
    /\ child.stage = "agreed"
    /\ child' = [child EXCEPT !.diff = @ \o pipe, !.stage = "done"] /\ pipe' = <<>>
    /\ UNCHANGED <<hist, aof, disk, jobs, rwbuf, swap, acked, ghost>>

\* A write error, a signal or no answer from the parent.
ChildFails ==
    /\ child.stage \in {"saving", "asked", "agreed"} /\ Fault
    /\ child' = [child EXCEPT !.stage = "failed"] /\ ghost' = [ghost EXCEPT !.faults = @ + 1]
    /\ UNCHANGED <<hist, aof, disk, jobs, pipe, rwbuf, swap, acked>>

Cleanup == child' = NoChild /\ pipe' = <<>> /\ rwbuf' = <<>>
Reschedule(a) == [a EXCEPT !.sched = (a.state = "wait")]

\* backgroundRewriteDoneHandler: the child failed, or what it wrote cannot be completed.
RewriteFailed ==
    /\ swap = "no" /\ Cleanup /\ aof' = Reschedule(aof)
    /\ \/ child.stage = "failed" /\ UNCHANGED ghost
       \/ child.stage = "done" /\ Fault /\ ghost' = [ghost EXCEPT !.faults = @ + 1]
    /\ UNCHANGED <<hist, disk, jobs, swap, acked>>

\* The rest of the differences is written and the file renamed ...
RewriteRename ==
    LET new == Bytes(<<"snap", child.snap>>) \o child.diff
    IN  /\ child.stage = "done" /\ swap = "no"
        /\ file' = new \o rwbuf /\ synced' = Len(new) /\ swap' = "renamed"
        /\ jobs' = [i \in DOMAIN jobs |-> "old"]
        /\ UNCHANGED <<hist, aof, rewrite, acked, ghost>>

\* ... and the descriptor switched; what the buffer holds is in the new file.
Switched_KeepsBuf == [Reschedule(aof) EXCEPT !.fd = "open", !.sel = -1, !.size = Len(file),
                              !.state = IF @ = "wait" THEN "on" ELSE @, !.sched = FALSE]
Switched == [Reschedule(aof) EXCEPT !.fd = "open", !.sel = -1, !.buf = <<>>, !.size = Len(file),
                              !.state = IF @ = "wait" THEN "on" ELSE @, !.sched = FALSE]
RewriteDone ==
    /\ swap = "renamed" /\ swap' = "no" /\ Cleanup
    /\ \/ aof.fd = "none" /\ UNCHANGED <<aof, synced, jobs, ghost>>
       \/ /\ aof.fd # "none" /\ aof' = Switched
          /\ synced' = IF Policy = "always" THEN Len(file) ELSE synced
          /\ jobs' = IF Policy = "everysec" THEN Append(jobs, "cur") ELSE jobs
          /\ ghost' = [ghost EXCEPT !.foreign = @ \/ aof.fd = "stale"]
    /\ UNCHANGED <<hist, file, acked>>

-----------------------------------------------------------------------------
(* AOF off and on                                                           *)

\* stopAppendOnly: a last flush, whatever is pending, and the child is killed.
stopAppendOnly ==
    LET off == [aof EXCEPT !.state = "off", !.fd = "none", !.sel = -1, !.post = "no"]
    IN  /\ aof.state # "off" /\ swap = "no" /\ ghost.switches < MaxSwitches /\ Cleanup
        /\ \/ /\ file' = file \o aof.buf
              /\ aof' = [off EXCEPT !.buf = <<>>, !.err = (@ /\ aof.buf = <<>>), !.size = Len(file')]
              /\ ghost' = [ghost EXCEPT !.switches = @ + 1]
           \/ /\ aof.buf # <<>> /\ Fault /\ Policy # "always"
              /\ aof' = [off EXCEPT !.err = TRUE] /\ UNCHANGED file
              /\ ghost' = [ghost EXCEPT !.switches = @ + 1, !.faults = @ + 1]
        /\ synced' = Len(file')
        /\ UNCHANGED <<hist, jobs, swap, acked>>

\* startAppendOnly: the file is opened, and a child must rewrite it.
startAppendOnly ==
    /\ aof.state = "off" /\ swap = "no" /\ ghost.switches < MaxSwitches
    /\ \/ /\ child = NoChild
          /\ aof' = [Forked(aof) EXCEPT !.fd = "open", !.state = "wait", !.size = Len(file)]
          /\ child' = [NoChild EXCEPT !.stage = "saving", !.snap = Len(hist)]
          /\ ghost' = [ghost EXCEPT !.switches = @ + 1]
       \* No child: the descriptor is closed but not forgotten.
       \/ /\ StartInRewrite /\ child # NoChild
          /\ aof' = [aof EXCEPT !.fd = "stale"]
          /\ ghost' = [ghost EXCEPT !.switches = @ + 1] /\ UNCHANGED child
    /\ UNCHANGED <<hist, disk, jobs, pipe, rwbuf, swap, acked>>

-----------------------------------------------------------------------------
\* A crash and the start after it: the file is loaded and, if need be, cut.
Restart(b) ==
    LET kept == SubSeq(b, 1, 2 * (Len(b) \div 2))
        n == Len(Load(kept))
    IN  /\ file' = kept /\ synced' = Len(kept) /\ jobs' = <<>> /\ Cleanup /\ swap' = "no"
        /\ aof' = [Fresh EXCEPT !.size = Len(kept)]
        /\ hist' = SubSeq(hist, 1, n) /\ acked' = IF acked < n THEN acked ELSE n
        /\ ghost' = [ghost EXCEPT !.crashes = @ + 1,
                                  !.lost = IF acked > n THEN acked - n ELSE 0]

Crash ==
    /\ ghost.crashes < MaxCrashes /\ aof.state = "on" /\ (CrashInSwap \/ swap = "no")
    /\ \E n \in (IF PowerFails THEN synced ELSE Len(file))..Len(file) : Restart(SubSeq(file, 1, n))

\* With "always" a failed write is the end.
ExitOnError ==
    /\ Policy = "always" /\ aof.buf # <<>> /\ swap = "no" /\ ghost.crashes < MaxCrashes
    /\ \E n \in 0..(Len(aof.buf) - 1) : Restart(file \o SubSeq(aof.buf, 1, n))

-----------------------------------------------------------------------------
Init ==
    /\ hist = <<>> /\ aof = Fresh /\ file = <<>> /\ synced = 0 /\ jobs = <<>>
    /\ child = NoChild /\ pipe = <<>> /\ rwbuf = <<>> /\ swap = "no" /\ acked = 0
    /\ ghost = [lost |-> 0, foreign |-> FALSE, faults |-> 0, rewrites |-> 0, switches |-> 0, crashes |-> 0]

Child == aofReadDiffFromParent \/ ChildAsks \/ ChildExits
Handler == aofChildPipeReadable \/ RewriteFailed \/ RewriteRename \/ RewriteDone
CronRewrite == aof.sched /\ rewriteAppendOnlyFileBackground

Next ==
    \/ \E d \in Dbs : Call(d)
    \/ beforeSleep
    \/ Replies
    \/ CronFlush
    \/ Tick
    \/ BioFsync
    \/ rewriteAppendOnlyFileBackground
    \/ aofChildWriteDiffData
    \/ aofReadDiffFromParent
    \/ ChildAsks
    \/ aofChildPipeReadable
    \/ ChildExits
    \/ ChildFails
    \/ RewriteFailed
    \/ RewriteRename
    \/ RewriteDone
    \/ stopAppendOnly
    \/ startAppendOnly
    \/ Crash
    \/ ExitOnError

Spec == Init /\ [][Next]_vars

\* The event loop, its cron and the background thread go on, and so does the child.
Weak(i) ==
    \/ i = 1 /\ beforeSleep
    \/ i = 2 /\ CronFlush
    \/ i = 3 /\ Tick
    \/ i = 4 /\ BioFsync
    \/ i = 5 /\ Child
    \/ i = 6 /\ Handler
    \/ i = 7 /\ CronRewrite

-----------------------------------------------------------------------------
\* The states are the known ones, the descriptor is open unless AOF is off, and
\* aof_current_size, to which a short write is cut back, is the size of the file.
TypeOK ==
    /\ hist \in Seq(Dbs) /\ aof.state \in {"on", "wait", "off"} /\ swap \in {"no", "renamed"}
    /\ acked \in 0..Len(hist) /\ synced \in 0..Len(file)
    /\ child.stage \in {"none", "saving", "asked", "agreed", "done", "failed"}
    /\ aof.state = "on" /\ swap = "no" => aof.size = Len(file)

\* With AOF on, the file and what is still to be written to it rebuild the dataset: every
\* command once, in its order, in its database, also after short writes and rewrites.
NothingLost == aof.state = "on" /\ swap = "no" => Rebuilds(file \o aof.buf)

\* So do, during a rewrite, what the child has and what is on its way to it.
RewriteComplete ==
    child.stage \notin {"none", "failed"} /\ aof.state # "off" =>
        Rebuilds(Bytes(<<"snap", child.snap>>) \o child.diff \o pipe \o rwbuf)

\* "On acknowledged write data is synced on disk" (aof.c:375, for appendfsync always): no
\* crash loses a command that was answered.
AckedSurvive == ghost.lost = 0

\* The only descriptor the handler of a finished rewrite closes is the AOF's own: aof_fd is
\* -1 when AOF is disabled (aof.c:1426).
OwnDescriptor == ~ghost.foreign

\* AOF has been switched on and is not on yet: not for ever, if rewriting does not fail for ever.
Unfinished(k) == k = 1 /\ aof.state = "wait"

\* What is written to the file gets to the disk ("Redis can lose just one second of
\* writes", redis.conf:493).
EventuallySynced == synced < Len(file) ~> synced = Len(file)

\* After a write error that does not last the server accepts writes again ("clear the AOF
\* error in case of success to make the DB writable again", redis.c:1230).
WritableAgain == aof.err ~> ~aof.err
=============================================================================
