------------------------------ MODULE RdbSave -------------------------------
(***************************************************************************)
(* Snapshots on disk: SAVE, BGSAVE and its child, the save points, the      *)
(* snapshots that FLUSHALL and SHUTDOWN take, the file that a slave gets    *)
(* from its master (rdb.c, serverCron and prepareForShutdown in redis.c,    *)
(* readSyncBulkPayload in replication.c), with write errors, signals and    *)
(* crashes.                                                                *)
(*                                                                         *)
(* The data set is the number of the last write.  A child's temporary file   *)
(* holds part of a snapshot until it is complete, and what it holds is what   *)
(* its rename makes of dump.rdb.  A synchronous save is one step: the server  *)
(* does nothing else, and nobody sees its temporary file before the rename.   *)
(***************************************************************************)
EXTENDS Integers, FiniteSets

CONSTANTS
    Changes,    \* the save point: after so many changes ...
    Seconds,    \* ... and more than so many seconds
    RetryDelay, \* REDIS_BGSAVE_RETRY_DELAY
    Events,     \* what happens besides writes: "save", "bgsave", "cron", "flushall", "shutdown", "resync"
    MaxWrites,  \* bound: writes
    MaxAge,     \* bound: seconds that are told apart
    MaxFaults   \* bound: write errors, failed forks, signals and crashes

RdbSaveAssumption ==
    /\ Changes \in Nat \ {0} /\ Seconds \in Nat /\ RetryDelay \in Nat
    /\ MaxWrites \in Nat /\ MaxAge \in Nat /\ MaxFaults \in Nat

VARIABLES
    data,     \* the data set in memory
    writes,   \* number of the last write
    file,     \* what dump.rdb holds
    dirty,    \* server.dirty
    before,   \* server.dirty_before_bgsave
    child,    \* the child: [st, snap, sig, temp], temp is what its temporary file holds
    last,     \* [save, try, status]: seconds since lastsave and lastbgsave_try, lastbgsave_status
    faults,
    run,      \* "up", "loading" (a slave, between the rename and rdbLoad), "down"
    sent      \* the master's data set that a resynchronization brings

vars == <<data, writes, file, dirty, before, child, last, faults, run, sent>>

Partial == -1                                   \* a file that is not complete
NoChild == [st |-> "none", snap |-> 0, sig |-> "no", temp |-> Partial]
Up == run = "up"
Fault == faults < MaxFaults /\ faults' = faults + 1

-----------------------------------------------------------------------------
(* The parent                                                               *)

write ==
    /\ Up /\ writes < MaxWrites
    /\ writes' = writes + 1 /\ data' = writes + 1 /\ dirty' = dirty + 1
    /\ UNCHANGED <<file, before, child, last, faults, run, sent>>
Older(x) == IF x < MaxAge THEN x + 1 ELSE x
tick ==
    /\ last' = [last EXCEPT !.save = Older(@), !.try = Older(@)]
    /\ UNCHANGED <<data, writes, file, dirty, before, child, faults, run, sent>>

\* rdbSave: the file changes by rename when everything is written.
rdbSaved == [last EXCEPT !.save = 0, !.status = "ok"]
saveCommand(ok) ==
    /\ Up /\ "save" \in Events /\ child.st = "none"
    /\ IF ok THEN file' = data /\ dirty' = 0 /\ last' = rdbSaved /\ UNCHANGED faults
       ELSE Fault /\ UNCHANGED <<file, dirty, last>>
    /\ UNCHANGED <<data, writes, before, child, run, sent>>

rdbSaveBackground(ok) ==
    /\ before' = dirty
    /\ last' = [last EXCEPT !.try = 0, !.status = IF ok THEN @ ELSE "err"]
    /\ IF ok THEN child' = [st |-> "write", snap |-> data, sig |-> "no", temp |-> Partial] /\ UNCHANGED faults
       ELSE Fault /\ UNCHANGED child
    /\ UNCHANGED <<data, writes, file, dirty, run, sent>>
bgsaveCommand(ok) == Up /\ "bgsave" \in Events /\ child.st = "none" /\ rdbSaveBackground(ok)
SavePoint ==
    /\ dirty >= Changes /\ last.save > Seconds
    /\ last.try > RetryDelay \/ last.status = "ok"
cronSave(ok) == Up /\ "cron" \in Events /\ child.st = "none" /\ SavePoint /\ rdbSaveBackground(ok)

\* kill(SIGUSR1): a child that has ended already does not notice.
Killed == IF child.st \in {"none", "exit0", "exit1", "signal"} THEN child
          ELSE [child EXCEPT !.st = "signal", !.sig = "usr1"]
flushallCommand(ok) ==
    /\ Up /\ "flushall" \in Events /\ writes < MaxWrites
    /\ writes' = writes + 1 /\ data' = writes + 1 /\ dirty' = dirty + 1
    /\ child' = Killed
    /\ IF ok THEN file' = data' /\ last' = rdbSaved /\ UNCHANGED faults
       ELSE Fault /\ UNCHANGED <<file, last>>
    /\ UNCHANGED <<before, run, sent>>
\* prepareForShutdown; when it cannot save it goes on.
prepareForShutdown_NoKill(ok) ==
    /\ Up /\ "shutdown" \in Events
    /\ IF ok THEN file' = data /\ dirty' = 0 /\ last' = rdbSaved /\ run' = "down" /\ UNCHANGED faults
       ELSE Fault /\ UNCHANGED <<file, dirty, last, run>>
    /\ UNCHANGED <<data, writes, before, child, sent>>
prepareForShutdown(ok) ==
    /\ Up /\ "shutdown" \in Events
    /\ child' = Killed
    /\ IF ok THEN file' = data /\ dirty' = 0 /\ last' = rdbSaved /\ run' = "down" /\ UNCHANGED faults
       ELSE Fault /\ UNCHANGED <<file, dirty, last, run>>
    /\ UNCHANGED <<data, writes, before, sent>>

\* serverCron: wait3 has something to say of the child.
Handled(d, l) ==
    CASE child.st = "exit0" -> [dirty |-> d - before, last |-> [l EXCEPT !.save = 0, !.status = "ok"]]
      [] child.st = "signal" /\ child.sig = "usr1" -> [dirty |-> d, last |-> l]
      [] OTHER -> [dirty |-> d, last |-> [l EXCEPT !.status = "err"]]
backgroundSaveDoneHandler ==
    /\ Up /\ child.st \in {"exit0", "exit1", "signal"}
    /\ LET h == Handled(dirty, last) IN dirty' = h.dirty /\ last' = h.last
    /\ child' = NoChild /\ UNCHANGED <<data, writes, file, before, faults, run, sent>>

\* A slave has all of its master's snapshot: it renames the file and loads dump.rdb.
readSyncBulkPayload ==
    /\ Up /\ "resync" \in Events /\ writes < MaxWrites
    /\ writes' = writes + 1 /\ sent' = writes + 1 /\ file' = writes + 1 /\ run' = "loading"
    /\ UNCHANGED <<data, dirty, before, child, last, faults>>
rdbLoad ==
    /\ run = "loading" /\ data' = file /\ run' = "up"
    /\ UNCHANGED <<writes, file, dirty, before, child, last, faults, sent>>

-----------------------------------------------------------------------------
(* The child, and what happens to both                                      *)

Childs(st) == child' = [child EXCEPT !.st = st]
\* rdbSave in the child: the file is written to the end, synced and renamed.
childWrites ==
    /\ child.st = "write" /\ child' = [child EXCEPT !.st = "rename", !.temp = child.snap]
    /\ UNCHANGED <<data, writes, file, dirty, before, last, faults, run, sent>>
childRenames ==
    /\ child.st = "rename" /\ Childs("exit0") /\ file' = child.temp
    /\ UNCHANGED <<data, writes, dirty, before, last, faults, run, sent>>
childFails ==
    /\ child.st \in {"write", "rename"} /\ Fault /\ Childs("exit1")
    /\ UNCHANGED <<data, writes, file, dirty, before, last, run, sent>>
childKilled ==
    /\ child.st \in {"write", "rename"} /\ Fault /\ child' = [child EXCEPT !.st = "signal", !.sig = "other"]
    /\ UNCHANGED <<data, writes, file, dirty, before, last, run, sent>>
\* The parent alone crashes; the child goes on.
crash ==
    /\ run # "down" /\ Fault /\ run' = "down"
    /\ UNCHANGED <<data, writes, file, dirty, before, child, last, sent>>
\* A new process, started when the old child is gone, loads what is there.
restart ==
    /\ run = "down" /\ run' = "up" /\ data' = file /\ dirty' = 0 /\ before' = 0 /\ sent' = 0
    /\ child.st \in {"none", "exit0", "exit1", "signal"} /\ child' = NoChild
    /\ last' = [save |-> 0, try |-> MaxAge, status |-> "ok"] /\ writes' = file /\ UNCHANGED <<file, faults>>

Init ==
    /\ data = 0 /\ writes = 0 /\ file = 0 /\ dirty = 0 /\ before = 0 /\ child = NoChild
    /\ last = [save |-> 0, try |-> MaxAge, status |-> "ok"] /\ faults = 0 /\ run = "up" /\ sent = 0

Next ==
    \/ write \/ tick
    \/ \E ok \in BOOLEAN : saveCommand(ok) \/ bgsaveCommand(ok) \/ cronSave(ok) \/ flushallCommand(ok) \/ prepareForShutdown(ok)
    \/ backgroundSaveDoneHandler
    \/ readSyncBulkPayload \/ rdbLoad
    \/ childWrites \/ childRenames \/ childFails \/ childKilled
    \/ crash \/ restart

Spec == Init /\ [][Next]_vars
\* Parent and child run, and time goes on.
Weak(i) ==
    \/ i = 1 /\ tick
    \/ i = 2 /\ cronSave(TRUE)
    \/ i = 3 /\ backgroundSaveDoneHandler
    \/ i = 4 /\ childWrites
    \/ i = 5 /\ childRenames
    \/ i = 6 /\ restart
    \/ i = 7 /\ rdbLoad

-----------------------------------------------------------------------------
TypeOK ==
    /\ data \in 0..MaxWrites /\ dirty \in 0..MaxWrites /\ before \in 0..MaxWrites
    /\ child.st \in {"none", "write", "rename", "exit0", "exit1", "signal"} /\ run \in {"up", "loading", "down"}
    /\ last.status \in {"ok", "err"} /\ last.save \in 0..MaxAge

\* dump.rdb is at every moment a whole snapshot ("Use RENAME to make sure the DB file is changed
\* atomically only if the generate DB file is ok", rdb.c:743).
FileWhole == file # Partial

\* The number of changes is never less than the changes the file lacks, whatever saves,
\* failures and FLUSHALL came in which order: no save point forgets a write.
NothingForgotten == Up /\ child.st = "none" => dirty >= data - file

\* A snapshot on disk is not replaced by an older one ("our saving child may overwrite the
\* synchronous saving did by SHUTDOWN", redis.c:2339).
NeverOlder == file' # Partial => file' >= file

\* After a child that failed, writes are refused until a snapshot succeeds.
FailureTells == child.st = "exit1" /\ child'.st = "none" /\ Up => last'.status = "err"

\* A slave's data are those that its master sent, unless a child of its own, which
\* readSyncBulkPayload does not kill, has renamed its snapshot over them before rdbLoad
\* (replication.c:1000, 1014).
LoadsWhatWasSent ==
    run = "loading" /\ run' = "up" => data' = sent \/ (child.st = "exit0" /\ data' = child.snap)

\* There are changes enough for the save point: not for ever.
Unfinished(k) == k = 1 /\ dirty >= Changes
=============================================================================
