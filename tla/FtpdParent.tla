----------------------------- MODULE FtpdParent -----------------------------
(***************************************************************************)
(* The parent process of the FTP server (ftpd.c): the loop that accepts a  *)
(* control connection, forks a child for it and records the child in the   *)
(* table pids, together with the two signal handlers that run on top of    *)
(* that loop, at any instruction of it:                                    *)
(*                                                                         *)
(*   SIGCHLD  ftpd_sig_chld reaps the terminated children and edits pids;  *)
(*   SIGINT   ftpd_sig_int walks pids, kills the children and exits.       *)
(*                                                                         *)
(* The process runs one frame at a time: "main", "chld" or "int".  A       *)
(* signal is blocked in its own handler; SIGCHLD may interrupt the SIGINT  *)
(* handler and the other way round.  Pending SIGCHLDs coalesce.  The debug *)
(* and log switches are off, their defaults.  A local variable is reset     *)
(* when it dies.                                                           *)
(***************************************************************************)
EXTENDS Integers

CONSTANTS
    MAX_CHIHLD_NUM,  \* size of the table pids; slot 0 holds the parent
    Pids             \* the process ids the kernel hands out

ASSUME TableAssumption == MAX_CHIHLD_NUM \in Nat \ {0}

ASSUME PidsAssumption == Pids \subseteq Nat \ {0}

VARIABLES
    proc,       \* kernel process table: what each pid denotes
    signalled,  \* running processes that were sent SIGQUIT by the parent
    chldPend,   \* SIGCHLD is pending for the parent
    run,        \* frame the parent executes, or "exited"
    ret,        \* frame the SIGCHLD handler returns to
    mpc,        \* where ftpd_do_loop stands
    childpid,   \* its local childpid
    tmp,        \* register that holds ftpd_nchild during ++ftpd_nchild
    ctrlfds,    \* control connections open in the parent
    pids,       \* children recorded by add2pids
    nchild,     \* ftpd_nchild
    hpc,        \* where ftpd_sig_chld stands, "idle" when not active
    wpid,       \* value of its local pid when the waitpid loop ends
    i           \* index of the scan in ftpd_sig_int

kernel  == <<proc, signalled, chldPend>>
loop    == <<mpc, childpid, tmp, ctrlfds>>
table   == <<pids, nchild>>
handler == <<hpc, wpid>>
vars    == <<kernel, run, ret, loop, table, handler, i>>

-----------------------------------------------------------------------------

NoPid == -1

Slots == 1 .. MAX_CHIHLD_NUM - 1

Holding(p) == {s \in Slots : pids[s] = p}

\* The slot a scan "for (i = 1; i < MAX_CHIHLD_NUM; ++i)" stops at.
FirstHolding(p) == CHOOSE s \in Holding(p) : \A t \in Holding(p) : s <= t

InState(st) == {p \in Pids : proc[p] = st}

TypeOK ==
    /\ proc \in [Pids -> {"none", "live", "zombie", "foreign"}]
    /\ signalled \subseteq Pids
    /\ chldPend \in BOOLEAN
    /\ run \in {"main", "chld", "int", "exited"}
    /\ ret \in {"main", "int"}
    /\ mpc \in {"accept", "fork", "add", "load", "store", "close"}
    /\ childpid \in Pids \cup {NoPid}
    /\ tmp \in Int
    /\ ctrlfds \in Nat
    /\ pids \in [Slots -> Pids \cup {NoPid}]
    /\ nchild \in Int
    /\ hpc \in {"idle", "wait", "dele"}
    /\ wpid \in Pids \cup {0, NoPid}
    /\ i \in Nat \ {0}

\* ftpd_init; other processes may already use some of the pids.
Init ==
    /\ proc \in [Pids -> {"none", "foreign"}]
    /\ signalled = {}
    /\ chldPend = FALSE
    /\ run = "main"
    /\ ret = "main"
    /\ mpc = "accept"
    /\ childpid = NoPid
    /\ tmp = 0
    /\ ctrlfds = 0
    /\ pids = [s \in Slots |-> NoPid]
    /\ nchild = 0
    /\ hpc = "idle"
    /\ wpid = 0
    /\ i = 1

-----------------------------------------------------------------------------
(***************************************************************************)
(* ftpd_do_loop and add2pids.                                              *)
(***************************************************************************)

At(pc) == run = "main" /\ mpc = pc

\* accept() returns a connection; a failing accept() only goes round.
Accept ==
    /\ At("accept")
    /\ ctrlfds' = ctrlfds + 1
    /\ mpc' = "fork"
    /\ UNCHANGED <<kernel, run, ret, childpid, tmp, table, handler, i>>

Fork ==
    /\ At("fork")
    /\ \E p \in InState("none") :
          /\ proc' = [proc EXCEPT ![p] = "live"]
          /\ signalled' = signalled \ {p}
          /\ childpid' = p
    /\ mpc' = "add"
    /\ UNCHANGED <<chldPend, run, ret, tmp, ctrlfds, table, handler, i>>

\* Mutants: the connection is closed twice, or not at all.
ForkFails_ClosesTwice ==
    /\ At("fork")
    /\ childpid' = NoPid
    /\ ctrlfds' = ctrlfds - 1
    /\ mpc' = "close"
    /\ UNCHANGED <<kernel, run, ret, tmp, table, handler, i>>

ForkFails_NoClose ==
    /\ At("fork")
    /\ childpid' = NoPid
    /\ mpc' = "accept"
    /\ UNCHANGED <<kernel, run, ret, tmp, ctrlfds, table, handler, i>>

ForkFails ==
    /\ At("fork")
    /\ childpid' = NoPid
    /\ mpc' = "close"
    /\ UNCHANGED <<kernel, run, ret, tmp, ctrlfds, table, handler, i>>

\* Mutants: the child is counted even when there was no room for it; the
\* last slot is never used.
Add2pids_CountsAlways ==
    /\ At("add")
    /\ pids' = IF Holding(NoPid) = {} THEN pids
               ELSE [pids EXCEPT ![FirstHolding(NoPid)] = childpid]
    /\ mpc' = "load"
    /\ UNCHANGED <<kernel, run, ret, childpid, tmp, ctrlfds, nchild, handler, i>>

Add2pids_SkipsLastSlot ==
    /\ At("add")
    /\ IF Holding(NoPid) \subseteq {MAX_CHIHLD_NUM - 1}
         THEN mpc' = "close" /\ UNCHANGED pids
         ELSE /\ pids' = [pids EXCEPT ![FirstHolding(NoPid)] = childpid]
              /\ mpc' = "load"
    /\ UNCHANGED <<kernel, run, ret, childpid, tmp, ctrlfds, nchild, handler, i>>

\* add2pids takes the first empty slot; when there is none its FTPD_ERR is
\* ignored by the caller and the child stays unrecorded.
Add2pids ==
    /\ At("add")
    /\ IF Holding(NoPid) = {}
         THEN mpc' = "close" /\ UNCHANGED pids
         ELSE /\ pids' = [pids EXCEPT ![FirstHolding(NoPid)] = childpid]
              /\ mpc' = "load"
    /\ UNCHANGED <<kernel, run, ret, childpid, tmp, ctrlfds, nchild, handler, i>>

\* ++ftpd_nchild is not atomic with respect to the signal handlers.
LoadNchild ==
    /\ At("load")
    /\ tmp' = nchild
    /\ mpc' = "store"
    /\ UNCHANGED <<kernel, run, ret, childpid, ctrlfds, table, handler, i>>

StoreNchild ==
    /\ At("store")
    /\ nchild' = tmp + 1
    /\ tmp' = 0
    /\ mpc' = "close"
    /\ UNCHANGED <<kernel, run, ret, childpid, ctrlfds, pids, handler, i>>

CloseCtrl ==
    /\ At("close")
    /\ ctrlfds' = ctrlfds - 1
    /\ childpid' = NoPid
    /\ mpc' = "accept"
    /\ UNCHANGED <<kernel, run, ret, tmp, table, handler, i>>

-----------------------------------------------------------------------------
(***************************************************************************)
(* ftpd_sig_chld and dele_from_pids.                                       *)
(***************************************************************************)

SigChld ==
    /\ chldPend /\ hpc = "idle" /\ run \in {"main", "int"}
    /\ chldPend' = FALSE
    /\ ret' = run
    /\ run' = "chld"
    /\ hpc' = "wait"
    /\ UNCHANGED <<proc, signalled, loop, table, wpid, i>>

\* Mutant: one call of waitpid, whose result is not kept, in place of the loop.
WaitpidReaps_Once ==
    /\ run = "chld" /\ hpc = "wait"
    /\ \E p \in InState("zombie") :
          proc' = [proc EXCEPT ![p] = "none"] /\ wpid' = 0
    /\ hpc' = "dele"
    /\ UNCHANGED <<signalled, chldPend, run, ret, loop, table, i>>

\* waitpid(-1, &status, WNOHANG) returns a terminated child.
WaitpidReaps ==
    /\ run = "chld" /\ hpc = "wait"
    /\ \E p \in InState("zombie") : proc' = [proc EXCEPT ![p] = "none"]
    /\ UNCHANGED <<signalled, chldPend, run, ret, loop, table, handler, i>>

\* Mutant: no WNOHANG, waitpid blocks while children run.
WaitpidEnds_Blocks ==
    /\ run = "chld" /\ hpc = "wait"
    /\ InState("zombie") = {} /\ InState("live") = {}
    /\ wpid' = NoPid
    /\ hpc' = "dele"
    /\ UNCHANGED <<kernel, run, ret, loop, table, i>>

\* waitpid finds nothing to reap: 0 when children are running, -1 (ECHILD)
\* when there is no child at all.
WaitpidEnds ==
    /\ run = "chld" /\ hpc = "wait"
    /\ InState("zombie") = {}
    /\ wpid' = IF InState("live") = {} THEN NoPid ELSE 0
    /\ hpc' = "dele"
    /\ UNCHANGED <<kernel, run, ret, loop, table, i>>

\* Mutant: the table is popped like a stack.
DeleFromPids_PopsLast ==
    /\ run = "chld" /\ hpc = "dele"
    /\ IF nchild \in Slots
         THEN pids' = [pids EXCEPT ![nchild] = NoPid] /\ nchild' = nchild - 1
         ELSE UNCHANGED table
    /\ hpc' = "idle"
    /\ run' = ret
    /\ wpid' = 0 /\ ret' = "main"
    /\ UNCHANGED <<kernel, loop, i>>

\* dele_from_pids(pid), with the pid the loop ENDED with, and the return.
DeleFromPids ==
    /\ run = "chld" /\ hpc = "dele"
    /\ IF Holding(wpid) = {}
         THEN UNCHANGED table
         ELSE /\ pids' = [pids EXCEPT ![FirstHolding(wpid)] = NoPid]
              /\ nchild' = nchild - 1
    /\ hpc' = "idle"
    /\ run' = ret
    /\ wpid' = 0 /\ ret' = "main"
    /\ UNCHANGED <<kernel, loop, i>>

-----------------------------------------------------------------------------
(***************************************************************************)
(* ftpd_sig_int.  It never returns, so the frame under it is lost.         *)
(***************************************************************************)

SigInt ==
    /\ run \in {"main", "chld"} /\ (run = "chld" => ret = "main")
    /\ run' = "int"
    /\ i' = 1
    /\ UNCHANGED <<kernel, ret, loop, table, handler>>

Scanning == run = "int" /\ i < nchild + 1

\* An empty slot is skipped.  kill() succeeds on every process there is,
\* terminated ones included.
ScanKills ==
    /\ Scanning
    /\ pids[i] # NoPid => proc[pids[i]] # "none"
    /\ signalled' = IF pids[i] = NoPid THEN signalled
                    ELSE signalled \cup ({pids[i]} \ InState("zombie"))
    /\ i' = i + 1
    /\ UNCHANGED <<proc, chldPend, run, ret, loop, table, handler>>

\* kill() fails: no such process, or a foreign one it may not signal.  The
\* wrapper Kill then prints the error and exits.
ScanKillFails ==
    /\ Scanning /\ pids[i] # NoPid
    /\ proc[pids[i]] \in {"none", "foreign"}
    /\ run' = "exited"
    /\ UNCHANGED <<kernel, ret, loop, table, handler, i>>

ScanEnds ==
    /\ run = "int" /\ ~(i < nchild + 1)
    /\ run' = "exited"
    /\ UNCHANGED <<kernel, ret, loop, table, handler, i>>

-----------------------------------------------------------------------------
(***************************************************************************)
(* The rest of the machine: a child ends (QUIT, client gone, error or      *)
(* SIGQUIT); other processes come and go and may get the pid of a child    *)
(* that has been reaped.                                                   *)
(***************************************************************************)

ChildExits(p) ==
    /\ proc[p] = "live"
    /\ proc' = [proc EXCEPT ![p] = "zombie"]
    /\ signalled' = signalled \ {p}
    /\ chldPend' = (run # "exited")
    /\ UNCHANGED <<run, ret, loop, table, handler, i>>

\* The children of a parent that has exited are reaped by init.
InitReaps(p) ==
    /\ run = "exited" /\ proc[p] = "zombie"
    /\ proc' = [proc EXCEPT ![p] = "none"]
    /\ UNCHANGED <<signalled, chldPend, run, ret, loop, table, handler, i>>

ForeignStarts(p) ==
    /\ proc[p] = "none"
    /\ proc' = [proc EXCEPT ![p] = "foreign"]
    /\ signalled' = signalled \ {p}
    /\ UNCHANGED <<chldPend, run, ret, loop, table, handler, i>>

ForeignEnds(p) ==
    /\ proc[p] = "foreign"
    /\ proc' = [proc EXCEPT ![p] = "none"]
    /\ signalled' = signalled \ {p}
    /\ UNCHANGED <<chldPend, run, ret, loop, table, handler, i>>

-----------------------------------------------------------------------------

MainStep    == Fork \/ ForkFails \/ Add2pids \/ LoadNchild \/ StoreNchild
               \/ CloseCtrl
HandlerStep == SigChld \/ WaitpidReaps \/ WaitpidEnds \/ DeleFromPids
ScanStep    == ScanKills \/ ScanKillFails \/ ScanEnds

Next ==
    \/ Accept
    \/ MainStep
    \/ HandlerStep
    \/ SigInt
    \/ ScanStep
    \/ \E p \in Pids : \/ ChildExits(p) \/ InitReaps(p)
                       \/ ForeignStarts(p) \/ ForeignEnds(p)

\* The kernel keeps running the parent and delivers pending signals; it
\* promises nothing about clients, children and other processes.
Fairness == WF_vars(MainStep) /\ WF_vars(HandlerStep) /\ WF_vars(ScanStep)

Spec == Init /\ [][Next]_vars /\ Fairness

-----------------------------------------------------------------------------
(***************************************************************************)
(* Properties.                                                             *)
(***************************************************************************)

\* ftpd_sig_int reads pids[1..ftpd_nchild] with no check against the size
\* of the table: the index it is about to read is always inside.
ScanInBounds == Scanning => i \in Slots

\* Why: ftpd_nchild never exceeds the number of occupied slots, which are a
\* prefix of the table, whatever the handlers do to the count meanwhile.
\* (In "load" and "store" the new slot is filled and not counted yet.)
CountWithinTable ==
    \E k \in 0 .. MAX_CHIHLD_NUM - 1 :
       /\ \A s \in Slots : pids[s] # NoPid <=> s <= k
       /\ nchild <= IF mpc \in {"load", "store"} THEN k - 1 ELSE k
       /\ mpc = "store" => tmp <= k - 1

\* A running child is in the table from the moment add2pids has returned,
\* unless the table is full.
RunningChildRecorded ==
    \A p \in InState("live") :
       \/ Holding(p) # {}
       \/ Holding(NoPid) = {}
       \/ mpc = "add" /\ childpid = p

\* The parent holds one control connection from accept to Close, on every
\* path, and none while it waits for the next client.
NoCtrlFdLeak == ctrlfds = IF mpc = "accept" THEN 0 ELSE 1

\* No step removes a running child from the table: what the SIGCHLD handler
\* deletes never belongs to a session in progress.
RunningChildKept ==
    [][\A s \in Slots :
          (pids[s] # NoPid /\ proc[pids[s]] = "live") => pids'[s] = pids[s]]_vars

\* Every terminated child is reaped, also when several SIGCHLDs coalesce,
\* unless the server is shut down.
ZombiesReaped ==
    \A p \in Pids : proc[p] = "zombie" ~> (proc[p] # "zombie" \/ run = "exited")

\* "server is always listening": whatever the handlers do, the loop comes
\* back to accept, unless the server is shut down.
AlwaysListening == []<>(At("accept") \/ run = "exited")

\* "kill children all": when SIGINT has ended the parent, every child in the
\* table that still runs has been sent SIGQUIT; here only of a SIGINT that
\* finds the loop idle in accept, with no registration under way.
AllChildrenKilled ==
    run = "exited" /\ mpc = "accept" =>
       \A p \in InState("live") : Holding(p) # {} => p \in signalled

\* The converse: only children of this server are sent SIGQUIT.
OnlyChildrenKilled == signalled \cap InState("foreign") = {}
=============================================================================
