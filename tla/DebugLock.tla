------------------------------ MODULE DebugLock ------------------------------
(* The locks around the messages of the FTP server.  In debug mode every     *)
(* message is printed under one mutex that all its processes share           *)
(* (ftpd_debug); with a log file some messages are also written under a      *)
(* semaphore of the process (lprintf).  Messages are printed by the loops of *)
(* parent and sessions and by the parent's handlers of SIGCHLD and SIGINT,   *)
(* which may interrupt a process that is printing.                           *)
EXTENDS Integers, FiniteSets, Sequences

CONSTANTS Children, \* processes the parent may fork
          Parent,
          Debug,    \* -d was given
          Record,   \* -r was given
          Interrupt \* whether SIGINT is sent to the server

LockAssumption == Parent \notin Children /\ {Debug, Record, Interrupt} \subseteq BOOLEAN

VARIABLES stack,  \* of each process: its frames, the running one last
          mutex,  \* the process and frame that hold the mutex
          sem,    \* of each process: the frame that holds its semaphore
          life,   \* "none", "running", "zombie", "gone" or "killed", by SIGQUIT
          sent    \* signals that are pending at the parent

vars == <<stack, mutex, sem, life, sent>>
Processes == Children \cup {Parent}
Free == "free"
Unlocked == <<Free, Free>>

\* A frame: whose it is, what it is about to print, and what a handler does next.
Frame(kind, stage) == [kind |-> kind, pc |-> "run", log |-> FALSE, stage |-> stage]
Main == <<Frame("main", "loop")>>

Top(p) == stack[p][Len(stack[p])]
SetTop(p, f) == stack' = [stack EXCEPT ![p][Len(stack[p])] = f]
Pop(p) == stack' = [stack EXCEPT ![p] = SubSeq(@, 1, Len(@) - 1)]
Push(p, f) == stack' = [stack EXCEPT ![p] = Append(@, f)]
At(p, kind, pc) == life[p] = "running" /\ Top(p).kind = kind /\ Top(p).pc = pc
Stage(p, stage) == Top(p).stage = stage
Running(p, pc) == life[p] = "running" /\ Top(p).pc = pc

(* A message: FTPD_DEBUG, or FTPD_DEBUG_LOG, which also goes to the log.     *)
AfterDebug(f) == IF f.log /\ Record THEN [f EXCEPT !.pc = "sem"] ELSE [f EXCEPT !.pc = "run"]
Say(f, log, stage) ==
    LET g == [f EXCEPT !.log = log, !.stage = stage]
    IN  IF Debug THEN [g EXCEPT !.pc = "lock"] ELSE AfterDebug(g)

my_lock_mutex_wait_Private(p) ==
    /\ Running(p, "lock") /\ (mutex = Unlocked \/ mutex[1] # p)
    /\ mutex' = <<p, Top(p).kind>>
    /\ SetTop(p, [Top(p) EXCEPT !.pc = "print"])
    /\ UNCHANGED <<sem, life, sent>>
my_lock_mutex_wait(p) ==
    /\ Running(p, "lock") /\ mutex = Unlocked
    /\ mutex' = <<p, Top(p).kind>>
    /\ SetTop(p, [Top(p) EXCEPT !.pc = "print"])
    /\ UNCHANGED <<sem, life, sent>>

my_lock_mutex_release(p) ==
    /\ Running(p, "print")
    /\ mutex' = Unlocked
    /\ SetTop(p, AfterDebug(Top(p)))
    /\ UNCHANGED <<sem, life, sent>>

log_wait(p) ==
    /\ Running(p, "sem") /\ sem[p] = Free
    /\ sem' = [sem EXCEPT ![p] = Top(p).kind]
    /\ SetTop(p, [Top(p) EXCEPT !.pc = "write"])
    /\ UNCHANGED <<mutex, life, sent>>
log_post(p) ==
    /\ Running(p, "write")
    /\ sem' = [sem EXCEPT ![p] = Free]
    /\ SetTop(p, [Top(p) EXCEPT !.pc = "run"])
    /\ UNCHANGED <<mutex, life, sent>>

(* The loops *)
LoopMessage(p) ==
    /\ At(p, "main", "run")
    /\ \E log \in BOOLEAN : SetTop(p, Say(Top(p), log, "loop"))
    /\ stack' # stack
    /\ UNCHANGED <<mutex, sem, life, sent>>

fork(c) ==
    /\ At(Parent, "main", "run") /\ life[c] = "none"
    /\ life' = [life EXCEPT ![c] = "running"]
    /\ stack' = [stack EXCEPT ![c] = Main]
    /\ sem' = [sem EXCEPT ![c] = sem[Parent]]
    /\ UNCHANGED <<mutex, sent>>

\* A session ends between two messages.
SessionEnds(c) ==
    /\ At(c, "main", "run")
    /\ life' = [life EXCEPT ![c] = "zombie"]
    /\ sent' = sent \cup {"CHLD"}
    /\ UNCHANGED <<stack, mutex, sem>>

(* The parent's handlers.  Each blocks its own signal only.                  *)
ftpd_sig_chld ==
    /\ life[Parent] = "running" /\ "CHLD" \in sent
    /\ \A i \in 1..Len(stack[Parent]) : stack[Parent][i].kind # "chld"
    /\ sent' = sent \ {"CHLD"}
    /\ Push(Parent, Frame("chld", "reap"))
    /\ UNCHANGED <<mutex, sem, life>>

Reap ==
    /\ At(Parent, "chld", "run") /\ Stage(Parent, "reap")
    /\ \E c \in Children :
        /\ life[c] = "zombie"
        /\ life' = [life EXCEPT ![c] = "gone"]
    /\ SetTop(Parent, Say(Top(Parent), FALSE, "reap"))
    /\ UNCHANGED <<mutex, sem, sent>>

pr_cpu_time ==
    /\ At(Parent, "chld", "run") /\ Stage(Parent, "reap")
    /\ \A c \in Children : life[c] # "zombie"
    /\ SetTop(Parent, Say(Top(Parent), TRUE, "return"))
    /\ UNCHANGED <<mutex, sem, life, sent>>

ChldReturns ==
    /\ At(Parent, "chld", "run") /\ Stage(Parent, "return")
    /\ Pop(Parent)
    /\ UNCHANGED <<mutex, sem, life, sent>>

ftpd_sig_int ==
    /\ Interrupt /\ life[Parent] = "running"
    /\ \A i \in 1..Len(stack[Parent]) : stack[Parent][i].kind # "int"
    /\ Push(Parent, Say(Frame("int", "say"), TRUE, "kill"))
    /\ UNCHANGED <<mutex, sem, life, sent>>

\* The children get SIGQUIT, whose handler ends them wherever they are, and say nothing.
KillChildren ==
    /\ At(Parent, "int", "run") /\ Stage(Parent, "kill")
    /\ life' = [c \in Processes |-> IF c \in Children /\ life[c] = "running" THEN "killed" ELSE life[c]]
    /\ SetTop(Parent, Say(Top(Parent), TRUE, "exit"))
    /\ UNCHANGED <<mutex, sem, sent>>

ParentExits ==
    /\ At(Parent, "int", "run") /\ Stage(Parent, "exit")
    /\ life' = [life EXCEPT ![Parent] = "gone"]
    /\ UNCHANGED <<stack, mutex, sem, sent>>

Init ==
    /\ stack = [p \in Processes |-> IF p = Parent THEN Main ELSE <<>>]
    /\ mutex = Unlocked
    /\ sem = [p \in Processes |-> Free]
    /\ life = [p \in Processes |-> IF p = Parent THEN "running" ELSE "none"]
    /\ sent = {}

Locking(p) == my_lock_mutex_wait(p) \/ my_lock_mutex_release(p) \/ log_wait(p) \/ log_post(p)
Handlers == Reap \/ pr_cpu_time \/ ChldReturns \/ KillChildren \/ ParentExits
Next ==
    \/ \E p \in Processes : Locking(p) \/ LoopMessage(p)
    \/ \E c \in Children : fork(c) \/ SessionEnds(c)
    \/ ftpd_sig_chld \/ ftpd_sig_int \/ Handlers

Spec == Init /\ [][Next]_vars

\* Every process runs on, and so do the handlers.
Weak(i) == i = 1 /\ Handlers
WeakProcess(p) == Locking(p)

-----------------------------------------------------------------------------

(* The types; a semaphore is held only by a frame that is writing, and it is *)
(* a private one: what another process does never frees it.                  *)
TypeOK ==
    /\ life \in [Processes -> {"none", "running", "zombie", "gone", "killed"}]
    /\ sent \subseteq {"CHLD"}
    /\ \A p \in Processes : life[p] = "running" =>
        \A i \in 1..Len(stack[p]) :
            (stack[p][i].pc = "write") <=> (sem[p] = stack[p][i].kind)

(* "The print won't be disturbed": two processes never print at a time.      *)
OnePrints ==
    \A p, q \in Processes : p # q /\ life[p] = "running" /\ life[q] = "running" =>
        ~(\E i \in 1..Len(stack[p]), j \in 1..Len(stack[q]) :
            stack[p][i].pc = "print" /\ stack[q][j].pc = "print")

(* The mutex is held only by a frame that is printing, or by one that was    *)
(* killed while it did: no path leaves ftpd_debug, or the process, with it.  *)
HeldOnlyWhilePrinting ==
    mutex = Unlocked \/
    LET p == mutex[1] IN
        \/ life[p] = "killed"
        \/ life[p] = "running" /\ \E i \in 1..Len(stack[p]) :
               stack[p][i].kind = mutex[2] /\ stack[p][i].pc = "print"

(* The running frame waits for what a frame below it holds. *)
WaitsForItself(p) ==
    /\ life[p] = "running"
    /\ \/ Top(p).pc = "lock" /\ mutex # Unlocked /\ mutex[1] = p
       \/ Top(p).pc = "sem" /\ sem[p] # Free
Lost(p) == WaitsForItself(p) \/ life[p] = "killed"

(* The mutex is held: not for ever, unless its holder was interrupted by a    *)
(* handler that prints, or was killed.                                       *)
Unfinished(k) == k = 1 /\ mutex # Unlocked /\ ~\E p \in Processes : Lost(p)

(* No process waits for a lock that it holds itself. *)
NeverWaitsForItself == \A p \in Processes : ~WaitsForItself(p)

(* A server that got SIGINT ends: its handler kills the sessions and exits.  *)
InterruptEnds == (life[Parent] = "running" /\ Top(Parent).kind = "int") ~> life[Parent] = "gone"

=============================================================================
