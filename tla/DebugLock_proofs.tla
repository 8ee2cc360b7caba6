--------------------------- MODULE DebugLock_proofs ---------------------------
(***************************************************************************)
(* Proofs about the locks around the messages of the FTP server, for every  *)
(* set of children, whatever is interrupted by what, with and without -d    *)
(* and -r.  Two observations carry them: the frames of a process are of     *)
(* different kinds, so that a lock names the one frame that holds it; and   *)
(* once the handler of SIGINT has had the mutex, nothing below it prints,   *)
(* so that the parent does not exit with it.                               *)
(***************************************************************************)
EXTENDS DebugLock, TLAPS

Stages == {"loop", "reap", "return", "say", "kill", "exit"}
Kinds == {"main", "chld", "int"}
Frames == [kind : Kinds, pc : {"run", "lock", "print", "sem", "write"}, log : BOOLEAN,
           stage : Stages]

Typed ==
    /\ stack \in [Processes -> Seq(Frames)]
    /\ mutex \in (Processes \X Kinds) \cup {Unlocked}
    /\ sem \in [Processes -> Kinds \cup {Free}]
    /\ life \in [Processes -> {"none", "running", "zombie", "gone", "killed"}]
    /\ sent \subseteq {"CHLD"}

At1(p) == 1..Len(stack[p])
Alive(p) == life[p] = "running"

\* The frames of a process: its loop and, above it, at most one of each handler.
Nested ==
    \A p \in Processes : Alive(p) =>
        /\ Len(stack[p]) > 0 /\ stack[p][1].kind = "main"
        /\ \A i, j \in At1(p) : stack[p][i].kind = stack[p][j].kind => i = j

\* The locks name the frames that hold them.
MutexNames ==
    \A p \in Processes : Alive(p) =>
        \A i \in At1(p) : stack[p][i].pc = "print" <=> mutex = <<p, stack[p][i].kind>>
SemNames ==
    \A p \in Processes : Alive(p) =>
        /\ \A i \in At1(p) : stack[p][i].pc = "write" <=> sem[p] = stack[p][i].kind
        /\ sem[p] = Free \/ \E i \in At1(p) : stack[p][i].pc = "write" /\ stack[p][i].kind = sem[p]

\* The mutex is needed only with -d.
OnlyInDebug ==
    ~Debug => \A p \in Processes : Alive(p) => \A i \in At1(p) : stack[p][i].pc \notin {"lock", "print"}

\* The handler of SIGINT has had the mutex.
Passed(f) == f.kind = "int" /\ (f.pc # "lock" \/ f.stage = "exit")
NoneBelowPrints ==
    \A p \in Processes : Alive(p) =>
        \A i, j \in At1(p) : i < j /\ Passed(stack[p][j]) => stack[p][i].pc # "print"

Locks == Typed /\ Nested /\ MutexNames /\ SemNames /\ OnlyInDebug /\ NoneBelowPrints
IInv == Locks /\ HeldOnlyWhilePrinting

-----------------------------------------------------------------------------
LEMMA FrameTypes ==
    ASSUME Typed, NEW q \in Processes, NEW i \in At1(q)
    PROVE  stack[q][i] \in Frames /\ stack[q][i].kind \in Kinds /\ stack[q][i].kind # Free
<1>1. stack[q] \in Seq(Frames)
  BY DEF Typed
<1>2. stack[q][i] \in Frames
  BY <1>1 DEF At1
<1> QED
  BY <1>2 DEF Frames, Kinds, Free

\* The stacks after a step of the running frame, an interrupt and a return.
LEMMA SetTopStack ==
    ASSUME Typed, NEW p \in Processes, Len(stack[p]) > 0, NEW f \in Frames, SetTop(p, f)
    PROVE  /\ stack' \in [Processes -> Seq(Frames)]
           /\ \A q \in Processes : q # p => stack'[q] = stack[q]
           /\ Len(stack'[p]) = Len(stack[p])
           /\ \A i \in At1(p) : stack'[p][i] = IF i = Len(stack[p]) THEN f ELSE stack[p][i]
<1>1. stack[p] \in Seq(Frames)
  BY DEF Typed
<1>2. stack' = [stack EXCEPT ![p] = [stack[p] EXCEPT ![Len(stack[p])] = f]]
  BY DEF SetTop
<1>3. stack'[p] = [stack[p] EXCEPT ![Len(stack[p])] = f]
  BY <1>2 DEF Typed
<1>4. stack'[p] \in Seq(Frames) /\ Len(stack'[p]) = Len(stack[p])
  BY <1>1, <1>3
<1> QED
  BY <1>1, <1>2, <1>3, <1>4 DEF Typed, At1

LEMMA PushStack ==
    ASSUME Typed, NEW p \in Processes, NEW f \in Frames, Push(p, f)
    PROVE  /\ stack' \in [Processes -> Seq(Frames)]
           /\ \A q \in Processes : q # p => stack'[q] = stack[q]
           /\ Len(stack'[p]) = Len(stack[p]) + 1
           /\ \A i \in At1(p) : stack'[p][i] = stack[p][i]
           /\ stack'[p][Len(stack[p]) + 1] = f
<1>1. stack[p] \in Seq(Frames)
  BY DEF Typed
<1>2. stack' = [stack EXCEPT ![p] = Append(stack[p], f)]
  BY DEF Push
<1>3. stack'[p] = Append(stack[p], f)
  BY <1>2 DEF Typed
<1>4. stack'[p] \in Seq(Frames) /\ Len(stack'[p]) = Len(stack[p]) + 1
  BY <1>1, <1>3
<1> QED
  BY <1>1, <1>2, <1>3, <1>4 DEF Typed, At1

LEMMA PopStack ==
    ASSUME Typed, NEW p \in Processes, Len(stack[p]) > 0, Pop(p)
    PROVE  /\ stack' \in [Processes -> Seq(Frames)]
           /\ \A q \in Processes : q # p => stack'[q] = stack[q]
           /\ Len(stack'[p]) = Len(stack[p]) - 1
           /\ \A i \in 1..Len(stack[p]) - 1 : stack'[p][i] = stack[p][i]
<1>1. stack[p] \in Seq(Frames)
  BY DEF Typed
<1>2. stack' = [stack EXCEPT ![p] = SubSeq(stack[p], 1, Len(stack[p]) - 1)]
  BY DEF Pop
<1>3. stack'[p] = SubSeq(stack[p], 1, Len(stack[p]) - 1)
  BY <1>2 DEF Typed
<1>4. stack'[p] \in Seq(Frames) /\ Len(stack'[p]) = Len(stack[p]) - 1
  BY <1>1, <1>3
<1> QED
  BY <1>1, <1>2, <1>3, <1>4 DEF Typed

\* FTPD_DEBUG and FTPD_DEBUG_LOG: with -d the frame waits for the mutex first.
LEMMA AfterDebugFrame ==
    ASSUME LockAssumption, NEW f \in Frames, NEW g, g = AfterDebug(f)
    PROVE  g \in Frames /\ g.kind = f.kind /\ g.stage = f.stage /\ g.pc \in {"run", "sem"}
BY DEF AfterDebug, Frames

LEMMA SayFrame ==
    ASSUME LockAssumption, NEW f \in Frames, NEW log \in BOOLEAN,
           NEW stage \in Stages
    PROVE  /\ Say(f, log, stage) \in Frames /\ Say(f, log, stage).kind = f.kind
           /\ Say(f, log, stage).stage = stage
           /\ Debug => Say(f, log, stage).pc = "lock"
           /\ ~Debug => Say(f, log, stage).pc \in {"run", "sem"}
<1>1. PICK h : h = [f EXCEPT !.log = log, !.stage = stage]
  OBVIOUS
<1>2. h \in Frames /\ h.kind = f.kind /\ h.stage = stage
  BY <1>1 DEF Frames
<1>3. CASE Debug
  <2>1. Say(f, log, stage) = [h EXCEPT !.pc = "lock"]
    BY <1>1, <1>3 DEF Say
  <2> QED
    BY <1>2, <1>3, <2>1 DEF Frames
<1>4. CASE ~Debug
  <2>1. Say(f, log, stage) = AfterDebug(h)
    BY <1>1, <1>4 DEF Say
  <2> QED
    BY <1>2, <1>4, <2>1, AfterDebugFrame
<1> QED
  BY <1>3, <1>4

LEMMA SetPc ==
    ASSUME NEW f \in Frames, NEW pc \in {"run", "lock", "print", "sem", "write"}, NEW g,
           g = [f EXCEPT !.pc = pc]
    PROVE  g \in Frames /\ g.kind = f.kind /\ g.stage = f.stage /\ g.pc = pc
BY DEF Frames

\* Of two frames of a process the running one is the last; the loop is the only one when it runs.
LEMMA TopFrame ==
    ASSUME Locks, NEW p \in Processes, Alive(p)
    PROVE  /\ Len(stack[p]) \in At1(p) /\ Top(p) = stack[p][Len(stack[p])] /\ Top(p) \in Frames
           /\ Top(p).kind = "main" => Len(stack[p]) = 1
<1>1. stack[p] \in Seq(Frames) /\ Len(stack[p]) \in Nat /\ Len(stack[p]) > 0
  BY DEF Locks, Typed, Nested
<1>2. Len(stack[p]) \in At1(p) /\ 1 \in At1(p)
  BY <1>1 DEF At1
<1>3. stack[p][Len(stack[p])] \in Frames
  BY <1>1, <1>2 DEF At1
<1>4. Top(p).kind = "main" => Len(stack[p]) = 1
  BY <1>2 DEF Locks, Nested, Top
<1> QED
  BY <1>2, <1>3, <1>4 DEF Top

\* What becomes of the processes: nobody starts to run, and who runs or was killed was killed.
LivesOn ==
    /\ life' \in [Processes -> {"none", "running", "zombie", "gone", "killed"}]
    /\ \A q \in Processes : /\ life'[q] = "running" => life[q] = "running"
                            /\ life[q] = "running" => life'[q] \in {"running", "killed"}
                            /\ life[q] = "killed" => life'[q] = "killed"

\* A step of the running frame of p, which may take or release a lock.
LEMMA TopStep ==
    ASSUME LockAssumption, IInv, NEW p \in Processes, Alive(p), LivesOn, life'[p] = "running",
           NEW f \in Frames, SetTop(p, f), f.kind = Top(p).kind,
           sent' \subseteq {"CHLD"},
           \/ mutex' = mutex /\ Top(p).pc # "print" /\ f.pc # "print"
           \/ mutex = Unlocked /\ mutex' = <<p, Top(p).kind>> /\ f.pc = "print"
           \/ Top(p).pc = "print" /\ mutex' = Unlocked /\ f.pc # "print",
           \/ sem' = sem /\ Top(p).pc # "write" /\ f.pc # "write"
           \/ sem[p] = Free /\ sem' = [sem EXCEPT ![p] = Top(p).kind] /\ f.pc = "write"
           \/ Top(p).pc = "write" /\ sem' = [sem EXCEPT ![p] = Free] /\ f.pc # "write",
           ~Debug => f.pc \notin {"lock", "print"},
           Passed(f) => Passed(Top(p)) \/ mutex = Unlocked
    PROVE  IInv'
<1> DEFINE L == Len(stack[p])
           k == Top(p).kind
<1>1. /\ Typed /\ Nested /\ MutexNames /\ SemNames /\ OnlyInDebug /\ NoneBelowPrints
      /\ HeldOnlyWhilePrinting /\ Locks
  BY DEF IInv, Locks
<1>2. L \in At1(p) /\ Top(p) = stack[p][L] /\ Top(p) \in Frames /\ L \in Nat /\ L > 0
  BY <1>1, TopFrame DEF Typed, At1
<1>3. /\ stack' \in [Processes -> Seq(Frames)]
      /\ \A q \in Processes : q # p => stack'[q] = stack[q]
      /\ Len(stack'[p]) = L
      /\ \A i \in At1(p) : stack'[p][i] = IF i = L THEN f ELSE stack[p][i]
  BY <1>1, <1>2, SetTopStack
<1>4. \A q \in Processes : At1(q)' = At1(q)
  BY <1>3 DEF At1
<1>5. \A q \in Processes : Alive(q)' => Alive(q)
  BY DEF LivesOn, Alive
<1>6. \A q \in Processes : \A i \in At1(q) : stack'[q][i].kind = stack[q][i].kind
  BY <1>2, <1>3
<1>7. \A q \in Processes : \A i \in At1(q) : ~(q = p /\ i = L) => stack'[q][i] = stack[q][i]
  BY <1>3
<1>8. stack'[p][L] = f
  BY <1>2, <1>3
<1>9. k \in Kinds /\ k # Free
  BY <1>2 DEF Frames, Kinds, Free
<1>10. \A i \in At1(p) : i # L => stack[p][i].kind # k
  BY <1>1, <1>2 DEF Nested
<1>11. Typed'
  <2>1. mutex' \in (Processes \X Kinds) \cup {Unlocked}
    BY <1>1, <1>9 DEF Typed
  <2>2. sem' \in [Processes -> Kinds \cup {Free}]
    BY <1>1, <1>9 DEF Typed
  <2> QED
    BY <1>3, <2>1, <2>2 DEF Typed, LivesOn
<1>12. Nested'
  BY <1>1, <1>2, <1>3, <1>4, <1>5, <1>6 DEF Nested, At1
<1>13. MutexNames'
  <2> SUFFICES ASSUME NEW q \in Processes, Alive(q), NEW i \in At1(q)
               PROVE  stack'[q][i].pc = "print" <=> mutex' = <<q, stack[q][i].kind>>
    BY <1>4, <1>5, <1>6 DEF MutexNames
  <2>1. stack[q][i].pc = "print" <=> mutex = <<q, stack[q][i].kind>>
    BY <1>1 DEF MutexNames
  <2>2. Top(p).pc = "print" <=> mutex = <<p, k>>
    BY <1>1, <1>2 DEF MutexNames
  <2>3. <<p, k>> # Unlocked /\ <<q, stack[q][i].kind>> # Unlocked
    <3>1. stack[q][i].kind \in Kinds
      BY <1>1, FrameTypes
    <3> QED
      BY <1>9, <3>1 DEF Unlocked, Free, Kinds
  <2>4. <<q, stack[q][i].kind>> = <<p, k>> => q = p /\ i = L
    BY <1>10
  <2>5. CASE q = p /\ i = L
    BY <1>2, <1>8, <2>2, <2>3, <2>5
  <2>6. CASE ~(q = p /\ i = L)
    BY <1>7, <2>1, <2>2, <2>3, <2>4, <2>6
  <2> QED
    BY <2>5, <2>6
<1>14. SemNames'
  <2> SUFFICES ASSUME NEW q \in Processes, Alive(q)
               PROVE  /\ \A i \in At1(q) : stack'[q][i].pc = "write" <=> sem'[q] = stack[q][i].kind
                      /\ sem'[q] = Free \/ \E i \in At1(q) : stack'[q][i].pc = "write"
                                                             /\ stack[q][i].kind = sem'[q]
    BY <1>4, <1>5, <1>6 DEF SemNames
  <2>1. /\ \A i \in At1(q) : stack[q][i].pc = "write" <=> sem[q] = stack[q][i].kind
        /\ sem[q] = Free \/ \E i \in At1(q) : stack[q][i].pc = "write" /\ stack[q][i].kind = sem[q]
    BY <1>1 DEF SemNames
  <2>2. CASE q # p
    <3>1. sem'[q] = sem[q]
      BY <1>1, <2>2 DEF Typed
    <3> QED
      BY <1>7, <2>1, <2>2, <3>1
  <2>3. CASE q = p
    <3>1. \A i \in At1(p) : stack[p][i].kind # Free
      BY <1>1, FrameTypes
    <3>2. CASE sem' = sem /\ Top(p).pc # "write" /\ f.pc # "write"
      <4>1. \A i \in At1(p) : stack'[p][i].pc = "write" <=> stack[p][i].pc = "write"
        BY <1>2, <1>3, <3>2
      <4>2. sem'[q] = sem[q]
        BY <3>2
      <4> QED
        BY <2>1, <2>3, <4>1, <4>2
    <3>3. CASE sem[p] = Free /\ sem' = [sem EXCEPT ![p] = k] /\ f.pc = "write"
      <4>1. sem'[p] = k
        BY <1>1, <3>3 DEF Typed
      <4> QED
        BY <1>2, <1>3, <1>10, <2>1, <2>3, <3>1, <3>3, <4>1
    <3>4. CASE Top(p).pc = "write" /\ sem' = [sem EXCEPT ![p] = Free] /\ f.pc # "write"
      <4>1. sem'[p] = Free /\ sem[p] = k
        BY <1>1, <1>2, <2>1, <2>3, <3>4 DEF Typed
      <4> QED
        BY <1>2, <1>3, <1>10, <2>1, <2>3, <3>1, <3>4, <4>1
    <3> QED
      BY <3>2, <3>3, <3>4
  <2> QED
    BY <2>2, <2>3
<1>15. OnlyInDebug'
  BY <1>1, <1>4, <1>5, <1>7, <1>8 DEF OnlyInDebug
<1>16. NoneBelowPrints'
  <2> SUFFICES ASSUME NEW q \in Processes, Alive(q), NEW i \in At1(q), NEW j \in At1(q), i < j,
                      Passed(stack'[q][j])
               PROVE  stack'[q][i].pc # "print"
    BY <1>4, <1>5 DEF NoneBelowPrints, Passed
  <2>1. ~(q = p /\ i = L)
    BY <1>2 DEF At1
  <2>2. stack'[q][i] = stack[q][i]
    BY <1>7, <2>1
  <2>3. CASE ~(q = p /\ j = L)
    BY <1>1, <1>7, <2>2, <2>3 DEF NoneBelowPrints
  <2>4. CASE q = p /\ j = L
    <3>1. CASE Passed(Top(p))
      BY <1>1, <1>2, <2>2, <2>4, <3>1 DEF NoneBelowPrints
    <3>2. CASE mutex = Unlocked
      <4>1. stack[q][i].kind \in Kinds
        BY <1>1, FrameTypes
      <4>2. mutex # <<q, stack[q][i].kind>>
        BY <3>2, <4>1 DEF Unlocked, Free, Kinds
      <4> QED
        BY <1>1, <2>2, <4>2 DEF MutexNames
    <3> QED
      BY <1>8, <2>4, <3>1, <3>2
  <2> QED
    BY <2>3, <2>4
<1>17. HeldOnlyWhilePrinting'
  <2> SUFFICES ASSUME mutex' # Unlocked
               PROVE  \/ life'[mutex'[1]] = "killed"
                      \/ /\ life'[mutex'[1]] = "running"
                         /\ \E i \in At1(mutex'[1]) : stack'[mutex'[1]][i].kind = mutex'[2]
                                                      /\ stack'[mutex'[1]][i].pc = "print"
    BY <1>4, <1>11 DEF HeldOnlyWhilePrinting, At1, Typed
  <2>1. CASE mutex' = <<p, k>> /\ f.pc = "print"
    <3>1. mutex'[1] = p /\ mutex'[2] = k
      BY <2>1
    <3> QED
      BY <1>2, <1>8, <2>1, <3>1
  <2>2. CASE mutex' = mutex /\ Top(p).pc # "print" /\ f.pc # "print"
    <3> DEFINE h == mutex[1]
    <3>1. h \in Processes /\ mutex[2] \in Kinds
      BY <1>1, <2>2 DEF Typed
    <3>2. \/ life[h] = "killed"
          \/ /\ life[h] = "running"
             /\ \E i \in At1(h) : stack[h][i].kind = mutex[2] /\ stack[h][i].pc = "print"
      BY <1>1, <2>2 DEF HeldOnlyWhilePrinting, At1
    <3>3. CASE life[h] = "killed"
      BY <2>2, <3>1, <3>3 DEF LivesOn
    <3>4. CASE life[h] = "running" /\ \E i \in At1(h) : stack[h][i].kind = mutex[2] /\ stack[h][i].pc = "print"
      <4>1. PICK i \in At1(h) : stack[h][i].kind = mutex[2] /\ stack[h][i].pc = "print"
        BY <3>4
      <4>2. stack'[h][i] = stack[h][i]
        BY <1>2, <1>7, <2>2, <3>1, <4>1
      <4>3. life'[h] \in {"running", "killed"}
        BY <3>1, <3>4 DEF LivesOn
      <4> QED
        BY <2>2, <4>1, <4>2, <4>3
    <3> QED
      BY <3>2, <3>3, <3>4
  <2> QED
    BY <2>1, <2>2
<1> QED
  BY <1>11, <1>12, <1>13, <1>14, <1>15, <1>16, <1>17 DEF IInv, Locks

-----------------------------------------------------------------------------
LEMMA SameLives == ASSUME Typed, life' = life PROVE LivesOn
BY DEF Typed, LivesOn

LEMMA MutexWaitKeeps ==
    ASSUME LockAssumption, IInv, NEW p \in Processes, my_lock_mutex_wait(p) PROVE IInv'
<1>1. /\ Alive(p) /\ Top(p).pc = "lock" /\ mutex = Unlocked /\ mutex' = <<p, Top(p).kind>>
      /\ SetTop(p, [Top(p) EXCEPT !.pc = "print"]) /\ UNCHANGED <<sem, life, sent>>
  BY DEF my_lock_mutex_wait, Running, Alive
<1>2. Locks /\ Typed /\ OnlyInDebug
  BY DEF IInv, Locks
<1>3. Top(p) \in Frames /\ Len(stack[p]) \in At1(p) /\ Top(p) = stack[p][Len(stack[p])]
  BY <1>1, <1>2, TopFrame
<1>4. PICK f : f = [Top(p) EXCEPT !.pc = "print"]
  OBVIOUS
<1>5. f \in Frames /\ f.kind = Top(p).kind /\ f.pc = "print"
  BY <1>3, <1>4, SetPc
<1>6. Debug
  BY <1>1, <1>2, <1>3 DEF OnlyInDebug, LockAssumption
<1>7. sent' \subseteq {"CHLD"} /\ LivesOn /\ life'[p] = "running" /\ SetTop(p, f)
  BY <1>1, <1>2, <1>4, SameLives DEF Typed, Alive
<1> QED
  BY <1>1, <1>5, <1>6, <1>7, TopStep

LEMMA MutexReleaseKeeps ==
    ASSUME LockAssumption, IInv, NEW p \in Processes, my_lock_mutex_release(p) PROVE IInv'
<1>1. /\ Alive(p) /\ Top(p).pc = "print" /\ mutex' = Unlocked
      /\ SetTop(p, AfterDebug(Top(p))) /\ UNCHANGED <<sem, life, sent>>
  BY DEF my_lock_mutex_release, Running, Alive
<1>2. Locks /\ Typed
  BY DEF IInv, Locks
<1>3. Top(p) \in Frames
  BY <1>1, <1>2, TopFrame
<1>4. PICK f : f = AfterDebug(Top(p))
  OBVIOUS
<1>5. f \in Frames /\ f.kind = Top(p).kind /\ f.pc \in {"run", "sem"}
  BY <1>3, <1>4, AfterDebugFrame
<1>6. Passed(f) => Passed(Top(p))
  BY <1>1, <1>5 DEF Passed
<1>7. sent' \subseteq {"CHLD"} /\ LivesOn /\ life'[p] = "running" /\ SetTop(p, f)
  BY <1>1, <1>2, <1>4, SameLives DEF Typed, Alive
<1> QED
  BY <1>1, <1>5, <1>6, <1>7, TopStep

LEMMA LogWaitKeeps == ASSUME LockAssumption, IInv, NEW p \in Processes, log_wait(p) PROVE IInv'
<1>1. /\ Alive(p) /\ Top(p).pc = "sem" /\ sem[p] = Free /\ sem' = [sem EXCEPT ![p] = Top(p).kind]
      /\ SetTop(p, [Top(p) EXCEPT !.pc = "write"]) /\ UNCHANGED <<mutex, life, sent>>
  BY DEF log_wait, Running, Alive
<1>2. Locks /\ Typed
  BY DEF IInv, Locks
<1>3. Top(p) \in Frames
  BY <1>1, <1>2, TopFrame
<1>4. PICK f : f = [Top(p) EXCEPT !.pc = "write"]
  OBVIOUS
<1>5. f \in Frames /\ f.kind = Top(p).kind /\ f.pc = "write"
  BY <1>3, <1>4, SetPc
<1>6. Passed(f) => Passed(Top(p))
  BY <1>1, <1>5 DEF Passed
<1>7. sent' \subseteq {"CHLD"} /\ LivesOn /\ life'[p] = "running" /\ SetTop(p, f)
  BY <1>1, <1>2, <1>4, SameLives DEF Typed, Alive
<1> QED
  BY <1>1, <1>5, <1>6, <1>7, TopStep

LEMMA LogPostKeeps == ASSUME LockAssumption, IInv, NEW p \in Processes, log_post(p) PROVE IInv'
<1>1. /\ Alive(p) /\ Top(p).pc = "write" /\ sem' = [sem EXCEPT ![p] = Free]
      /\ SetTop(p, [Top(p) EXCEPT !.pc = "run"]) /\ UNCHANGED <<mutex, life, sent>>
  BY DEF log_post, Running, Alive
<1>2. Locks /\ Typed
  BY DEF IInv, Locks
<1>3. Top(p) \in Frames
  BY <1>1, <1>2, TopFrame
<1>4. PICK f : f = [Top(p) EXCEPT !.pc = "run"]
  OBVIOUS
<1>5. f \in Frames /\ f.kind = Top(p).kind /\ f.pc = "run"
  BY <1>3, <1>4, SetPc
<1>6. Passed(f) => Passed(Top(p))
  BY <1>1, <1>5 DEF Passed
<1>7. sent' \subseteq {"CHLD"} /\ LivesOn /\ life'[p] = "running" /\ SetTop(p, f)
  BY <1>1, <1>2, <1>4, SameLives DEF Typed, Alive
<1> QED
  BY <1>1, <1>5, <1>6, <1>7, TopStep

\* A frame that runs says something, and goes on at a stage.
LEMMA Says ==
    ASSUME LockAssumption, IInv, NEW p \in Processes, Alive(p), Top(p).pc = "run",
           NEW log \in BOOLEAN, NEW stage \in Stages,
           SetTop(p, Say(Top(p), log, stage)), UNCHANGED <<mutex, sem, sent>>,
           LivesOn, life'[p] = "running"
    PROVE  IInv'
<1>1. Locks /\ Typed
  BY DEF IInv, Locks
<1>2. Top(p) \in Frames
  BY <1>1, TopFrame
<1>3. PICK f : f = Say(Top(p), log, stage)
  OBVIOUS
<1>4. f \in Frames /\ f.kind = Top(p).kind /\ (Debug => f.pc = "lock") /\ (~Debug => f.pc \in {"run", "sem"})
  BY <1>2, <1>3, SayFrame
<1>5. Passed(f) => Passed(Top(p))
  BY <1>4 DEF Passed
<1>6. sent' \subseteq {"CHLD"} /\ SetTop(p, f)
  BY <1>1, <1>3 DEF Typed
<1>7. /\ f.pc \in {"lock", "run", "sem"}
      /\ ~Debug => f.pc \notin {"lock", "print"}
  BY <1>4
<1> QED
  BY <1>4, <1>5, <1>6, <1>7, TopStep

LEMMA LoopKeeps == ASSUME LockAssumption, IInv, NEW p \in Processes, LoopMessage(p) PROVE IInv'
<1>1. PICK log \in BOOLEAN : SetTop(p, Say(Top(p), log, "loop"))
  BY DEF LoopMessage
<1>2. Alive(p) /\ Top(p).pc = "run" /\ UNCHANGED <<mutex, sem, life, sent>>
  BY DEF LoopMessage, At, Alive
<1>3. LivesOn /\ life'[p] = "running"
  BY <1>2, SameLives DEF IInv, Locks, Alive
<1> QED
  BY <1>1, <1>2, <1>3, Says DEF Stages

LEMMA ReapKeeps == ASSUME LockAssumption, IInv, Reap PROVE IInv'
<1>1. PICK c \in Children : life[c] = "zombie" /\ life' = [life EXCEPT ![c] = "gone"]
  BY DEF Reap
<1>2. /\ Alive(Parent) /\ Top(Parent).pc = "run" /\ SetTop(Parent, Say(Top(Parent), FALSE, "reap"))
      /\ UNCHANGED <<mutex, sem, sent>> /\ Parent \in Processes
  BY DEF Reap, At, Alive, Processes
<1>3. LivesOn /\ life'[Parent] = "running"
  BY <1>1, <1>2 DEF IInv, Locks, Typed, Alive, LivesOn, Processes
<1> QED
  BY <1>2, <1>3, Says DEF Stages

LEMMA CpuTimeKeeps == ASSUME LockAssumption, IInv, pr_cpu_time PROVE IInv'
<1>1. /\ Alive(Parent) /\ Top(Parent).pc = "run" /\ SetTop(Parent, Say(Top(Parent), TRUE, "return"))
      /\ UNCHANGED <<mutex, sem, life, sent>> /\ Parent \in Processes
  BY DEF pr_cpu_time, At, Alive, Processes
<1>2. LivesOn /\ life'[Parent] = "running"
  BY <1>1, SameLives DEF IInv, Locks, Alive
<1> QED
  BY <1>1, <1>2, Says DEF Stages

LEMMA KillKeeps == ASSUME LockAssumption, IInv, KillChildren PROVE IInv'
<1>1. /\ Alive(Parent) /\ Top(Parent).pc = "run" /\ SetTop(Parent, Say(Top(Parent), TRUE, "exit"))
      /\ UNCHANGED <<mutex, sem, sent>> /\ Parent \in Processes
  BY DEF KillChildren, At, Alive, Processes
<1>2. life' = [c \in Processes |-> IF c \in Children /\ life[c] = "running" THEN "killed" ELSE life[c]]
  BY DEF KillChildren
<1>3. LivesOn /\ life'[Parent] = "running"
  BY <1>1, <1>2 DEF IInv, Locks, Typed, Alive, LivesOn, LockAssumption
<1> QED
  BY <1>1, <1>3, Says DEF Stages

\* A handler begins above the frames of the parent.
LEMMA PushKeeps ==
    ASSUME LockAssumption, IInv, Alive(Parent), NEW f \in Frames, Push(Parent, f),
           \A i \in At1(Parent) : stack[Parent][i].kind # f.kind,
           f.pc \in {"run", "lock", "sem"}, ~Debug => f.pc # "lock",
           Passed(f) => ~Debug,
           sent' \subseteq {"CHLD"}, UNCHANGED <<mutex, sem, life>>
    PROVE  IInv'
<1> DEFINE L == Len(stack[Parent])
<1>1. /\ Typed /\ Nested /\ MutexNames /\ SemNames /\ OnlyInDebug /\ NoneBelowPrints
      /\ HeldOnlyWhilePrinting /\ Locks /\ Parent \in Processes
  BY DEF IInv, Locks, Processes
<1>2. L \in Nat /\ L > 0
  BY <1>1 DEF Typed, Nested
<1>3. /\ stack' \in [Processes -> Seq(Frames)]
      /\ \A q \in Processes : q # Parent => stack'[q] = stack[q]
      /\ Len(stack'[Parent]) = L + 1
      /\ \A i \in At1(Parent) : stack'[Parent][i] = stack[Parent][i]
      /\ stack'[Parent][L + 1] = f
  BY <1>1, PushStack
<1>4. \A q \in Processes : \A i \in At1(q)' : i \in At1(q) \/ (q = Parent /\ i = L + 1)
  BY <1>2, <1>3 DEF At1
<1>5. \A q \in Processes : \A i \in At1(q) : i \in At1(q)' /\ stack'[q][i] = stack[q][i]
  BY <1>2, <1>3 DEF At1
<1>6. \A q \in Processes : Alive(q)' <=> Alive(q)
  BY DEF Alive
<1>7. f.kind \in Kinds /\ f.kind # Free
  BY DEF Frames, Kinds, Free
<1>8. Typed'
  BY <1>1, <1>3 DEF Typed
<1>9. Nested'
  <2>1. \A q \in Processes : Alive(q) => Len(stack'[q]) > 0 /\ stack'[q][1].kind = "main"
    <3>1. 1 \in At1(Parent)
      BY <1>2 DEF At1
    <3> QED
      BY <1>1, <1>2, <1>3, <3>1 DEF Nested
  <2>2. ASSUME NEW q \in Processes, Alive(q), NEW i \in At1(q)', NEW j \in At1(q)',
               stack'[q][i].kind = stack'[q][j].kind
        PROVE  i = j
    BY <1>1, <1>3, <1>4, <1>5, <2>2 DEF Nested
  <2> QED
    BY <1>6, <2>1, <2>2 DEF Nested
<1>10. MutexNames'
  <2>1. mutex # <<Parent, f.kind>>
    <3> SUFFICES ASSUME mutex = <<Parent, f.kind>> PROVE FALSE
      OBVIOUS
    <3>1. mutex # Unlocked /\ mutex[1] = Parent /\ mutex[2] = f.kind
      BY <1>7 DEF Unlocked, Free, Kinds
    <3>2. \E i \in At1(Parent) : stack[Parent][i].kind = f.kind
      BY <1>1, <3>1 DEF HeldOnlyWhilePrinting, Alive, At1
    <3> QED
      BY <3>2
  <2> QED
    BY <1>1, <1>3, <1>4, <1>5, <1>6, <2>1 DEF MutexNames
<1>11. SemNames'
  <2> SUFFICES ASSUME NEW q \in Processes, Alive(q)
               PROVE  /\ \A i \in At1(q)' : stack'[q][i].pc = "write" <=> sem[q] = stack'[q][i].kind
                      /\ sem[q] = Free \/ \E i \in At1(q)' : stack'[q][i].pc = "write"
                                                             /\ stack'[q][i].kind = sem[q]
    BY <1>6 DEF SemNames
  <2>1. /\ \A i \in At1(q) : stack[q][i].pc = "write" <=> sem[q] = stack[q][i].kind
        /\ sem[q] = Free \/ \E i \in At1(q) : stack[q][i].pc = "write" /\ stack[q][i].kind = sem[q]
    BY <1>1 DEF SemNames
  <2>2. q = Parent => sem[q] # f.kind
    BY <1>7, <2>1
  <2>3. \A i \in At1(q)' : stack'[q][i].pc = "write" <=> sem[q] = stack'[q][i].kind
    BY <1>3, <1>4, <1>5, <2>1, <2>2
  <2>4. sem[q] = Free \/ \E i \in At1(q)' : stack'[q][i].pc = "write" /\ stack'[q][i].kind = sem[q]
    BY <1>5, <2>1
  <2> QED
    BY <2>3, <2>4
<1>12. OnlyInDebug'
  BY <1>1, <1>3, <1>4, <1>5, <1>6 DEF OnlyInDebug
<1>13. NoneBelowPrints'
  <2> SUFFICES ASSUME NEW q \in Processes, Alive(q), NEW i \in At1(q)', NEW j \in At1(q)', i < j,
                      Passed(stack'[q][j])
               PROVE  stack'[q][i].pc # "print"
    BY <1>6 DEF NoneBelowPrints, Passed
  <2>1. i \in At1(q)
    BY <1>2, <1>3, <1>4 DEF At1
  <2>2. stack'[q][i] = stack[q][i]
    BY <1>5, <2>1
  <2>3. CASE j \in At1(q)
    BY <1>1, <1>5, <2>1, <2>2, <2>3 DEF NoneBelowPrints
  <2>4. CASE q = Parent /\ j = L + 1
    BY <1>1, <1>3, <2>1, <2>2, <2>4 DEF OnlyInDebug
  <2> QED
    BY <1>4, <2>3, <2>4
<1>14. HeldOnlyWhilePrinting'
  <2> SUFFICES ASSUME mutex # Unlocked
               PROVE  \/ life[mutex[1]] = "killed"
                      \/ /\ life[mutex[1]] = "running"
                         /\ \E i \in At1(mutex[1])' : stack'[mutex[1]][i].kind = mutex[2]
                                                      /\ stack'[mutex[1]][i].pc = "print"
    BY DEF HeldOnlyWhilePrinting, At1
  <2>1. mutex[1] \in Processes
    BY <1>1 DEF Typed
  <2> QED
    BY <1>1, <1>5, <2>1 DEF HeldOnlyWhilePrinting, At1
<1> QED
  BY <1>8, <1>9, <1>10, <1>11, <1>12, <1>13, <1>14 DEF IInv, Locks

LEMMA ChldKeeps == ASSUME LockAssumption, IInv, ftpd_sig_chld PROVE IInv'
<1>1. PICK f : f = Frame("chld", "reap")
  OBVIOUS
<1>2. f \in Frames /\ f.kind = "chld" /\ f.pc = "run"
  BY <1>1 DEF Frame, Frames, Kinds, Stages
<1>3. /\ Alive(Parent) /\ Push(Parent, f) /\ \A i \in At1(Parent) : stack[Parent][i].kind # "chld"
      /\ sent' \subseteq {"CHLD"} /\ UNCHANGED <<mutex, sem, life>>
  BY <1>1 DEF ftpd_sig_chld, Alive, At1, IInv, Locks, Typed
<1> QED
  BY <1>2, <1>3, PushKeeps DEF Passed

LEMMA IntKeeps == ASSUME LockAssumption, IInv, ftpd_sig_int PROVE IInv'
<1>1. PICK h : h = Frame("int", "say")
  OBVIOUS
<1>2. h \in Frames /\ h.kind = "int"
  BY <1>1 DEF Frame, Frames, Kinds, Stages
<1>3. PICK f : f = Say(h, TRUE, "kill")
  OBVIOUS
<1>4. f \in Frames /\ f.kind = "int" /\ f.stage = "kill" /\ (Debug => f.pc = "lock") /\ (~Debug => f.pc \in {"run", "sem"})
  <2>1. TRUE \in BOOLEAN /\ "kill" \in Stages
    BY DEF Stages
  <2> QED
    BY <1>2, <1>3, <2>1, SayFrame
<1>5. /\ Alive(Parent) /\ Push(Parent, f) /\ \A i \in At1(Parent) : stack[Parent][i].kind # "int"
      /\ sent' \subseteq {"CHLD"} /\ UNCHANGED <<mutex, sem, life>>
  BY <1>1, <1>3 DEF ftpd_sig_int, Alive, At1, IInv, Locks, Typed
<1>6. Passed(f) => ~Debug
  BY <1>4 DEF Passed
<1>7. f.pc \in {"run", "lock", "sem"} /\ (~Debug => f.pc # "lock")
  BY <1>4
<1> QED
  BY <1>4, <1>5, <1>6, <1>7, PushKeeps

\* A process ends, by itself, when none of its frames prints.
LEMMA QuitKeeps ==
    ASSUME LockAssumption, IInv, NEW c \in Processes, Alive(c),
           \A i \in At1(c) : stack[c][i].pc # "print",
           NEW fate \in {"zombie", "gone"}, life' = [life EXCEPT ![c] = fate],
           sent' \subseteq {"CHLD"}, UNCHANGED <<stack, mutex, sem>>
    PROVE  IInv'
<1>1. /\ Typed /\ Nested /\ MutexNames /\ SemNames /\ OnlyInDebug /\ NoneBelowPrints
      /\ HeldOnlyWhilePrinting
  BY DEF IInv, Locks
<1>2. life' \in [Processes -> {"none", "running", "zombie", "gone", "killed"}]
  BY <1>1 DEF Typed
<1>3. \A q \in Processes : (q # c => life'[q] = life[q]) /\ (Alive(q)' => Alive(q))
  BY <1>1 DEF Typed, Alive
<1>4. \A q \in Processes : At1(q)' = At1(q)
  BY DEF At1
<1>5. Typed'
  BY <1>1, <1>2 DEF Typed
<1>6. Nested' /\ MutexNames' /\ SemNames' /\ OnlyInDebug' /\ NoneBelowPrints'
  <2>1. Nested' /\ MutexNames'
    BY <1>1, <1>3, <1>4 DEF Nested, MutexNames
  <2>2. SemNames' /\ OnlyInDebug'
    BY <1>1, <1>3, <1>4 DEF SemNames, OnlyInDebug
  <2>3. NoneBelowPrints'
    BY <1>1, <1>3, <1>4 DEF NoneBelowPrints, Passed
  <2> QED
    BY <2>1, <2>2, <2>3
<1>7. HeldOnlyWhilePrinting'
  <2> SUFFICES ASSUME mutex # Unlocked
               PROVE  \/ life'[mutex[1]] = "killed"
                      \/ /\ life'[mutex[1]] = "running"
                         /\ \E i \in At1(mutex[1]) : stack[mutex[1]][i].kind = mutex[2]
                                                     /\ stack[mutex[1]][i].pc = "print"
    BY <1>1 DEF HeldOnlyWhilePrinting, At1
  <2>1. mutex[1] \in Processes
    BY <1>1 DEF Typed
  <2>2. \/ life[mutex[1]] = "killed"
        \/ /\ life[mutex[1]] = "running"
           /\ \E i \in At1(mutex[1]) : stack[mutex[1]][i].kind = mutex[2]
                                       /\ stack[mutex[1]][i].pc = "print"
    BY <1>1 DEF HeldOnlyWhilePrinting, At1
  <2>3. mutex[1] # c
    BY <2>2 DEF Alive
  <2> QED
    BY <1>3, <2>1, <2>2, <2>3
<1> QED
  BY <1>5, <1>6, <1>7 DEF IInv, Locks

LEMMA SessionEndsKeeps ==
    ASSUME LockAssumption, IInv, NEW c \in Children, SessionEnds(c) PROVE IInv'
<1>1. /\ c \in Processes /\ Alive(c) /\ Top(c).kind = "main" /\ Top(c).pc = "run"
      /\ life' = [life EXCEPT ![c] = "zombie"]
  BY DEF SessionEnds, At, Alive, Processes
<1>2. sent' \subseteq {"CHLD"} /\ UNCHANGED <<stack, mutex, sem>>
  BY DEF SessionEnds, IInv, Locks, Typed
<1>3. Len(stack[c]) = 1 /\ Top(c) = stack[c][Len(stack[c])]
  BY <1>1, TopFrame DEF IInv
<1>4. \A i \in At1(c) : stack[c][i].pc # "print"
  BY <1>1, <1>3 DEF At1
<1> QED
  BY <1>1, <1>2, <1>4, QuitKeeps

LEMMA ParentExitsKeeps == ASSUME LockAssumption, IInv, ParentExits PROVE IInv'
<1>1. /\ Parent \in Processes /\ Alive(Parent) /\ Top(Parent).kind = "int" /\ Top(Parent).pc = "run"
      /\ life' = [life EXCEPT ![Parent] = "gone"]
  BY DEF ParentExits, At, Alive, Processes
<1>2. sent' \subseteq {"CHLD"} /\ UNCHANGED <<stack, mutex, sem>>
  BY DEF ParentExits, IInv, Locks, Typed
<1>3. Len(stack[Parent]) \in At1(Parent) /\ Top(Parent) = stack[Parent][Len(stack[Parent])]
  BY <1>1, TopFrame DEF IInv
<1>4. Passed(Top(Parent))
  BY <1>1 DEF Passed
<1>5. stack[Parent] \in Seq(Frames)
  BY <1>1 DEF IInv, Locks, Typed
<1>6. \A i \in At1(Parent) : i < Len(stack[Parent]) => stack[Parent][i].pc # "print"
  BY <1>1, <1>3, <1>4 DEF IInv, Locks, NoneBelowPrints
<1>7. \A i \in At1(Parent) : stack[Parent][i].pc # "print"
  BY <1>1, <1>3, <1>5, <1>6 DEF At1
<1> QED
  BY <1>1, <1>2, <1>7, QuitKeeps

\* The handler of SIGCHLD returns to what it interrupted.
LEMMA ChldReturnsKeeps == ASSUME LockAssumption, IInv, ChldReturns PROVE IInv'
<1> DEFINE L == Len(stack[Parent])
<1>1. /\ Typed /\ Nested /\ MutexNames /\ SemNames /\ OnlyInDebug /\ NoneBelowPrints
      /\ HeldOnlyWhilePrinting /\ Locks /\ Parent \in Processes
  BY DEF IInv, Locks, Processes
<1>2. /\ Alive(Parent) /\ Top(Parent).kind = "chld" /\ Top(Parent).pc = "run"
      /\ Pop(Parent) /\ UNCHANGED <<mutex, sem, life, sent>>
  BY DEF ChldReturns, At, Alive
<1>3. /\ L \in At1(Parent) /\ Top(Parent) = stack[Parent][L]
      /\ stack[Parent][1].kind = "main" /\ L \in Nat
  BY <1>1, <1>2, TopFrame DEF Nested, Typed
<1>4. L > 1
  BY <1>2, <1>3 DEF At1
<1>5. /\ stack' \in [Processes -> Seq(Frames)]
      /\ \A q \in Processes : q # Parent => stack'[q] = stack[q]
      /\ Len(stack'[Parent]) = L - 1
      /\ \A i \in 1..L - 1 : stack'[Parent][i] = stack[Parent][i]
  BY <1>1, <1>2, <1>4, PopStack
<1>6. \A q \in Processes : \A i \in At1(q)' : i \in At1(q) /\ stack'[q][i] = stack[q][i]
  BY <1>3, <1>4, <1>5 DEF At1
<1>7. \A q \in Processes : \A i \in At1(q) : i \in At1(q)' \/ (q = Parent /\ i = L)
  BY <1>3, <1>4, <1>5 DEF At1
<1>8. \A q \in Processes : Alive(q)' <=> Alive(q)
  BY <1>2 DEF Alive
<1>9. Typed'
  BY <1>1, <1>2, <1>5 DEF Typed
<1>10. Nested'
  <2>1. \A q \in Processes : Alive(q) => Len(stack'[q]) > 0 /\ stack'[q][1].kind = "main"
    <3>1. 1 \in 1..L - 1
      BY <1>3, <1>4
    <3> QED
      BY <1>1, <1>3, <1>4, <1>5, <3>1 DEF Nested
  <2> QED
    BY <1>1, <1>6, <1>8, <2>1 DEF Nested
<1>11. MutexNames'
  BY <1>1, <1>2, <1>6, <1>8 DEF MutexNames
<1>12. SemNames'
  <2> SUFFICES ASSUME NEW q \in Processes, Alive(q)
               PROVE  /\ \A i \in At1(q)' : stack'[q][i].pc = "write" <=> sem[q] = stack'[q][i].kind
                      /\ sem[q] = Free \/ \E i \in At1(q)' : stack'[q][i].pc = "write"
                                                             /\ stack'[q][i].kind = sem[q]
    BY <1>2, <1>8 DEF SemNames
  <2>1. /\ \A i \in At1(q) : stack[q][i].pc = "write" <=> sem[q] = stack[q][i].kind
        /\ sem[q] = Free \/ \E i \in At1(q) : stack[q][i].pc = "write" /\ stack[q][i].kind = sem[q]
    BY <1>1 DEF SemNames
  <2>2. \A i \in At1(q) : stack[q][i].pc = "write" => i \in At1(q)'
    BY <1>2, <1>3, <1>7
  <2>3. \A i \in At1(q)' : stack'[q][i].pc = "write" <=> sem[q] = stack'[q][i].kind
    BY <1>6, <2>1
  <2>4. sem[q] = Free \/ \E i \in At1(q)' : stack'[q][i].pc = "write" /\ stack'[q][i].kind = sem[q]
    BY <1>6, <2>1, <2>2
  <2> QED
    BY <2>3, <2>4
<1>13. OnlyInDebug'
  BY <1>1, <1>6, <1>8 DEF OnlyInDebug
<1>14. NoneBelowPrints'
  BY <1>1, <1>6, <1>8 DEF NoneBelowPrints, Passed
<1>15. HeldOnlyWhilePrinting'
  <2> SUFFICES ASSUME mutex # Unlocked, NEW h, h = mutex[1]
               PROVE  \/ life[h] = "killed"
                      \/ /\ life[h] = "running"
                         /\ \E i \in At1(h)' : stack'[h][i].kind = mutex[2] /\ stack'[h][i].pc = "print"
    BY <1>2 DEF HeldOnlyWhilePrinting, At1
  <2>1. h \in Processes
    BY <1>1 DEF Typed
  <2>2. \/ life[h] = "killed"
        \/ /\ life[h] = "running"
           /\ \E i \in At1(h) : stack[h][i].kind = mutex[2] /\ stack[h][i].pc = "print"
    BY <1>1 DEF HeldOnlyWhilePrinting, At1
  <2>3. \A i \in At1(h) : stack[h][i].pc = "print" => i \in At1(h)'
    BY <1>2, <1>3, <1>7, <2>1
  <2>4. \A i \in At1(h)' : stack'[h][i] = stack[h][i]
    BY <1>6, <2>1
  <2> QED
    BY <2>2, <2>3, <2>4
<1> QED
  BY <1>9, <1>10, <1>11, <1>12, <1>13, <1>14, <1>15 DEF IInv, Locks

\* The parent forks from its loop, with no lock held; the child has a semaphore of its own.
LEMMA ForkKeeps == ASSUME LockAssumption, IInv, NEW c \in Children, fork(c) PROVE IInv'
<1>1. /\ Typed /\ Nested /\ MutexNames /\ SemNames /\ OnlyInDebug /\ NoneBelowPrints
      /\ HeldOnlyWhilePrinting /\ Locks /\ Parent \in Processes /\ c \in Processes
  BY DEF IInv, Locks, Processes
<1>2. /\ Alive(Parent) /\ Top(Parent).kind = "main" /\ Top(Parent).pc = "run" /\ life[c] = "none"
      /\ life' = [life EXCEPT ![c] = "running"] /\ stack' = [stack EXCEPT ![c] = Main]
      /\ sem' = [sem EXCEPT ![c] = sem[Parent]] /\ UNCHANGED <<mutex, sent>>
  BY DEF fork, At, Alive
<1>3. Len(stack[Parent]) = 1 /\ Top(Parent) = stack[Parent][Len(stack[Parent])]
  BY <1>1, <1>2, TopFrame
<1>4. sem[Parent] = Free
  BY <1>1, <1>2, <1>3 DEF SemNames, At1
<1>5. Main = <<Frame("main", "loop")>> /\ Frame("main", "loop") \in Frames
  BY DEF Main, Frame, Frames, Kinds, Stages
<1>6. Main \in Seq(Frames) /\ Len(Main) = 1 /\ Main[1] = Frame("main", "loop")
  BY <1>5
<1>7. Main[1].kind = "main" /\ Main[1].pc = "run"
  BY <1>6 DEF Frame
<1>8. stack' \in [Processes -> Seq(Frames)] /\ stack'[c] = Main
  BY <1>1, <1>2, <1>6 DEF Typed
<1>9. \A q \in Processes : q # c => stack'[q] = stack[q] /\ life'[q] = life[q] /\ sem'[q] = sem[q]
  BY <1>1, <1>2 DEF Typed
<1>10. sem'[c] = Free /\ sem' \in [Processes -> Kinds \cup {Free}]
  BY <1>1, <1>2, <1>4 DEF Typed
<1>11. \A q \in Processes : q # c => At1(q)' = At1(q) /\ (Alive(q)' <=> Alive(q))
  BY <1>9 DEF At1, Alive
<1>12. 1 \in At1(c)' /\ \A i \in At1(c)' : i = 1
  <2>1. Len(stack'[c]) = 1
    BY <1>6, <1>8
  <2> QED
    BY <2>1 DEF At1
<1>13. Typed'
  BY <1>1, <1>2, <1>8, <1>10 DEF Typed
<1>14. Nested'
  <2>1. ASSUME NEW q \in Processes, q = c
        PROVE  /\ Len(stack'[q]) > 0 /\ stack'[q][1].kind = "main"
               /\ \A i, j \in At1(q)' : stack'[q][i].kind = stack'[q][j].kind => i = j
    <3>1. Len(stack'[q]) = 1 /\ stack'[q][1] = Main[1]
      BY <1>6, <1>8, <2>1
    <3> QED
      BY <1>7, <1>12, <2>1, <3>1
  <2> QED
    BY <1>1, <1>9, <1>11, <2>1 DEF Nested
<1>15. mutex # Unlocked => mutex[1] \in Processes /\ mutex[1] # c
  BY <1>1, <1>2 DEF Typed, HeldOnlyWhilePrinting
<1>16. MutexNames'
  <2>1. mutex # <<c, "main">>
    <3> SUFFICES ASSUME mutex = <<c, "main">> PROVE FALSE
      OBVIOUS
    <3>1. mutex[1] = c /\ mutex # Unlocked
      BY DEF Unlocked, Free
    <3> QED
      BY <1>15, <3>1
  <2> QED
    BY <1>1, <1>2, <1>7, <1>8, <1>9, <1>11, <1>12, <2>1 DEF MutexNames
<1>17. SemNames'
  <2>1. "main" # Free
    BY DEF Free
  <2> QED
    <3>1. stack'[c][1].kind = "main" /\ stack'[c][1].pc = "run"
      BY <1>7, <1>8
    <3>2. ASSUME NEW q \in Processes, q = c
          PROVE  /\ \A i \in At1(q)' : stack'[q][i].pc = "write" <=> sem'[q] = stack'[q][i].kind
                 /\ sem'[q] = Free
      BY <1>10, <1>12, <2>1, <3>1, <3>2
    <3>3. ASSUME NEW q \in Processes, q # c, Alive(q)'
          PROVE  /\ \A i \in At1(q)' : stack'[q][i].pc = "write" <=> sem'[q] = stack'[q][i].kind
                 /\ sem'[q] = Free \/ \E i \in At1(q)' : stack'[q][i].pc = "write"
                                                          /\ stack'[q][i].kind = sem'[q]
      BY <1>1, <1>9, <1>11, <3>3 DEF SemNames
    <3> QED
      BY <3>2, <3>3 DEF SemNames
<1>18. OnlyInDebug'
  BY <1>1, <1>7, <1>8, <1>9, <1>11, <1>12 DEF OnlyInDebug
<1>19. NoneBelowPrints'
  BY <1>1, <1>7, <1>8, <1>9, <1>11, <1>12 DEF NoneBelowPrints, Passed
<1>20. HeldOnlyWhilePrinting'
  BY <1>1, <1>2, <1>9, <1>15 DEF HeldOnlyWhilePrinting
<1> QED
  BY <1>13, <1>14, <1>16, <1>17, <1>18, <1>19, <1>20 DEF IInv, Locks

-----------------------------------------------------------------------------
LEMMA InitialState == ASSUME LockAssumption, Init PROVE IInv
<1>1. Main = <<Frame("main", "loop")>> /\ Frame("main", "loop") \in Frames
  BY DEF Main, Frame, Frames, Kinds, Stages
<1>2. Main \in Seq(Frames) /\ Len(Main) = 1 /\ Main[1] = Frame("main", "loop")
  BY <1>1
<1>3. Main[1].kind = "main" /\ Main[1].pc = "run"
  BY <1>2 DEF Frame
<1>4. Parent \in Processes /\ stack[Parent] = Main /\ mutex = Unlocked
      /\ \A p \in Processes : (Alive(p) <=> p = Parent) /\ sem[p] = Free
  BY DEF Init, Processes, Alive
<1>5. 1 \in At1(Parent) /\ \A i \in At1(Parent) : i = 1
  <2>1. Len(stack[Parent]) = 1
    BY <1>2, <1>4
  <2> QED
    BY <2>1 DEF At1
<1>6. Typed
  BY <1>2 DEF Init, Typed
<1>7. Nested
  BY <1>2, <1>3, <1>4, <1>5 DEF Nested
<1>8. MutexNames
  <2>1. <<Parent, "main">> # Unlocked
    BY DEF Unlocked, Free
  <2> QED
    BY <1>3, <1>4, <1>5, <2>1 DEF MutexNames
<1>9. SemNames
  BY <1>3, <1>4, <1>5 DEF SemNames, Free
<1>10. OnlyInDebug /\ NoneBelowPrints /\ HeldOnlyWhilePrinting
  BY <1>3, <1>4, <1>5 DEF OnlyInDebug, NoneBelowPrints, Passed, HeldOnlyWhilePrinting
<1> QED
  BY <1>6, <1>7, <1>8, <1>9, <1>10 DEF IInv, Locks

LEMMA StepKeeps == ASSUME LockAssumption, IInv, [Next]_vars PROVE IInv'
<1>1. CASE UNCHANGED vars
  BY <1>1 DEF vars, IInv, Locks, Typed, Nested, MutexNames, SemNames, OnlyInDebug, NoneBelowPrints,
     HeldOnlyWhilePrinting, At1, Alive, Passed
<1>2. CASE \E p \in Processes : Locking(p) \/ LoopMessage(p)
  BY <1>2, MutexWaitKeeps, MutexReleaseKeeps, LogWaitKeeps, LogPostKeeps, LoopKeeps DEF Locking
<1>3. CASE \E c \in Children : fork(c) \/ SessionEnds(c)
  BY <1>3, ForkKeeps, SessionEndsKeeps
<1>4. CASE ftpd_sig_chld \/ ftpd_sig_int
  BY <1>4, ChldKeeps, IntKeeps
<1>5. CASE Handlers
  BY <1>5, ReapKeeps, CpuTimeKeeps, ChldReturnsKeeps, KillKeeps, ParentExitsKeeps DEF Handlers
<1> QED
  BY <1>1, <1>2, <1>3, <1>4, <1>5 DEF Next

(* The invariant of ftpd_debug and lprintf: whatever the handlers interrupt, *)
(* the mutex and the semaphores name the frames that print and write.        *)
THEOREM LockInvariant == ASSUME LockAssumption PROVE Spec => []IInv
<1>1. Init => IInv
  BY InitialState
<1>2. IInv /\ [Next]_vars => IInv'
  BY StepKeeps
<1> QED
  BY <1>1, <1>2, PTL DEF Spec

(* The types, and that a semaphore is held only by a frame that writes       *)
(* (lprintf).                                                                *)
THEOREM LockTypes == ASSUME LockAssumption PROVE Spec => []TypeOK
<1>1. IInv => TypeOK
  BY DEF IInv, Locks, Typed, SemNames, TypeOK, Alive, At1
<1> QED
  BY <1>1, LockInvariant, PTL

(* "The print won't be disturbed" (ftpd_debug): of all processes at most one *)
(* prints a message of -d at a time.                                         *)
THEOREM PrintsOneAtATime == ASSUME LockAssumption PROVE Spec => []OnePrints
<1>1. ASSUME IInv PROVE OnePrints
  <2> SUFFICES ASSUME NEW p \in Processes, NEW q \in Processes, p # q, Alive(p), Alive(q),
                      NEW i \in At1(p), NEW j \in At1(q),
                      stack[p][i].pc = "print", stack[q][j].pc = "print"
               PROVE  FALSE
    BY DEF OnePrints, Alive, At1
  <2>1. mutex = <<p, stack[p][i].kind>> /\ mutex = <<q, stack[q][j].kind>>
    BY <1>1 DEF IInv, Locks, MutexNames
  <2> QED
    BY <2>1
<1> QED
  BY <1>1, LockInvariant, PTL

(* No process leaves ftpd_debug, or ends by itself, with the mutex: its      *)
(* holder is printing, or was killed by SIGQUIT while it did.                *)
THEOREM MutexIsReleased == ASSUME LockAssumption PROVE Spec => []HeldOnlyWhilePrinting
<1>1. IInv => HeldOnlyWhilePrinting
  BY DEF IInv
<1> QED
  BY <1>1, LockInvariant, PTL
=============================================================================
