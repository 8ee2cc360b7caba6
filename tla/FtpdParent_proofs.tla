-------------------------- MODULE FtpdParent_proofs --------------------------
(***************************************************************************)
(* Proofs about the parent process, for every table size and every set of  *)
(* pids.  The argument rests on one observation: the SIGCHLD handler calls  *)
(* dele_from_pids with the value that ENDED its waitpid loop, 0 or -1, so  *)
(* the slots of pids are only ever filled, from the left.                  *)
(***************************************************************************)
EXTENDS FtpdParent, TLAPS

\* The value dele_from_pids gets, and the child add2pids gets.
LocalsOK ==
    /\ wpid \in {0, NoPid}
    /\ mpc = "add" => childpid \in Pids

IInv == TypeOK /\ NoCtrlFdLeak /\ LocalsOK /\ CountWithinTable

USE TableAssumption, PidsAssumption DEF NoPid

-----------------------------------------------------------------------------

\* When the occupied slots are the first k, add2pids stops at slot k + 1.
LEMMA FirstEmptySlot ==
    ASSUME NEW k \in 0 .. MAX_CHIHLD_NUM - 1,
           \A s \in Slots : pids[s] # NoPid <=> s <= k,
           Holding(NoPid) # {}
    PROVE  k + 1 \in Slots /\ FirstHolding(NoPid) = k + 1
<1>1. k + 1 \in Slots
  BY DEF Holding, Slots
<1>2. k + 1 \in Holding(NoPid)
  BY <1>1 DEF Holding, Slots
<1>3. \A t \in Holding(NoPid) : k + 1 <= t
  BY DEF Holding, Slots
<1>4. \A s \in Holding(NoPid) : (\A t \in Holding(NoPid) : s <= t) => s = k + 1
  BY <1>2, <1>3 DEF Holding, Slots
<1>5. FirstHolding(NoPid) = k + 1
  BY <1>2, <1>3, <1>4 DEF FirstHolding
<1> QED
  BY <1>1, <1>5

\* The scan of ftpd_sig_int goes no further than the occupied slots.
LEMMA ScanBounded == IInv => ScanInBounds
BY DEF IInv, TypeOK, CountWithinTable, ScanInBounds, Scanning, Slots

\* dele_from_pids(0) finds no slot; dele_from_pids(-1) can only stop at an
\* empty one.
LEMMA DeleteKeepsTable ==
    ASSUME IInv, DeleFromPids
    PROVE  /\ pids' = pids
           /\ nchild' = nchild \/ nchild' = nchild - 1
<1>1. CASE Holding(wpid) = {}
  BY <1>1 DEF DeleFromPids, table
<1>2. CASE Holding(wpid) # {}
  <2>1. wpid = NoPid
    BY <1>2 DEF IInv, LocalsOK, TypeOK, Holding
  <2>2. PICK k \in 0 .. MAX_CHIHLD_NUM - 1 :
           \A s \in Slots : pids[s] # NoPid <=> s <= k
    BY DEF IInv, CountWithinTable
  <2>3. k + 1 \in Slots /\ FirstHolding(NoPid) = k + 1
    BY <1>2, <2>1, <2>2, FirstEmptySlot
  <2>4. pids[k + 1] = NoPid
    BY <2>2, <2>3 DEF Slots
  <2>5. pids' = [pids EXCEPT ![k + 1] = NoPid] /\ nchild' = nchild - 1
    BY <1>2, <2>1, <2>3 DEF DeleFromPids
  <2>6. pids' = pids
    BY <2>3, <2>4, <2>5 DEF IInv, TypeOK
  <2> QED
    BY <2>5, <2>6
<1> QED
  BY <1>1, <1>2

\* add2pids fills slot k + 1 or, when the table is full, leaves it alone.
LEMMA AddFillsNext ==
    ASSUME IInv, Add2pids,
           NEW k \in 0 .. MAX_CHIHLD_NUM - 1,
           \A s \in Slots : pids[s] # NoPid <=> s <= k
    PROVE  \/ /\ Holding(NoPid) = {} /\ pids' = pids /\ mpc' = "close"
           \/ /\ k + 1 \in Slots
              /\ pids' = [pids EXCEPT ![k + 1] = childpid]
              /\ mpc' = "load"
BY FirstEmptySlot DEF Add2pids

-----------------------------------------------------------------------------

LEMMA InitIInv == Init => IInv
<1> SUFFICES ASSUME Init PROVE IInv
  OBVIOUS
<1>1. TypeOK /\ NoCtrlFdLeak /\ LocalsOK
  <2>1. proc \in [Pids -> {"none", "live", "zombie", "foreign"}]
    BY DEF Init
  <2>2. pids \in [Slots -> Pids \cup {NoPid}]
    BY DEF Init
  <2>3. chldPend \in BOOLEAN
    BY DEF Init
  <2> QED
    BY <2>1, <2>2, <2>3 DEF Init, TypeOK, NoCtrlFdLeak, LocalsOK
<1>2. CountWithinTable
  <2>1. 0 \in 0 .. MAX_CHIHLD_NUM - 1
    OBVIOUS
  <2>2. \A s \in Slots : pids[s] # NoPid <=> s <= 0
    BY DEF Init, Slots
  <2> QED
    BY <2>1, <2>2 DEF Init, CountWithinTable
<1> QED
  BY <1>1, <1>2 DEF IInv

LEMMA NextTypeOK == IInv /\ [Next]_vars => TypeOK' /\ NoCtrlFdLeak' /\ LocalsOK'
<1> SUFFICES ASSUME IInv, [Next]_vars
             PROVE  TypeOK' /\ NoCtrlFdLeak' /\ LocalsOK'
  OBVIOUS
<1> USE DEF IInv, TypeOK, NoCtrlFdLeak, LocalsOK, kernel, loop, table, handler
<1>1. CASE Accept
  BY <1>1 DEF Accept, At
<1>2. CASE Fork
  BY <1>2 DEF Fork, At, InState
<1>3. CASE ForkFails
  BY <1>3 DEF ForkFails, At
<1>4. CASE Add2pids
  <2>1. PICK k \in 0 .. MAX_CHIHLD_NUM - 1 :
           \A s \in Slots : pids[s] # NoPid <=> s <= k
    BY DEF CountWithinTable
  <2>2. pids' \in [Slots -> Pids \cup {NoPid}] /\ mpc' \in {"load", "close"}
    BY <1>4, <2>1, AddFillsNext DEF Add2pids, At
  <2> QED
    BY <1>4, <2>2 DEF Add2pids, At
<1>5. CASE LoadNchild
  BY <1>5 DEF LoadNchild, At
<1>6. CASE StoreNchild
  BY <1>6 DEF StoreNchild, At
<1>7. CASE CloseCtrl
  BY <1>7 DEF CloseCtrl, At
<1>8. CASE SigChld
  BY <1>8 DEF SigChld
<1>9. CASE WaitpidReaps
  BY <1>9 DEF WaitpidReaps, InState
<1>10. CASE WaitpidEnds
  BY <1>10 DEF WaitpidEnds
<1>11. CASE DeleFromPids
  <2>1. pids' = pids /\ nchild' \in Int
    BY <1>11, DeleteKeepsTable
  <2> QED
    BY <1>11, <2>1 DEF DeleFromPids
<1>12. CASE SigInt
  BY <1>12 DEF SigInt
<1>13. CASE ScanStep
  <2>1. Scanning => pids[i] \in Pids \cup {NoPid}
    BY ScanBounded DEF ScanInBounds
  <2>2. CASE ScanKills
    <3>1. signalled' \subseteq Pids
      BY <2>1, <2>2 DEF ScanKills
    <3> QED
      BY <2>2, <3>1 DEF ScanKills
  <2>3. CASE ScanKillFails \/ ScanEnds
    BY <2>3 DEF ScanKillFails, ScanEnds
  <2> QED
    BY <1>13, <2>2, <2>3 DEF ScanStep
<1>14. ASSUME NEW p \in Pids,
              ChildExits(p) \/ InitReaps(p) \/ ForeignStarts(p) \/ ForeignEnds(p)
       PROVE  TypeOK' /\ NoCtrlFdLeak' /\ LocalsOK'
  <2>1. CASE ChildExits(p)
    BY <2>1 DEF ChildExits
  <2>2. CASE InitReaps(p)
    BY <2>2 DEF InitReaps
  <2>3. CASE ForeignStarts(p)
    BY <2>3 DEF ForeignStarts
  <2>4. CASE ForeignEnds(p)
    BY <2>4 DEF ForeignEnds
  <2> QED
    BY <1>14, <2>1, <2>2, <2>3, <2>4
<1>15. CASE UNCHANGED vars
  BY <1>15 DEF vars
<1> QED
  BY <1>1, <1>2, <1>3, <1>4, <1>5, <1>6, <1>7, <1>8, <1>9, <1>10, <1>11, <1>12,
     <1>13, <1>14, <1>15 DEF Next, MainStep, HandlerStep

LEMMA NextCount == IInv /\ [Next]_vars => CountWithinTable'
<1> SUFFICES ASSUME IInv, [Next]_vars
             PROVE  CountWithinTable'
  OBVIOUS
<1> DEFINE Prefix(k) == \A s \in Slots : pids[s] # NoPid <=> s <= k
           Count(k)  == nchild <= IF mpc \in {"load", "store"} THEN k - 1 ELSE k
           Temp(k)   == mpc = "store" => tmp <= k - 1
<1>0. PICK k \in 0 .. MAX_CHIHLD_NUM - 1 : Prefix(k) /\ Count(k) /\ Temp(k)
  BY DEF IInv, CountWithinTable
<1>1. SUFFICES \E n \in 0 .. MAX_CHIHLD_NUM - 1 :
                  Prefix(n)' /\ Count(n)' /\ Temp(n)'
  BY DEF CountWithinTable
<1> USE DEF IInv, TypeOK
\* Most steps leave the table, the count and the register alone.
<1>2. ASSUME UNCHANGED <<pids, nchild, tmp>>,
             mpc' = mpc \/ {mpc, mpc'} \cap {"load", "store"} = {}
      PROVE  Prefix(k)' /\ Count(k)' /\ Temp(k)'
  BY <1>0, <1>2
<1>3. CASE Accept \/ Fork \/ ForkFails \/ CloseCtrl
  BY <1>2, <1>3 DEF Accept, Fork, ForkFails, CloseCtrl, At, table
<1>4. CASE Add2pids
  <2>1. CASE Holding(NoPid) = {} /\ pids' = pids /\ mpc' = "close"
    BY <1>2, <1>4, <2>1 DEF Add2pids, At
  <2>2. CASE k + 1 \in Slots /\ pids' = [pids EXCEPT ![k + 1] = childpid]
             /\ mpc' = "load"
    <3>1. childpid # NoPid
      BY <1>4 DEF Add2pids, At, LocalsOK
    <3>2. Prefix(k + 1)'
      BY <1>0, <2>2, <3>1 DEF Slots
    <3>3. Count(k + 1)' /\ Temp(k + 1)'
      BY <1>0, <1>4, <2>2 DEF Add2pids, At
    <3>4. k + 1 \in 0 .. MAX_CHIHLD_NUM - 1
      BY <2>2 DEF Slots
    <3> QED
      BY <3>2, <3>3, <3>4
  <2> QED
    BY <1>0, <1>4, <2>1, <2>2, AddFillsNext
<1>5. CASE LoadNchild
  BY <1>0, <1>5 DEF LoadNchild, At, table
<1>6. CASE StoreNchild
  BY <1>0, <1>6 DEF StoreNchild, At
<1>7. CASE SigChld \/ WaitpidReaps \/ WaitpidEnds
  BY <1>2, <1>7 DEF SigChld, WaitpidReaps, WaitpidEnds, loop, table
<1>8. CASE DeleFromPids
  <2>1. pids' = pids /\ nchild' <= nchild /\ nchild' \in Int
    BY <1>8, DeleteKeepsTable
  <2>2. mpc' = mpc /\ tmp' = tmp
    BY <1>8 DEF DeleFromPids, loop
  <2> QED
    BY <1>0, <2>1, <2>2
<1>9. CASE SigInt \/ ScanStep
  BY <1>2, <1>9 DEF SigInt, ScanStep, ScanKills, ScanKillFails,
     ScanEnds, loop, table
<1>10. ASSUME NEW p \in Pids,
              ChildExits(p) \/ InitReaps(p) \/ ForeignStarts(p) \/ ForeignEnds(p)
       PROVE  Prefix(k)' /\ Count(k)' /\ Temp(k)'
  BY <1>2, <1>10 DEF ChildExits, InitReaps, ForeignStarts, ForeignEnds, loop, table
<1>11. CASE UNCHANGED vars
  BY <1>2, <1>11 DEF vars, loop, table
<1> QED
  BY <1>3, <1>4, <1>5, <1>6, <1>7, <1>8, <1>9, <1>10, <1>11
     DEF Next, MainStep, HandlerStep

\* The inductive invariant of the parent process.
THEOREM Invariance == Spec => []IInv
<1>1. IInv /\ [Next]_vars => IInv'
  BY NextTypeOK, NextCount DEF IInv
<1> QED
  BY <1>1, InitIInv, PTL DEF Spec

\* Every variable keeps its type.
THEOREM TypeCorrect == Spec => []TypeOK
<1>1. IInv => TypeOK
  BY DEF IInv
<1> QED
  BY <1>1, Invariance, PTL

\* ftpd_nchild never exceeds the number of occupied slots (add2pids and dele_from_pids), although
\* a handler changes it between the load and the store of ++ftpd_nchild.
THEOREM CountIsWithinTable == Spec => []CountWithinTable
<1>1. IInv => CountWithinTable
  BY DEF IInv
<1> QED
  BY <1>1, Invariance, PTL

\* ftpd_sig_int never reads outside the table pids, whenever SIGINT arrives.
THEOREM ScanSafe == Spec => []ScanInBounds
BY ScanBounded, Invariance, PTL

\* The parent has no control connection open while it waits in accept.
THEOREM CtrlFdsBalanced == Spec => []NoCtrlFdLeak
<1>1. IInv => NoCtrlFdLeak
  BY DEF IInv
<1> QED
  BY <1>1, Invariance, PTL

-----------------------------------------------------------------------------

\* What is in the table stays there: no step, of the loop or of a handler,
\* changes an occupied slot.
LEMMA OccupiedKept ==
    ASSUME IInv, [Next]_vars, NEW s \in Slots, pids[s] # NoPid
    PROVE  pids'[s] = pids[s]
<1>1. CASE Add2pids
  <2>1. PICK k \in 0 .. MAX_CHIHLD_NUM - 1 :
           \A t \in Slots : pids[t] # NoPid <=> t <= k
    BY DEF IInv, CountWithinTable
  <2>2. s # k + 1
    BY <2>1 DEF Slots
  <2>3. pids' = pids \/ pids' = [pids EXCEPT ![k + 1] = childpid]
    BY <1>1, <2>1, AddFillsNext
  <2> QED
    BY <2>2, <2>3 DEF IInv, TypeOK
<1>2. CASE DeleFromPids
  BY <1>2, DeleteKeepsTable
<1>3. CASE \/ Accept \/ Fork \/ ForkFails \/ LoadNchild \/ StoreNchild
           \/ CloseCtrl \/ SigChld \/ WaitpidReaps \/ WaitpidEnds
  BY <1>3 DEF Accept, Fork, ForkFails, LoadNchild, StoreNchild, CloseCtrl,
     SigChld, WaitpidReaps, WaitpidEnds, table
<1>4. CASE SigInt \/ ScanStep
  BY <1>4 DEF SigInt, ScanStep, ScanKills, ScanKillFails, ScanEnds, table
<1>5. ASSUME NEW p \in Pids,
             ChildExits(p) \/ InitReaps(p) \/ ForeignStarts(p) \/ ForeignEnds(p)
      PROVE  pids' = pids
  BY <1>5 DEF ChildExits, InitReaps, ForeignStarts, ForeignEnds, table
<1>6. CASE UNCHANGED vars
  BY <1>6 DEF vars, table
<1> QED
  BY <1>1, <1>2, <1>3, <1>4, <1>5, <1>6 DEF Next, MainStep, HandlerStep

\* No step removes a running child from the table, although the SIGCHLD
\* handler edits it while the loop may be inside add2pids.
THEOREM RunningChildNeverDropped == Spec => RunningChildKept
<1>1. IInv /\ [Next]_vars =>
         [\A s \in Slots :
            (pids[s] # NoPid /\ proc[pids[s]] = "live") => pids'[s] = pids[s]]_vars
  BY OccupiedKept
<1> QED
  BY <1>1, Invariance, PTL DEF Spec, RunningChildKept

\* A step keeps every running child recorded.
LEMMA NextRecorded ==
    IInv /\ RunningChildRecorded /\ [Next]_vars => RunningChildRecorded'
<1> SUFFICES ASSUME IInv, RunningChildRecorded, [Next]_vars,
                    NEW p \in Pids, (proc[p])' = "live"
             PROVE  \/ Holding(p)' # {}
                    \/ Holding(NoPid)' = {}
                    \/ (mpc = "add" /\ childpid = p)'
  BY DEF RunningChildRecorded, InState
<1>1. Holding(p) # {} => Holding(p)' # {}
  BY OccupiedKept DEF Holding
<1>2. Holding(NoPid) = {} => Holding(NoPid)' = {}
  BY OccupiedKept DEF Holding
<1>3. CASE Fork
  <2>1. CASE childpid' = p
    BY <1>3, <2>1 DEF Fork
  <2>2. CASE childpid' # p
    <3>1. proc[p] = "live"
      BY <1>3, <2>2 DEF Fork, InState, IInv, TypeOK
    <3> QED
      BY <1>1, <1>2, <1>3, <3>1 DEF RunningChildRecorded, InState, Fork, At
  <2> QED
    BY <2>1, <2>2
<1>4. CASE Add2pids
  <2>1. proc[p] = "live"
    BY <1>4 DEF Add2pids, kernel
  <2>2. CASE childpid # p
    BY <1>1, <1>2, <2>1, <2>2 DEF RunningChildRecorded, InState
  <2>3. CASE childpid = p
    <3>1. PICK k \in 0 .. MAX_CHIHLD_NUM - 1 :
             \A t \in Slots : pids[t] # NoPid <=> t <= k
      BY DEF IInv, CountWithinTable
    <3>2. CASE Holding(NoPid) = {}
      BY <1>2, <3>2
    <3>3. CASE k + 1 \in Slots /\ pids' = [pids EXCEPT ![k + 1] = childpid]
      BY <2>3, <3>3 DEF Holding, IInv, TypeOK
    <3> QED
      BY <1>4, <3>1, <3>2, <3>3, AddFillsNext
  <2> QED
    BY <2>2, <2>3
\* The other steps start no child and leave childpid alone while mpc = "add".
<1>5. ASSUME proc[p] = "live", mpc = "add" => mpc' = "add" /\ childpid' = childpid
      PROVE  \/ Holding(p)' # {}
             \/ Holding(NoPid)' = {}
             \/ (mpc = "add" /\ childpid = p)'
  BY <1>1, <1>2, <1>5 DEF RunningChildRecorded, InState
<1>6. CASE Accept \/ ForkFails \/ LoadNchild \/ StoreNchild \/ CloseCtrl
  BY <1>5, <1>6 DEF Accept, ForkFails, LoadNchild, StoreNchild, CloseCtrl, At, kernel
<1>7. CASE SigChld \/ WaitpidEnds \/ DeleFromPids \/ SigInt
  BY <1>5, <1>7 DEF SigChld, WaitpidEnds, DeleFromPids, SigInt, kernel, loop
<1>8. CASE WaitpidReaps
  BY <1>5, <1>8 DEF WaitpidReaps, InState, loop, IInv, TypeOK
<1>9. CASE ScanStep
  BY <1>5, <1>9 DEF ScanStep, ScanKills, ScanKillFails, ScanEnds,
     kernel, loop
<1>10. CASE \E q \in Pids : \/ ChildExits(q) \/ InitReaps(q)
                           \/ ForeignStarts(q) \/ ForeignEnds(q)
  BY <1>5, <1>10 DEF ChildExits, InitReaps, ForeignStarts, ForeignEnds, loop,
     IInv, TypeOK
<1>11. CASE UNCHANGED vars
  BY <1>5, <1>11 DEF vars, kernel, loop
<1> QED
  BY <1>3, <1>4, <1>6, <1>7, <1>8, <1>9, <1>10, <1>11
     DEF Next, MainStep, HandlerStep

\* Once add2pids has returned, a running child is in the table or the table
\* is full, whatever signals arrived meanwhile.
THEOREM RunningChildIsRecorded == Spec => []RunningChildRecorded
<1>1. Init => RunningChildRecorded
  BY DEF Init, RunningChildRecorded, InState
<1> QED
  BY <1>1, NextRecorded, Invariance, PTL DEF Spec
=============================================================================
