----------------------------- MODULE EpollServer -----------------------------
(* The epoll server (my_epoll.c): one process, a listening socket that is    *)
(* watched level-triggered and connections that are watched edge-triggered.  *)
(* The kernel adds a connection to its ready list whenever something arrives *)
(* for it; epoll_wait hands out at most MAX_EVENTS of the list and takes     *)
(* connections off it; the server then reads each until there is no more.    *)
EXTENDS Integers, FiniteSets, TLAPS

CONSTANTS Peers, MAX_EVENTS,
          MaxSends, \* bound: pieces of data a peer sends
          Backlog   \* bound of listen(2)

Listen == "listenfd"
None == "none"
EpollAssumption ==
    /\ MAX_EVENTS \in Nat \ {0} /\ MaxSends \in Nat /\ Backlog \in Nat \ {0}
    /\ {Listen, None} \cap Peers = {}

VARIABLES conn,   \* of each peer: "none", "backlog", "open" or "closed" by the server
          data,   \* of each peer: pieces that have arrived and are not read
          sends,  \* of each peer: pieces it has sent
          eof,    \* peers that have closed their side
          err,    \* those whose connection was reset, until read(2) has told so
          missed, \* those whose end came with the last data, or was an error (history)
          ready,  \* the kernel's ready list
          events, \* what the last epoll_wait returned and is still to be handled
          fd,     \* the connection that is being read, or the listening socket
          n       \* how much has been read of it

vars == <<conn, data, sends, eof, err, missed, ready, events, fd, n>>
peers == <<conn, data, sends, eof, err, missed>>
Waiting == {p \in Peers : conn[p] = "backlog"}

(* The peers and the kernel *)
Connect(p) ==
    /\ conn[p] = "none" /\ Cardinality(Waiting) < Backlog
    /\ conn' = [conn EXCEPT ![p] = "backlog"]
    /\ UNCHANGED <<data, sends, eof, err, missed, ready, events, fd, n>>

Arrives(p) == ready' = IF conn[p] = "open" THEN ready \cup {p} ELSE ready

Send(p) ==
    /\ conn[p] \in {"backlog", "open"} /\ p \notin eof /\ sends[p] < MaxSends
    /\ data' = [data EXCEPT ![p] = @ + 1]
    /\ sends' = [sends EXCEPT ![p] = @ + 1]
    /\ Arrives(p)
    /\ UNCHANGED <<conn, eof, err, missed, events, fd, n>>

Close(p) ==
    /\ conn[p] \in {"backlog", "open"} /\ p \notin eof
    /\ eof' = eof \cup {p}
    /\ Arrives(p)
    /\ UNCHANGED <<conn, data, sends, err, missed, events, fd, n>>

\* The connection is reset.  What has arrived can still be read, the error comes after it.
Reset(p) ==
    /\ conn[p] \in {"backlog", "open"} /\ p \notin eof
    /\ eof' = eof \cup {p}
    /\ err' = err \cup {p}
    /\ Arrives(p)
    /\ UNCHANGED <<conn, data, sends, missed, events, fd, n>>

(* The server *)
epoll_wait ==
    /\ events = {} /\ fd = None
    /\ LET all == ready \cup (IF Waiting # {} THEN {Listen} ELSE {}) IN
        \E got \in SUBSET all :
            /\ got # {} /\ Cardinality(got) <= MAX_EVENTS
            /\ got = all \/ Cardinality(got) = MAX_EVENTS
            /\ events' = got
            /\ ready' = ready \ got
    /\ UNCHANGED <<peers, fd, n>>

\* accept until there is nobody left; a connection that already has data is ready at once.
accept_NotReady(p) ==
    /\ fd = Listen /\ conn[p] = "backlog"
    /\ conn' = [conn EXCEPT ![p] = "open"]
    /\ UNCHANGED <<data, sends, eof, err, missed, ready, events, fd, n>>
accept(p) ==
    /\ fd = Listen /\ conn[p] = "backlog"
    /\ conn' = [conn EXCEPT ![p] = "open"]
    /\ ready' = IF data[p] > 0 \/ p \in eof THEN ready \cup {p} ELSE ready
    /\ UNCHANGED <<data, sends, eof, err, missed, events, fd, n>>

AcceptedAll ==
    /\ fd = Listen /\ Waiting = {}
    /\ fd' = None
    /\ UNCHANGED <<peers, ready, events, n>>

\* The next of the events, in any order.
NextEvent ==
    /\ fd = None
    /\ \E e \in events : fd' = e /\ events' = events \ {e}
    /\ n' = 0
    /\ UNCHANGED <<peers, ready>>

\* read(2) takes what is there.
Read ==
    /\ fd \in Peers /\ data[fd] > 0
    /\ n' = n + data[fd]
    /\ data' = [data EXCEPT ![fd] = 0]
    /\ UNCHANGED <<conn, sends, eof, err, missed, ready, events, fd>>

\* read(2) answers EAGAIN, or 0: the connection is closed when nothing was read at all.
ReadNoMore ==
    /\ fd \in Peers /\ data[fd] = 0 /\ fd \notin err
    /\ conn' = [conn EXCEPT ![fd] = IF n = 0 THEN "closed" ELSE @]
    /\ ready' = IF n = 0 THEN ready \ {fd} ELSE ready
    /\ missed' = IF n > 0 /\ fd \in eof \ ready THEN missed \cup {fd} ELSE missed
    /\ fd' = None
    /\ n' = 0
    /\ UNCHANGED <<data, sends, eof, err, events>>

\* Any other error of read(2) is printed and the connection is left open, although no
\* event may come for it again.
ReadFails ==
    /\ fd \in Peers /\ data[fd] = 0 /\ fd \in err
    /\ err' = err \ {fd}
    /\ missed' = IF fd \in ready THEN missed ELSE missed \cup {fd}
    /\ fd' = None
    /\ n' = 0
    /\ UNCHANGED <<conn, data, sends, eof, ready, events>>

Init ==
    /\ conn = [p \in Peers |-> "none"]
    /\ data = [p \in Peers |-> 0]
    /\ sends = [p \in Peers |-> 0]
    /\ eof = {} /\ err = {} /\ missed = {} /\ ready = {} /\ events = {} /\ fd = None /\ n = 0

Server ==
    \/ epoll_wait \/ AcceptedAll \/ NextEvent \/ Read \/ ReadNoMore \/ ReadFails
    \/ \E p \in Peers : accept(p)
Next == Server \/ \E p \in Peers : Connect(p) \/ Send(p) \/ Close(p) \/ Reset(p)

Spec == Init /\ [][Next]_vars
\* epoll_wait serves the ready list in its order: nobody is passed over for ever.
Weak(i) == i = 1 /\ Server
Strong(p) == epoll_wait /\ p \in events'

-----------------------------------------------------------------------------

(* The types; what was read in pieces is not more than was sent, and only    *)
(* open connections are on the ready list.                                   *)
TypeOK ==
    /\ conn \in [Peers -> {"none", "backlog", "open", "closed"}]
    /\ \A p \in Peers : data[p] \in 0..sends[p] /\ sends[p] <= MaxSends
    /\ n \in 0..MaxSends /\ fd \in Peers \cup {None, Listen}
    /\ \A p \in ready : conn[p] = "open"
    /\ events \subseteq Peers \cup {Listen} /\ err \subseteq eof

\* There is something for the server to find out: unread data, or an end that it has not met.
Pending(p) == conn[p] = "open" /\ (data[p] > 0 \/ p \in eof \ missed)

(* An edge is reported once.  A connection with unread data, or whose peer has *)
(* closed, is being read, or among the events, or on the ready list: nothing  *)
(* is left on it that no event will announce.  One end is missed all the same: *)
(* that read(2) reports after data, or by an error other than EAGAIN.          *)
NothingForgotten == \A p \in Peers : Pending(p) => p \in ready \cup events \cup {fd}

(* A peer waits to be accepted, what it has sent to be read, or a close to be  *)
(* answered by one: not for ever, whatever the others do.                     *)
Unfinished(p) == conn[p] = "backlog" \/ Pending(p)

(* The server does not close first. *)
ServerDoesNotClose == \A p \in Peers : conn[p] = "closed" => p \in eof

(* When a peer closes, so does the server.  This does not hold: neither when the close     *)
(* comes with the last data (my_epoll.c:162) nor when the connection is reset (:157).       *)
ClosedAfterPeer == \A p \in Peers : p \in eof ~> conn[p] = "closed"

-----------------------------------------------------------------------------
(***************************************************************************)
(* Proofs, for every set of peers, every length of the list of events and    *)
(* every number of pieces that are sent.                                    *)
(***************************************************************************)

\* What has been read of a connection and what waits to be read is not more than was sent.
Typed ==
    /\ conn \in [Peers -> {"none", "backlog", "open", "closed"}]
    /\ data \in [Peers -> Nat] /\ sends \in [Peers -> 0..MaxSends]
    /\ \A p \in Peers : data[p] <= sends[p]
    /\ n \in 0..MaxSends /\ fd \in Peers \cup {None, Listen}
    /\ ready \subseteq Peers /\ events \subseteq Peers \cup {Listen} /\ missed \subseteq eof
    /\ err \subseteq eof \ missed

BeingRead == fd \in Peers => n + data[fd] <= sends[fd]
ReadyOpen == \A p \in ready : conn[p] = "open"

IInv == Typed /\ BeingRead /\ ReadyOpen /\ NothingForgotten

USE DEF EpollAssumption, None, Listen

LEMMA InitialServer == EpollAssumption /\ Init => IInv
BY DEF Init, IInv, Typed, BeingRead, ReadyOpen, NothingForgotten, Pending

-----------------------------------------------------------------------------
LEMMA ConnectKeeps == ASSUME EpollAssumption, IInv, NEW p \in Peers, Connect(p) PROVE IInv'
<1>1. /\ conn[p] = "none" /\ conn' = [conn EXCEPT ![p] = "backlog"]
      /\ UNCHANGED <<data, sends, eof, err, missed, ready, events, fd, n>>
  BY DEF Connect
<1>2. Typed' /\ BeingRead'
  BY <1>1 DEF IInv, Typed, BeingRead
<1>3. ReadyOpen'
  BY <1>1 DEF IInv, Typed, ReadyOpen
<1>4. NothingForgotten'
  BY <1>1 DEF IInv, Typed, NothingForgotten, Pending
<1> QED
  BY <1>2, <1>3, <1>4 DEF IInv

LEMMA SendKeeps == ASSUME EpollAssumption, IInv, NEW p \in Peers, Send(p) PROVE IInv'
<1>1. /\ sends[p] < MaxSends
      /\ data' = [data EXCEPT ![p] = data[p] + 1] /\ sends' = [sends EXCEPT ![p] = sends[p] + 1]
      /\ ready' = IF conn[p] = "open" THEN ready \cup {p} ELSE ready
      /\ UNCHANGED <<conn, eof, err, missed, events, fd, n>>
  BY DEF Send, Arrives
<1>2. Typed'
  BY <1>1 DEF IInv, Typed
<1>3. BeingRead'
  <2> SUFFICES ASSUME fd \in Peers PROVE n + data'[fd] <= sends'[fd]
    BY <1>1 DEF BeingRead
  <2>1. n + data[fd] <= sends[fd] /\ n \in Nat /\ data[fd] \in Nat /\ sends[fd] \in Nat
    BY DEF IInv, Typed, BeingRead
  <2>2. CASE fd = p
    BY <1>1, <2>1, <2>2 DEF IInv, Typed
  <2>3. CASE fd # p
    BY <1>1, <2>1, <2>3 DEF IInv, Typed
  <2> QED
    BY <2>2, <2>3
<1>4. ReadyOpen'
  BY <1>1 DEF IInv, ReadyOpen
<1>5. NothingForgotten'
  BY <1>1 DEF IInv, Typed, NothingForgotten, Pending
<1> QED
  BY <1>2, <1>3, <1>4, <1>5 DEF IInv

LEMMA CloseKeeps == ASSUME EpollAssumption, IInv, NEW p \in Peers, Close(p) PROVE IInv'
<1>1. /\ ready' = IF conn[p] = "open" THEN ready \cup {p} ELSE ready
      /\ eof' = eof \cup {p} /\ UNCHANGED <<conn, data, sends, err, missed, events, fd, n>>
  BY DEF Close, Arrives
<1> QED
  BY <1>1 DEF IInv, Typed, BeingRead, ReadyOpen, NothingForgotten, Pending

LEMMA ResetKeeps == ASSUME EpollAssumption, IInv, NEW p \in Peers, Reset(p) PROVE IInv'
<1>1. /\ ready' = IF conn[p] = "open" THEN ready \cup {p} ELSE ready
      /\ p \notin eof /\ eof' = eof \cup {p} /\ err' = err \cup {p}
      /\ UNCHANGED <<conn, data, sends, missed, events, fd, n>>
  BY DEF Reset, Arrives
<1> QED
  BY <1>1 DEF IInv, Typed, BeingRead, ReadyOpen, NothingForgotten, Pending

LEMMA WaitKeeps == ASSUME EpollAssumption, IInv, epoll_wait PROVE IInv'
<1>1. PICK got \in SUBSET (ready \cup (IF Waiting # {} THEN {Listen} ELSE {})) :
         events' = got /\ ready' = ready \ got
  BY DEF epoll_wait
<1>2. events = {} /\ fd = None /\ UNCHANGED <<conn, data, sends, eof, err, missed, fd, n>>
  BY DEF epoll_wait, peers
<1>3. Typed' /\ BeingRead' /\ ReadyOpen'
  BY <1>1, <1>2 DEF IInv, Typed, BeingRead, ReadyOpen
<1>4. NothingForgotten'
  BY <1>1, <1>2 DEF IInv, NothingForgotten, Pending
<1> QED
  BY <1>3, <1>4 DEF IInv

LEMMA AcceptKeeps == ASSUME EpollAssumption, IInv, NEW p \in Peers, accept(p) PROVE IInv'
<1>1. /\ conn' = [conn EXCEPT ![p] = "open"]
      /\ ready' = IF data[p] > 0 \/ p \in eof THEN ready \cup {p} ELSE ready
      /\ UNCHANGED <<data, sends, eof, err, missed, events, fd, n>>
  BY DEF accept
<1>2. Typed' /\ BeingRead'
  BY <1>1 DEF IInv, Typed, BeingRead
<1>3. ReadyOpen'
  BY <1>1 DEF IInv, Typed, ReadyOpen
<1>4. NothingForgotten'
  BY <1>1 DEF IInv, Typed, NothingForgotten, Pending
<1> QED
  BY <1>2, <1>3, <1>4 DEF IInv

LEMMA AcceptedKeeps == ASSUME EpollAssumption, IInv, AcceptedAll PROVE IInv'
BY DEF AcceptedAll, peers, IInv, Typed, BeingRead, ReadyOpen, NothingForgotten, Pending

LEMMA NextEventKeeps == ASSUME EpollAssumption, IInv, NextEvent PROVE IInv'
<1>1. PICK e \in events : fd' = e /\ events' = events \ {e}
  BY DEF NextEvent
<1>2. fd = None /\ n' = 0 /\ UNCHANGED <<conn, data, sends, eof, err, missed, ready>>
  BY DEF NextEvent, peers
<1>3. Typed'
  BY <1>1, <1>2 DEF IInv, Typed
<1>4. BeingRead'
  BY <1>1, <1>2 DEF IInv, Typed, BeingRead
<1>5. ReadyOpen' /\ NothingForgotten'
  BY <1>1, <1>2 DEF IInv, ReadyOpen, NothingForgotten, Pending
<1> QED
  BY <1>3, <1>4, <1>5 DEF IInv

LEMMA ReadKeeps == ASSUME EpollAssumption, IInv, Read PROVE IInv'
<1>1. /\ fd \in Peers /\ n' = n + data[fd] /\ data' = [data EXCEPT ![fd] = 0]
      /\ UNCHANGED <<conn, sends, eof, err, missed, ready, events, fd>>
  BY DEF Read
<1>2. n + data[fd] <= sends[fd] /\ n \in Nat /\ data[fd] \in Nat /\ sends[fd] \in 0..MaxSends
  BY <1>1 DEF IInv, Typed, BeingRead
<1>3. MaxSends \in Nat /\ n' \in 0..MaxSends /\ n' <= sends[fd]
  BY <1>1, <1>2
<1>4. Typed'
  BY <1>1, <1>3 DEF IInv, Typed
<1>5. BeingRead'
  BY <1>1, <1>2, <1>3 DEF IInv, Typed, BeingRead
<1>6. ReadyOpen' /\ NothingForgotten'
  BY <1>1 DEF IInv, Typed, ReadyOpen, NothingForgotten, Pending
<1> QED
  BY <1>4, <1>5, <1>6 DEF IInv

LEMMA ReadNoMoreKeeps == ASSUME EpollAssumption, IInv, ReadNoMore PROVE IInv'
<1>1. /\ fd \in Peers /\ data[fd] = 0 /\ fd \notin err
      /\ conn' = [conn EXCEPT ![fd] = IF n = 0 THEN "closed" ELSE conn[fd]]
      /\ ready' = IF n = 0 THEN ready \ {fd} ELSE ready
      /\ missed' = IF n > 0 /\ fd \in eof \ ready THEN missed \cup {fd} ELSE missed
      /\ fd' = None /\ n' = 0 /\ UNCHANGED <<data, sends, eof, err, events>>
  BY DEF ReadNoMore
<1>2. Typed' /\ BeingRead'
  BY <1>1 DEF IInv, Typed, BeingRead
<1>3. ReadyOpen'
  BY <1>1 DEF IInv, Typed, ReadyOpen
<1>4. NothingForgotten'
  BY <1>1 DEF IInv, Typed, NothingForgotten, Pending
<1> QED
  BY <1>2, <1>3, <1>4 DEF IInv

LEMMA ReadFailsKeeps == ASSUME EpollAssumption, IInv, ReadFails PROVE IInv'
<1>1. /\ fd \in Peers /\ data[fd] = 0 /\ fd \in err /\ err' = err \ {fd} /\ fd' = None /\ n' = 0
      /\ missed' = IF fd \in ready THEN missed ELSE missed \cup {fd}
      /\ UNCHANGED <<conn, data, sends, eof, ready, events>>
  BY DEF ReadFails
<1>2. Typed' /\ BeingRead'
  BY <1>1 DEF IInv, Typed, BeingRead
<1>3. ReadyOpen' /\ NothingForgotten'
  BY <1>1 DEF IInv, Typed, ReadyOpen, NothingForgotten, Pending
<1> QED
  BY <1>2, <1>3 DEF IInv

LEMMA StepKeeps == EpollAssumption /\ IInv /\ [Next]_vars => IInv'
<1> SUFFICES ASSUME EpollAssumption, IInv, [Next]_vars PROVE IInv'
  OBVIOUS
<1>1. CASE UNCHANGED vars
  BY <1>1 DEF vars, IInv, Typed, BeingRead, ReadyOpen, NothingForgotten, Pending
<1> QED
  BY <1>1, ConnectKeeps, SendKeeps, CloseKeeps, ResetKeeps, WaitKeeps, AcceptKeeps,
     AcceptedKeeps, NextEventKeeps, ReadKeeps, ReadNoMoreKeeps, ReadFailsKeeps DEF Next, Server

(* The invariant of the loop of epoll_wait (my_epoll.c:108) and of what arrives meanwhile. *)
THEOREM ServerInvariant == ASSUME EpollAssumption PROVE Spec => []IInv
<1>1. Init => IInv
  BY InitialServer
<1>2. IInv /\ [Next]_vars => IInv'
  BY StepKeeps
<1> QED
  BY <1>1, <1>2, PTL DEF Spec

-----------------------------------------------------------------------------
\* What is read of a connection is never more than was sent, and only open connections
\* are on the ready list.
THEOREM ServerTypes == ASSUME EpollAssumption PROVE Spec => []TypeOK
<1>1. IInv => TypeOK
  BY DEF IInv, Typed, ReadyOpen, TypeOK
<1> QED
  BY <1>1, ServerInvariant, PTL

\* The connections are watched edge-triggered (EPOLLET in addfd): whatever the order in
\* which data arrives, is announced and is read, none waits on an open connection without
\* an event to come, one that is still to be handled, or a read under way.
THEOREM NoEdgeIsLost == ASSUME EpollAssumption PROVE Spec => []NothingForgotten
<1>1. IInv => NothingForgotten
  BY DEF IInv
<1> QED
  BY <1>1, ServerInvariant, PTL
=============================================================================
