------------------------- MODULE FtpdSession_proofs -------------------------
(***************************************************************************)
(* Proofs about a session, for every set of descriptors and paths.  The    *)
(* inductive invariant adds to the properties what holds inside a transfer: *)
(* what has been sent and what is left to do at each point of a handler.   *)
(***************************************************************************)
EXTENDS FtpdSession, SequenceTheorems, TLAPS

\* A NULL argument can only come from RETR.
ArgOK == cmd.op # "RETR" => cmd.arg \in Args

\* What is left of a handler once it has come to its end: a close and a
\* reply, in either order.
Pairs   == {<<CloseAll, 226>>, <<CloseAll, 500>>, <<CloseAll, 550>>, <<550, CloseAll>>}
Singles == {<< 226 >>, << 500 >>, << 550 >>}

TodoOK ==
    pc = "fin" =>
       \/ todo \in Pairs \cup {<<CloseAll>>}
       \/ /\ todo \in Singles
          /\ pasv_fd = NoFd /\ connfd = NoFd /\ port_fd = NoFd

\* A file is open exactly during a transfer.
FileOK == pc \in {"xfer", "xdir", "loop"} => ffd # NoFd

\* What has been sent at each point of a handler.
SentOK ==
    /\ pc \in {"greet", "conn", "s150"} => sent = <<>>
    /\ pc \in {"work", "list", "back", "xfer", "xdir", "loop"} => sent = << 150 >>
    /\ pc = "fin" /\ todo # <<CloseAll>> => sent \in {<<>>, << 150 >>}
    /\ pc = "fin" /\ todo = <<CloseAll>> => sent \in {<< 550 >>, <<150, 550>>}

\* Where the excursion of LIST has to return to.
SavedOK ==
    pc \in {"list", "back"} =>
       IF cmd.arg = NoArg THEN cwd \in {home, Gone} ELSE saved = home

USE FdsAssumption DEF NoFd, CloseAll

-----------------------------------------------------------------------------
(***************************************************************************)
(* The short sequences the handlers build.                                 *)
(***************************************************************************)

LEMMA PairTail ==
    ASSUME NEW a, NEW b
    PROVE  Head(<<a, b>>) = a /\ Tail(<<a, b>>) = <<b>> /\ <<b>> # <<>>
OBVIOUS

LEMMA SingleTail ==
    ASSUME NEW a
    PROVE  Head(<<a>>) = a /\ Tail(<<a>>) = <<>>
OBVIOUS

LEMMA ShortSeqs ==
    ASSUME NEW S, NEW a \in S, NEW b \in S
    PROVE  <<>> \in Seq(S) /\ <<a>> \in Seq(S) /\ <<a, b>> \in Seq(S)
OBVIOUS

LEMMA TodoSeqs ==
    Pairs \cup Singles \cup {<<CloseAll>>, <<>>} \subseteq Seq({CloseAll, 226, 500, 550})
BY DEF Pairs, Singles

LEMMA AppendToEmpty ==
    ASSUME NEW a
    PROVE  Append(<<>>, a) = <<a>>
OBVIOUS

LEMMA AppendToOne ==
    ASSUME NEW S, NEW a \in S, NEW b \in S
    PROVE  Append(<<a>>, b) = <<a, b>>
<1>1. <<a>> \in Seq(S) /\ <<a, b>> \in Seq(S)
  OBVIOUS
<1>2. Append(<<a>>, b) \in Seq(S) /\ Len(Append(<<a>>, b)) = 2
  BY <1>1
<1>3. Append(<<a>>, b)[1] = a /\ Append(<<a>>, b)[2] = b
  BY <1>1
<1>4. Len(<<a, b>>) = 2 /\ \A k \in 1 .. 2 : Append(<<a>>, b)[k] = <<a, b>>[k]
  BY <1>3
<1> QED
  BY <1>1, <1>2, <1>4, SeqEqual

\* Different replies are different sequences.
LEMMA SinglesDiffer ==
    ASSUME NEW a, NEW b
    PROVE  /\ <<a>> = <<b>> <=> a = b
           /\ <<a, b>> # <<a>> /\ <<a, b>> # <<b>>
OBVIOUS

\* Both ends of a handler close and reply.
LEMMA EndsOfHandler ==
    ASSUME NEW op
    PROVE  ErrRet(op) \in Pairs /\ OkRet \in Pairs
BY DEF ErrRet, OkRet, Pairs

-----------------------------------------------------------------------------
(***************************************************************************)
(* Types.                                                                  *)
(***************************************************************************)

TInv == TypeOK /\ ArgOK /\ TodoOK /\ FileOK

LEMMA InitTInv == Init => TInv
<1> SUFFICES ASSUME Init PROVE TInv
  OBVIOUS
<1>1. todo \in Seq({CloseAll, 226, 500, 550}) /\ sent \in Seq(Codes)
  BY DEF Init
<1>2. cmd \in [op : Transfers \cup {"none"}, arg : Args \cup {NullArg}] /\ ArgOK
  BY DEF Init, Idle, Args, ArgOK
<1> QED
  BY <1>1, <1>2 DEF Init, TInv, TypeOK, TodoOK, FileOK, FileStates

(***************************************************************************)
(* The steps by kind, and what each kind leaves alone.                     *)
(***************************************************************************)

\* Requests answered at once that open and close nothing.
PlainRequest ==
    \/ Unsupported \/ Auth \/ Pwd \/ Syst \/ (~LoggedIn /\ NotLoggedIn)
    \/ \E name \in Users \cup {"stranger", NoArg} : User(name)
    \/ \E word \in {"right", "wrong", NoArg} : Pass(word)
    \/ \E t \in {"A", "I", "L", NoArg} : Type(t)
    \/ \E p \in Args : Cwd(p) \/ Size(p) \/ Dele(p) \/ Mkd(p) \/ Rmd(p)

SocketRequest == Pasv \/ PortMalformed \/ Port

TransferRequest ==
    \E p \in Args : \/ List("LIST", p) \/ List("NLST", p) \/ Stor(p)
                    \/ \E words \in 1 .. 2 : Retr(p, words)

\* Steps that end the process.
LastStep ==
    \/ ClientCloses \/ Quit \/ Dies \/ PwdDies \/ WrapperFails
    \/ RetrOpenFails /\ type = "I"
    \/ StorOpenFails /\ type = "A"

\* Steps that take a transfer to its end.
EndStep ==
    \/ AcceptFails \/ ListFile \/ ListBack \/ Nlst
    \/ NoPasv /\ connfd = NoFd
    \/ RetrOpenFails /\ type = "A"
    \/ StorOpenFails /\ type = "I"

LEMMA StepKinds ==
    ASSUME TypeOK, Next
    PROVE  \/ PlainRequest \/ SocketRequest \/ TransferRequest \/ LastStep \/ EndStep
           \/ Greet \/ AcceptData \/ (NoPasv /\ connfd # NoFd) \/ Send150
           \/ ListChdir \/ ListDir \/ RetrOpen \/ StorOpen
           \/ TransferEnds \/ TransferFails \/ LoopsAfterCR \/ FinishStep
           \/ \E p \in Paths : OthersChange(p)
<1>1. type \in {"A", "I"}
  BY DEF TypeOK
<1>2. CASE Request
  BY <1>2 DEF Request, PlainRequest, SocketRequest, TransferRequest, LastStep
<1>3. CASE DataStep
  BY <1>1, <1>3 DEF DataStep, ServerStep, ClientStep, LastStep, EndStep
<1>4. CASE Greet \/ ClientCloses \/ Dies \/ \E p \in Paths : OthersChange(p)
  BY <1>4 DEF LastStep
<1> QED
  BY <1>2, <1>3, <1>4 DEF Next

\* A request answered at once: one final reply, nothing opened or closed.
Answered ==
    /\ pc = "read" /\ UNCHANGED <<pc, cmd, todo, saved, fds>>
    /\ \E c \in FinalCodes \ {220, 221, 226} : sent' = <<c>>

\* What it does to the login, the mode, the directory and the files.
Effects ==
    /\ user' \in Users \cup {NoUser} /\ type' \in {"A", "I"}
    /\ fs' \in [Paths -> FileStates]
    /\ \/ cwd' \in {cwd, Gone} /\ home' = home
       \/ cwd' \in Paths /\ home' = cwd'

LEMMA PlainFrame ==
    ASSUME TypeOK, PlainRequest
    PROVE  Answered /\ Effects
<1> USE DEF TypeOK, Answered, Effects, Reply, FinalCodes, Codes, control
<1>1. CASE Unsupported \/ Auth \/ Pwd \/ Syst \/ (~LoggedIn /\ NotLoggedIn)
  BY <1>1 DEF Unsupported, Auth, Pwd, Syst, NotLoggedIn
<1>2. ASSUME NEW name \in Users \cup {"stranger", NoArg}, User(name)
      PROVE  Answered /\ Effects
  BY <1>2 DEF User
<1>3. ASSUME NEW word \in {"right", "wrong", NoArg}, Pass(word)
      PROVE  Answered /\ Effects
  BY <1>3 DEF Pass
<1>4. ASSUME NEW t \in {"A", "I", "L", NoArg}, Type(t)
      PROVE  Answered /\ Effects
  BY <1>4 DEF Type
<1>5. ASSUME NEW p \in Args, Cwd(p) \/ Size(p)
      PROVE  Answered /\ Effects
  BY <1>5 DEF Cwd, Size
<1>6. ASSUME NEW p \in Args, Dele(p) \/ Rmd(p)
      PROVE  Answered /\ Effects
  BY <1>6 DEF Dele, Rmd, Remove, FileStates
<1>7. ASSUME NEW p \in Args, Mkd(p)
      PROVE  Answered /\ Effects
  BY <1>7 DEF Mkd, FileStates
<1> QED
  BY <1>1, <1>2, <1>3, <1>4, <1>5, <1>6, <1>7 DEF PlainRequest

LEMMA SocketFrame ==
    ASSUME SocketRequest
    PROVE  /\ pc = "read" /\ UNCHANGED <<pc, cmd, todo, saved>>
           /\ UNCHANGED <<user, type, cwd, home, fs, connfd, ffd, leaked>>
           /\ LoggedIn
           /\ \E c \in FinalCodes \ {220, 221, 226} : sent' = <<c>>
BY DEF SocketRequest, Pasv, PortMalformed, Port, Reply, FinalCodes, Codes, control

LEMMA TransferFrame ==
    ASSUME TransferRequest
    PROVE  /\ pc = "read" /\ LoggedIn
           /\ sent' = <<>>
           /\ UNCHANGED <<saved, user, type, cwd, home, fs, fds>>
           /\ cmd' \in [op : Transfers, arg : Args \cup {NullArg}] /\ ArgOK'
           /\ \/ pc' = "conn" /\ todo' = todo
              \/ pc' = "fin" /\ todo' = <<550, CloseAll>>
<1>1. ErrRet("RETR") = <<550, CloseAll>> /\ ErrRet("STOR") = <<550, CloseAll>>
  BY DEF ErrRet
<1> QED
  BY <1>1 DEF TransferRequest, List, Retr, Stor, Begin, Finish, LoggedIn, ArgOK,
     Transfers, Args

LEMMA LastFrame ==
    ASSUME LastStep
    PROVE  /\ pc # "dead" /\ Exit
           /\ UNCHANGED <<user, type, cwd, home, fs>>
           /\ sent' = sent \/ (sent' = << 221 >> /\ LoggedIn)
<1>1. CASE ClientCloses \/ Dies \/ PwdDies
  BY <1>1 DEF ClientCloses, Dies, PwdDies
<1>2. CASE Quit
  BY <1>2 DEF Quit
<1>3. CASE WrapperFails
  BY <1>3 DEF WrapperFails, At
<1>4. CASE (RetrOpenFails /\ type = "I") \/ (StorOpenFails /\ type = "A")
  BY <1>4 DEF RetrOpenFails, StorOpenFails, At
<1> QED
  BY <1>1, <1>2, <1>3, <1>4 DEF LastStep

LEMMA EndFrame ==
    ASSUME EndStep
    PROVE  /\ pc \in {"conn", "work", "back"}
           /\ pc' = "fin"
           /\ todo' \in Pairs
           /\ UNCHANGED <<cmd, sent, user, type, home, fs, fds>>
           /\ \/ pc # "back" /\ UNCHANGED <<cwd, saved>>
              \/ /\ pc = "back" /\ saved' = Root
                 /\ cwd' = IF cmd.arg = NoArg THEN cwd ELSE saved
<1>1. CASE AcceptFails \/ (NoPasv /\ connfd = NoFd)
  BY <1>1, EndsOfHandler DEF AcceptFails, NoPasv, Finish
<1>2. CASE ListFile \/ Nlst
  BY <1>2, EndsOfHandler DEF ListFile, Nlst, Finish, At
<1>3. CASE ListBack
  BY <1>3, EndsOfHandler DEF ListBack, Finish
<1>4. CASE (RetrOpenFails /\ type = "A") \/ (StorOpenFails /\ type = "I")
  BY <1>4, EndsOfHandler DEF RetrOpenFails, StorOpenFails, Finish, At
<1> QED
  BY <1>1, <1>2, <1>3, <1>4 DEF EndStep

-----------------------------------------------------------------------------
(***************************************************************************)
(* Types.                                                                  *)
(***************************************************************************)

\* The last steps of a handler: a close, or a reply that leaves the
\* descriptors alone.
LEMMA FinishFrame ==
    ASSUME TodoOK, FinishStep
    PROVE  /\ pc = "fin"
           /\ UNCHANGED <<saved, user, type, cwd, home, fs, ffd, leaked>>
           /\ cmd' \in {cmd, Idle}
           /\ \/ /\ todo \in {<<CloseAll, 226>>, <<CloseAll, 500>>, <<CloseAll, 550>>}
                 /\ todo' \in {<< 226 >>, << 500 >>, << 550 >>}
                 /\ pc' = "fin" /\ close_all_fds /\ sent' = sent
              \/ /\ todo = <<CloseAll>> /\ todo' = <<>>
                 /\ pc' = "read" /\ close_all_fds /\ sent' = sent
              \/ /\ todo = <<550, CloseAll>> /\ todo' = <<CloseAll>>
                 /\ pc' = "fin" /\ sent' = Append(sent, 550)
                 /\ UNCHANGED <<socks, open>>
              \/ /\ todo' = <<>> /\ pc' = "read"
                 /\ UNCHANGED <<socks, open>>
                 /\ pasv_fd = NoFd /\ connfd = NoFd /\ port_fd = NoFd
                 /\ \E c \in {226, 500, 550} :
                       todo = <<c>> /\ sent' = Append(sent, c)
<1> USE DEF FinishStep
<1>1. ASSUME NEW c \in {226, 500, 550}, todo = <<CloseAll, c>>
      PROVE  todo' = <<c>> /\ pc' = "fin" /\ close_all_fds /\ sent' = sent
  BY <1>1, PairTail
<1>2. CASE todo = <<CloseAll>>
  BY <1>2, SingleTail
<1>3. CASE todo = <<550, CloseAll>>
  BY <1>3, PairTail
<1>4. ASSUME NEW c \in {226, 500, 550}, todo = <<c>>
      PROVE  /\ todo' = <<>> /\ pc' = "read" /\ sent' = Append(sent, c)
             /\ UNCHANGED <<socks, open>>
  BY <1>4, SingleTail
<1>5. \/ todo \in Pairs \cup {<<CloseAll>>}
      \/ /\ todo \in Singles
         /\ pasv_fd = NoFd /\ connfd = NoFd /\ port_fd = NoFd
  BY DEF TodoOK
<1>6. /\ pc = "fin"
      /\ UNCHANGED <<saved, user, type, cwd, home, fs, ffd, leaked>>
      /\ cmd' \in {cmd, Idle}
  OBVIOUS
<1>7. CASE todo \in {<<CloseAll, 226>>, <<CloseAll, 500>>, <<CloseAll, 550>>}
  BY <1>1, <1>6, <1>7
<1>8. CASE /\ todo \in Singles
           /\ pasv_fd = NoFd /\ connfd = NoFd /\ port_fd = NoFd
  <2>1. PICK c \in {226, 500, 550} : todo = <<c>>
    BY <1>8 DEF Singles
  <2> QED
    BY <1>4, <1>6, <1>8, <2>1
<1> QED
  BY <1>2, <1>3, <1>5, <1>6, <1>7, <1>8 DEF Pairs

\* The same for the types alone.
LEMMA FinishTypes ==
    ASSUME TodoOK, FinishStep, sent \in Seq(Codes)
    PROVE  /\ todo' \in Singles \cup {<<CloseAll>>, <<>>}
           /\ sent' \in Seq(Codes)
           /\ close_all_fds \/ UNCHANGED <<socks, open>>
           /\ pc' = "read" \/ TodoOK'
<1>1. \A c \in {226, 500, 550} : Append(sent, c) \in Seq(Codes)
  BY AppendProperties DEF Codes
<1>2. sent' = sent \/ \E c \in {226, 500, 550} : sent' = Append(sent, c)
  BY FinishFrame
<1>3. /\ todo' \in Singles \cup {<<CloseAll>>, <<>>}
      /\ close_all_fds \/ UNCHANGED <<socks, open>>
  BY FinishFrame DEF Singles
<1>4. \/ pc' = "read"
      \/ todo' \in Singles /\ close_all_fds
      \/ todo' = <<CloseAll>>
  BY FinishFrame DEF Singles
<1>5. sent' \in Seq(Codes)
  <2>1. CASE sent' = sent
    BY <2>1
  <2>2. ASSUME NEW c \in {226, 500, 550}, sent' = Append(sent, c)
        PROVE  sent' \in Seq(Codes)
    BY <1>1, <2>2
  <2> QED
    BY <1>2, <2>1, <2>2
<1>6. todo' \in Singles /\ close_all_fds => TodoOK'
  BY DEF TodoOK, close_all_fds
<1>7. todo' = <<CloseAll>> => TodoOK'
  BY Zenon DEF TodoOK
<1> QED
  BY <1>3, <1>4, <1>5, <1>6, <1>7

\* What a step has to do to keep TInv when it touches little.
LEMMA TypeFrame ==
    ASSUME TInv,
           pc' \in {"greet", "read", "conn", "s150", "work", "list", "back", "xfer",
                    "xdir", "loop", "dead"},
           cmd' = cmd, todo' = todo, sent' \in Seq(Codes),
           user' = user, type' = type,
           cwd' \in Paths \cup {Root, Gone}, saved' \in Paths \cup {Root},
           home' = home, fs' \in [Paths -> FileStates],
           pasv_fd' \in Fds \cup {NoFd}, connfd' \in Fds \cup {NoFd},
           port_fd' \in Fds \cup {NoFd}, ffd' \in Fds \cup {NoFd},
           pc' \in {"xfer", "xdir", "loop"} => ffd' # NoFd,
           open' \subseteq Fds, leaked' \subseteq Fds
    PROVE  TInv'
BY DEF TInv, TypeOK, ArgOK, TodoOK, FileOK

\* The same for a step that ends a transfer.
LEMMA TypeFrameEnd ==
    ASSUME TInv, pc' = "fin", todo' \in Pairs,
           UNCHANGED <<cmd, sent, user, type, home, fs, socks>>,
           cwd' \in Paths \cup {Root, Gone}, saved' \in Paths \cup {Root},
           ffd' \in Fds \cup {NoFd}, open' \subseteq Fds, leaked' \subseteq Fds
    PROVE  TInv'
<1>1. todo' \in Seq({CloseAll, 226, 500, 550})
  BY TodoSeqs
<1> QED
  BY <1>1 DEF TInv, TypeOK, ArgOK, TodoOK, FileOK, socks

LEMMA NextTInv == TInv /\ [Next]_vars => TInv'
<1> SUFFICES ASSUME TInv, [Next]_vars PROVE TInv'
  OBVIOUS
<1>31. TypeOK /\ ArgOK /\ TodoOK /\ FileOK
  BY DEF TInv
<1>33. \A c \in Codes : <<c>> \in Seq(Codes)
  BY ShortSeqs
<1>35. <<>> \in Seq(Codes) /\ <<>> \in Seq({CloseAll, 226, 500, 550})
  OBVIOUS
<1>1. CASE PlainRequest
  <2>1. Answered /\ Effects
    BY <1>1, <1>31, PlainFrame
  <2>2. sent' \in Seq(Codes)
    BY <1>33, <2>1 DEF Answered, FinalCodes
  <2>3. cwd' \in Paths \cup {Root, Gone} /\ home' \in Paths \cup {Root}
    BY <1>31, <2>1 DEF TypeOK, Effects
  <2>4. pc' = "read" /\ UNCHANGED <<cmd, todo, saved, fds>>
    BY <2>1 DEF Answered
  <2> QED
    BY <1>31, <2>1, <2>2, <2>3, <2>4
       DEF TInv, TypeOK, Effects, ArgOK, TodoOK, FileOK, fds, socks
<1>2. CASE SocketRequest
  <2>1. pasv_fd' \in Fds \cup {NoFd} /\ port_fd' \in Fds \cup {NoFd} /\ open' \subseteq Fds
    <3>1. {pasv_fd, port_fd} \subseteq Fds \cup {NoFd} /\ open \subseteq Fds
      BY <1>31 DEF TypeOK
    <3>2. CASE Pasv
      BY <3>1, <3>2 DEF Pasv
    <3>3. CASE PortMalformed
      BY <3>1, <3>3 DEF PortMalformed
    <3>4. CASE Port
      BY <3>1, <3>4 DEF Port
    <3> QED
      BY <1>2, <3>2, <3>3, <3>4 DEF SocketRequest
  <2>2. sent' \in Seq(Codes)
    <3>1. PICK c \in FinalCodes \ {220, 221, 226} : sent' = <<c>>
      BY <1>2, SocketFrame
    <3> QED
      BY <1>33, <3>1 DEF FinalCodes
  <2>3. /\ pc' = "read" /\ UNCHANGED <<cmd, todo, saved>>
        /\ UNCHANGED <<user, type, cwd, home, fs, connfd, ffd, leaked>>
    BY <1>2, SocketFrame
  <2> QED
    BY <1>31, <2>1, <2>2, <2>3, TypeFrame DEF TypeOK
<1>3. CASE TransferRequest
  <2>1. pc' = "fin" => todo' = <<550, CloseAll>>
    BY <1>3, TransferFrame
  <2>2. todo' \in Seq({CloseAll, 226, 500, 550}) /\ TodoOK'
    BY <1>3, <1>31, <2>1, TransferFrame, TodoSeqs DEF TypeOK, TodoOK, Pairs
  <2>3. cmd' \in [op : Transfers \cup {"none"}, arg : Args \cup {NullArg}] /\ ArgOK'
    BY <1>3, TransferFrame
  <2>4. /\ pc' \in {"conn", "fin"} /\ sent' \in Seq(Codes)
        /\ UNCHANGED <<saved, user, type, cwd, home, fs, fds>>
    BY <1>3, <1>35, TransferFrame
  <2> QED
    BY <1>31, <2>2, <2>3, <2>4 DEF TInv, TypeOK, FileOK, fds, socks
<1>4. CASE LastStep
  <2>1. sent' \in Seq(Codes)
    <3>1. << 221 >> \in Seq(Codes)
      BY <1>33 DEF Codes
    <3> QED
      BY <1>4, <1>31, <3>1, LastFrame DEF TypeOK
  <2> QED
    <3>1. Exit /\ UNCHANGED <<user, type, cwd, home, fs>>
      BY <1>4, LastFrame
    <3>2. cmd' \in [op : Transfers \cup {"none"}, arg : Args \cup {NullArg}] /\ ArgOK'
      BY <3>1 DEF Exit, Idle, Args, ArgOK
    <3>3. TypeOK'
      BY <1>31, <1>35, <2>1, <3>1, <3>2 DEF TypeOK, Exit
    <3> QED
      BY <3>1, <3>2, <3>3 DEF TInv, Exit, TodoOK, FileOK
<1>5. CASE EndStep
  <2>1. cwd' \in Paths \cup {Root, Gone} /\ saved' \in Paths \cup {Root}
    BY <1>5, <1>31, EndFrame DEF TypeOK
  <2> QED
    <3>1. /\ pc' = "fin" /\ todo' \in Pairs
          /\ UNCHANGED <<cmd, sent, user, type, home, fs, fds>>
      BY <1>5, EndFrame
    <3>2. /\ UNCHANGED <<cmd, sent, user, type, home, fs, socks>>
          /\ ffd' \in Fds \cup {NoFd} /\ open' \subseteq Fds /\ leaked' \subseteq Fds
      BY <1>31, <3>1 DEF TypeOK, fds
    <3> QED
      BY <2>1, <3>1, <3>2, TypeFrameEnd
<1>6. CASE Greet
  BY <1>6, <1>31, <1>33, TypeFrame DEF TypeOK, Greet, control, fds, socks, Codes
<1>7. CASE AcceptData
  <2>1. connfd' \in Fds /\ open' \subseteq Fds
    <3>1. PICK f \in Fds : connfd' = f /\ open' = (open \cup {f}) \ {pasv_fd}
      BY <1>7 DEF AcceptData
    <3> QED
      BY <1>31, <3>1 DEF TypeOK
  <2> QED
    BY <1>7, <1>31, <2>1, TypeFrame DEF TypeOK, AcceptData, control
<1>8. CASE NoPasv /\ connfd # NoFd
  BY <1>8, <1>31, TypeFrame DEF TypeOK, NoPasv, fds, socks
<1>9. CASE Send150
  <2>1. sent' \in Seq(Codes)
    BY <1>9, <1>31, AppendProperties DEF TypeOK, Send150, Codes
  <2> QED
    BY <1>9, <1>31, <2>1, TypeFrame DEF TypeOK, Send150, control, fds, socks
<1>10. CASE ListChdir
  <2>1. cwd' \in Paths \cup {Root, Gone} /\ saved' \in Paths \cup {Root}
    BY <1>10, <1>31 DEF TypeOK, ListChdir, At, ArgOK, Args
  <2> QED
    BY <1>10, <1>31, <2>1, TypeFrame DEF TypeOK, ListChdir, fds, socks
<1>11. CASE ListDir
  <2>1. open' \subseteq Fds /\ leaked' \subseteq Fds
    BY <1>11, <1>31 DEF TypeOK, ListDir
  <2> QED
    BY <1>11, <1>31, <2>1, TypeFrame DEF TypeOK, ListDir, control, socks
<1>12. CASE RetrOpen \/ StorOpen
  <2>1. fs' \in [Paths -> FileStates]
    BY <1>12, <1>31 DEF TypeOK, RetrOpen, StorOpen, FileStates
  <2>2. ffd' \in Fds /\ ffd' # NoFd /\ open' \subseteq Fds
    <3>1. PICK f \in Fds : ffd' = f /\ open' = open \cup {f}
      BY <1>12 DEF RetrOpen, StorOpen, OpenFile
    <3>2. open \subseteq Fds
      BY <1>31 DEF TypeOK
    <3>3. f # NoFd
      OBVIOUS
    <3> QED
      BY <3>1, <3>2, <3>3
  <2> QED
    <3>1. /\ pc' \in {"xfer", "xdir"}
          /\ UNCHANGED <<control, sent, user, type, cwd, home, socks, leaked>>
      BY <1>12 DEF RetrOpen, StorOpen
    <3> QED
      BY <1>31, <2>1, <2>2, <3>1, TypeFrame DEF TypeOK, control, socks
<1>13. CASE TransferEnds \/ TransferFails
  <2>1. pc' = "fin" /\ todo' \in Pairs
    BY <1>13, EndsOfHandler DEF TransferEnds, TransferFails, Finish
  <2>2. open' \subseteq Fds /\ leaked' \subseteq Fds /\ ffd' = NoFd
    BY <1>13, <1>31 DEF TypeOK, FileOK, TransferEnds, TransferFails
  <2> QED
    <3>1. UNCHANGED <<cmd, sent, user, type, home, fs, socks, cwd, saved>>
      BY <1>13 DEF TransferEnds, TransferFails
    <3>2. cwd' \in Paths \cup {Root, Gone} /\ saved' \in Paths \cup {Root}
      BY <1>31, <3>1 DEF TypeOK
    <3> QED
      BY <2>1, <2>2, <3>1, <3>2, TypeFrameEnd
<1>17. CASE LoopsAfterCR
  BY <1>17, <1>31, TypeFrame DEF TypeOK, FileOK, LoopsAfterCR, control, fds, socks
<1>14. CASE FinishStep
  <2>1. todo' \in Seq({CloseAll, 226, 500, 550}) /\ sent' \in Seq(Codes)
    BY <1>14, <1>31, FinishTypes, TodoSeqs DEF TypeOK
  <2>2. pc' \in {"fin", "read"} /\ TodoOK'
    <3>1. pc' \in {"fin", "read"}
      BY <1>14 DEF FinishStep
    <3>2. pc' = "read" \/ TodoOK'
      BY <1>14, <1>31, FinishTypes DEF TypeOK
    <3>3. pc' = "read" => TodoOK'
      BY DEF TodoOK
    <3> QED
      BY <3>1, <3>2, <3>3
  <2>3. /\ pasv_fd' \in Fds \cup {NoFd} /\ connfd' \in Fds \cup {NoFd}
        /\ port_fd' \in Fds \cup {NoFd} /\ open' \subseteq Fds
    <3>1. close_all_fds \/ UNCHANGED <<socks, open>>
      BY <1>14, <1>31, FinishTypes DEF TypeOK
    <3>2. {pasv_fd, connfd, port_fd} \subseteq Fds \cup {NoFd} /\ open \subseteq Fds
      BY <1>31 DEF TypeOK
    <3>3. CASE close_all_fds
      BY <3>2, <3>3 DEF close_all_fds
    <3>4. CASE UNCHANGED <<socks, open>>
      BY <3>2, <3>4 DEF socks
    <3> QED
      BY <3>1, <3>3, <3>4
  <2>4. cmd' \in [op : Transfers \cup {"none"}, arg : Args \cup {NullArg}] /\ ArgOK'
    BY <1>14, <1>31 DEF TypeOK, FinishStep, Idle, ArgOK, Args
  <2> QED
    BY <1>14, <1>31, <2>1, <2>2, <2>3, <2>4 DEF TInv, TypeOK, FinishStep, FileOK
<1>15. ASSUME NEW p \in Paths, OthersChange(p) PROVE TInv'
  BY <1>15, <1>31 DEF TInv, TypeOK, OthersChange, ArgOK, TodoOK, FileOK, control, fds, socks
<1>16. CASE UNCHANGED vars
  BY <1>16, <1>31 DEF TInv, TypeOK, vars, ArgOK, TodoOK, FileOK, control, fds, socks
<1> QED
  BY <1>31, <1>1, <1>2, <1>3, <1>4, <1>5, <1>6, <1>7, <1>8, <1>9, <1>10, <1>11, <1>12,
     <1>13, <1>14, <1>15, <1>16, <1>17, StepKinds

\* Every variable keeps its type.
THEOREM TypeCorrect == Spec => []TypeOK
<1>1. TInv => TypeOK
  BY DEF TInv
<1> QED
  BY <1>1, InitTInv, NextTInv, PTL DEF Spec

-----------------------------------------------------------------------------
(***************************************************************************)
(* Descriptors.                                                            *)
(***************************************************************************)

FInv == DescriptorsAccounted /\ NoStaleConnection

\* Closing the three sockets leaves the file and the leaks.
LEMMA CloseAllAccounted ==
    ASSUME TypeOK, DescriptorsAccounted, close_all_fds, UNCHANGED <<ffd, leaked>>
    PROVE  DescriptorsAccounted'
BY DEF TypeOK, DescriptorsAccounted, Referenced, close_all_fds

LEMMA NextFInv == TInv /\ FInv /\ [Next]_vars => FInv'
<1> SUFFICES ASSUME TInv, FInv, [Next]_vars PROVE FInv'
  OBVIOUS
<1>31. TypeOK /\ FileOK /\ TodoOK /\ DescriptorsAccounted /\ NoStaleConnection
  BY DEF TInv, FInv
\* Steps that open and close nothing.
<1>32. ASSUME UNCHANGED fds PROVE DescriptorsAccounted'
  BY <1>31, <1>32 DEF DescriptorsAccounted, Referenced, fds, socks
<1>1. CASE PlainRequest
  <2>1. pc = "read" /\ pc' = "read" /\ UNCHANGED fds
    BY <1>1, <1>31, PlainFrame DEF Answered
  <2> QED
    BY <1>31, <1>32, <2>1 DEF FInv, NoStaleConnection, fds, socks
<1>2. CASE TransferRequest
  <2>1. pc = "read" /\ pc' \in {"conn", "fin"} /\ UNCHANGED fds
    BY <1>2, TransferFrame
  <2> QED
    BY <1>31, <1>32, <2>1 DEF FInv, NoStaleConnection, fds, socks
<1>3. CASE EndStep
  <2>1. pc \in {"conn", "work", "back"} /\ pc' = "fin" /\ UNCHANGED fds
    BY <1>3, EndFrame
  <2> QED
    BY <1>31, <1>32, <2>1 DEF FInv, NoStaleConnection, fds, socks
<1>4. CASE Greet \/ (NoPasv /\ connfd # NoFd) \/ Send150 \/ ListChdir
  <2>1. /\ UNCHANGED fds
        /\ \/ pc = "greet" /\ pc' = "read"
           \/ pc \in {"conn", "s150", "work"} /\ pc' \in {"s150", "work", "list"}
    BY <1>4 DEF Greet, NoPasv, Send150, ListChdir, At
  <2> QED
    BY <1>31, <1>32, <2>1 DEF FInv, NoStaleConnection, fds, socks
<1>5. CASE (\E p \in Paths : OthersChange(p)) \/ UNCHANGED vars
  <2>1. UNCHANGED fds /\ pc' = pc
    BY <1>5 DEF OthersChange, vars
  <2> QED
    BY <1>31, <1>32, <2>1 DEF FInv, NoStaleConnection, fds, socks
\* The process ends: nothing is open.
<1>6. CASE LastStep
  <2>1. Exit
    BY <1>6, LastFrame
  <2> QED
    BY <2>1 DEF Exit, FInv, DescriptorsAccounted, Referenced, NoStaleConnection
<1>m. NoFd \notin open
  BY <1>31 DEF TypeOK
<1>34. /\ pasv_fd # NoFd => pasv_fd # connfd /\ pasv_fd # port_fd /\ pasv_fd # ffd
       /\ connfd # NoFd => connfd # port_fd /\ connfd # ffd
       /\ port_fd # NoFd => port_fd # ffd
  BY <1>31 DEF DescriptorsAccounted
\* Requests that replace a socket.
<1>7. CASE SocketRequest
  <2>1. NoStaleConnection'
    BY <1>7, <1>31, SocketFrame DEF NoStaleConnection
  <2>2. CASE Pasv
    <3>1. PICK f \in Fds : /\ f \in Free \cup ({pasv_fd} \ {NoFd})
                           /\ open' = (open \ {pasv_fd}) \cup {f}
                           /\ pasv_fd' = f
      BY <2>2 DEF Pasv, IsLowest
    <3>2. UNCHANGED <<connfd, port_fd, ffd, leaked>>
      BY <2>2 DEF Pasv
    <3>3. f # NoFd /\ f \notin {connfd, port_fd, ffd} \cup leaked
      BY <1>31, <3>1 DEF TypeOK, DescriptorsAccounted, Referenced, Free
    <3>4. open \ {pasv_fd} = ({connfd, port_fd, ffd} \ {NoFd}) \cup leaked
      BY <1>31, <1>m DEF DescriptorsAccounted, Referenced
    <3>5. open' = Referenced' \cup leaked' /\ Referenced' \cap leaked' = {}
      BY <1>31, <3>1, <3>2, <3>3, <3>4 DEF DescriptorsAccounted, Referenced
    <3> QED
      BY <1>34, <2>1, <3>1, <3>2, <3>3, <3>5 DEF FInv, DescriptorsAccounted
  <2>p. open \ {port_fd} = ({pasv_fd, connfd, ffd} \ {NoFd}) \cup leaked
    BY <1>31, <1>m DEF DescriptorsAccounted, Referenced
  <2>3. CASE PortMalformed
    <3>1. /\ open' = open \ {port_fd} /\ port_fd' = NoFd
          /\ UNCHANGED <<pasv_fd, connfd, ffd, leaked>>
      BY <2>3 DEF PortMalformed
    <3>2. open' = Referenced' \cup leaked' /\ Referenced' \cap leaked' = {}
      BY <1>31, <2>p, <3>1 DEF DescriptorsAccounted, Referenced
    <3> QED
      BY <1>34, <2>1, <3>1, <3>2 DEF FInv, DescriptorsAccounted
  <2>4. CASE Port
    <3>1. PICK f \in Fds : /\ f \in Free \cup ({port_fd} \ {NoFd})
                           /\ open' = (open \ {port_fd}) \cup {f}
                           /\ port_fd' = f
      BY <2>4 DEF Port, IsLowest
    <3>2. UNCHANGED <<pasv_fd, connfd, ffd, leaked>>
      BY <2>4 DEF Port
    <3>3. f # NoFd /\ f \notin {connfd, pasv_fd, ffd} \cup leaked
      BY <1>31, <3>1 DEF TypeOK, DescriptorsAccounted, Referenced, Free
    <3>5. open' = Referenced' \cup leaked' /\ Referenced' \cap leaked' = {}
      BY <1>31, <2>p, <3>1, <3>2, <3>3 DEF DescriptorsAccounted, Referenced
    <3> QED
      BY <1>34, <2>1, <3>1, <3>2, <3>3, <3>5 DEF FInv, DescriptorsAccounted
  <2> QED
    BY <1>7, <2>1, <2>2, <2>3, <2>4 DEF SocketRequest, FInv
\* The accepted connection takes the place of the listening socket.
<1>8. CASE AcceptData
  <2>1. PICK f \in Fds : /\ f \in Free
                         /\ open' = (open \cup {f}) \ {pasv_fd}
                         /\ connfd' = f
    BY <1>8 DEF AcceptData, IsLowest
  <2>2. /\ pasv_fd' = NoFd /\ UNCHANGED <<port_fd, ffd, leaked>>
        /\ pc' = "s150" /\ connfd = NoFd /\ ffd = NoFd
    BY <1>8, <1>31 DEF AcceptData, NoStaleConnection
  <2>3. f # NoFd /\ f \notin {pasv_fd, port_fd} \cup leaked
    BY <1>31, <2>1 DEF TypeOK, DescriptorsAccounted, Referenced, Free
  <2>4. open \ {pasv_fd} = ({port_fd} \ {NoFd}) \cup leaked
    BY <1>31, <1>m, <2>2 DEF DescriptorsAccounted, Referenced
  <2>5. open' = Referenced' \cup leaked' /\ Referenced' \cap leaked' = {}
    BY <1>31, <2>1, <2>2, <2>3, <2>4 DEF DescriptorsAccounted, Referenced
  <2>6. DescriptorsAccounted'
    BY <2>1, <2>2, <2>3, <2>5 DEF DescriptorsAccounted
  <2> QED
    BY <2>2, <2>6 DEF FInv, NoStaleConnection
<1>9. CASE ListDir
  <2>1. PICK f \in Fds : /\ f \in Free
                         /\ open' = open \cup {f}
                         /\ leaked' = leaked \cup {f}
    BY <1>9 DEF ListDir, IsLowest
  <2>2. UNCHANGED <<pasv_fd, connfd, port_fd, ffd>> /\ pc = "list" /\ pc' = "back"
    BY <1>9 DEF ListDir, socks
  <2>3. DescriptorsAccounted'
    BY <1>31, <2>1, <2>2 DEF DescriptorsAccounted, Referenced, Free
  <2> QED
    BY <1>31, <2>2, <2>3 DEF FInv, NoStaleConnection
<1>10. CASE RetrOpen \/ StorOpen
  <2>1. PICK f \in Fds : f \in Free /\ ffd' = f /\ open' = open \cup {f}
    BY <1>10 DEF RetrOpen, StorOpen, OpenFile, IsLowest
  <2>2. /\ UNCHANGED <<pasv_fd, connfd, port_fd, leaked>>
        /\ pc = "work" /\ pc' \in {"xfer", "xdir"}
    BY <1>10 DEF RetrOpen, StorOpen, At, socks
  <2>3. ffd = NoFd /\ f # NoFd
    BY <1>31, <2>2 DEF NoStaleConnection
  <2>4. DescriptorsAccounted'
    BY <1>31, <2>1, <2>2, <2>3 DEF DescriptorsAccounted, Referenced, Free
  <2> QED
    BY <2>2, <2>4 DEF FInv, NoStaleConnection
<1>11. CASE TransferEnds \/ TransferFails
  <2>1. /\ ffd # NoFd /\ ffd' = NoFd /\ pc' = "fin"
        /\ UNCHANGED <<pasv_fd, connfd, port_fd>>
        /\ \/ open' = open \ {ffd} /\ leaked' = leaked
           \/ open' = open /\ leaked' = leaked \cup {ffd}
    BY <1>11, <1>31 DEF TransferEnds, TransferFails, Finish, FileOK, socks
  <2>2. DescriptorsAccounted'
    BY <1>31, <2>1 DEF DescriptorsAccounted, Referenced
  <2> QED
    BY <2>1, <2>2 DEF FInv, NoStaleConnection
<1>14. CASE LoopsAfterCR
  <2>1. pc = "xfer" /\ pc' = "loop" /\ UNCHANGED fds
    BY <1>14 DEF LoopsAfterCR
  <2> QED
    BY <1>31, <1>32, <2>1 DEF FInv, NoStaleConnection, fds, socks
<1>12. CASE FinishStep
  <2>1. /\ pc = "fin" /\ pc' \in {"fin", "read"} /\ UNCHANGED <<ffd, leaked>>
        /\ \/ close_all_fds
           \/ UNCHANGED <<socks, open>> /\ (pc' = "read" => connfd = NoFd)
    BY <1>12, <1>31, FinishFrame
  <2>2. DescriptorsAccounted'
    BY <1>31, <1>32, <2>1, CloseAllAccounted DEF fds
  <2>3. NoStaleConnection'
    BY <1>31, <2>1 DEF NoStaleConnection, close_all_fds, socks
  <2> QED
    BY <2>2, <2>3 DEF FInv
<1> QED
  BY <1>31, <1>1, <1>2, <1>3, <1>4, <1>5, <1>6, <1>7, <1>8, <1>9, <1>10, <1>11, <1>12,
     <1>14, StepKinds

\* The descriptors of a session: no double close, no use of another's
\* descriptor and no leak other than the two the code has, on every path.
THEOREM DescriptorsAlwaysAccounted == Spec => []DescriptorsAccounted
<1>1. Init => TInv /\ FInv
  BY InitTInv DEF Init, FInv, DescriptorsAccounted, Referenced, NoStaleConnection
<1>2. TInv /\ FInv /\ [Next]_vars => (TInv /\ FInv)'
  BY NextTInv, NextFInv
<1>3. FInv => DescriptorsAccounted
  BY DEF FInv
<1> QED
  BY <1>1, <1>2, <1>3, PTL DEF Spec

\* No data connection and no file outlives its request.
THEOREM NoConnectionOutlivesRequest == Spec => []NoStaleConnection
<1>1. Init => TInv /\ FInv
  BY InitTInv DEF Init, FInv, DescriptorsAccounted, Referenced, NoStaleConnection
<1>2. TInv /\ FInv /\ [Next]_vars => (TInv /\ FInv)'
  BY NextTInv, NextFInv
<1>3. FInv => NoStaleConnection
  BY DEF FInv
<1> QED
  BY <1>1, <1>2, <1>3, PTL DEF Spec

-----------------------------------------------------------------------------
(***************************************************************************)
(* Replies.                                                                *)
(***************************************************************************)

RInv == SentOK /\ OneFinalReply /\ CompleteMeansClosed

LEMMA NotJustClose == \A t \in Pairs \cup Singles : t # <<CloseAll>>
BY DEF Pairs, Singles

\* Appending the final reply to what a handler has sent before it.
LEMMA FinalReply ==
    ASSUME NEW c \in Codes, sent \in {<<>>, << 150 >>}
    PROVE  Append(sent, c) \in {<<c>>, <<150, c>>}
<1>1. 150 \in Codes
  BY DEF Codes
<1>2. CASE sent = <<>>
  BY <1>2, AppendToEmpty
<1>3. CASE sent = << 150 >>
  <2>1. Append(<< 150 >>, c) = <<150, c>>
    BY <1>1, AppendToOne
  <2> QED
    BY <1>3, <2>1
<1> QED
  BY <1>2, <1>3

\* 226 is the last reply only after it was appended.
LEMMA LastReply ==
    ASSUME NEW c
    PROVE  /\ <<c>> # <<>> /\ <<c>>[Len(<<c>>)] = c
           /\ <<150, c>> # <<>> /\ <<150, c>>[Len(<<150, c>>)] = c
OBVIOUS

LEMMA InitRInv == Init => RInv
BY DEF Init, RInv, SentOK, OneFinalReply, CompleteMeansClosed

LEMMA NextRInv == TInv /\ FInv /\ RInv /\ [Next]_vars => RInv'
<1> SUFFICES ASSUME TInv, FInv, RInv, [Next]_vars PROVE RInv'
  OBVIOUS
<1>31. TypeOK /\ TodoOK /\ NoStaleConnection /\ SentOK /\ OneFinalReply /\ CompleteMeansClosed
  BY DEF TInv, FInv, RInv
<1>32. TodoOK' /\ NoStaleConnection'
  BY NextTInv, NextFInv DEF TInv, FInv
\* A request answered at once.
<1>1. ASSUME NEW c \in FinalCodes \ {226}, sent' = <<c>>, pc' = "read"
      PROVE  RInv'
  BY <1>1, LastReply DEF RInv, SentOK, OneFinalReply, CompleteMeansClosed
\* A step inside a handler: nothing final has been sent yet.
<1>2. ASSUME sent' \in {<<>>, << 150 >>}, pc' \notin {"read", "greet"},
             pc' \in {"conn", "s150"} => sent' = <<>>,
             pc' \in {"work", "list", "back", "xfer", "xdir", "loop"} => sent' = << 150 >>,
             pc' = "fin" => todo' # <<CloseAll>>
      PROVE  RInv'
  BY <1>2, LastReply DEF RInv, SentOK, OneFinalReply, CompleteMeansClosed
<1>3. CASE PlainRequest \/ SocketRequest
  BY <1>3, <1>1, <1>31, PlainFrame, SocketFrame DEF Answered
<1>4. CASE TransferRequest
  <2>1. /\ sent' = <<>>
        /\ \/ pc' = "conn"
           \/ pc' = "fin" /\ todo' = <<550, CloseAll>>
    BY <1>4, TransferFrame
  <2>2. pc' = "fin" => todo' # <<CloseAll>>
    BY <2>1, NotJustClose DEF Pairs
  <2> QED
    BY <1>2, <2>1, <2>2
<1>5. CASE LastStep
  <2>1. Exit
    BY <1>5, LastFrame
  <2> QED
    BY <2>1 DEF Exit, RInv, SentOK, OneFinalReply, CompleteMeansClosed
<1>6. CASE EndStep
  <2>1. pc' = "fin" /\ todo' \in Pairs /\ sent' = sent
    BY <1>6, EndFrame
  <2>2. sent \in {<<>>, << 150 >>}
    BY <1>6, <1>31, EndFrame DEF SentOK
  <2> QED
    BY <1>2, <2>1, <2>2, NotJustClose
<1>7. CASE Greet
  <2>1. sent' = << 220 >> /\ pc' = "read" /\ 220 \in FinalCodes \ {226}
    BY <1>7 DEF Greet, FinalCodes, Codes
  <2> QED
    BY <1>1, <2>1
<1>8. CASE AcceptData \/ (NoPasv /\ connfd # NoFd)
  <2>1. pc' = "s150" /\ sent' = <<>>
    BY <1>8, <1>31 DEF AcceptData, NoPasv, SentOK
  <2> QED
    BY <1>2, <2>1
<1>9. CASE Send150
  <2>1. pc' = "work" /\ sent' = << 150 >>
    BY <1>9, <1>31, AppendToEmpty DEF Send150, SentOK
  <2> QED
    BY <1>2, <2>1
<1>10. CASE ListChdir \/ ListDir \/ RetrOpen \/ StorOpen
  <2>1. pc' \in {"list", "back", "xfer", "xdir"} /\ sent' = << 150 >>
    BY <1>10, <1>31 DEF ListChdir, ListDir, RetrOpen, StorOpen, At, SentOK
  <2> QED
    BY <1>2, <2>1
<1>11. CASE TransferEnds \/ TransferFails
  <2>1. pc' = "fin" /\ sent' = << 150 >> /\ todo' \in Pairs
    BY <1>11, <1>31, EndsOfHandler DEF TransferEnds, TransferFails, Finish, SentOK
  <2> QED
    BY <1>2, <2>1, NotJustClose
<1>14. CASE LoopsAfterCR
  <2>1. pc' = "loop" /\ sent' = << 150 >>
    BY <1>14, <1>31 DEF LoopsAfterCR, SentOK
  <2> QED
    BY <1>2, <2>1
<1>12. CASE FinishStep
  <2> DEFINE Early == sent \in {<<>>, << 150 >>}
  <2>1. pc = "fin"
    BY <1>12 DEF FinishStep
  <2>2. todo # <<CloseAll>> => Early
    BY <1>31, <2>1 DEF SentOK
  <2>3. CASE /\ todo \in {<<CloseAll, 226>>, <<CloseAll, 500>>, <<CloseAll, 550>>}
             /\ todo' \in Singles /\ pc' = "fin" /\ sent' = sent
    <3>1. todo # <<CloseAll>> /\ todo' # <<CloseAll>>
      BY <2>3, NotJustClose DEF Pairs
    <3> QED
      BY <1>2, <2>2, <2>3, <3>1
  <2>4. CASE todo = <<CloseAll>> /\ pc' = "read" /\ sent' = sent
    <3>1. sent' \in {<< 550 >>, <<150, 550>>}
      BY <1>31, <2>1, <2>4 DEF SentOK
    <3>2. 550 \in FinalCodes \ {226} /\ 550 \in {226, 500, 550}
      BY DEF FinalCodes, Codes
    <3> QED
      BY <2>4, <3>1, <3>2, LastReply DEF RInv, SentOK, OneFinalReply, CompleteMeansClosed
  <2>5. CASE todo = <<550, CloseAll>> /\ todo' = <<CloseAll>> /\ pc' = "fin"
             /\ sent' = Append(sent, 550)
    <3>1. Early
      BY <2>2, <2>5, NotJustClose DEF Pairs
    <3>2. sent' \in {<< 550 >>, <<150, 550>>}
      <4>1. 550 \in Codes
        BY DEF Codes
      <4> QED
        BY <2>5, <3>1, <4>1, FinalReply
    <3>3. SentOK' /\ OneFinalReply'
      BY <2>5, <3>2 DEF SentOK, OneFinalReply
    <3>4. sent'[Len(sent')] = 550
      BY <3>2, LastReply
    <3> QED
      BY <3>3, <3>4 DEF RInv, CompleteMeansClosed
  <2>6. ASSUME NEW c \in {226, 500, 550}, todo = <<c>>, pc' = "read",
               sent' = Append(sent, c),
               pasv_fd' = NoFd, connfd' = NoFd, port_fd' = NoFd
        PROVE  RInv'
    <3>1. Early
      BY <2>2, <2>6, NotJustClose DEF Singles
    <3>2. c \in FinalCodes
      BY DEF FinalCodes, Codes
    <3>3. sent' \in {<<c>>, <<150, c>>}
      BY <2>6, <3>1, <3>2, FinalReply DEF FinalCodes
    <3>4. ffd' = NoFd
      BY <1>32, <2>6 DEF NoStaleConnection
    <3> QED
      BY <2>6, <3>2, <3>3, <3>4 DEF RInv, SentOK, OneFinalReply, CompleteMeansClosed
  <2> QED
    BY <1>12, <1>31, <2>3, <2>4, <2>5, <2>6, FinishFrame DEF Singles, socks
<1>13. CASE (\E p \in Paths : OthersChange(p)) \/ UNCHANGED vars
  <2>1. UNCHANGED <<pc, todo, sent, fds>>
    BY <1>13 DEF OthersChange, vars, control
  <2> QED
    BY <1>31, <2>1 DEF RInv, SentOK, OneFinalReply, CompleteMeansClosed, fds, socks
<1> QED
  BY <1>31, <1>3, <1>4, <1>5, <1>6, <1>7, <1>8, <1>9, <1>10, <1>11, <1>12, <1>13,
     <1>14, StepKinds

\* The invariant of a session as a whole.
THEOREM SessionInvariant == Spec => [](TInv /\ FInv /\ RInv)
<1>1. Init => TInv /\ FInv /\ RInv
  BY InitTInv, InitRInv
     DEF Init, FInv, DescriptorsAccounted, Referenced, NoStaleConnection
<1>2. TInv /\ FInv /\ RInv /\ [Next]_vars => (TInv /\ FInv /\ RInv)'
  BY NextTInv, NextFInv, NextRInv
<1> QED
  BY <1>1, <1>2, PTL DEF Spec

\* Every request is answered by exactly one final reply, on every path of
\* every handler.
THEOREM EveryRequestAnsweredOnce == Spec => []OneFinalReply
<1>1. RInv => OneFinalReply
  BY DEF RInv
<1> QED
  BY <1>1, SessionInvariant, PTL

\* A client that sees 226 finds the transfer closed.
THEOREM CompleteIsClosed == Spec => []CompleteMeansClosed
<1>1. RInv => CompleteMeansClosed
  BY DEF RInv
<1> QED
  BY <1>1, SessionInvariant, PTL

-----------------------------------------------------------------------------
(***************************************************************************)
(* Login and working directory.                                            *)
(***************************************************************************)

\* While no user is set a request that is answered at once is refused.
LEMMA RefusedBeforeLogin ==
    ASSUME TypeOK, PlainRequest, user' = NoUser
    PROVE  sent' \in {<< 500 >>, << 530 >>, << 550 >>}
<1> USE DEF Reply, LoggedIn, NoUser
<1>1. CASE Unsupported \/ Auth \/ Pwd \/ Syst \/ (~LoggedIn /\ NotLoggedIn)
  BY <1>1 DEF Unsupported, Auth, Pwd, Syst, NotLoggedIn
<1>2. ASSUME NEW name \in Users \cup {"stranger", NoArg}, User(name)
      PROVE  sent' = << 550 >>
  BY <1>2 DEF User
<1>3. ASSUME NEW word \in {"right", "wrong", NoArg}, Pass(word)
      PROVE  sent' = << 530 >>
  BY <1>3 DEF Pass, PassOK
<1>4. ASSUME NEW t \in {"A", "I", "L", NoArg}, Type(t)
      PROVE  sent' = << 500 >>
  <2>1. t = NoArg
    BY <1>4 DEF Type
  <2>2. NoArg \notin {"A", "I"}
    BY DEF NoArg
  <2> QED
    BY <1>4, <2>1, <2>2 DEF Type
<1>5. ASSUME NEW p \in Args,
             Cwd(p) \/ Size(p) \/ Dele(p) \/ Mkd(p) \/ Rmd(p)
      PROVE  sent' = << 550 >>
  BY <1>5 DEF Cwd, Size, Dele, Mkd, Rmd
<1> QED
  BY <1>1, <1>2, <1>3, <1>4, <1>5 DEF PlainRequest

\* Until USER has named a user, and after PASS has failed, every request is
\* refused: FTPD_CHECK_LOGIN stands on the way to every handler's effects.
THEOREM ServiceNeedsUser == Spec => []UserGate
<1>1. Init => UserGate
  BY DEF Init, UserGate
<1>2. TypeOK /\ UserGate /\ [Next]_vars => UserGate'
  <2> SUFFICES ASSUME TypeOK, UserGate, [Next]_vars, user' = NoUser
               PROVE  /\ pc' \in {"greet", "read", "dead"}
                      /\ sent' \in {<<>>, << 220 >>, << 500 >>, << 530 >>, << 550 >>}
    BY DEF UserGate
  <2>1. CASE PlainRequest
    BY <2>1, PlainFrame, RefusedBeforeLogin DEF Answered
  <2>2. CASE SocketRequest \/ TransferRequest
    BY <2>2, SocketFrame, TransferFrame DEF LoggedIn
  <2>3. CASE LastStep
    BY <2>3, LastFrame DEF UserGate, Exit, LoggedIn
  <2>4. CASE Greet
    BY <2>4 DEF Greet
  <2>5. CASE EndStep
    BY <2>5, EndFrame DEF UserGate
  <2>6. CASE AcceptData \/ (NoPasv /\ connfd # NoFd) \/ Send150 \/ ListChdir \/ ListDir
    BY <2>6 DEF AcceptData, NoPasv, Send150, ListChdir, ListDir, At, UserGate
  <2>7. CASE RetrOpen \/ StorOpen \/ TransferEnds \/ TransferFails
                \/ LoopsAfterCR \/ FinishStep
    BY <2>7 DEF RetrOpen, StorOpen, TransferEnds, TransferFails, LoopsAfterCR, FinishStep,
       At, UserGate
  <2>8. CASE (\E p \in Paths : OthersChange(p)) \/ UNCHANGED vars
    BY <2>8 DEF OthersChange, vars, UserGate
  <2> QED
    BY <2>1, <2>2, <2>3, <2>4, <2>5, <2>6, <2>7, <2>8, StepKinds
<1> QED
  BY <1>1, <1>2, TypeCorrect, PTL DEF Spec

\* LIST always brings the child back to the directory the client chose.
THEOREM WorkingDirIsClients == Spec => []WorkingDirKept
<1>1. Init => WorkingDirKept /\ SavedOK
  BY DEF Init, WorkingDirKept, SavedOK
<1>2. TypeOK /\ WorkingDirKept /\ SavedOK /\ [Next]_vars => (WorkingDirKept /\ SavedOK)'
  <2> SUFFICES ASSUME TypeOK, WorkingDirKept, SavedOK, [Next]_vars
               PROVE  (WorkingDirKept /\ SavedOK)'
    OBVIOUS
  \* Steps outside the excursion.
  <2>31. ASSUME pc \notin {"list", "back", "dead"}, pc' \notin {"list", "back"},
                \/ cwd' \in {cwd, Gone} /\ home' = home
                \/ cwd' = home'
         PROVE  (WorkingDirKept /\ SavedOK)'
    BY <2>31 DEF WorkingDirKept, SavedOK
  <2>1. CASE PlainRequest
    <3>1. pc = "read" /\ pc' = "read"
      BY <2>1, PlainFrame DEF Answered
    <3>2. \/ cwd' \in {cwd, Gone} /\ home' = home
          \/ cwd' = home'
      BY <2>1, PlainFrame DEF Effects
    <3> QED
      BY <2>31, <3>1, <3>2
  <2>2. CASE SocketRequest
    BY <2>2, <2>31, SocketFrame
  <2>3. CASE TransferRequest
    BY <2>3, <2>31, TransferFrame
  <2>4. CASE LastStep
    BY <2>4, LastFrame DEF Exit, WorkingDirKept, SavedOK
  <2>5. CASE EndStep
    <3>1. CASE pc = "back"
      BY <2>5, <3>1, EndFrame DEF WorkingDirKept, SavedOK
    <3>2. CASE pc # "back"
      BY <2>5, <2>31, <3>2, EndFrame
    <3> QED
      BY <3>1, <3>2
  <2>6. CASE Greet \/ AcceptData \/ (NoPasv /\ connfd # NoFd) \/ Send150
    BY <2>6, <2>31 DEF Greet, AcceptData, NoPasv, Send150
  <2>7. CASE RetrOpen \/ StorOpen \/ TransferEnds \/ TransferFails
                \/ LoopsAfterCR \/ FinishStep
    BY <2>7, <2>31 DEF RetrOpen, StorOpen, TransferEnds, TransferFails, LoopsAfterCR,
       FinishStep, Finish, At
  <2>8. CASE ListChdir
    BY <2>8 DEF ListChdir, At, WorkingDirKept, SavedOK
  <2>9. CASE ListDir
    BY <2>9 DEF ListDir, WorkingDirKept, SavedOK, control
  <2>10. ASSUME NEW p \in Paths, OthersChange(p)
         PROVE  (WorkingDirKept /\ SavedOK)'
    BY <2>10 DEF OthersChange, WorkingDirKept, SavedOK, control
  <2>11. CASE UNCHANGED vars
    BY <2>11 DEF vars, WorkingDirKept, SavedOK, control
  <2> QED
    BY <2>1, <2>2, <2>3, <2>4, <2>5, <2>6, <2>7, <2>8, <2>9, <2>10, <2>11, StepKinds
<1> QED
  BY <1>1, <1>2, TypeCorrect, PTL DEF Spec

-----------------------------------------------------------------------------
(* A session implements FtpReplies: each kind of step of the session is one  *)
(* step of the promise, or leaves its three variables alone.                *)

\* A handler that is about to report 226 has sent 150.
AnnouncedOK ==
    pc = "fin" /\ todo \in {<<CloseAll, 226>>, << 226 >>} => sent = << 150 >>

\* The ends of a handler that do not report 226.
LEMMA NotComplete ==
    \A t \in {<<CloseAll, 500>>, <<CloseAll, 550>>, <<550, CloseAll>>, <<CloseAll>>,
            << 500 >>, << 550 >>} : t \notin {<<CloseAll, 226>>, << 226 >>}
<1>1. \A c \in {500, 550} : <<CloseAll, c>> # <<CloseAll, 226>> /\ <<c>> # << 226 >>
  OBVIOUS
<1>2. <<CloseAll>> # <<CloseAll, 226>> /\ <<CloseAll>> # << 226 >>
  BY NotJustClose DEF Pairs, Singles
<1>5. << 500 >> # <<CloseAll, 226>>
  OBVIOUS
<1>6. << 550 >> # <<CloseAll, 226>>
  OBVIOUS
<1>3. \A c \in {500, 550} : <<CloseAll, c>> # << 226 >>
  OBVIOUS
<1>4. <<550, CloseAll>> # <<CloseAll, 226>> /\ <<550, CloseAll>> # << 226 >>
  OBVIOUS
<1> QED
  BY <1>1, <1>2, <1>3, <1>4, <1>5, <1>6

\* Only ErrRet ends a handler that has not sent 150.
LEMMA EarlyEndIsError ==
    ASSUME EndStep, pc = "conn"
    PROVE  todo' \notin {<<CloseAll, 226>>, << 226 >>}
<1>1. AcceptFails \/ (NoPasv /\ connfd = NoFd)
  BY DEF EndStep, ListFile, ListBack, Nlst, RetrOpenFails, StorOpenFails, At
<1>2. todo' = ErrRet(cmd.op)
  BY <1>1 DEF AcceptFails, NoPasv, Finish
<1>3. ErrRet(cmd.op) \in {<<CloseAll, 550>>, <<CloseAll, 500>>, <<550, CloseAll>>}
  BY DEF ErrRet
<1> QED
  BY <1>2, <1>3, NotComplete

LEMMA NextAnnounced ==
    ASSUME TInv, RInv, AnnouncedOK, [Next]_vars
    PROVE  AnnouncedOK'
<1>1. TypeOK /\ TodoOK /\ SentOK
  BY DEF TInv, RInv
<1>2. CASE pc' # "fin"
  BY <1>2 DEF AnnouncedOK
<1>3. CASE TransferRequest
  <2>1. pc' = "fin" => todo' = <<550, CloseAll>>
    BY <1>3, TransferFrame
  <2> QED
    BY <2>1, NotComplete DEF AnnouncedOK
<1>4. CASE EndStep
  <2>1. CASE pc = "conn"
    BY <1>4, <2>1, EarlyEndIsError DEF AnnouncedOK
  <2>2. CASE pc # "conn"
    BY <1>1, <1>4, <2>2, EndFrame DEF AnnouncedOK, SentOK
  <2> QED
    BY <2>1, <2>2
<1>5. CASE TransferEnds \/ TransferFails
  BY <1>1, <1>5 DEF TransferEnds, TransferFails, AnnouncedOK, SentOK
<1>6. CASE FinishStep
  <2>1. ASSUME NEW c \in {226, 500, 550}, todo = <<CloseAll, c>>
        PROVE  todo' = <<c>> /\ sent' = sent
    BY <1>6, <2>1, PairTail DEF FinishStep
  <2>2. CASE todo = <<CloseAll, 226>>
    BY <1>6, <2>1, <2>2 DEF AnnouncedOK, FinishStep
  <2>3. CASE todo \in {<<CloseAll, 500>>, <<CloseAll, 550>>}
    <3>1. todo' \in {<< 500 >>, << 550 >>}
      BY <2>1, <2>3
    <3> QED
      BY <3>1, NotComplete DEF AnnouncedOK
  <2>4. CASE todo' = <<CloseAll>>
    BY <2>4, NotComplete DEF AnnouncedOK
  <2> QED
    BY <1>1, <1>2, <1>6, <2>2, <2>3, <2>4, FinishFrame
<1>7. CASE (\E p \in Paths : OthersChange(p)) \/ UNCHANGED vars
  BY <1>7 DEF OthersChange, vars, control, AnnouncedOK
<1>8. CASE PlainRequest \/ SocketRequest \/ LastStep
  BY <1>1, <1>2, <1>8, PlainFrame, SocketFrame, LastFrame DEF Answered, Exit
<1>9. CASE \/ Greet \/ AcceptData \/ (NoPasv /\ connfd # NoFd) \/ Send150
           \/ ListChdir \/ ListDir \/ RetrOpen \/ StorOpen \/ LoopsAfterCR
  BY <1>2, <1>9 DEF Greet, AcceptData, NoPasv, Send150, ListChdir, ListDir,
     RetrOpen, StorOpen, LoopsAfterCR
<1> QED
  BY <1>1, <1>3, <1>4, <1>5, <1>6, <1>7, <1>8, <1>9, StepKinds

\* 150 is only sent over an established data connection.
ConnectedOK == pc = "s150" => connfd # NoFd

LEMMA AcceptConnects ==
    ASSUME AcceptData
    PROVE  connfd' # NoFd
<1>1. PICK f \in Fds : connfd' = f
  BY DEF AcceptData
<1> QED
  BY <1>1, FdsAssumption DEF NoFd

LEMMA NextConnected ==
    ASSUME TInv, ConnectedOK, [Next]_vars
    PROVE  ConnectedOK'
<1>1. TypeOK /\ TodoOK
  BY DEF TInv
<1>2. CASE pc' # "s150"
  BY <1>2 DEF ConnectedOK
<1>3. CASE AcceptData
  BY <1>3, AcceptConnects DEF ConnectedOK
<1>4. CASE NoPasv /\ connfd # NoFd
  BY <1>4 DEF NoPasv, fds, socks, ConnectedOK
<1>5. CASE (\E p \in Paths : OthersChange(p)) \/ UNCHANGED vars
  BY <1>5 DEF OthersChange, vars, fds, socks, ConnectedOK
<1>6. CASE PlainRequest \/ SocketRequest \/ TransferRequest \/ LastStep \/ EndStep
  BY <1>1, <1>2, <1>6, PlainFrame, SocketFrame, TransferFrame, LastFrame, EndFrame
     DEF Answered, Exit
<1>7. CASE \/ Greet \/ Send150 \/ ListChdir \/ ListDir \/ RetrOpen \/ StorOpen
           \/ TransferEnds \/ TransferFails \/ LoopsAfterCR \/ FinishStep
  BY <1>2, <1>7 DEF Greet, Send150, ListChdir, ListDir, RetrOpen, StorOpen,
     TransferEnds, TransferFails, LoopsAfterCR, Finish, FinishStep
<1> QED
  BY <1>1, <1>3, <1>4, <1>5, <1>6, <1>7, StepKinds

-----------------------------------------------------------------------------

Busy == {"conn", "s150", "work", "list", "back", "xfer", "xdir", "loop"}

\* The steps a client does not see.
LEMMA HiddenStep ==
    ASSUME sent' = sent, connfd' = connfd, Phase' = Phase
    PROVE  UNCHANGED Promise!vars
BY DEF Promise!vars

\* A request is taken when no data connection is open.
LEMMA ReadyIsClosed ==
    ASSUME FInv, pc = "read"
    PROVE  Phase = "ready" /\ connfd = NoFd
BY DEF FInv, NoStaleConnection, Phase

\* The last steps of a handler: a close the client may see, or the reply.
LEMMA CloseKeepsPromise ==
    ASSUME close_all_fds, sent' = sent, Phase' = Phase, Phase \in {"busy", "ready"}
    PROVE  [Promise!Next]_(Promise!vars)
<1>1. CASE connfd = NoFd
  BY <1>1, HiddenStep DEF close_all_fds
<1>2. CASE connfd # NoFd
  BY <1>2 DEF close_all_fds, Promise!Next, Promise!Disconnect
<1> QED
  BY <1>1, <1>2

LEMMA FinishKeepsPromise ==
    ASSUME TodoOK, SentOK, AnnouncedOK, FinishStep
    PROVE  [Promise!Next]_(Promise!vars)
<1>1. pc = "fin"
  BY FinishFrame
<1>2. CASE /\ todo \in {<<CloseAll, 226>>, <<CloseAll, 500>>, <<CloseAll, 550>>}
           /\ todo' \in {<< 226 >>, << 500 >>, << 550 >>}
           /\ pc' = "fin" /\ close_all_fds /\ sent' = sent
  <2>1. Phase = "busy" /\ Phase' = "busy"
    BY <1>1, <1>2, NotJustClose DEF Phase, Pairs, Singles
  <2> QED
    BY <1>2, <2>1, CloseKeepsPromise
<1>3. CASE /\ todo = <<CloseAll>> /\ todo' = <<>>
           /\ pc' = "read" /\ close_all_fds /\ sent' = sent
  <2>1. Phase = "ready" /\ Phase' = "ready"
    BY <1>1, <1>3 DEF Phase
  <2> QED
    BY <1>3, <2>1, CloseKeepsPromise
<1>4. CASE /\ todo = <<550, CloseAll>> /\ todo' = <<CloseAll>>
           /\ pc' = "fin" /\ sent' = Append(sent, 550)
           /\ UNCHANGED <<socks, open>>
  <2>1. Phase = "busy" /\ Phase' = "ready"
    BY <1>1, <1>4, NotJustClose DEF Phase, Pairs
  <2>2. sent \in {<<>>, << 150 >>}
    BY <1>1, <1>4, NotJustClose DEF SentOK, Pairs
  <2>3. Promise!Conclude(550)
    BY <1>4, <2>1, <2>2 DEF Promise!Conclude, socks
  <2> QED
    BY <2>3 DEF Promise!Next, Promise!TransferCodes
<1>5. CASE /\ todo' = <<>> /\ pc' = "read"
           /\ UNCHANGED <<socks, open>>
           /\ pasv_fd = NoFd /\ connfd = NoFd /\ port_fd = NoFd
           /\ \E c \in {226, 500, 550} : todo = <<c>> /\ sent' = Append(sent, c)
  <2>1. PICK c \in {226, 500, 550} : todo = <<c>> /\ sent' = Append(sent, c)
    BY <1>5
  <2>2. todo \in Singles
    BY <2>1 DEF Singles
  <2>3. Phase = "busy" /\ Phase' = "ready"
    BY <1>1, <1>5, <2>2, NotJustClose DEF Phase
  <2>4. sent \in {<<>>, << 150 >>}
    BY <1>1, <2>2, NotJustClose DEF SentOK
  <2>5. c = 226 => sent = << 150 >>
    BY <1>1, <2>1 DEF AnnouncedOK
  <2>6. Promise!Conclude(c)
    BY <1>5, <2>1, <2>3, <2>4, <2>5 DEF Promise!Conclude, socks
  <2> QED
    BY <2>6 DEF Promise!Next, Promise!TransferCodes
<1> QED
  BY <1>2, <1>3, <1>4, <1>5, FinishFrame

LEMMA StepKeepsPromise ==
    ASSUME TInv, FInv, RInv, AnnouncedOK, ConnectedOK, [Next]_vars
    PROVE  [Promise!Next]_(Promise!vars)
<1>1. TypeOK /\ TodoOK /\ SentOK /\ NoStaleConnection
  BY DEF TInv, RInv, FInv
<1>2. CASE PlainRequest \/ SocketRequest
  <2>1. /\ pc = "read" /\ pc' = "read" /\ connfd' = connfd
        /\ \E c \in FinalCodes \ {220, 221, 226} : sent' = <<c>>
    BY <1>1, <1>2, PlainFrame, SocketFrame DEF Answered, fds, socks
  <2>2. PICK c \in Promise!SimpleCodes : sent' = <<c>>
    BY <2>1 DEF FinalCodes, Codes, Promise!SimpleCodes
  <2>3. Promise!Answer(c)
    BY <2>1, <2>2, ReadyIsClosed DEF Promise!Answer, Phase
  <2> QED
    BY <2>3 DEF Promise!Next
<1>3. CASE TransferRequest
  <2>1. /\ pc = "read" /\ sent' = <<>> /\ connfd' = connfd
        /\ pc' = "conn" \/ (pc' = "fin" /\ todo' = <<550, CloseAll>>)
    BY <1>3, TransferFrame DEF fds, socks
  <2>2. <<550, CloseAll>> # <<CloseAll>>
    BY NotJustClose DEF Pairs
  <2>3. Phase' = "busy"
    BY <2>1, <2>2 DEF Phase
  <2> QED
    BY <2>1, <2>3, ReadyIsClosed DEF Promise!Next, Promise!Begin
<1>4. CASE LastStep
  <2>1. /\ pc # "dead" /\ pc' = "dead" /\ connfd' = NoFd
        /\ \/ sent' = sent
           \/ pc = "read" /\ sent' = << 221 >>
    <3>1. CASE Quit
      BY <1>4, <3>1, LastFrame DEF Quit, Exit
    <3>2. CASE ~Quit
      BY <1>4, <3>2, LastFrame DEF LastStep, Exit, ClientCloses, Dies, PwdDies,
         WrapperFails, RetrOpenFails, StorOpenFails
    <3> QED
      BY <3>1, <3>2
  <2>2. Phase # "gone" /\ Phase' = "gone"
    BY <2>1 DEF Phase
  <2> QED
    BY <2>1, <2>2, ReadyIsClosed DEF Promise!Next, Promise!Leave
<1>5. CASE EndStep
  <2>1. /\ pc \in {"conn", "work", "back"} /\ pc' = "fin" /\ todo' \in Pairs
        /\ sent' = sent /\ connfd' = connfd
    BY <1>5, EndFrame DEF fds, socks
  <2>2. Phase = "busy" /\ Phase' = "busy"
    BY <2>1, NotJustClose DEF Phase
  <2> QED
    BY <2>1, <2>2, HiddenStep
<1>6. CASE Greet
  BY <1>6 DEF Greet, Phase, fds, socks, Promise!Next, Promise!Greet
<1>7. CASE AcceptData
  <2>1. pc = "conn" /\ pc' = "s150" /\ sent' = sent /\ connfd' # NoFd
    BY <1>7, AcceptConnects DEF AcceptData
  <2>2. Phase = "busy" /\ Phase' = "busy" /\ connfd = NoFd /\ sent = <<>>
    BY <1>1, <2>1 DEF Phase, NoStaleConnection, SentOK
  <2> QED
    BY <2>1, <2>2 DEF Promise!Next, Promise!Connect
<1>8. CASE NoPasv /\ connfd # NoFd
  BY <1>1, <1>8 DEF NoPasv, NoStaleConnection
<1>9. CASE Send150
  <2>1. pc = "s150" /\ pc' = "work" /\ sent' = Append(sent, 150) /\ connfd' = connfd
    BY <1>9 DEF Send150, fds, socks
  <2>2. sent = <<>> /\ sent' = << 150 >>
    BY <1>1, <2>1, AppendToEmpty DEF SentOK
  <2>3. Phase = "busy" /\ Phase' = "busy"
    BY <2>1 DEF Phase
  <2>4. connfd # NoFd
    BY <2>1 DEF ConnectedOK
  <2> QED
    BY <2>1, <2>2, <2>3, <2>4 DEF Promise!Next, Promise!Announce
<1>10. CASE ListChdir \/ ListDir \/ RetrOpen \/ StorOpen \/ LoopsAfterCR
  <2>1. pc \in Busy /\ pc' \in Busy /\ sent' = sent /\ connfd' = connfd
    BY <1>10 DEF ListChdir, ListDir, RetrOpen, StorOpen, LoopsAfterCR, At, Busy, fds, socks
  <2>2. Phase = "busy" /\ Phase' = "busy"
    BY <2>1 DEF Phase, Busy
  <2> QED
    BY <2>1, <2>2, HiddenStep
<1>11. CASE TransferEnds \/ TransferFails
  <2>1. /\ pc \in Busy /\ pc' = "fin" /\ todo' \in Pairs
        /\ sent' = sent /\ connfd' = connfd
    BY <1>11, EndsOfHandler DEF TransferEnds, TransferFails, Finish, Busy, socks
  <2>2. Phase = "busy" /\ Phase' = "busy"
    BY <2>1, NotJustClose DEF Phase, Busy
  <2> QED
    BY <2>1, <2>2, HiddenStep
<1>12. CASE (\E p \in Paths : OthersChange(p)) \/ UNCHANGED vars
  <2>1. UNCHANGED <<pc, todo, sent, connfd>>
    BY <1>12 DEF OthersChange, vars, control, fds, socks
  <2>2. Phase' = Phase
    BY <2>1 DEF Phase
  <2> QED
    BY <2>1, <2>2, HiddenStep
<1>13. CASE FinishStep
  BY <1>1, <1>13, FinishKeepsPromise
<1> QED
  BY <1>1, <1>2, <1>3, <1>4, <1>5, <1>6, <1>7, <1>8, <1>9, <1>10, <1>11, <1>12,
     <1>13, StepKinds

\* Whatever a session does, its client sees a server that keeps the promise
\* of FtpReplies: every request gets one final reply, a transfer is announced
\* on an open data connection, 226 follows 150 and the close.
THEOREM SessionKeepsPromise == Spec => KeepsPromise
<1>1. Init => Promise!Init /\ AnnouncedOK /\ ConnectedOK
  BY DEF Init, Promise!Init, AnnouncedOK, ConnectedOK, Phase
<1>2. TInv /\ FInv /\ RInv /\ AnnouncedOK /\ ConnectedOK /\ [Next]_vars
      => AnnouncedOK' /\ ConnectedOK' /\ [Promise!Next]_(Promise!vars)
  BY NextAnnounced, NextConnected, StepKeepsPromise
<1> QED
  BY <1>1, <1>2, SessionInvariant, PTL DEF Spec, KeepsPromise, Promise!Spec
=============================================================================
