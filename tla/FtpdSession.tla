---------------------------- MODULE FtpdSession ----------------------------
(***************************************************************************)
(* A child of the FTP server (ftpd.c): one client's session, from the 220   *)
(* greeting to the end of the process.  The child reads one request at a   *)
(* time and runs its handler.  Most handlers do everything between two     *)
(* reads of the control connection and are one action; LIST, NLST, RETR    *)
(* and STOR block on the data connection and are taken step by step.       *)
(*                                                                         *)
(* Paths are absolute.  The file system is shared with the other sessions, *)
(* which may change it between any two steps.  The descriptors of the      *)
(* child (sockets, files, directory streams) come from the finite set Fds, *)
(* so that running out of them is one of the behaviours; the control       *)
(* connection is not counted.  Every wrapper (Socket, Read, Close, Chdir,  *)
(* ...) ends the process when its system call fails.                       *)
(***************************************************************************)
EXTENDS Integers, Sequences

CONSTANTS
    Fds,    \* descriptors the child may have open at the same time
    Paths   \* paths of the files and directories a client names

ASSUME FdsAssumption == Fds \subseteq Nat

VARIABLES
    pc,        \* where the child stands
    cmd,       \* the transfer request being handled
    todo,      \* what is left of its last part: replies and CloseAll
    sent,      \* reply codes sent since the request was read
    user,      \* ftpd_cur_user
    type,      \* ftpd_cur_type
    cwd,       \* working directory of the process
    saved,     \* tmp_dir_path of LIST
    home,      \* auxiliary: the directory the client chose last
    fs,        \* the shared file system
    pasv_fd,   \* ftpd_cur_pasv_fd
    connfd,    \* ftpd_cur_pasv_connfd
    port_fd,   \* ftpd_cur_port_fd
    ffd,       \* file a transfer reads or writes
    open,      \* descriptors the process has open
    leaked     \* those of them no variable refers to any more

socks   == <<pasv_fd, connfd, port_fd>>
fds     == <<socks, ffd, open, leaked>>
control == <<cmd, todo, saved>>
vars    == <<pc, control, sent, user, type, cwd, home, fs, fds>>

-----------------------------------------------------------------------------

NoFd     == -1
NoUser   == "nobody"
NoArg    == "(no argument)"
NullArg  == "(null)"      \* the argument pointer became NULL
Root     == "/"
Gone     == "(removed)"   \* a working directory that was removed
CloseAll == 0             \* in todo: call ftpd_close_all_fds

\* ftpd_users; "ftp" is like "anonymous": it needs no password.
Users == {"anonymous", "dengxiayehu"}

Transfers == {"LIST", "NLST", "RETR", "STOR"}
Idle      == [op |-> "none", arg |-> NoArg]
Args      == Paths \cup {NoArg}

Codes == {150, 200, 213, 215, 220, 221, 226, 227, 230, 250, 257, 331, 500, 530, 550}

FileStates == {"none", "file", "dir"}

Free == Fds \ open

\* The kernel hands out the lowest descriptor that is free.
IsLowest(f, S) == f \in S /\ \A g \in S : f <= g

\* opendir succeeds: the directory is there and a descriptor is free.
dir_path_ok(p) == fs[p] = "dir" /\ Free # {}

TypeOK ==
    /\ pc \in {"greet", "read", "conn", "s150", "work", "list", "back", "xfer",
               "xdir", "loop", "fin", "dead"}
    /\ cmd \in [op : Transfers \cup {"none"}, arg : Args \cup {NullArg}]
    /\ todo \in Seq({CloseAll, 226, 500, 550})
    /\ sent \in Seq(Codes)
    /\ user \in Users \cup {NoUser}
    /\ type \in {"A", "I"}
    /\ cwd \in Paths \cup {Root, Gone}
    /\ saved \in Paths \cup {Root}
    /\ home \in Paths \cup {Root}
    /\ fs \in [Paths -> FileStates]
    /\ {pasv_fd, connfd, port_fd, ffd} \subseteq Fds \cup {NoFd}
    /\ open \subseteq Fds
    /\ leaked \subseteq Fds

\* The child right after fork (ftpd_do_loop): in "/", with the settings of
\* ftpd_init.
Init ==
    /\ pc = "greet"
    /\ cmd = Idle /\ todo = <<>> /\ sent = <<>> /\ saved = Root
    /\ user = NoUser /\ type = "A" /\ cwd = Root /\ home = Root
    /\ fs \in [Paths -> FileStates]
    /\ pasv_fd = NoFd /\ connfd = NoFd /\ port_fd = NoFd /\ ffd = NoFd
    /\ open = {} /\ leaked = {}

-----------------------------------------------------------------------------
(***************************************************************************)
(* Ends of a request and of the session.                                   *)
(***************************************************************************)

\* Mutant: the accepted connection is forgotten.
close_all_fds_NotConn ==
    /\ pasv_fd' = NoFd /\ port_fd' = NoFd
    /\ open' = open \ {pasv_fd, port_fd}
    /\ UNCHANGED connfd

\* ftpd_close_all_fds.
close_all_fds ==
    /\ pasv_fd' = NoFd /\ connfd' = NoFd /\ port_fd' = NoFd
    /\ open' = open \ {pasv_fd, connfd, port_fd}

\* The process ends, by _exit or by exit; the kernel closes what is open.
Exit ==
    /\ pc' = "dead"
    /\ cmd' = Idle /\ todo' = <<>> /\ saved' = Root
    /\ pasv_fd' = NoFd /\ connfd' = NoFd /\ port_fd' = NoFd /\ ffd' = NoFd
    /\ open' = {} /\ leaked' = {}

\* A handler that runs between two reads sends exactly this reply.
Reply(code) ==
    /\ pc = "read"
    /\ sent' = <<code>>
    /\ UNCHANGED <<pc, control>>

\* FTPD_CHECK_LOGIN.
LoggedIn == user # NoUser

NotLoggedIn ==
    /\ Reply(530)
    /\ UNCHANGED <<user, type, cwd, home, fs, fds>>

Greet ==
    /\ pc = "greet"
    /\ sent' = <<220>>
    /\ pc' = "read"
    /\ UNCHANGED <<control, user, type, cwd, home, fs, fds>>

\* Read returns 0, or QUIT has set ftpd_quit_flag: the loop is left and the
\* child closes its descriptors and exits.
ClientCloses ==
    /\ pc = "read"
    /\ Exit
    /\ UNCHANGED <<sent, user, type, cwd, home, fs>>

Quit ==
    /\ pc = "read" /\ LoggedIn
    /\ sent' = <<221>>
    /\ Exit
    /\ UNCHANGED <<user, type, cwd, home, fs>>

\* SIGQUIT from the parent, or a wrapper met an error of the connection.
Dies ==
    /\ pc # "dead"
    /\ Exit
    /\ UNCHANGED <<sent, user, type, cwd, home, fs>>

-----------------------------------------------------------------------------
(***************************************************************************)
(* Handlers that do not transfer data.                                     *)
(***************************************************************************)

\* A line that does not end in CR LF, or names no command of ftpd_cmds.
Unsupported ==
    /\ Reply(500)
    /\ UNCHANGED <<user, type, cwd, home, fs, fds>>

Auth ==
    /\ Reply(530)
    /\ UNCHANGED <<user, type, cwd, home, fs, fds>>

\* An unknown name leaves the current user as it was, and is refused only
\* when there is none.
User(name) ==
    /\ user' = IF name \in Users THEN name ELSE user
    /\ Reply(IF name = NoArg \/ user' = NoUser THEN 550 ELSE 331)
    /\ UNCHANGED <<type, cwd, home, fs, fds>>

PassOK(word) ==
    LoggedIn /\ word # NoArg /\ (user = "anonymous" \/ word = "right")

Pass(word) ==
    /\ user' = IF PassOK(word) THEN user ELSE NoUser
    /\ Reply(IF PassOK(word) THEN 230 ELSE 530)
    /\ UNCHANGED <<type, cwd, home, fs, fds>>

\* Getcwd fails, and ends the child, when the directory was removed.
Pwd ==
    /\ LoggedIn /\ cwd # Gone
    /\ Reply(257)
    /\ UNCHANGED <<user, type, cwd, home, fs, fds>>

PwdDies ==
    /\ pc = "read" /\ LoggedIn /\ cwd = Gone
    /\ Exit
    /\ UNCHANGED <<sent, user, type, cwd, home, fs>>

\* Mutant: the argument is not checked.
Cwd_NoCheck(p) ==
    /\ LoggedIn
    /\ cwd' = p /\ home' = p
    /\ Reply(250)
    /\ UNCHANGED <<user, type, fs, fds>>

Cwd(p) ==
    /\ LoggedIn
    /\ \/ /\ p \in Paths /\ fs[p] = "dir"
          /\ cwd' = p /\ home' = p
          /\ Reply(250)
       \/ Reply(550) /\ UNCHANGED <<cwd, home>>
    /\ UNCHANGED <<user, type, fs, fds>>

Syst ==
    /\ LoggedIn
    /\ Reply(215)
    /\ UNCHANGED <<user, type, cwd, home, fs, fds>>

Size(p) ==
    /\ LoggedIn
    /\ Reply(IF p \in Paths /\ fs[p] # "none" THEN 213 ELSE 550)
    /\ UNCHANGED <<user, type, cwd, home, fs, fds>>

\* Removing the working directory leaves the process in a removed one.
Remove(p) ==
    /\ fs' = [fs EXCEPT ![p] = "none"]
    /\ cwd' = IF cwd = p THEN Gone ELSE cwd

\* remove() also takes an empty directory.
Dele(p) ==
    /\ LoggedIn
    /\ \/ p \in Paths /\ fs[p] # "none" /\ Remove(p) /\ Reply(200)
       \/ Reply(550) /\ UNCHANGED <<fs, cwd>>
    /\ UNCHANGED <<user, type, home, fds>>

\* Mutant: the login is not checked.
Mkd_NoLogin(p) ==
    /\ \/ /\ p \in Paths /\ fs[p] = "none"
          /\ fs' = [fs EXCEPT ![p] = "dir"]
          /\ Reply(257)
       \/ Reply(550) /\ UNCHANGED fs
    /\ UNCHANGED <<user, type, cwd, home, fds>>

\* MKD, RMD and TYPE look at the argument before they check the login.
Mkd(p) ==
    /\ p \in Paths => LoggedIn
    /\ \/ /\ p \in Paths /\ fs[p] = "none"
          /\ fs' = [fs EXCEPT ![p] = "dir"]
          /\ Reply(257)
       \/ Reply(550) /\ UNCHANGED fs
    /\ UNCHANGED <<user, type, cwd, home, fds>>

Rmd(p) ==
    /\ p \in Paths => LoggedIn
    /\ \/ p \in Paths /\ dir_path_ok(p) /\ Remove(p) /\ Reply(257)
       \/ Reply(550) /\ UNCHANGED <<fs, cwd>>
    /\ UNCHANGED <<user, type, home, fds>>

Type(t) ==
    /\ t # NoArg => LoggedIn
    /\ type' = IF t \in {"A", "I"} THEN t ELSE type
    /\ Reply(IF t \in {"A", "I"} THEN 200 ELSE 500)
    /\ UNCHANGED <<user, cwd, home, fs, fds>>

\* The previous listening socket is closed first.
Pasv ==
    /\ LoggedIn
    /\ \E f \in Fds :
          /\ IsLowest(f, Free \cup ({pasv_fd} \ {NoFd}))
          /\ open' = (open \ {pasv_fd}) \cup {f}
          /\ pasv_fd' = f
    /\ Reply(227)
    /\ UNCHANGED <<user, type, cwd, home, fs, connfd, port_fd, ffd, leaked>>

\* A malformed address closes the new socket again.
PortMalformed ==
    /\ LoggedIn
    /\ Free \cup ({port_fd} \ {NoFd}) # {}
    /\ open' = open \ {port_fd}
    /\ port_fd' = NoFd
    /\ Reply(550)
    /\ UNCHANGED <<user, type, cwd, home, fs, pasv_fd, connfd, ffd, leaked>>

Port ==
    /\ LoggedIn
    /\ \E f \in Fds :
          /\ IsLowest(f, Free \cup ({port_fd} \ {NoFd}))
          /\ open' = (open \ {port_fd}) \cup {f}
          /\ port_fd' = f
    /\ Reply(200)
    /\ UNCHANGED <<user, type, cwd, home, fs, pasv_fd, connfd, ffd, leaked>>

-----------------------------------------------------------------------------
(***************************************************************************)
(* LIST, NLST, RETR and STOR.                                              *)
(***************************************************************************)

\* Mutants: NLST fails silently; success is reported before closing.
ErrRet_Silent(op) ==
    CASE op = "LIST" -> <<CloseAll, 550>>
      [] op = "NLST" -> <<CloseAll>>
      [] OTHER       -> <<550, CloseAll>>

OkRet_ReplyFirst == <<226, CloseAll>>

\* The err_ret of each handler; LIST and NLST close first, RETR and STOR
\* reply first.
ErrRet(op) ==
    CASE op = "LIST" -> <<CloseAll, 550>>
      [] op = "NLST" -> <<CloseAll, 500>>
      [] OTHER       -> <<550, CloseAll>>

OkRet == <<CloseAll, 226>>

Finish(steps) == pc' = "fin" /\ todo' = steps

Begin(op, arg) ==
    /\ cmd' = [op |-> op, arg |-> arg]
    /\ sent' = <<>>
    /\ UNCHANGED <<saved, user, type, cwd, home, fs, fds>>

List(op, arg) ==
    /\ pc = "read" /\ LoggedIn
    /\ Begin(op, arg)
    /\ pc' = "conn"
    /\ UNCHANGED todo

\* lstat on the argument.  When it fails and the argument is one word, the
\* handler goes on with a NULL pointer; when it is two words ("-x path"),
\* the last word is tried.
Retr(arg, words) ==
    /\ pc = "read" /\ LoggedIn
    /\ IF arg = NoArg \/ (fs[arg] = "none" /\ words = 2)
         THEN Begin("RETR", arg) /\ Finish(ErrRet("RETR"))
         ELSE /\ Begin("RETR", IF fs[arg] = "none" THEN NullArg ELSE arg)
              /\ pc' = "conn"
              /\ UNCHANGED todo

\* STOR takes only a name that does not exist yet.
Stor(arg) ==
    /\ pc = "read" /\ LoggedIn
    /\ Begin("STOR", arg)
    /\ IF arg = NoArg \/ fs[arg] # "none"
         THEN Finish(ErrRet("STOR"))
         ELSE pc' = "conn" /\ UNCHANGED todo

\* Mutant: the listening socket is forgotten.
AcceptData_KeepsListener ==
    /\ pc = "conn" /\ pasv_fd # NoFd
    /\ \E f \in Fds :
          /\ IsLowest(f, Free)
          /\ open' = open \cup {f}
          /\ connfd' = f
    /\ pasv_fd' = NoFd
    /\ pc' = "s150"
    /\ UNCHANGED <<control, sent, user, type, cwd, home, fs, port_fd, ffd, leaked>>

\* ftpd_get_connfd: the client connects to the passive socket ...
AcceptData ==
    /\ pc = "conn" /\ pasv_fd # NoFd
    /\ \E f \in Fds :
          /\ IsLowest(f, Free)
          /\ open' = (open \cup {f}) \ {pasv_fd}
          /\ connfd' = f
    /\ pasv_fd' = NoFd
    /\ pc' = "s150"
    /\ UNCHANGED <<control, sent, user, type, cwd, home, fs, port_fd, ffd, leaked>>

\* ... or accept fails ...
AcceptFails ==
    /\ pc = "conn" /\ pasv_fd # NoFd
    /\ Finish(ErrRet(cmd.op))
    /\ UNCHANGED <<cmd, saved, sent, user, type, cwd, home, fs, fds>>

\* Mutant: without a connection the handler goes round waiting for one.
NoPasv_Waits ==
    /\ pc = "conn" /\ pasv_fd = NoFd
    /\ connfd # NoFd
    /\ pc' = "s150"
    /\ UNCHANGED <<control, sent, user, type, cwd, home, fs, fds>>

\* ... or there is no passive socket.  The socket PORT opened is not looked
\* at.
NoPasv ==
    /\ pc = "conn" /\ pasv_fd = NoFd
    /\ IF connfd # NoFd THEN pc' = "s150" /\ UNCHANGED todo
                        ELSE Finish(ErrRet(cmd.op))
    /\ UNCHANGED <<cmd, saved, sent, user, type, cwd, home, fs, fds>>

Send150 ==
    /\ pc = "s150"
    /\ sent' = Append(sent, 150)
    /\ pc' = "work"
    /\ UNCHANGED <<control, user, type, cwd, home, fs, fds>>

At(op) == pc = "work" /\ cmd.op = op

\* The argument of LIST is no directory: one line about the file.
ListFile ==
    /\ At("LIST") /\ cmd.arg # NoArg /\ ~dir_path_ok(cmd.arg)
    /\ \/ fs[cmd.arg] # "none" /\ Finish(OkRet)
       \/ Finish(ErrRet("LIST"))
    /\ UNCHANGED <<cmd, saved, sent, user, type, cwd, home, fs, fds>>

\* It is a directory: LIST goes there and has to come back.
ListChdir ==
    /\ At("LIST")
    /\ \/ cmd.arg = NoArg /\ UNCHANGED <<cwd, saved>>
       \/ /\ cmd.arg # NoArg /\ dir_path_ok(cmd.arg)
          /\ cwd # Gone
          /\ saved' = cwd
          /\ cwd' = cmd.arg
    /\ pc' = "list"
    /\ UNCHANGED <<cmd, todo, sent, user, type, home, fs, fds>>

\* ftpd_get_list_stuff opens the directory and never closes it.
ListDir ==
    /\ pc = "list"
    /\ \E f \in Fds :
          /\ IsLowest(f, Free)
          /\ open' = open \cup {f}
          /\ leaked' = leaked \cup {f}
    /\ pc' = "back"
    /\ UNCHANGED <<control, sent, user, type, cwd, home, fs, socks, ffd>>

\* Mutant: the error exit is taken before the Chdir back.
ListBack_ErrorFirst ==
    /\ pc = "back"
    /\ \/ /\ cwd' = IF cmd.arg = NoArg THEN cwd ELSE saved
          /\ (cmd.arg # NoArg /\ saved \in Paths) => fs[saved] = "dir"
          /\ Finish(OkRet)
       \/ Finish(ErrRet("LIST")) /\ UNCHANGED cwd
    /\ saved' = Root
    /\ UNCHANGED <<cmd, sent, user, type, home, fs, fds>>

\* The listing has a length, or a file that could not be examined made it
\* negative.
ListBack ==
    /\ pc = "back"
    /\ cwd' = IF cmd.arg = NoArg THEN cwd ELSE saved
    /\ (cmd.arg # NoArg /\ saved \in Paths) => fs[saved] = "dir"
    /\ saved' = Root
    /\ Finish(OkRet) \/ Finish(ErrRet("LIST"))
    /\ UNCHANGED <<cmd, sent, user, type, home, fs, fds>>

Nlst ==
    /\ At("NLST")
    /\ IF cmd.arg = NoArg \/ dir_path_ok(cmd.arg) \/ fs[cmd.arg] = "none"
         THEN Finish(ErrRet("NLST"))
         ELSE Finish(OkRet)
    /\ UNCHANGED <<cmd, saved, sent, user, type, cwd, home, fs, fds>>

OpenFile ==
    \E f \in Fds :
       /\ IsLowest(f, Free)
       /\ ffd' = f
       /\ open' = open \cup {f}

\* open and fopen also succeed on a directory, reading only.
RetrOpen ==
    /\ At("RETR") /\ cmd.arg \in Paths /\ fs[cmd.arg] # "none"
    /\ OpenFile
    /\ pc' = IF fs[cmd.arg] = "dir" THEN "xdir" ELSE "xfer"
    /\ UNCHANGED <<control, sent, user, type, cwd, home, fs, socks, leaked>>

\* Open (binary) ends the child, fopen (ASCII) is an error reply.
RetrOpenFails ==
    /\ At("RETR")
    /\ IF type = "I" THEN Exit
       ELSE Finish(ErrRet("RETR")) /\ UNCHANGED <<cmd, saved, fds>>
    /\ UNCHANGED <<sent, user, type, cwd, home, fs>>

\* The file is created, or truncated if it exists by now.
StorOpen ==
    /\ At("STOR") /\ fs[cmd.arg] # "dir"
    /\ OpenFile
    /\ fs' = [fs EXCEPT ![cmd.arg] = "file"]
    /\ pc' = "xfer"
    /\ UNCHANGED <<control, sent, user, type, cwd, home, socks, leaked>>

\* open (binary) is an error reply, Fopen (ASCII) ends the child.
StorOpenFails ==
    /\ At("STOR")
    /\ IF type = "A" THEN Exit
       ELSE Finish(ErrRet("STOR")) /\ UNCHANGED <<cmd, saved, fds>>
    /\ UNCHANGED <<sent, user, type, cwd, home, fs>>

\* The data has been copied up to end of file.
TransferEnds ==
    /\ pc = "xfer"
    /\ open' = open \ {ffd}
    /\ ffd' = NoFd
    /\ Finish(OkRet)
    /\ UNCHANGED <<cmd, saved, sent, user, type, cwd, home, fs, socks, leaked>>

\* STOR in ASCII reads on after a CR without looking at what Read1 returns: a
\* client that closes the data connection after a CR leaves the child in the
\* inner loop, which only a signal ends.
LoopsAfterCR ==
    /\ pc = "xfer" /\ cmd.op = "STOR" /\ type = "A"
    /\ pc' = "loop"
    /\ UNCHANGED <<control, sent, user, type, cwd, home, fs, fds>>

\* ferror: the ASCII branches jump to err_ret without Fclose.
TransferFails ==
    /\ pc \in {"xfer", "xdir"} /\ type = "A"
    /\ leaked' = leaked \cup {ffd}
    /\ ffd' = NoFd
    /\ Finish(ErrRet(cmd.op))
    /\ UNCHANGED <<cmd, saved, sent, user, type, cwd, home, fs, socks, open>>

\* A wrapper whose call is bound to fail ends the child: Getcwd in a removed
\* directory, Opendir without a free descriptor, Chdir back to a directory
\* that was removed, Read from a directory.
WrapperFails ==
    /\ \/ /\ At("LIST") /\ cwd = Gone
          /\ cmd.arg # NoArg /\ dir_path_ok(cmd.arg)
       \/ pc = "list" /\ Free = {}
       \/ pc = "back" /\ cmd.arg # NoArg /\ saved \in Paths /\ fs[saved] # "dir"
       \/ pc = "xdir" /\ type = "I"
    /\ Exit
    /\ UNCHANGED <<sent, user, type, cwd, home, fs>>

\* The last steps of a handler, then back to the read of the next request.
FinishStep ==
    /\ pc = "fin"
    /\ IF Head(todo) = CloseAll
         THEN close_all_fds /\ UNCHANGED sent
         ELSE sent' = Append(sent, Head(todo)) /\ UNCHANGED <<socks, open>>
    /\ todo' = Tail(todo)
    /\ pc' = IF Tail(todo) = <<>> THEN "read" ELSE "fin"
    /\ cmd' = IF Tail(todo) = <<>> THEN Idle ELSE cmd
    /\ UNCHANGED <<saved, user, type, cwd, home, fs, ffd, leaked>>

-----------------------------------------------------------------------------

\* Another session, or another program, changes one path.
OthersChange(p) ==
    \E st \in FileStates :
       /\ fs' = [fs EXCEPT ![p] = st]
       /\ cwd' = IF cwd = p /\ fs[p] = "dir" /\ st # "dir" THEN Gone ELSE cwd
       /\ UNCHANGED <<pc, control, sent, user, type, home, fds>>

Request ==
    \/ Unsupported \/ Auth \/ Pwd \/ PwdDies \/ Syst \/ Quit
    \/ ~LoggedIn /\ NotLoggedIn
    \/ Pasv \/ PortMalformed \/ Port
    \/ \E name \in Users \cup {"stranger", NoArg} : User(name)
    \/ \E word \in {"right", "wrong", NoArg} : Pass(word)
    \/ \E t \in {"A", "I", "L", NoArg} : Type(t)
    \/ \E p \in Args : \/ Cwd(p) \/ Size(p) \/ Dele(p) \/ Mkd(p) \/ Rmd(p)
                       \/ List("LIST", p) \/ List("NLST", p) \/ Stor(p)
                       \/ \E words \in 1 .. 2 : Retr(p, words)

\* The steps of a transfer the child takes alone ...
ServerStep ==
    \/ NoPasv \/ Send150 \/ ListFile \/ ListChdir \/ ListDir \/ ListBack \/ Nlst
    \/ RetrOpen \/ RetrOpenFails \/ StorOpen \/ StorOpenFails \/ WrapperFails
    \/ FinishStep
    \/ pc = "xdir" /\ TransferFails

\* ... and those it takes with the client on the data connection.
ClientStep ==
    AcceptData \/ AcceptFails \/ TransferEnds \/ TransferFails \/ LoopsAfterCR

DataStep == ServerStep \/ ClientStep

Next ==
    \/ Greet \/ ClientCloses \/ Dies
    \/ Request
    \/ DataStep
    \/ \E p \in Paths : OthersChange(p)

\* The child is scheduled; nothing is promised about the client.
Spec == Init /\ [][Next]_vars /\ WF_vars(Greet \/ ServerStep)

-----------------------------------------------------------------------------
(***************************************************************************)
(* Properties.                                                             *)
(***************************************************************************)

Referenced == {pasv_fd, connfd, port_fd, ffd} \ {NoFd}

\* Every descriptor is accounted for on every path of every handler: what the
\* globals and locals refer to is open, refers to different descriptors, and
\* nothing else is open but the directories and files the code forgets.  So
\* ftpd_close_all_fds and the Close calls never close a descriptor twice or
\* one that now belongs to something else.
DescriptorsAccounted ==
    /\ open = Referenced \cup leaked
    /\ Referenced \cap leaked = {}
    /\ pasv_fd # NoFd => pasv_fd \notin {connfd, port_fd, ffd}
    /\ connfd # NoFd => connfd \notin {port_fd, ffd}
    /\ port_fd # NoFd => port_fd # ffd

\* No data connection and no file survives the request that opened it, so
\* "if available, use it" in ftpd_get_connfd never finds an old one.
NoStaleConnection ==
    /\ pc \in {"greet", "read", "conn", "dead"} => connfd = NoFd
    /\ pc \notin {"xfer", "xdir", "loop"} => ffd = NoFd

FinalCodes == Codes \ {150}

\* When the child reads the next request, it has answered the last one with
\* exactly one final reply, after at most one 150.
OneFinalReply ==
    pc = "read" =>
       \/ \E c \in FinalCodes : sent = <<c>>
       \/ \E c \in {226, 500, 550} : sent = <<150, c>>

\* 226 promises a complete transfer: when it is sent, the data connection
\* and the file have been closed.
CompleteMeansClosed ==
    (sent # <<>> /\ sent[Len(sent)] = 226) =>
       connfd = NoFd /\ ffd = NoFd /\ pasv_fd = NoFd /\ port_fd = NoFd

\* FTPD_CHECK_LOGIN looks at ftpd_cur_user alone.  Until USER has named one of
\* ftpd_users, and after PASS was refused, requests are refused (or the
\* greeting was the last thing sent): no handler gets past the check, those
\* that look at their argument first included.
UserGate ==
    user = NoUser =>
       /\ pc \in {"greet", "read", "dead"}
       /\ sent \in {<<>>, <<220>>, <<500>>, <<530>>, <<550>>}

\* What the refusal of AUTH says, "Please login with USER and PASS."
\* (ftpd.c:591), and UserGate does not: only PASS logs in.  This does not hold
\* of the code, in which USER alone sets ftpd_cur_user (ftpd.c:607), before
\* 331 asks for a password.
LoginByPassword == [][user = NoUser /\ user' # NoUser => sent' = <<230>>]_vars

\* Between requests the child is in the directory the client chose with CWD,
\* unless that was removed: the excursion of LIST always ends.
WorkingDirKept == pc \notin {"list", "back", "dead"} => cwd \in {home, Gone}

\* With a client that connects and goes on sending or taking data, a transfer
\* request comes to its end, also with no descriptor left and with files and
\* directories vanishing meanwhile.  There is one exception: STOR in ASCII of
\* data that ends with CR (ftpd.c:1416) loops for ever.
RequestEnds ==
    WF_vars(ClientStep) => ((cmd # Idle) ~> (cmd = Idle \/ pc = "loop"))

\* The session as its client sees it.  RETR and STOR that fail reply before
\* they close; the last close is then not waited for by the client.
Phase ==
    CASE pc = "greet" -> "new"
      [] pc = "dead"  -> "gone"
      [] pc = "read" \/ (pc = "fin" /\ todo = <<CloseAll>>) -> "ready"
      [] OTHER -> "busy"

Promise == INSTANCE FtpReplies WITH phase <- Phase, conn <- (connfd # NoFd)

\* The handlers, with their many exits, implement the promise of FtpReplies.
KeepsPromise == Promise!Spec

\* "port" is one of the supported commands: a request that finds a socket
\* connected by PORT is not turned down for lack of a connection.
PortHonoured ==
    [][(pc = "conn" /\ pasv_fd = NoFd /\ port_fd # NoFd) => pc' # "fin"]_vars

\* RETR of a file that does not exist is an error found by lstat: the child
\* does not announce the transfer with 150.
MissingFileRefused == pc = "s150" => cmd.arg # NullArg
=============================================================================
