---------------------------- MODULE FtpDialogue ----------------------------
(***************************************************************************)
(* The console client (ftp.c, login.c) in conversation with a session of    *)
(* the server, of which it relies on what FtpReplies promises.  Requests    *)
(* and replies travel on the control connection; a transfer uses a second   *)
(* connection, which the client opens after PASV.                           *)
(*                                                                         *)
(* The client takes what one Recv returns as one reply (getreply), the      *)
(* server what one Read returns as one request.  Merge lets several         *)
(* messages arrive together, as TCP may deliver them.                       *)
(***************************************************************************)
EXTENDS Integers, Sequences, TLC

CONSTANTS Merge,     \* messages sent apart may arrive together
          TRY_TIMES, \* attempts at the client's own login screen
          Simple     \* the one-request commands the user enters

DialogueAssumption ==
    /\ Merge \in BOOLEAN /\ TRY_TIMES \in Nat \ {0}
    /\ Simple \subseteq {"SYST", "PWD", "CWD", "MKD", "RMD", "DELE", "SIZE"}

VARIABLES
    phase, sent, conn,  \* the server, as in FtpReplies
    req,     \* the request the server is at work on, or None
    auth,    \* the server has a user: ftpd_cur_user is set, which USER alone does
    stype,   \* the server's transfer type
    good,    \* the server's transfer went well
    reqs,    \* requests on their way to the server
    reps,    \* replies on their way to the client
    cpc,     \* where the client is
    op,      \* the client's transfer, or None
    multi,   \* the loop over file names the client is in, or None
    ctype,   \* ftp_type
    tries,   \* attempts left at the login screen
    dsock,   \* sock_pasv: None, "pending", "served", "eof" (all
             \* data came), "cut" (some did), "reset", "sent" (closed by put)
    local,   \* the local file of get: "old", "empty", "part", "whole"
    result,  \* what the last command returned
    slipped, \* history: get gave up after 150, its 226 is still to come
    lost,    \* history: a message was swallowed by the one before it
    blind    \* history: a reply was read from a closed connection

None == "none"

server == <<phase, sent, conn, req, auth, stype, good>>
user   == <<multi, ctype, tries>>
data   == <<dsock, local>>
history == <<slipped, lost, blind>>
vars == <<server, reqs, reps, cpc, op, user, data, result, history>>

Rep == INSTANCE FtpReplies

\* Requests the client sends, and what a logged-in session may answer.
Answers ==
    ("SYST" :> {215}) @@ ("PWD" :> {257}) @@ ("CWD" :> {250, 550}) @@
    ("MKD" :> {257, 550}) @@ ("RMD" :> {257, 550}) @@ ("DELE" :> {200, 550}) @@
    ("SIZE" :> {213, 550}) @@ ("TYPE A" :> {200}) @@ ("TYPE I" :> {200}) @@
    ("PASV" :> {227}) @@ ("bad" :> {500})

Transfers == ("list" :> "LIST") @@ ("get" :> "RETR") @@ ("put" :> "STOR")
Requests  == Simple \cup DOMAIN Answers \cup {Transfers[t] : t \in DOMAIN Transfers}
             \cup {"USER", "PASS", "QUIT"}
Codes     == Rep!SimpleCodes \cup Rep!TransferCodes \cup {150, 220, 221}
\* What an empty Recv may leave in line[]: nothing, or an earlier reply.
Leftovers == {0, 150, 226, 227}

Waiting == {"greet", "user", "pass", "syst", "simple", "pasv", "first",
            "final", "quit"}

TypeOK ==
    /\ phase \in {"new", "ready", "busy", "gone"}
    /\ sent \in Seq(Codes) /\ conn \in BOOLEAN
    /\ req \in Requests \cup {None}
    /\ {auth, good} \subseteq BOOLEAN /\ {stype, ctype} \subseteq {"A", "I"}
    /\ reqs \in Seq(Requests) /\ reps \in Seq(Codes)
    /\ cpc \in Waiting \cup {"login", "prompt", "ask", "data", "gone", "crashed"}
    /\ op \in DOMAIN Transfers \cup {None, "passive"}
    /\ multi \in {None, "nlist", "mget", "mput", "mdelete"}
    /\ tries \in 0..TRY_TIMES
    /\ dsock \in {None, "pending", "served", "eof", "cut", "reset", "sent"}
    /\ local \in {"old", "empty", "part", "whole"}
    /\ result \in {"ok", "err"}
    /\ {slipped, lost, blind} \subseteq BOOLEAN

Init ==
    /\ Rep!Init
    /\ req = None /\ auth = FALSE /\ good = FALSE /\ stype = "A" /\ ctype = "A"
    /\ reqs = <<>> /\ reps = <<>>
    /\ cpc = "login" /\ op = None /\ multi = None /\ tries = TRY_TIMES
    /\ dsock = None /\ local = "old" /\ result = "ok"
    /\ slipped = FALSE /\ lost = FALSE /\ blind = FALSE

Alive == cpc \notin {"gone", "crashed"}

-----------------------------------------------------------------------------
(***************************************************************************)
(* The server.                                                             *)
(***************************************************************************)

Say(codes) == reps' = IF Alive THEN reps \o codes ELSE reps
ClientKept == UNCHANGED <<cpc, op, user, result, local, slipped, blind>>

\* The child is forked when the client has connected.
SrvGreet ==
    /\ cpc # "login"
    /\ Rep!Greet
    /\ Say(<<220>>)
    /\ UNCHANGED <<req, auth, stype, good, reqs, dsock, lost>> /\ ClientKept

\* Read: one request, or several taken for one.
SrvRead ==
    /\ phase = "ready" /\ ~conn /\ req = None /\ reqs # <<>>
    /\ \/ /\ req' = Head(reqs) /\ reqs' = Tail(reqs)
          /\ UNCHANGED lost
       \/ /\ Merge /\ Len(reqs) > 1
          /\ req' \in {Head(reqs), "bad"} /\ reqs' = <<>>
          /\ lost' = TRUE
    /\ UNCHANGED <<phase, sent, conn, auth, stype, good, reps, dsock>> /\ ClientKept

Codes_of(r) ==
    CASE r = "USER" -> {331, 550}
      [] r = "PASS" -> IF auth THEN {230, 530} ELSE {530}
      [] r = "bad"  -> Answers[r]
      [] OTHER      -> IF auth THEN Answers[r] ELSE {530}

SrvAnswer ==
    /\ req # None
    /\ req \in DOMAIN Answers \cup {"USER", "PASS"} \/ ~auth
    /\ \E c \in Codes_of(req) :
          /\ Rep!Answer(c)
          /\ Say(<<c>>)
          /\ auth' = CASE req = "USER" -> auth \/ c = 331
                       [] req = "PASS" -> c = 230
                       [] OTHER        -> auth
    /\ stype' = IF ~auth THEN stype
                ELSE CASE req = "TYPE A" -> "A"
                       [] req = "TYPE I" -> "I"
                       [] OTHER          -> stype
    /\ req' = None
    /\ UNCHANGED <<good, reqs, dsock, lost>> /\ ClientKept

SrvQuit ==
    /\ req = "QUIT" /\ auth
    /\ Rep!Leave /\ sent' = <<221>>
    /\ Say(<<221>>)
    /\ req' = None
    /\ UNCHANGED <<auth, stype, good, reqs, dsock, lost>> /\ ClientKept

Transferring == auth /\ req \in {"LIST", "RETR", "STOR"}

SrvBegin ==
    /\ Transferring /\ phase = "ready"
    /\ Rep!Begin
    /\ good' = FALSE
    /\ UNCHANGED <<req, auth, stype, reqs, reps, dsock, lost>> /\ ClientKept

\* accept takes the connection the client opened after PASV; from there
\* 150 is always sent.
SrvConnect ==
    /\ Transferring /\ dsock = "pending"
    /\ Rep!Connect
    /\ dsock' = "served"
    /\ UNCHANGED <<req, auth, stype, good, reqs, reps, lost>> /\ ClientKept

SrvAnnounce ==
    /\ Transferring
    /\ Rep!Announce
    /\ Say(<<150>>)
    /\ UNCHANGED <<req, auth, stype, good, reqs, dsock, lost>> /\ ClientKept

Served(end) == dsock' = IF dsock = "served" THEN end ELSE dsock

\* The data has been sent, or received up to the client's close.
SrvDisconnect ==
    /\ Transferring /\ sent = <<150>>
    /\ req = "STOR" => dsock # "served"
    /\ Rep!Disconnect
    /\ good' = TRUE
    /\ Served("eof")
    /\ UNCHANGED <<req, auth, stype, reqs, reps, lost>> /\ ClientKept

\* The transfer breaks off.  LIST closes the connection, then replies.
SrvCut ==
    /\ req = "LIST" /\ auth /\ sent = <<150>>
    /\ Rep!Disconnect
    /\ Served("cut")
    /\ UNCHANGED <<req, auth, stype, good, reqs, reps, lost>> /\ ClientKept

\* RETR and STOR reply, then close.
SrvFails ==
    /\ req \in {"RETR", "STOR"} /\ auth /\ conn /\ sent = <<150>>
    /\ Rep!Conclude(550)
    /\ Say(<<550>>)
    /\ req' = None
    /\ UNCHANGED <<auth, stype, good, reqs, dsock, lost>> /\ ClientKept

SrvClose ==
    /\ phase = "ready"
    /\ Rep!Disconnect
    /\ Served("cut")
    /\ UNCHANGED <<req, auth, stype, good, reqs, reps, lost>> /\ ClientKept

\* A refusal closes the listening socket, and with it the connection that
\* waits there.
SrvConclude ==
    /\ Transferring /\ phase = "busy" /\ ~conn
    /\ LET c == IF good THEN 226 ELSE 550
       IN  Rep!Conclude(c) /\ Say(<<c>>)
    /\ dsock' = IF dsock = "pending" THEN "reset" ELSE dsock
    /\ req' = None
    /\ UNCHANGED <<auth, stype, good, reqs, lost>> /\ ClientKept

\* The child dies, or finds the connection closed.
SrvLeave ==
    /\ cpc # "login" /\ Rep!Leave /\ sent' = sent
    /\ req' = None
    /\ \/ dsock = "pending" /\ dsock' = "reset"
       \/ dsock = "served" /\ dsock' \in {"cut", "reset"}
       \/ dsock \notin {"pending", "served"} /\ UNCHANGED dsock
    /\ UNCHANGED <<auth, stype, good, reqs, reps, lost>> /\ ClientKept

-----------------------------------------------------------------------------
(***************************************************************************)
(* The client.                                                             *)
(***************************************************************************)

\* login: TRY_TIMES attempts, and '#' gives up.
Login ==
    /\ cpc = "login"
    /\ \/ cpc' = "greet" /\ UNCHANGED tries
       \/ cpc' = "gone" /\ UNCHANGED tries
       \/ /\ tries' = tries - 1
          /\ cpc' = IF tries = 1 THEN "gone" ELSE "login"
    /\ UNCHANGED <<server, reqs, reps, op, multi, ctype, data, result, history>>

\* ftp_send_info; Sendn ends the client when the connection is broken.
Send(r, next) ==
    \/ /\ cpc' = next
       /\ reqs' = IF phase = "gone" THEN reqs ELSE Append(reqs, r)
    \/ phase = "gone" /\ cpc' = "gone" /\ UNCHANGED reqs

\* getreply: the first line of what one Recv returns.  When the server has
\* gone Recv returns 0 and line[] is whatever was on the stack, or runs
\* past the buffer.
Getreply(c) ==
    \/ /\ reps # <<>>
       /\ c = Head(reps)
       /\ \/ reps' = Tail(reps) /\ UNCHANGED lost
          \/ Merge /\ Len(reps) > 1 /\ reps' = <<>> /\ lost' = TRUE
       /\ UNCHANGED blind
    \/ /\ reps = <<>> /\ phase = "gone" /\ c \in Leftovers
       /\ blind' = TRUE
       /\ UNCHANGED <<reps, lost>>

\* The handler returns to the prompt, or to the loop that called it.
Return(r) ==
    /\ cpc' = IF multi = None THEN "prompt" ELSE "ask"
    /\ result' = r

\* ftp_do_loop starts with the greeting, USER, PASS and SYST, whatever the
\* replies are.
Greeting ==
    /\ cpc \in {"greet", "user", "pass"}
    /\ \E c \in Codes \cup Leftovers : Getreply(c)
    /\ CASE cpc = "greet" -> Send("USER", "user")
         [] cpc = "user"  -> Send("PASS", "pass")
         [] cpc = "pass"  -> Send("SYST", "syst")
    /\ UNCHANGED <<server, op, user, data, result, slipped>>

\* A command of one request and one reply.
SimpleCommand(r) ==
    /\ cpc = "prompt"
    /\ Send(r, "simple")
    /\ op' = None
    /\ UNCHANGED <<server, reps, user, data, result, history>>

\* ftp_type is set before TYPE is sent, whatever its reply will be.
ftp_do_type(t) ==
    /\ cpc = "prompt"
    /\ ctype' = t
    /\ Send(IF t = "A" THEN "TYPE A" ELSE "TYPE I", "simple")
    /\ op' = None
    /\ UNCHANGED <<server, reps, multi, tries, data, result, history>>

ftp_do_quit ==
    /\ cpc = "prompt"
    /\ Send("QUIT", "quit")
    /\ UNCHANGED <<server, reps, op, user, data, result, history>>

SimpleReply ==
    /\ cpc \in {"syst", "simple", "quit"}
    /\ \E c \in Codes \cup Leftovers :
          /\ Getreply(c)
          /\ IF cpc = "quit" THEN cpc' = "gone" /\ UNCHANGED result
             ELSE Return(IF c < 300 THEN "ok" ELSE "err")
    /\ UNCHANGED <<server, reqs, op, user, data, slipped>>

\* ls, get, put and passive start with PASV; put has opened its file.
StartTransfer(t) ==
    /\ Send("PASV", "pasv")
    /\ op' = t
    /\ local' = "old"
    /\ UNCHANGED <<server, reps, dsock, result, history>>

Transfer(t) ==
    /\ cpc = "prompt"
    /\ StartTransfer(t)
    /\ UNCHANGED user

\* ftp_do_pasv: the address is read from the reply, unchecked: one without
\* a '(' ends the client.  Connect ends it when nobody listens.
PasvReply ==
    /\ cpc = "pasv"
    /\ \E c \in Codes \cup Leftovers :
          /\ Getreply(c)
          /\ \/ c # 227 /\ cpc' = "crashed" /\ UNCHANGED <<reqs, dsock, result>>
             \/ /\ c = 227 /\ (blind' \/ phase = "gone")
                /\ cpc' = "gone" /\ UNCHANGED <<reqs, dsock, result>>
             \/ /\ c = 227 /\ phase # "gone"
                /\ dsock' = "pending"
                /\ IF op = "passive"
                     THEN Return("ok") /\ UNCHANGED reqs
                     ELSE Send(Transfers[op], "first") /\ UNCHANGED result
    /\ UNCHANGED <<server, op, user, local, slipped>>

\* The reply to LIST, RETR or STOR.  ls does not look at it.  get opens,
\* and empties, the local file first; when that fails it returns, even if
\* the server has announced the data.
FirstReply ==
    /\ cpc = "first"
    /\ \E c \in Codes \cup Leftovers :
          /\ Getreply(c)
          /\ \/ op = "list" /\ cpc' = "data"
                /\ UNCHANGED <<dsock, local, result, slipped>>
             \/ /\ op = "get"
                /\ \/ /\ c = 150 /\ local' = "empty" /\ cpc' = "data"
                      /\ UNCHANGED <<dsock, result, slipped>>
                   \/ /\ c # 150 /\ local' = "empty" /\ Return("err")
                      /\ dsock' = None /\ UNCHANGED slipped
                   \/ /\ Return("err") /\ UNCHANGED local
                      /\ dsock' = None /\ slipped' = (slipped \/ c = 150)
             \/ /\ op = "put"
                /\ IF c = 150 THEN cpc' = "data" /\ UNCHANGED result
                              ELSE Return("err")
                /\ UNCHANGED <<dsock, local, slipped>>
    /\ UNCHANGED <<server, reqs, op, user>>

\* Recv up to the end of the data.  A reset ends the client in Recv, and
\* is taken for the end by Recv1, which ASCII uses.
ReceiveData ==
    /\ cpc = "data" /\ op \in {"list", "get"}
    /\ \/ /\ dsock = "eof"
          /\ local' = IF op = "get" THEN "whole" ELSE local
          /\ cpc' = "final"
       \/ /\ dsock \in {"cut", "reset"}
          /\ local' = IF op = "get" THEN "part" ELSE local
          /\ cpc' = IF dsock = "cut" \/ (op = "get" /\ ctype = "A")
                      THEN "final" ELSE "gone"
    /\ dsock' = None
    /\ UNCHANGED <<server, reqs, reps, op, user, result, history>>

\* Sendn, then closesocket.
SendData ==
    /\ cpc = "data" /\ op = "put"
    /\ \/ dsock = "served" /\ dsock' = "sent" /\ cpc' = "final"
       \/ dsock \in {"cut", "reset"} /\ dsock' = None /\ cpc' \in {"gone", "final"}
    /\ UNCHANGED <<server, reqs, reps, op, user, local, result, history>>

FinalReply ==
    /\ cpc = "final"
    /\ \E c \in Codes \cup Leftovers :
          Getreply(c) /\ Return(IF c = 226 THEN "ok" ELSE "err")
    /\ dsock' = None
    /\ UNCHANGED <<server, reqs, op, user, local, slipped>>

\* nlist, mget, mput and mdelete go through their names.  All but nlist ask
\* before each; mdelete lists first.  What a call returned is not looked at.
Inner == ("nlist" :> "list") @@ ("mget" :> "get") @@ ("mput" :> "put")

StartLoop(m) ==
    /\ cpc = "prompt"
    /\ multi' = m
    /\ IF m \in {"nlist", "mdelete"}
         THEN StartTransfer("list")
         ELSE cpc' = "ask" /\ UNCHANGED <<server, reqs, reps, op, data, result, history>>
    /\ UNCHANGED <<ctype, tries>>

NextName ==
    /\ cpc = "ask"
    /\ \/ /\ multi \in DOMAIN Inner
          /\ StartTransfer(Inner[multi])
       \/ /\ multi = "mdelete"
          /\ Send("DELE", "simple")
          /\ op' = None
          /\ UNCHANGED <<server, reps, data, result, history>>
    /\ UNCHANGED user

EndLoop ==
    /\ cpc = "ask"
    /\ cpc' = "prompt" /\ multi' = None
    /\ UNCHANGED <<server, reqs, reps, op, ctype, tries, data, result, history>>

-----------------------------------------------------------------------------

UserStep ==
    \/ \E r \in Simple : SimpleCommand(r)
    \/ \E t \in {"A", "I"} : ftp_do_type(t)
    \/ \E t \in DOMAIN Transfers \cup {"passive"} : Transfer(t)
    \/ \E m \in {"nlist", "mget", "mput", "mdelete"} : StartLoop(m)
    \/ ftp_do_quit \/ Login

ClientStep ==
    \/ Greeting \/ SimpleReply \/ PasvReply \/ FirstReply \/ ReceiveData
    \/ SendData \/ FinalReply

ServerStep ==
    \/ SrvGreet \/ SrvRead \/ SrvAnswer \/ SrvQuit \/ SrvBegin \/ SrvConnect
    \/ SrvAnnounce \/ SrvDisconnect \/ SrvCut \/ SrvFails \/ SrvClose
    \/ SrvConclude

\* After the client has ended the server notices and ends too.
Ended == ~Alive /\ UNCHANGED vars

Next ==
    \/ UserStep \/ ClientStep \/ NextName \/ EndLoop
    \/ ServerStep \/ SrvLeave
    \/ Ended

\* Both processes run on; the user owes nothing.
Weak(i) ==
    \/ i = 1 /\ ClientStep
    \/ i = 2 /\ ServerStep
Spec == Init /\ [][Next]_vars

-----------------------------------------------------------------------------
(***************************************************************************)
(* Properties.                                                             *)
(***************************************************************************)

AtPrompt == cpc \in {"prompt", "ask"}

(***************************************************************************)
(* At the prompt the conversation is in step: the server waits for a        *)
(* request and no reply is unread, so that the next reply getreply returns  *)
(* belongs to the next request.  Only a get that could not open its local   *)
(* file after 150 breaks this.                                              *)
(***************************************************************************)
InStep ==
    AtPrompt /\ ~slipped /\ ~blind /\ phase # "gone" =>
        reps = <<>> /\ reqs = <<>> /\ req = None /\ phase = "ready"

(***************************************************************************)
(* Client and server wait for each other only after one of them has        *)
(* swallowed a message: 150 and 226 read together leave getreply waiting    *)
(* for a reply that was already taken.                                      *)
(***************************************************************************)
WaitsOnlyIfLost ==
    (cpc \in Waiting /\ reps = <<>> /\ reqs = <<>> /\ req = None /\ phase = "ready")
        => lost

(***************************************************************************)
(* A local file that get has emptied and not filled is never reported as a *)
(* success.                                                                *)
(***************************************************************************)
PartialFileReported ==
    AtPrompt /\ op = "get" /\ ~blind /\ local \in {"empty", "part"}
        => result = "err"

(***************************************************************************)
(* Client and logged-in server convert by the same transfer type, although *)
(* the client does not wait for the answer to TYPE.                         *)
(***************************************************************************)
TypesAgree ==
    AtPrompt /\ auth /\ ~slipped /\ ~blind /\ phase # "gone" => ctype = stype

(***************************************************************************)
(* A reply that is not the one to PASV is never taken for one: a client    *)
(* that crashed there was not logged in, was out of step, or had lost its   *)
(* server.                                                                  *)
(***************************************************************************)
CrashExplained == cpc = "crashed" => ~auth \/ slipped \/ blind

(***************************************************************************)
(* The client is at work on a command, waiting for the server: not for     *)
(* ever, it comes back to the user or ends.                                *)
(***************************************************************************)
Unfinished(k) == k = 1 /\ cpc \in Waiting \cup {"data"}
=============================================================================
