---------------------------- MODULE AsciiTransfer ----------------------------
(* ASCII transfers of the FTP pair.  The sender (RETR in the server, put in  *)
(* the client) reads half a buffer at a time and sends CR LF for every LF;   *)
(* the receiver (STOR in the server, get in the client) turns CR LF back     *)
(* into LF.  It reads byte by byte through a static buffer (Read1, Recv1)    *)
(* that outlives the transfer.  A session makes several transfers, one after *)
(* the other, each on a connection of its own.                               *)
EXTENDS Integers, Sequences, SequencesExt

CONSTANTS Files,        \* the contents of the files that are sent
          BUFSIZ,       \* size of the sender's buffers
          MAXLINE,      \* size of the receiver's static buffer
          Window,       \* how much the connection holds
          MaxTransfers, \* bound: transfers of the session
          MaxOut,       \* bound: bytes the model keeps of what is written
          Aborts        \* whether the sender may go away in the middle

AsciiAssumption ==
    /\ Files \subseteq Seq({"CR", "LF", "NUL", "EOF", "a"})
    /\ BUFSIZ \in Nat \ {0, 1} /\ MAXLINE \in Nat \ {0} /\ Window \in Nat \ {0}
    /\ MaxTransfers \in Nat /\ MaxOut \in Nat /\ Aborts \in BOOLEAN

VARIABLES file,      \* the file that is sent
          pos,       \* how much of it has been read
          buff,      \* what is still to be written to the connection
          chan,      \* bytes on the connection
          closed,    \* the sender has closed it
          aborted,   \* before the end
          read_buf,  \* the receiver's static buffer
          c,         \* the last byte it read
          loop,      \* where it stands: "outer", "inner" (after a CR) or "done"
          out,       \* what it has written
          transfers  \* the number of this transfer

vars == <<file, pos, buff, chan, closed, aborted, read_buf, c, loop, out, transfers>>
sender == <<file, pos, buff, closed, aborted>>

Put(bytes) == out' = IF Len(out) + Len(bytes) <= MaxOut THEN out \o bytes ELSE out

(* The sender *)
Encode(bytes) == FlattenSeq([i \in 1..Len(bytes) |-> IF bytes[i] = "LF" THEN <<"CR", "LF">> ELSE <<bytes[i]>>])

Chunk == BUFSIZ \div 2
MinOf(a, b) == IF a < b THEN a ELSE b

ReadFile ==
    /\ buff = <<>> /\ ~closed /\ pos < Len(file)
    /\ LET n == MinOf(Chunk, Len(file) - pos) IN
        /\ buff' = Encode(SubSeq(file, pos + 1, pos + n))
        /\ pos' = pos + n
    /\ UNCHANGED <<file, chan, closed, aborted, read_buf, c, loop, out, transfers>>

Writen ==
    /\ buff # <<>> /\ ~closed /\ Len(chan) < Window
    /\ LET n == MinOf(Len(buff), Window - Len(chan)) IN
        /\ chan' = chan \o SubSeq(buff, 1, n)
        /\ buff' = SubSeq(buff, n + 1, Len(buff))
    /\ UNCHANGED <<file, pos, closed, aborted, read_buf, c, loop, out, transfers>>

CloseConnection ==
    /\ buff = <<>> /\ pos = Len(file) /\ ~closed
    /\ closed' = TRUE
    /\ UNCHANGED <<file, pos, buff, chan, aborted, read_buf, c, loop, out, transfers>>

\* The sender ends with part of its file sent.
Abort ==
    /\ Aborts /\ ~closed /\ (buff # <<>> \/ pos < Len(file))
    /\ closed' = TRUE /\ aborted' = TRUE /\ buff' = <<>>
    /\ UNCHANGED <<file, pos, chan, read_buf, c, loop, out, transfers>>

(* Read1: a byte of the static buffer; when that is empty, what the          *)
(* connection has is read, in pieces of any size; 0 at its end.              *)
Fill ==
    /\ loop # "done" /\ read_buf = <<>>
    /\ \E n \in 1..MinOf(MAXLINE, Len(chan)) :
        /\ read_buf' = SubSeq(chan, 1, n)
        /\ chan' = SubSeq(chan, n + 1, Len(chan))
    /\ UNCHANGED <<sender, c, loop, out, transfers>>

Read1 == read_buf # <<>> /\ c' = Head(read_buf) /\ read_buf' = Tail(read_buf)
AtEnd == read_buf = <<>> /\ chan = <<>> /\ closed

(* The receiver's loops *)
OuterByte ==
    /\ loop = "outer" /\ Read1
    /\ IF c' = "CR" THEN loop' = "inner" /\ UNCHANGED out ELSE Put(<<c'>>) /\ UNCHANGED loop
    /\ UNCHANGED <<sender, chan, transfers>>

OuterEnd ==
    /\ loop = "outer" /\ AtEnd
    /\ loop' = "done"
    /\ UNCHANGED <<sender, chan, read_buf, c, out, transfers>>

\* After CR: LF is written alone, NUL and 0xFF are dropped, another CR goes round again.
AfterCR(b) ==
    CASE b = "LF" -> Put(<<"LF">>) /\ loop' = "outer"
      [] b \in {"NUL", "EOF"} -> Put(<<"CR">>) /\ loop' = "outer"
      [] b = "CR" -> Put(<<"CR">>) /\ UNCHANGED loop
      [] OTHER -> Put(<<"CR", b>>) /\ loop' = "outer"

InnerByte ==
    /\ loop = "inner" /\ Read1
    /\ AfterCR(c')
    /\ UNCHANGED <<sender, chan, transfers>>

\* Read1 answers 0 and leaves c as it was, a CR; nobody looks at the answer.
InnerEnd ==
    /\ loop = "inner" /\ AtEnd
    /\ AfterCR(c)
    /\ UNCHANGED <<sender, chan, read_buf, c, transfers>>

\* The next transfer of the session, on a new connection.
NextTransfer ==
    /\ loop = "done" /\ transfers < MaxTransfers
    /\ transfers' = transfers + 1
    /\ file' \in Files
    /\ pos' = 0 /\ buff' = <<>> /\ chan' = <<>> /\ closed' = FALSE /\ aborted' = FALSE
    /\ loop' = "outer" /\ out' = <<>>
    /\ UNCHANGED <<read_buf, c>>

Init ==
    /\ file \in Files
    /\ pos = 0 /\ buff = <<>> /\ chan = <<>> /\ closed = FALSE /\ aborted = FALSE
    /\ read_buf = <<>> /\ c = "NUL" /\ loop = "outer" /\ out = <<>> /\ transfers = 1

Send == ReadFile \/ Writen \/ CloseConnection \/ Abort
Receive == Fill \/ OuterByte \/ OuterEnd \/ InnerByte \/ InnerEnd
Next == Send \/ Receive \/ NextTransfer

Spec == Init /\ [][Next]_vars

\* Both sides go on.
Weak(i) ==
    \/ i = 1 /\ (ReadFile \/ Writen \/ CloseConnection)
    \/ i = 2 /\ Receive

-----------------------------------------------------------------------------

(* The types; what is encoded of one read fits the sender's buffer.          *)
TypeOK ==
    /\ file \in Files /\ pos \in 0..Len(file)
    /\ Len(buff) <= BUFSIZ /\ Len(chan) <= Window /\ Len(read_buf) <= MAXLINE
    /\ closed \in BOOLEAN /\ (aborted => closed)
    /\ loop \in {"outer", "inner", "done"} /\ transfers \in 1..MaxTransfers

(* However the connection cuts the bytes into pieces, what the receiver has  *)
(* written is the beginning of the file that is being sent: no CR too many,  *)
(* and nothing of the transfer before.                                       *)
WrittenIsPrefix == IsPrefix(out, file)

(* When the receiver answers 226, it has written the file as it was.         *)
ReceivedIsSent == loop = "done" /\ ~aborted => out = file

(* A transfer goes on: not for ever, also when the sender goes away.          *)
Unfinished(k) == k = 1 /\ loop # "done"

=============================================================================
