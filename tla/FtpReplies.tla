----------------------------- MODULE FtpReplies -----------------------------
(***************************************************************************)
(* What a session of the server promises on the control connection, seen   *)
(* by whoever speaks the protocol with it: a greeting, then for each        *)
(* request one final reply, which is preceded by 150 if data is to flow.   *)
(* 226 is sent only after 150 and after the data connection was closed.    *)
(* The session may end at any time.  FtpdSession implements it.            *)
(***************************************************************************)
EXTENDS Naturals, Sequences

VARIABLES
    phase,  \* "new", "ready" for a request, "busy" with a transfer, "gone"
    sent,   \* replies sent since the last request was taken
    conn    \* a data connection is open

vars == <<phase, sent, conn>>

\* Final replies to a request without, and to one with a transfer.
SimpleCodes   == {200, 213, 215, 227, 230, 250, 257, 331, 500, 530, 550}
TransferCodes == {226, 500, 550}

Init == phase = "new" /\ sent = <<>> /\ conn = FALSE

Greet ==
    /\ phase = "new"
    /\ phase' = "ready" /\ sent' = <<220>>
    /\ UNCHANGED conn

\* A request handled between two reads.
Answer(c) ==
    /\ phase = "ready" /\ ~conn
    /\ sent' = <<c>>
    /\ UNCHANGED <<phase, conn>>

\* A transfer: taken, connected, announced, disconnected, concluded.
Begin ==
    /\ phase = "ready" /\ ~conn
    /\ phase' = "busy" /\ sent' = <<>>
    /\ UNCHANGED conn

Connect ==
    /\ phase = "busy" /\ sent = <<>> /\ ~conn
    /\ conn' = TRUE
    /\ UNCHANGED <<phase, sent>>

Announce ==
    /\ phase = "busy" /\ sent = <<>> /\ conn
    /\ sent' = <<150>>
    /\ UNCHANGED <<phase, conn>>

Disconnect ==
    /\ phase \in {"busy", "ready"} /\ conn
    /\ conn' = FALSE
    /\ UNCHANGED <<phase, sent>>

Conclude(c) ==
    /\ phase = "busy" /\ sent \in {<<>>, <<150>>}
    /\ c = 226 => sent = <<150>> /\ ~conn
    /\ sent' = Append(sent, c)
    /\ phase' = "ready"
    /\ UNCHANGED conn

Leave ==
    /\ phase # "gone"
    /\ phase' = "gone" /\ conn' = FALSE
    /\ sent' = sent \/ (phase = "ready" /\ sent' = <<221>>)

Next ==
    \/ Greet \/ Begin \/ Connect \/ Announce \/ Disconnect \/ Leave
    \/ \E c \in SimpleCodes : Answer(c)
    \/ \E c \in TransferCodes : Conclude(c)

Spec == Init /\ [][Next]_vars
=============================================================================
