------------------------------ MODULE ScriptRun ------------------------------
(***************************************************************************)
(* One script at a time (scripting.c): what it may call, and what happens   *)
(* when it runs for longer than lua-time-limit. The hook then reenters the  *)
(* event loop with the caller's readable event removed, so that others can  *)
(* send SCRIPT KILL or SHUTDOWN NOSAVE while everything else gets BUSY.     *)
(***************************************************************************)
EXTENDS Integers, Sequences, FiniteSets

CONSTANTS
    Conns, NoConn,      \* connections of clients; no caller
    lua_time_limit,     \* 0: no hook
    Catches,            \* TRUE: scripts run their body under pcall()
    Pipelines,          \* TRUE: a caller may have replies to an earlier command pending
    cluster_enabled,    \* TRUE: some keys belong to other nodes
    MaxCalls, MaxScripts    \* bounds: commands of a script, scripts
ScriptRunAssumption ==
    /\ NoConn \notin Conns /\ lua_time_limit \in Nat /\ MaxCalls \in Nat /\ MaxScripts \in Nat
    /\ {Catches, Pipelines, cluster_enabled} \subseteq BOOLEAN

\* The commands of a script, by the flags that matter: SET, DEL, TIME, GET, SPOP.
Commands == {{"write", "denyoom"}, {"write"}, {"random"}, {}, {"write", "random", "noscript"}}

VARIABLES
    lua_caller, lua_random_dirty, lua_write_dirty, lua_timedout, lua_kill,
    hook,           \* the count hook is set
    inHook,         \* it has reentered the event loop
    readable,       \* connections whose readable event is in the event loop
    pending,        \* connections with output that is still to be written
    connected,
    executed,       \* commands the script has executed
    refusedOOM,     \* how many of them were executed when a command was refused for memory, -1 if none was
    outcome,        \* of the last script: "none" | "ok" | "error" | "killed"
    unkillable,     \* SCRIPT KILL was answered UNKILLABLE
    caught,         \* how many commands were executed when pcall() caught the error of a kill, -1 if none did
    masterhost, lastbgsave_ok, scripts, up
dirty == <<lua_random_dirty, lua_write_dirty>>
told == <<refusedOOM, unkillable, outcome>>
env == <<masterhost, lastbgsave_ok, up>>
past == <<scripts, caught>>
vars == <<lua_caller, dirty, lua_timedout, lua_kill, hook, inHook, readable, pending, connected, executed, told, env, past>>

Running == lua_caller # NoConn
InScript == up /\ Running /\ ~inHook
-----------------------------------------------------------------------------
(* EVAL                                                                     *)

\* The flags of the last script are cleared, the hook is not set on a replica.
evalGenericCommand(c, pipelined) ==
    /\ up /\ ~Running /\ c \in connected /\ (c \in pending => Pipelines) /\ scripts < MaxScripts /\ scripts' = scripts + 1
    /\ lua_random_dirty' = FALSE /\ lua_write_dirty' = FALSE
    /\ lua_caller' = c /\ lua_kill' = FALSE /\ hook' = (lua_time_limit > 0 /\ ~masterhost)
    /\ pending' = IF pipelined THEN pending \cup {c} ELSE pending
    /\ executed' = <<>> /\ refusedOOM' = -1 /\ unkillable' = FALSE /\ outcome' = "none" /\ caught' = -1
    /\ UNCHANGED <<lua_timedout, inHook, readable, connected, env>>
\* The caller is readable again, the reply waits to be written.
ScriptEnds(how) ==
    /\ lua_caller' = NoConn /\ hook' = FALSE /\ lua_timedout' = FALSE /\ outcome' = how
    /\ readable' = IF lua_timedout THEN readable \cup {lua_caller} ELSE readable
scriptReturns ==
    /\ InScript /\ ScriptEnds("ok") /\ pending' = pending \cup {lua_caller}
    /\ UNCHANGED <<dirty, lua_kill, inHook, connected, executed, refusedOOM, unkillable, env, past>>

-----------------------------------------------------------------------------
(* redis.call() and redis.pcall()                                           *)

\* An error of redis.call() ends the script, one of redis.pcall() is a value.
CallFails ==
    \/ UNCHANGED <<lua_caller, hook, lua_timedout, outcome, readable, pending>>
    \/ ScriptEnds("error") /\ pending' = pending \cup {lua_caller}
Refused(cmd) ==
    \/ "noscript" \in cmd
    \/ "write" \in cmd /\ (lua_random_dirty \/ masterhost \/ ~lastbgsave_ok)
\* The wrong arguments, an unknown command, or one that is not allowed now.
luaCallRefused ==
    /\ InScript /\ CallFails
    /\ UNCHANGED <<dirty, lua_kill, inHook, connected, executed, refusedOOM, unkillable, env, past>>
\* Memory is looked at for the first write only: in the middle one cannot stop.
MemoryChecked(cmd) == "denyoom" \in cmd /\ ~lua_write_dirty
luaOutOfMemory(cmd) ==
    /\ InScript /\ ~Refused(cmd) /\ MemoryChecked(cmd)
    /\ refusedOOM' = Cardinality({i \in DOMAIN executed : "write" \in executed[i]}) /\ CallFails
    /\ UNCHANGED <<dirty, lua_kill, inHook, connected, executed, unkillable, env, past>>
\* The command runs, unless its key belongs to another node.
luaRedisGenericCommand(cmd, nonLocal) ==
    /\ InScript /\ ~Refused(cmd) /\ Len(executed) < MaxCalls
    /\ lua_random_dirty' = (lua_random_dirty \/ "random" \in cmd)
    /\ lua_write_dirty' = (lua_write_dirty \/ "write" \in cmd)
    /\ IF cluster_enabled /\ nonLocal
       THEN CallFails /\ UNCHANGED executed
       ELSE executed' = Append(executed, cmd) /\ UNCHANGED <<lua_caller, hook, lua_timedout, outcome, readable, pending>>
    /\ UNCHANGED <<lua_kill, inHook, connected, refusedOOM, unkillable, env, past>>

-----------------------------------------------------------------------------
(* The hook, and the events it lets in                                      *)

HookEntered == InScript /\ hook /\ inHook' = TRUE /\ lua_timedout' = TRUE
\* The limit has passed: now, or at an earlier call of the hook.
luaMaskCountHook ==
    /\ HookEntered /\ readable' = IF lua_timedout THEN readable ELSE readable \ {lua_caller}
    /\ UNCHANGED <<lua_caller, dirty, lua_kill, hook, pending, connected, executed, told, env, past>>
\* The events have been processed. A kill is an error at the place the script has come to, which
\* a pcall() around it catches: then it goes on, until the hook is called again.
HookReturns ==
    /\ up /\ inHook /\ inHook' = FALSE
    /\ \/ /\ lua_kill /\ ScriptEnds("killed") /\ pending' = pending \cup {lua_caller}
          /\ UNCHANGED caught
       \/ /\ lua_kill => Catches
          /\ caught' = IF lua_kill /\ caught = -1 THEN Len(executed) ELSE caught
          /\ UNCHANGED <<lua_caller, hook, lua_timedout, outcome, readable, pending>>
    /\ UNCHANGED <<dirty, lua_kill, connected, executed, refusedOOM, unkillable, env, scripts>>

Events == up /\ (Running => inHook)
scriptKill_Always(c) ==
    /\ Events /\ c \in readable \cap connected /\ Running
    /\ lua_kill' = TRUE /\ unkillable' = FALSE
    /\ UNCHANGED <<lua_caller, dirty, lua_timedout, hook, inHook, readable, pending, connected, executed, refusedOOM, outcome, env, past>>
\* SCRIPT KILL of another client. Without a script it is NOTBUSY.
scriptKill(c) ==
    /\ Events /\ c \in readable \cap connected /\ Running
    /\ lua_kill' = (lua_kill \/ ~lua_write_dirty) /\ unkillable' = lua_write_dirty
    /\ UNCHANGED <<lua_caller, dirty, lua_timedout, hook, inHook, readable, pending, connected, executed, refusedOOM, outcome, env, past>>
shutdownNosave(c) ==
    /\ Events /\ c \in readable \cap connected /\ up' = FALSE
    /\ UNCHANGED <<lua_caller, dirty, lua_timedout, lua_kill, hook, inHook, readable, pending, connected, executed, told,
                   masterhost, lastbgsave_ok, past>>
\* SLAVEOF is BUSY while a script runs.
slaveofCommand(c) ==
    /\ Events /\ ~lua_timedout /\ c \in readable \cap connected /\ masterhost' = ~masterhost
    /\ UNCHANGED <<lua_caller, dirty, lua_timedout, lua_kill, hook, inHook, readable, pending, connected, executed, told,
                   lastbgsave_ok, up, past>>
\* A closed connection is seen when it is read.
readQueryFromClient(c) ==
    /\ Events /\ c \in readable \cap connected
    /\ connected' = connected \ {c} /\ readable' = readable \ {c} /\ pending' = pending \ {c}
    /\ UNCHANGED <<lua_caller, dirty, lua_timedout, lua_kill, hook, inHook, executed, told, env, past>>
\* The output is written; or it cannot be, and the client is freed.
sendReplyToClient(c) ==
    /\ Events /\ c \in pending /\ pending' = pending \ {c}
    /\ \/ UNCHANGED <<connected, readable>>
       \/ connected' = connected \ {c} /\ readable' = readable \ {c}
    /\ UNCHANGED <<lua_caller, dirty, lua_timedout, lua_kill, hook, inHook, executed, told, env, past>>
\* Outside scripts: a BGSAVE ends.
backgroundSaveDone ==
    /\ up /\ ~Running /\ lastbgsave_ok' = ~lastbgsave_ok
    /\ UNCHANGED <<lua_caller, dirty, lua_timedout, lua_kill, hook, inHook, readable, pending, connected, executed, told,
                   masterhost, up, past>>

Init ==
    /\ lua_caller = NoConn /\ lua_random_dirty = FALSE /\ lua_write_dirty = FALSE
    /\ lua_timedout = FALSE /\ lua_kill = FALSE /\ hook = FALSE /\ inHook = FALSE
    /\ readable = Conns /\ pending = {} /\ connected = Conns /\ executed = <<>>
    /\ refusedOOM = -1 /\ unkillable = FALSE /\ outcome = "none"
    /\ masterhost = FALSE /\ lastbgsave_ok = TRUE /\ up = TRUE /\ scripts = 0 /\ caught = -1
Next ==
    \/ \E c \in Conns : \/ \E pipelined \in {FALSE, Pipelines} : evalGenericCommand(c, pipelined)
                        \/ scriptKill(c) \/ shutdownNosave(c) \/ slaveofCommand(c)
                        \/ readQueryFromClient(c) \/ sendReplyToClient(c)
    \/ scriptReturns \/ luaCallRefused \/ luaMaskCountHook \/ HookReturns \/ backgroundSaveDone
    \/ \E cmd \in Commands : luaOutOfMemory(cmd) \/ \E nonLocal \in BOOLEAN : luaRedisGenericCommand(cmd, nonLocal)
Spec == Init /\ [][Next]_vars
\* The hook is called for as long as the script runs.
Weak(i) ==
    \/ i = 1 /\ luaMaskCountHook
    \/ i = 2 /\ HookReturns

-----------------------------------------------------------------------------
TypeOK ==
    /\ lua_caller \in Conns \cup {NoConn} /\ hook \in BOOLEAN /\ lua_timedout \in BOOLEAN
    /\ (hook \/ lua_timedout => Running) /\ (lua_timedout => hook)
    /\ readable \subseteq connected /\ pending \subseteq connected /\ connected \subseteq Conns
    /\ refusedOOM \in -1..MaxCalls /\ caught \in -1..Len(executed) /\ outcome \in {"none", "ok", "error", "killed"}

\* What is written does not depend on what a random command returned: replicas run the same script.
WritesAreDeterministic ==
    \A i, j \in DOMAIN executed : i < j /\ "random" \in executed[i] => "write" \notin executed[j]

\* A script is refused memory only while it has written nothing: it is not stopped in the middle.
MemoryOnlyAtStart == refusedOOM <= 0

\* When no script runs, every connection is read: no caller stays masked.
CallersReadable == up /\ ~Running => readable = connected

\* The caller is still there when the script ends ("If we don't do that the client may disconnect").
CallerStays == Running => lua_caller \in connected

\* A script that SCRIPT KILL has ended has written nothing, but after the script itself had
\* caught the error of a kill (scripting.c:563): a pcall() lets it go on, and write.
KilledWroteNothing ==
    outcome = "killed" => \A i \in DOMAIN executed : "write" \in executed[i] => caught # -1 /\ i > caught
\* Without the exception ("The script already executed write commands against the dataset.
\* You can either wait the script termination or kill the server", scripting.c:1194) it does
\* not hold if Catches.
KilledNeverWrote == outcome = "killed" => \A i \in DOMAIN executed : "write" \notin executed[i]

\* UNKILLABLE is said of a script that "already executed write commands".
UnkillableWrote == unkillable => \E i \in DOMAIN executed : "write" \in executed[i]

\* A script runs that was killed by a client: not for ever, even if it never ends by itself.
Unfinished(k) == k = 1 /\ lua_kill /\ Running /\ up
=============================================================================
