------------------------------- MODULE Config -------------------------------
(* The configuration of a redis server (redis-3.0.3/src/config.c): loading   *)
(* the file, CONFIG SET, and CONFIG REWRITE, which edits the old file line   *)
(* by line and overwrites it in place with one write and a truncation.  The  *)
(* server may crash between the two.                                         *)
(*                                                                           *)
(* The options stand for the kinds the rewrite knows: "timeout" (a plain     *)
(* number), "maxmemory" (written with a unit, read with one), "ttl", that is *)
(* repl-backlog-ttl (written with a unit, read as a plain number), "save"    *)
(* (one line for each save point), "limit", client-output-buffer-limit (one  *)
(* line for each class of clients), and "slaveof" (absent when there is no   *)
(* primary).  A number is written as a pair <<n, unit>>.                     *)
EXTENDS Integers, Sequences, SequencesExt

CONSTANTS InitialFiles, \* the files an administrator may have written
          Included,     \* the lines of the file an "include" line names
          Timeouts, Memories, Ttls, Saves, Limits, Hosts, \* what clients ask for
          KB,           \* how many bytes one kilobyte has here
          FullDisk,     \* whether the disk may be full when the file is written
          MaxCrashes    \* bound: crashes in the middle of a rewrite

ConfigAssumption == KB \in Nat \ {0, 1} /\ FullDisk \in BOOLEAN /\ MaxCrashes \in Nat

VARIABLES conf,    \* the options of the running server
          file,    \* the lines of the configuration file
          content, \* what the rewrite is writing
          pc,      \* "idle" or "truncate", between write(2) and ftruncate(2)
          saved,   \* history: the options at the last rewrite that was answered OK
          request, \* the last CONFIG SET client-output-buffer-limit
          crashes  \* crashes in the middle of a rewrite so far

vars == <<conf, file, content, pc, saved, request, crashes>>

NoHost == "none"
NoRequest == <<>>
Classes == <<"normal", "slave">>
clientBufferLimitsDefaults == [normal |-> 0, slave |-> 4]

Empty == <<"">>
Signature == <<"# Generated by CONFIG REWRITE">>
Known == {"timeout", "maxmemory", "ttl", "save", "limit", "slaveof"}
IsOption(line) == Head(line) \in Known

(* Numbers and their text. *)
Plain(n) == <<n, "">>
rewriteConfigFormatMemory(n) == IF n # 0 /\ n % KB = 0 THEN <<n \div KB, "kb">> ELSE Plain(n)
memtoll(t) == IF t[2] = "kb" THEN t[1] * KB ELSE t[1]
atoi(t) == t[1]

(* Loading a file *)
initServerConfig == [timeout |-> 0, maxmemory |-> 0, ttl |-> 1, save |-> <<>>,
                     limit |-> clientBufferLimitsDefaults, slaveof |-> NoHost]

LoadOption(c, line) ==
    CASE line[1] = "timeout"   -> [c EXCEPT !.timeout = atoi(line[2])]
      [] line[1] = "maxmemory" -> [c EXCEPT !.maxmemory = memtoll(line[2])]
      [] line[1] = "ttl"       -> [c EXCEPT !.ttl = atoi(line[2])]
      [] line[1] = "save"      -> [c EXCEPT !.save = Append(@, line[2])]
      [] line[1] = "limit"     -> [c EXCEPT !.limit[line[2][1]] = memtoll(line[2][2])]
      [] line[1] = "slaveof"   -> [c EXCEPT !.slaveof = line[2]]
      [] OTHER                 -> c

\* The lines are executed in order; an included file is executed in its place.
WithIncluded(lines) ==
    FlattenSeq([i \in 1..Len(lines) |-> IF Head(lines[i]) = "include" THEN Included ELSE <<lines[i]>>])
loadServerConfig(lines) == FoldLeft(LoadOption, initServerConfig, WithIncluded(lines))

(* The rewrite state: the lines, where each option stands in them, the      *)
(* options already written, and whether the signature is there.             *)
LinesOf(lines, o) == SelectSeq([i \in 1..Len(lines) |-> i], LAMBDA i : Head(lines[i]) = o)
rewriteConfigReadOldFile(lines) ==
    [lines |-> lines, option_to_line |-> [o \in Known |-> LinesOf(lines, o)],
     rewritten |-> {}, has_tail |-> \E i \in 1..Len(lines) : lines[i] = Signature]

rewriteConfigMarkAsProcessed(s, o) == [s EXCEPT !.rewritten = @ \cup {o}]
rewriteConfigAppendLine(s, line) ==
    [s EXCEPT !.lines = (IF s.has_tail THEN @ ELSE Append(@, Signature)) \o <<line>>, !.has_tail = TRUE]
ReuseLine(s, line) ==
    [s EXCEPT !.lines[Head(s.option_to_line[line[1]])] = line, !.option_to_line[line[1]] = Tail(@)]

\* An option at its default value is written only where the old file has a line for it.
rewriteConfigRewriteLine(s, line, force) ==
    LET t == rewriteConfigMarkAsProcessed(s, line[1])
    IN  CASE t.option_to_line[line[1]] # <<>> -> ReuseLine(t, line)
          [] t.option_to_line[line[1]] = <<>> /\ force -> rewriteConfigAppendLine(t, line)
          [] OTHER -> t

rewriteConfigNumericalOption(s, o, n, default) == rewriteConfigRewriteLine(s, <<o, Plain(n)>>, n # default)
rewriteConfigBytesOption(s, o, n, default) ==
    rewriteConfigRewriteLine(s, <<o, rewriteConfigFormatMemory(n)>>, n # default)

rewriteConfigSaveOption(s, save) ==
    rewriteConfigMarkAsProcessed(
        FoldLeft(LAMBDA t, p : rewriteConfigRewriteLine(t, <<"save", p>>, TRUE), s, save), "save")

rewriteConfigSlaveofOption(s, host) ==
    IF host = NoHost THEN rewriteConfigMarkAsProcessed(s, "slaveof")
    ELSE rewriteConfigRewriteLine(s, <<"slaveof", host>>, TRUE)

rewriteConfigClientoutputbufferlimitOption(s, limit) ==
    FoldLeft(LAMBDA t, class :
        rewriteConfigRewriteLine(t, <<"limit", <<class, rewriteConfigFormatMemory(limit[class])>>>>,
                                 limit[class] # clientBufferLimitsDefaults[class]),
        s, Classes)

rewriteConfigOptions(s, c) ==
    LET s1 == rewriteConfigNumericalOption(s, "timeout", c.timeout, initServerConfig.timeout)
        s2 == rewriteConfigSaveOption(s1, c.save)
        s3 == rewriteConfigSlaveofOption(s2, c.slaveof)
        s4 == rewriteConfigBytesOption(s3, "ttl", c.ttl, initServerConfig.ttl)
        s5 == rewriteConfigBytesOption(s4, "maxmemory", c.maxmemory, initServerConfig.maxmemory)
    IN  rewriteConfigClientoutputbufferlimitOption(s5, c.limit)

\* Lines of written options that were not used again are blanked.
rewriteConfigRemoveOrphaned(s) ==
    LET Orphan(i) == \E o \in s.rewritten : i \in ToSet(s.option_to_line[o])
    IN  [i \in 1..Len(s.lines) |-> IF Orphan(i) THEN Empty ELSE s.lines[i]]

\* Every cluster of empty lines is turned into a single empty line.
rewriteConfigGetContentFromState(lines) ==
    FoldLeft(LAMBDA out, line : IF line = Empty /\ out # <<>> /\ Last(out) = Empty
                                THEN out ELSE Append(out, line), <<>>, lines)

NewContent(lines, c) ==
    rewriteConfigGetContentFromState(
        rewriteConfigRemoveOrphaned(rewriteConfigOptions(rewriteConfigReadOldFile(lines), c)))

(* Overwriting the file.  A line has two bytes, an empty one has one, and a *)
(* line of padding has its own length.                                      *)
Bytes(lines) ==
    FoldLeft(LAMBDA n, line : n + (IF line = Empty THEN 1 ELSE IF line[1] = "#pad" THEN line[2] ELSE 2), 0, lines)
Padding(lines) == Bytes(file) - Bytes(lines)
Padded(lines) ==
    IF Padding(lines) <= 0 THEN lines
    ELSE lines \o <<Empty>> \o (IF Padding(lines) = 1 THEN <<>> ELSE <<<<"#pad", Padding(lines) - 1>>>>)

CanSet == pc = "idle"

configSetOption ==
    /\ CanSet
    /\ \/ \E n \in Timeouts : conf' = [conf EXCEPT !.timeout = n]
       \/ \E n \in Memories : conf' = [conf EXCEPT !.maxmemory = n]
       \/ \E n \in Ttls : conf' = [conf EXCEPT !.ttl = n]
       \/ \E s \in Saves : conf' = [conf EXCEPT !.save = s]
    /\ conf' # conf
    /\ request' = NoRequest
    /\ UNCHANGED <<file, content, pc, saved, crashes>>

\* The class and the number of each group are checked before any is applied; a class nobody knows
\* refuses them all.  The numbers are checked with memtoll and applied with strtoll.
configSetLimit ==
    /\ CanSet
    /\ \E r \in Limits :
        /\ request' = r
        /\ conf' = IF \E i \in 1..Len(r) : r[i][1] \notin ToSet(Classes) THEN conf
                   ELSE [conf EXCEPT !.limit =
                            FoldLeft(LAMBDA l, g : [l EXCEPT ![g[1]] = atoi(g[2])], @, r)]
    /\ UNCHANGED <<file, content, pc, saved, crashes>>

slaveofCommand ==
    /\ CanSet
    /\ \E h \in Hosts \cup {NoHost} : conf' = [conf EXCEPT !.slaveof = h]
    /\ conf' # conf
    /\ request' = NoRequest
    /\ UNCHANGED <<file, content, pc, saved, crashes>>

\* The file is read, and the new content is written over it in one write.
rewriteConfig ==
    /\ CanSet
    /\ LET new == NewContent(file, conf) IN
        /\ file' = Padded(new)
        /\ IF Padding(new) > 0 THEN pc' = "truncate" /\ content' = new ELSE UNCHANGED <<pc, content>>
    /\ saved' = conf
    /\ request' = NoRequest
    /\ UNCHANGED <<conf, crashes>>

\* The disk is full: the write stops where the old file ended, and answers how much it wrote.
rewriteConfigShort ==
    /\ CanSet /\ FullDisk
    /\ LET new == NewContent(file, conf) IN
        /\ Padding(new) < 0
        /\ \E k \in 0..Len(new) :
            /\ Bytes(SubSeq(new, 1, k)) = Bytes(file)
            /\ file' = SubSeq(new, 1, k)
    /\ saved' = conf
    /\ request' = NoRequest
    /\ UNCHANGED <<conf, content, pc, crashes>>

rewriteConfigTruncate ==
    /\ pc = "truncate"
    /\ file' = content
    /\ content' = <<>>
    /\ pc' = "idle"
    /\ UNCHANGED <<conf, saved, request, crashes>>

restart ==
    /\ pc = "truncate" => crashes < MaxCrashes
    /\ crashes' = IF pc = "truncate" THEN crashes + 1 ELSE crashes
    /\ conf' = loadServerConfig(file)
    /\ content' = <<>>
    /\ pc' = "idle"
    /\ request' = NoRequest
    /\ UNCHANGED <<file, saved>>

Init ==
    /\ file \in InitialFiles
    /\ conf = loadServerConfig(file)
    /\ saved = conf
    /\ content = <<>>
    /\ pc = "idle"
    /\ request = NoRequest
    /\ crashes = 0

Next == configSetOption \/ configSetLimit \/ slaveofCommand
        \/ rewriteConfig \/ rewriteConfigShort \/ rewriteConfigTruncate \/ restart

Spec == Init /\ [][Next]_vars

-----------------------------------------------------------------------------

(* The types, and a rewrite never leaves two signatures in the file. *)
TypeOK ==
    /\ conf.timeout \in Nat /\ conf.maxmemory \in Nat /\ conf.ttl \in Nat
    /\ conf.limit \in [ToSet(Classes) -> Nat]
    /\ conf.slaveof \in STRING
    /\ pc \in {"idle", "truncate"} /\ crashes \in 0..MaxCrashes
    /\ Len(SelectSeq(file, LAMBDA line : line = Signature)) <= 1

(* Whenever the server stops, also between the write and the truncation, it  *)
(* comes back with the options it had when the last CONFIG REWRITE was       *)
(* answered OK (or with those it started with).                              *)
FileLoadsSaved == loadServerConfig(file) = saved

(* Rewriting the file again and again with the same options settles: lines   *)
(* are not repeated, moved or lost for ever.  The second rewrite may differ  *)
(* from the first: a limit at its default value takes the line that the      *)
(* first gave to another class.                                              *)
RewriteSettles ==
    LET twice == NewContent(NewContent(file, conf), conf) IN NewContent(twice, conf) = twice

(* A rewrite leaves what it does not understand as it is and where it is:   *)
(* comments, include lines and the options it does not write.               *)
Foreign(lines) ==
    SelectSeq(lines, LAMBDA l : ~IsOption(l) /\ l # Empty /\ l # Signature /\ Head(l) # "#pad")
ForeignKept ==
    Foreign(file') = Foreign(file)

(* CONFIG SET client-output-buffer-limit sets all the limits it is given, to *)
(* the values it is given, or none: a group that is refused refuses all.     *)
SetIsAllOrNothing ==
    request' # request /\ request' # NoRequest =>
        LET r == request'
        IN  IF \E i \in 1..Len(r) : r[i][1] \notin ToSet(Classes) THEN conf' = conf
            ELSE \A i \in 1..Len(r) : conf'.limit[r[i][1]] = memtoll(r[i][2])

=============================================================================
