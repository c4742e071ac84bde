---------------------------- MODULE OperationLog ----------------------------
(* The operation log (trashd-common/src/oplog.rs): every process that        *)
(* trashes, restores or purges appends a line to one file, without a lock,   *)
(* and trash log reads its last lines backwards, chunk by chunk, meanwhile.  *)
(* A full disk shortens writes, processes are killed, and the user removes   *)
(* the log.                                                                  *)
EXTENDS Naturals, FiniteSets, SequencesExt

CONSTANTS
  Writers, Messages,    \* what is logged: sequences of "plain", "newline" and "slash"
  MaxLines, Chunk,      \* the reader's: trash log --lines, and 8192
  MaxRecords, MaxTorn, MaxRemovals,  \* bounds
  None

Files == 1 .. (MaxRemovals + 2)
NL == "nl"

VARIABLES
  dir, name,        \* .trashd is there; the file that is operations.log
  data, wide,       \* the bytes of each file, and whether others may read it
  pc, fd,           \* of each writer
  rest,             \* what is left to write
  asked,            \* the number of lines to show
  rpc, rfd, end,    \* the reader's step, its file, and the length it has seen
  position, remaining, reversed,
  lines,            \* what it answers
  made, torn, removals,             \* the spent bounds
  logged            \* GHOST: the lines whose call has succeeded, with their file

writer == <<pc, fd, rest>>
reader == <<asked, rpc, rfd, end, position, remaining, reversed, lines>>
store == <<dir, name, data, wide>>
vars == <<store, writer, reader, made, torn, removals, logged>>

-----------------------------------------------------------------------------
(* what is written *)

\* escape_field_bytes: \\ for a backslash, \xNN for what is not printable
Escaped(m) ==
  LET Byte(b) == CASE b = "plain" -> <<b>> [] b = "slash" -> <<b, b>> [] b = "newline" -> <<"slash", "hex">>
  IN FlattenSeq([i \in DOMAIN m |-> Byte(m[i])])
\* the time, the process and the operation, and the fields
Line(w, m) == <<w>> \o Escaped(m) \o <<NL>>

Fail(w) == pc' = [pc EXCEPT ![w] = "idle"] /\ rest' = [rest EXCEPT ![w] = <<>>]
           /\ fd' = [fd EXCEPT ![w] = None]
Same == UNCHANGED <<reader, removals>>

Log(w) == \E m \in Messages :
  /\ pc[w] = "idle" /\ made < MaxRecords /\ made' = made + 1
  /\ pc' = [pc EXCEPT ![w] = "open"] /\ rest' = [rest EXCEPT ![w] = Line(w, m)]
  /\ Same /\ UNCHANGED <<store, fd, torn, logged>>

Enter(w, f) == fd' = [fd EXCEPT ![w] = f] /\ pc' = [pc EXCEPT ![w] = "check"] /\ UNCHANGED rest
Unused == CHOOSE f \in Files : \A g \in Files : (g < f <=> g \in DOMAIN data)
\* open_log_for_append: what is there, or a new file
Open(w) ==
  /\ pc[w] \in {"open", "again"} /\ dir /\ Same /\ UNCHANGED <<dir, made, torn, logged>>
  /\ \/ name # None /\ Enter(w, name) /\ UNCHANGED <<name, data, wide>>
     \/ /\ name = None /\ Enter(w, Unused) /\ name' = Unused
        /\ data' = [f \in DOMAIN data \cup {Unused} |-> IF f = Unused THEN <<>> ELSE data[f]]
        /\ wide' = [f \in DOMAIN data' |-> f # Unused /\ wide[f]]
\* there is no .trashd: make it and try once more
MakeDir(w) ==
  /\ pc[w] = "open" /\ ~dir /\ dir' = TRUE /\ pc' = [pc EXCEPT ![w] = "again"]
  /\ Same /\ UNCHANGED <<name, data, wide, fd, rest, made, torn, logged>>
GiveUp(w) == pc[w] = "again" /\ ~dir /\ Fail(w) /\ Same /\ UNCHANGED <<store, made, torn, logged>>

Narrowed(w) == [wide EXCEPT ![fd[w]] = FALSE]
\* a log of an older release may be readable by others
Check(w) ==
  /\ pc[w] = "check" /\ pc' = [pc EXCEPT ![w] = "write"] /\ wide' = Narrowed(w)
  /\ Same /\ UNCHANGED <<dir, name, data, fd, rest, made, torn, logged>>

Extend(w, k) == data' = [data EXCEPT ![fd[w]] = @ \o SubSeq(rest[w], 1, k)]
\* write_all, on a file opened to append
Write(w) ==
  /\ pc[w] = "write" /\ Extend(w, Len(rest[w])) /\ Fail(w)
  /\ logged' = logged \cup {<<fd[w], w>>}
  /\ Same /\ UNCHANGED <<dir, name, wide, made, torn>>
\* the disk is full: a part is written, and the next call may fail or not
Short(w) == \E k \in 1 .. (Len(rest[w]) - 1) :
  /\ pc[w] = "write" /\ torn < MaxTorn /\ torn' = torn + 1 /\ Extend(w, k)
  /\ \/ rest' = [rest EXCEPT ![w] = SubSeq(@, k + 1, Len(@))] /\ UNCHANGED <<pc, fd>>
     \/ Fail(w)
  /\ Same /\ UNCHANGED <<dir, name, wide, made, logged>>
\* a write fails whole, or the process is killed
Killed(w) == pc[w] # "idle" /\ Fail(w) /\ Same /\ UNCHANGED <<store, made, torn, logged>>
Writer(w) == Log(w) \/ Open(w) \/ MakeDir(w) \/ GiveUp(w) \/ Check(w) \/ Write(w) \/ Short(w) \/ Killed(w)

-----------------------------------------------------------------------------
(* trash log *)

Quiet == UNCHANGED <<store, writer, asked, made, torn, removals, logged>>
Respond(answer) == rpc' = "done" /\ lines' = answer
\* read_log_file
ReadOpen ==
  /\ rpc = "start" /\ Quiet
  /\ IF name = None
     THEN Respond(<<>>) /\ UNCHANGED <<rfd, end, position, remaining, reversed>>
     ELSE /\ rpc' = "scan" /\ rfd' = name /\ end' = Len(data[name]) /\ position' = end'
          /\ UNCHANGED <<remaining, reversed, lines>>

\* a newline between two records, at index i of the file
Separates(i, bytes) == bytes[i] = NL /\ i # end
Below == IF position < Chunk THEN 0 ELSE position - Chunk
\* the newline at which the reader has seen enough, if it is in this chunk
Stop(bytes) ==
  LET seps == {i \in (Below + 1) .. position : Separates(i, bytes)}
  IN {i \in seps : Cardinality({j \in seps : j >= i}) = remaining}
Gathered(bytes, from) == SubSeq(bytes, from, position) \o reversed
\* str::lines: what a newline ends, and the rest unless it is empty
SplitLines(bytes) ==
  LET ends == {i \in DOMAIN bytes : bytes[i] = NL} \cup ({Len(bytes)} \ {0})
      Begin(i) == 1 + Max({0} \cup {j \in ends : j < i})
      Body(i) == SubSeq(bytes, Begin(i), IF bytes[i] = NL THEN i - 1 ELSE i)
  IN [n \in 1 .. Cardinality(ends) |-> Body(CHOOSE i \in ends : Cardinality({j \in ends : j <= i}) = n)]
\* read_log_tail: one chunk, from the end towards the beginning
ReadChunk ==
  /\ rpc = "scan" /\ position > 0 /\ Quiet /\ UNCHANGED <<rfd, end>>
  /\ LET bytes == data[rfd] IN
     IF Stop(bytes) = {}
     THEN /\ position' = Below /\ reversed' = Gathered(bytes, Below + 1)
          /\ remaining' = remaining
               - Cardinality({i \in (Below + 1) .. position : Separates(i, bytes)})
          /\ UNCHANGED <<rpc, lines>>
     ELSE /\ \E i \in Stop(bytes) : Respond(SplitLines(Gathered(bytes, i + 1)))
          /\ UNCHANGED <<position, remaining, reversed>>
ReadAll ==
  /\ rpc = "scan" /\ position = 0 /\ Respond(SplitLines(reversed)) /\ Quiet
  /\ UNCHANGED <<rfd, end, position, remaining, reversed>>
Reader == ReadOpen \/ ReadChunk \/ ReadAll

\* the user removes the log, or the directory of what trashd keeps
RemoveLog ==
  /\ removals < MaxRemovals /\ removals' = removals + 1 /\ dir /\ dir' \in BOOLEAN
  /\ name' = None
  /\ UNCHANGED <<data, wide, writer, reader, made, torn, logged>>

Init ==
  /\ dir \in BOOLEAN /\ torn = 0 /\ removals = 0 /\ made = 0 /\ logged = {}
  \* a log of an older release
  /\ \/ dir /\ name = 1 /\ data = <<<<"old", NL>>>> /\ wide = <<TRUE>>
     \/ name = None /\ data = <<>> /\ wide = <<>>
  /\ pc = [w \in Writers |-> "idle"] /\ fd = [w \in Writers |-> None]
  /\ rest = [w \in Writers |-> <<>>]
  /\ rpc = "start" /\ rfd = None /\ end = 0 /\ position = 0 /\ reversed = <<>> /\ lines = <<>>
  /\ asked \in 1 .. MaxLines /\ remaining = asked

Next == (\E w \in Writers : Writer(w)) \/ Reader \/ RemoveLog
\* trash log runs on; the others may stop anywhere
Spec == Init /\ [][Next]_vars /\ WF_vars(Reader)

-----------------------------------------------------------------------------
(* Properties *)

Records == {<<"old">>} \cup {Front(Line(w, m)) : w \in Writers, m \in Messages}

\* Types; a reader never looks beyond the length it has seen.
TypeOK ==
  /\ DOMAIN wide = DOMAIN data /\ name \in DOMAIN data \cup {None}
  /\ position <= end /\ remaining \in 1 .. MaxLines
  /\ rfd # None => end <= Len(data[rfd])

\* One call is one line, whatever its fields hold and whoever else writes: each write that
\* was cut short spoils no more than its own line and the one it is in the middle of.
Spoilt(f) == SelectSeq(SplitLines(data[f]), LAMBDA l : l \notin Records)
Whole == \A f \in DOMAIN data : Len(Spoilt(f)) <= 2 * torn

\* What a process of this release has logged nobody else can read.
Private == \A l \in logged : ~wide[l[1]]

\* The reader answers the last lines of the log as it was when it was opened, whole,
\* although others append to it, or remove it.
Before == SplitLines(SubSeq(data[rfd], 1, end))
Exact == rpc = "done" /\ rfd # None =>
  lines = SubSeq(Before, 1 + Max({0, Len(Before) - asked}), Len(Before))

=============================================================================
