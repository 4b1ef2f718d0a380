-------------------------- MODULE TerminalCapture --------------------------
(***************************************************************************)
(* The capture of a terminal's commands (pty/mod.rs, pty/stream.rs).  The  *)
(* shell prints a start marker before a command and runs `pty-proxy        *)
(* report` after it, which leaves the command's metadata in a file and     *)
(* prints the end marker.  The proxy reads what the shell prints, in       *)
(* chunks of any size and as late as it likes, and appends one entry to    *)
(* the session log for each end marker it finds a new report for.          *)
(***************************************************************************)
EXTENDS MarkerStream

CONSTANTS
  Outputs,    \* what a command may print
  MaxLines,   \* bound on the lines the user enters
  MaxFaults,  \* bound on failing writes of files
  PtyBuffer,  \* what the pty holds before the shell's writes wait
  Absent,     \* no report in the file
  Partial     \* a report not written to its end

ASSUME BoundsAssumption == {MaxLines, MaxFaults, PtyBuffer} \subseteq Nat
ASSUME OutputsAssumption == Outputs \subseteq Seq(Symbols)

VARIABLES
  shell,     \* where the shell is
  hist,      \* number of the last line in the shell's history; 0 for none
  printed,   \* what the shell printed so far
  pending,   \* the report's file
  taken,     \* how much of it the proxy has read
  parser,    \* its Stream
  recorder,  \* its Recorder, in the middle of an end marker
  last,      \* SessionState.last_command_id
  log,       \* the session log
  torn,      \* its last line was cut short
  lines,     \* lines left to enter
  faults,    \* failures left
  \* for the properties:
  marks,     \* the markers printed: kind, where they stop, and their command
  late       \* the open block's start came in a chunk that went past an end

vars == <<shell, hist, printed, pending, taken, parser, recorder, last, log, torn,
          lines, faults, marks, late>>

shellVars == <<shell, hist, printed, lines, marks>>
proxyVars == <<taken, parser, recorder, last, log, torn, late>>

Commands == 0..(MaxLines + 1)

\* No report, and one cut short, are not taken for a command's.
ASSUME ReportsAssumption == Absent # Partial /\ {Absent, Partial} \cap Commands = {}

Idle == [of |-> Absent]
Fail == faults > 0 /\ faults' = faults - 1

-----------------------------------------------------------------------------
(* The shell: its hooks (terminal/init.rs) and the report they run.        *)

At(pc, next) == shell = pc /\ shell' = next
Emit(symbols) ==
  /\ Len(printed) + Len(symbols) <= taken + PtyBuffer
  /\ printed' = printed \o symbols

PrintMarker(kind) ==
  /\ Emit(Marker(kind))
  /\ marks' = Append(marks, [kind |-> kind, stop |-> Len(printed'), of |-> hist])

\* report creates the file, which empties the one before, ...
OpenReport ==
  /\ At("hook", "reporting")
  /\ pending' = Partial
  /\ UNCHANGED <<hist, printed, lines, faults, marks, proxyVars>>

\* ... fills it, ...
WriteReport ==
  /\ At("reporting", "reported")
  /\ pending' = IF pending = Partial THEN hist ELSE pending
  /\ UNCHANGED <<hist, printed, lines, faults, marks, proxyVars>>

\* ... and only then prints the end marker.
CloseBlock ==
  /\ At("reported", "prompt")
  /\ PrintMarker("D")
  /\ UNCHANGED <<hist, pending, lines, faults, proxyVars>>

\* report stops before its marker.
FailReport ==
  /\ Fail
  /\ At("reporting", "prompt")
  /\ UNCHANGED <<hist, printed, pending, lines, marks, proxyVars>>

PrintPrompt ==
  /\ At("prompt", "input")
  /\ Emit(<<"prompt">>)
  /\ UNCHANGED <<hist, pending, lines, faults, marks, proxyVars>>

\* An empty line runs the prompt's hook again and nothing else.
EnterNothing ==
  /\ lines > 0
  /\ lines' = lines - 1
  /\ At("input", "hook")
  /\ UNCHANGED <<hist, printed, pending, faults, marks, proxyVars>>

\* A command opens its block; the history may leave it out.
EnterCommand ==
  /\ lines > 0
  /\ lines' = lines - 1
  /\ At("input", "running")
  /\ hist' \in {hist, hist + 1}
  /\ Emit(Marker("C"))
  /\ marks' = Append(marks, [kind |-> "C", stop |-> Len(printed'), of |-> hist'])
  /\ UNCHANGED <<pending, faults, proxyVars>>

Run(output) ==
  /\ At("running", "hook")
  /\ Emit(output)
  /\ UNCHANGED <<hist, pending, lines, faults, marks, proxyVars>>

-----------------------------------------------------------------------------
(* The proxy: pump and its Recorder.                                       *)

ReadMarks(n) == {m \in ToSet(marks) : m.stop \in (taken + 1)..n}

\* All that a chunk completed is handled before the next is read.
Read(n) ==
  /\ recorder = Idle
  /\ parser.ends = 0
  /\ taken' = n
  /\ parser' = Push(parser, SubSeq(printed, taken + 1, n))
  /\ late' = \/ \E m \in ReadMarks(n) : m.kind = "D" /\ m.stop < n
             \/ late /\ \A m \in ReadMarks(n) : m.kind # "C"
  /\ UNCHANGED <<pending, recorder, last, log, torn, faults, shellVars>>

\* A block has ended: its output is taken and the report's file read, ...
HandleEnd ==
  /\ recorder = Idle
  /\ parser.ends > 0
  /\ parser' = TakeOutput(parser)
  /\ recorder' = IF pending = Absent THEN Idle
                 ELSE [of |-> pending, output |-> parser.buf]
  /\ UNCHANGED <<pending, taken, last, log, torn, late, faults, shellVars>>

\* A slip: whatever the prompt's hook reports is new.
AlwaysRecord(id) == id \notin {Partial, 0}

\* should_record, for shells that number their commands.
ShouldRecord(id) == id \notin {Partial, 0, last}

\* ... then the file is removed, and then the report believed.
RemoveReport(record) ==
  /\ recorder # Idle
  /\ ShouldRecord(recorder.of) = record
  /\ pending' = Absent
  /\ recorder' = Idle
  /\ UNCHANGED <<taken, parser, late, shellVars>>

Skip == RemoveReport(FALSE) /\ UNCHANGED <<last, log, torn, faults>>

\* append_entry: a log with a line that cannot be read is thrown away first.
Appended == Append(IF torn THEN <<>> ELSE log, recorder)

Record ==
  /\ RemoveReport(TRUE)
  /\ log' = Appended /\ torn' = FALSE
  /\ last' = recorder.of
  /\ UNCHANGED faults

\* The log, its line, or the state beside it cannot be written.
FailRecord ==
  /\ RemoveReport(TRUE)
  /\ Fail
  /\ \/ UNCHANGED <<log, torn>>
     \/ torn' = TRUE /\ log' = Front(Appended)
     \/ torn' = FALSE /\ log' = Appended
  /\ UNCHANGED last

-----------------------------------------------------------------------------
Init ==
  /\ shell = "hook"
  /\ hist \in {0, 1}      \* a history file left by an earlier shell, or none
  /\ printed = <<>>
  /\ pending = Absent
  /\ taken = 0
  /\ parser = Fresh
  /\ recorder = Idle
  /\ last = Absent
  /\ log = <<>>
  /\ torn = FALSE
  /\ lines = MaxLines
  /\ faults = MaxFaults
  /\ marks = <<>>
  /\ late = FALSE

Shell ==
  \/ OpenReport \/ WriteReport \/ CloseBlock \/ FailReport \/ PrintPrompt
  \/ EnterNothing \/ EnterCommand
  \/ \E output \in Outputs : Run(output)

Proxy ==
  \/ \E n \in (taken + 1)..Len(printed) : Read(n)
  \/ HandleEnd \/ Skip \/ Record \/ FailRecord

Next == Shell \/ Proxy

Spec == Init /\ [][Next]_vars

-----------------------------------------------------------------------------
\* The state keeps its types; neither the open block nor the sequence being
\* parsed outgrows its cap (stream.rs MAX_BLOCK_BYTES, MAX_OSC_PAYLOAD).
TypeOK ==
  /\ shell \in {"hook", "reporting", "reported", "prompt", "input", "running"}
  /\ hist \in Commands
  /\ printed \in Seq(Symbols)
  /\ pending \in {Absent, Partial} \union Commands
  /\ taken \in 0..Len(printed)
  /\ ParserOK(parser)
  /\ recorder # Idle => recorder.of \in {Partial} \union Commands
  /\ last \in {Absent} \union Commands /\ torn \in BOOLEAN
  /\ lines \in 0..MaxLines /\ faults \in 0..MaxFaults

\* A command is recorded once, however often the prompt's hook reports it and
\* however late the proxy reads; only a state that could not be saved may give
\* its command a second entry (mod.rs should_record).
RecordedOnce ==
  \A i, j \in DOMAIN log : i < j =>
    \/ log[i].of < log[j].of
    \/ log[i].of = log[j].of /\ faults < MaxFaults

\* As long as the proxy reads an end marker before the shell prints more, what
\* it records is the command of that very report and, unless the command left
\* an escape sequence open, exactly what it printed since its start marker, cut
\* to the cap (mod.rs Pending; stream.rs MAX_BLOCK_BYTES).
BlockOf(k) == SubSeq(printed, marks[k - 1].stop + 1, marks[k].stop - Len(Marker("D")))

Closed(output) == Push(Fresh, output).mode = "ground"

ReadInTime(k) ==
  /\ recorder # Idle /\ ~late
  /\ k > 1 /\ marks[k - 1].kind = "C" /\ marks[k].kind = "D" /\ marks[k].stop = taken
  /\ shell \in {"prompt", "input", "hook"} /\ faults = MaxFaults
  /\ Closed(BlockOf(k))

OwnBlock ==
  LET k == Len(marks) IN
    ReadInTime(k) =>
      /\ recorder.of = marks[k].of
      /\ recorder.output = SubSeq(BlockOf(k), 1, Min({MaxBlock, Len(BlockOf(k))}))
=============================================================================
