---------------------------- MODULE MarkerStream ----------------------------
(***************************************************************************)
(* The parser of the shell's block markers (pty/stream.rs).  It eats the   *)
(* terminal's bytes one at a time, in chunks of any size, and keeps the    *)
(* output of the open block with the marker being read at its end.         *)
(*                                                                         *)
(* A marker is ESC ] payload ESC \ ; the payloads 133;C and 133;D are one  *)
(* symbol each, "C" and "D".                                               *)
(***************************************************************************)
EXTENDS Naturals, Sequences, SequencesExt

CONSTANTS
  MaxBlock,  \* MAX_BLOCK_BYTES
  MaxOsc     \* MAX_OSC_PAYLOAD

ASSUME CapsAssumption == MaxBlock \in Nat /\ MaxOsc \in Nat \ {0}

\* "out" is a command's output, "prompt" the prompt and the echoed line.
Symbols == {"esc", "]", "bel", "\\", "C", "D", "out", "prompt"}

Marker(kind) == <<"esc", "]", kind, "esc", "\\">>

Modes == {"ground", "esc", "osc", "oscEsc"}

Fresh == [mode |-> "ground", payload |-> <<>>, seqStart |-> 0,
          buf |-> <<>>, inCommand |-> FALSE, ends |-> 0]

Go(p, mode) == [p EXCEPT !.mode = mode]

\* A slip: the cap is forgotten.
KeptWhole(p, byte) == IF p.inCommand THEN [p EXCEPT !.buf = Append(@, byte)] ELSE p

Kept(p, byte) ==
  IF p.inCommand /\ Len(p.buf) < MaxBlock
    THEN [p EXCEPT !.buf = Append(@, byte)] ELSE p

\* A payload is complete: the start of a block clears what came before, its
\* end cuts the marker off the output.  Only ends are counted as events: all
\* that the start's event does is to start a clock.
Finish(p) ==
  LET q == [p EXCEPT !.mode = "ground", !.payload = <<>>]
  IN CASE p.payload = <<"C">> ->
            [q EXCEPT !.buf = <<>>, !.inCommand = TRUE]
       [] p.payload = <<"D">> ->
            [q EXCEPT !.buf = IF p.inCommand THEN SubSeq(@, 1, p.seqStart) ELSE @,
                      !.ends = @ + 1]
       [] OTHER -> q

Feed(p, byte) ==
  LET q == Kept(p, byte)
  IN CASE q.mode = "ground" ->
            IF byte = "esc" THEN [Go(q, "esc") EXCEPT !.seqStart = Len(p.buf)] ELSE q
       [] q.mode = "esc" ->
            IF byte = "]" THEN [Go(q, "osc") EXCEPT !.payload = <<>>] ELSE Go(q, "ground")
       [] q.mode = "osc" ->
            CASE byte = "bel" -> Finish(q)
              [] byte = "esc" -> Go(q, "oscEsc")
              [] byte \notin {"bel", "esc"} /\ Len(q.payload) < MaxOsc ->
                   [q EXCEPT !.payload = Append(@, byte)]
              [] OTHER -> [Go(q, "ground") EXCEPT !.payload = <<>>]
       [] q.mode = "oscEsc" ->
            IF byte = "\\" THEN Finish(q) ELSE Go(q, "osc")

\* The parser after each byte of a chunk.
Eaten(p, bytes) ==
  LET eaten[i \in 0..Len(bytes)] == IF i = 0 THEN p ELSE Feed(eaten[i - 1], bytes[i])
  IN eaten

\* A chunk: its events are handed over once all of it is eaten.
Push(p, bytes) == Eaten(p, bytes)[Len(bytes)]

\* A slip: the parser is reset with its block.
ParserReset(p) == [Fresh EXCEPT !.ends = p.ends - 1]

\* One end is handled: the block is closed and its output handed over.
TakeOutput(p) == [p EXCEPT !.buf = <<>>, !.inCommand = FALSE, !.ends = @ - 1]

ParserOK(p) ==
  /\ p \in [mode : Modes, payload : Seq(Symbols), seqStart : 0..MaxBlock,
            buf : Seq(Symbols), inCommand : BOOLEAN, ends : Nat]
  /\ Len(p.buf) <= MaxBlock
  /\ Len(p.payload) <= MaxOsc
=============================================================================
