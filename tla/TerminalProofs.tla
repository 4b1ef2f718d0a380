--------------------------- MODULE TerminalProofs ---------------------------
(* The capture of a terminal's commands, for any outputs, caps, numbers of  *)
(* lines and failures.                                                      *)
EXTENDS TerminalCapture, StepInduction

-----------------------------------------------------------------------------
(* The parser, byte by byte.                                               *)

Parser(mode, payload, seqStart, buf, inCommand, ends) ==
  [mode |-> mode, payload |-> payload, seqStart |-> seqStart, buf |-> buf,
   inCommand |-> inCommand, ends |-> ends]

\* An open block holds all that was read before the marker being read.
Parsers ==
  {p \in [mode : Modes, payload : Seq(Symbols), seqStart : 0..MaxBlock,
          buf : Seq(Symbols), inCommand : BOOLEAN, ends : Nat] :
     /\ Len(p.buf) <= MaxBlock /\ Len(p.payload) <= MaxOsc
     /\ p.inCommand /\ p.mode # "ground" => p.seqStart <= Len(p.buf)}

LEMMA ParserForm ==
  ASSUME NEW p \in Parsers
  PROVE  /\ p = Parser(p.mode, p.payload, p.seqStart, p.buf, p.inCommand, p.ends)
         /\ p.mode \in Modes /\ p.payload \in Seq(Symbols) /\ p.seqStart \in Nat
         /\ p.buf \in Seq(Symbols) /\ p.inCommand \in BOOLEAN /\ p.ends \in Nat
         /\ Len(p.buf) \in Nat /\ Len(p.payload) \in Nat
         /\ p.seqStart <= MaxBlock /\ Len(p.buf) <= MaxBlock /\ Len(p.payload) <= MaxOsc
         /\ p.inCommand /\ p.mode # "ground" => p.seqStart <= Len(p.buf)
<1>1. p \in [mode : Modes, payload : Seq(Symbols), seqStart : 0..MaxBlock,
             buf : Seq(Symbols), inCommand : BOOLEAN, ends : Nat]
  BY DEF Parsers
<1>2. p = Parser(p.mode, p.payload, p.seqStart, p.buf, p.inCommand, p.ends)
  BY <1>1 DEF Parser
<1>3. QED
  BY <1>1, <1>2, CapsAssumption DEF Parsers

LEMMA ParserFields ==
  ASSUME NEW mode, NEW payload, NEW seqStart, NEW buf, NEW inCommand, NEW ends
  PROVE  LET p == Parser(mode, payload, seqStart, buf, inCommand, ends)
         IN /\ p.mode = mode /\ p.payload = payload /\ p.seqStart = seqStart /\ p.buf = buf
            /\ p.inCommand = inCommand /\ p.ends = ends
BY DEF Parser

LEMMA ParserTypes ==
  ASSUME NEW mode \in Modes, NEW payload \in Seq(Symbols), NEW seqStart \in Nat,
         NEW buf \in Seq(Symbols), NEW inCommand \in BOOLEAN, NEW ends \in Nat,
         seqStart <= MaxBlock, Len(buf) <= MaxBlock, Len(payload) <= MaxOsc,
         inCommand /\ mode # "ground" => seqStart <= Len(buf)
  PROVE  Parser(mode, payload, seqStart, buf, inCommand, ends) \in Parsers
<1>1. Parser(mode, payload, seqStart, buf, inCommand, ends)
        \in [mode : Modes, payload : Seq(Symbols), seqStart : 0..MaxBlock,
             buf : Seq(Symbols), inCommand : BOOLEAN, ends : Nat]
  BY CapsAssumption DEF Parser
<1>2. QED
  BY <1>1, ParserFields DEF Parsers

LEMMA FreshTypes == Fresh \in Parsers
<1>1. Fresh = Parser("ground", <<>>, 0, <<>>, FALSE, 0)
  BY DEF Fresh, Parser
<1>2. /\ "ground" \in Modes /\ <<>> \in Seq(Symbols) /\ 0 \in Nat /\ FALSE \in BOOLEAN
      /\ 0 <= MaxBlock /\ Len(<<>>) <= MaxBlock /\ Len(<<>>) <= MaxOsc
  BY CapsAssumption DEF Modes
<1>3. Parser("ground", <<>>, 0, <<>>, FALSE, 0) \in Parsers
  BY <1>2, ParserTypes
<1>4. QED
  BY <1>1, <1>3

\* What a byte adds to the open block.
Buffered(p, byte) ==
  IF p.inCommand /\ Len(p.buf) < MaxBlock THEN Append(p.buf, byte) ELSE p.buf

LEMMA BufferedTypes ==
  ASSUME NEW p \in Parsers, NEW byte \in Symbols
  PROVE  /\ Buffered(p, byte) \in Seq(Symbols) /\ Len(Buffered(p, byte)) \in Nat
         /\ Len(p.buf) <= Len(Buffered(p, byte)) /\ Len(Buffered(p, byte)) <= MaxBlock
<1>1. CASE p.inCommand /\ Len(p.buf) < MaxBlock
  <2>1. Append(p.buf, byte) \in Seq(Symbols) /\ Len(Append(p.buf, byte)) = Len(p.buf) + 1
    BY ParserForm
  <2>2. QED
    BY <1>1, <2>1, ParserForm, CapsAssumption DEF Buffered
<1>2. CASE ~(p.inCommand /\ Len(p.buf) < MaxBlock)
  BY <1>2, ParserForm DEF Buffered
<1>3. QED
  BY <1>1, <1>2

LEMMA KeptForm ==
  ASSUME NEW p \in Parsers, NEW byte \in Symbols
  PROVE  LET q == Kept(p, byte)
         IN /\ q = Parser(p.mode, p.payload, p.seqStart, Buffered(p, byte), p.inCommand, p.ends)
            /\ q \in Parsers
<1>1. Kept(p, byte) =
        Parser(p.mode, p.payload, p.seqStart, Buffered(p, byte), p.inCommand, p.ends)
  <2>1. CASE p.inCommand /\ Len(p.buf) < MaxBlock
    <3>1. PICK buf : buf = Append(p.buf, byte)
      OBVIOUS
    <3>2. Kept(p, byte) = [p EXCEPT !.buf = buf] /\ Buffered(p, byte) = buf
      BY <2>1, <3>1 DEF Kept, Buffered
    <3>3. p = Parser(p.mode, p.payload, p.seqStart, p.buf, p.inCommand, p.ends)
      BY ParserForm
    <3>4. QED
      BY <3>2, <3>3 DEF Parser
  <2>2. CASE ~(p.inCommand /\ Len(p.buf) < MaxBlock)
    BY <2>2, ParserForm DEF Kept, Buffered
  <2>3. QED
    BY <2>1, <2>2
<1>2. Parser(p.mode, p.payload, p.seqStart, Buffered(p, byte), p.inCommand, p.ends) \in Parsers
  <2>1. p.inCommand /\ p.mode # "ground" => p.seqStart <= Len(Buffered(p, byte))
    BY ParserForm, BufferedTypes
  <2>2. QED
    BY <2>1, ParserForm, BufferedTypes, ParserTypes
<1>3. QED
  BY <1>1, <1>2

LEMMA GoForm ==
  ASSUME NEW p \in Parsers, NEW mode, NEW seqStart, NEW payload
  PROVE  /\ Go(p, mode) = Parser(mode, p.payload, p.seqStart, p.buf, p.inCommand, p.ends)
         /\ [Go(p, mode) EXCEPT !.seqStart = seqStart]
              = Parser(mode, p.payload, seqStart, p.buf, p.inCommand, p.ends)
         /\ [Go(p, mode) EXCEPT !.payload = payload]
              = Parser(mode, payload, p.seqStart, p.buf, p.inCommand, p.ends)
         /\ [p EXCEPT !.payload = payload]
              = Parser(p.mode, payload, p.seqStart, p.buf, p.inCommand, p.ends)
<1>1. p = Parser(p.mode, p.payload, p.seqStart, p.buf, p.inCommand, p.ends)
  BY ParserForm
<1>2. PICK q : q = Go(p, mode)
  OBVIOUS
<1>3. q = Parser(mode, p.payload, p.seqStart, p.buf, p.inCommand, p.ends)
  BY <1>1, <1>2 DEF Go, Parser
<1>4. [q EXCEPT !.seqStart = seqStart]
        = Parser(mode, p.payload, seqStart, p.buf, p.inCommand, p.ends)
  BY <1>3 DEF Parser
<1>5. [q EXCEPT !.payload = payload]
        = Parser(mode, payload, p.seqStart, p.buf, p.inCommand, p.ends)
  BY <1>3 DEF Parser
<1>6. [p EXCEPT !.payload = payload]
        = Parser(p.mode, payload, p.seqStart, p.buf, p.inCommand, p.ends)
  BY <1>1 DEF Parser
<1>7. QED
  BY <1>2, <1>3, <1>4, <1>5, <1>6

LEMMA FinishForm ==
  ASSUME NEW p \in Parsers
  PROVE  /\ p.payload = <<"C">> =>
              Finish(p) = Parser("ground", <<>>, p.seqStart, <<>>, TRUE, p.ends)
         /\ p.payload = <<"D">> =>
              Finish(p) = Parser("ground", <<>>, p.seqStart,
                                 IF p.inCommand THEN SubSeq(p.buf, 1, p.seqStart) ELSE p.buf,
                                 p.inCommand, p.ends + 1)
         /\ p.payload \notin {<<"C">>, <<"D">>} =>
              Finish(p) = Parser("ground", <<>>, p.seqStart, p.buf, p.inCommand, p.ends)
<1>1. PICK q : q = [p EXCEPT !.mode = "ground", !.payload = <<>>]
  OBVIOUS
<1>2. q = Parser("ground", <<>>, p.seqStart, p.buf, p.inCommand, p.ends)
  <2>1. p = Parser(p.mode, p.payload, p.seqStart, p.buf, p.inCommand, p.ends)
    BY ParserForm
  <2>2. QED
    BY <1>1, <2>1 DEF Parser
<1>3. q.buf = p.buf /\ q.ends = p.ends
  BY <1>2, ParserFields
<1>4. CASE p.payload = <<"C">>
  <2>1. Finish(p) = [q EXCEPT !.buf = <<>>, !.inCommand = TRUE] /\ p.payload # <<"D">>
    BY <1>1, <1>4 DEF Finish
  <2>2. QED
    BY <1>2, <1>4, <2>1 DEF Parser
<1>5. CASE p.payload = <<"D">>
  <2>1. PICK buf : buf = IF p.inCommand THEN SubSeq(p.buf, 1, p.seqStart) ELSE p.buf
    OBVIOUS
  <2>2. p.payload # <<"C">>
    BY <1>5
  <2>3. Finish(p) = [q EXCEPT !.buf = buf, !.ends = p.ends + 1]
    BY <1>1, <1>3, <1>5, <2>1, <2>2 DEF Finish
  <2>4. ASSUME NEW ends
        PROVE  [q EXCEPT !.buf = buf, !.ends = ends]
                 = Parser("ground", <<>>, p.seqStart, buf, p.inCommand, ends)
    <3>1. PICK r : r = [q EXCEPT !.buf = buf]
      OBVIOUS
    <3>2. r = Parser("ground", <<>>, p.seqStart, buf, p.inCommand, p.ends)
      BY <1>2, <3>1 DEF Parser
    <3>3. [r EXCEPT !.ends = ends] = Parser("ground", <<>>, p.seqStart, buf, p.inCommand, ends)
      BY <3>2 DEF Parser
    <3>4. QED
      BY <3>1, <3>3
  <2>5. QED
    BY <1>5, <2>1, <2>2, <2>3, <2>4
<1>6. CASE p.payload \notin {<<"C">>, <<"D">>}
  BY <1>1, <1>2, <1>6 DEF Finish
<1>7. QED
  BY <1>4, <1>5, <1>6

LEMMA FinishTypes ==
  ASSUME NEW p \in Parsers, p.mode # "ground"
  PROVE  Finish(p) \in Parsers
<1>1. "ground" \in Modes /\ <<>> \in Seq(Symbols) /\ Len(<<>>) = 0 /\ 0 <= MaxBlock /\ 0 <= MaxOsc
  BY CapsAssumption DEF Modes
<1>2. CASE p.payload = <<"C">>
  <2>1. Parser("ground", <<>>, p.seqStart, <<>>, TRUE, p.ends) \in Parsers
    BY <1>1, ParserForm, ParserTypes
  <2>2. QED
    BY <1>2, <2>1, FinishForm
<1>3. CASE p.payload = <<"D">>
  <2>1. PICK buf : buf = IF p.inCommand THEN SubSeq(p.buf, 1, p.seqStart) ELSE p.buf
    OBVIOUS
  <2>2. buf \in Seq(Symbols) /\ Len(buf) <= MaxBlock
    <3>1. CASE p.inCommand
      <4>1. p.seqStart \in Nat /\ p.seqStart <= Len(p.buf) /\ p.buf \in Seq(Symbols)
        BY <3>1, ParserForm
      <4>2. SubSeq(p.buf, 1, p.seqStart) \in Seq(Symbols)
            /\ Len(SubSeq(p.buf, 1, p.seqStart)) = p.seqStart
        BY <4>1
      <4>3. QED
        BY <2>1, <3>1, <4>2, ParserForm
    <3>2. CASE ~p.inCommand
      BY <2>1, <3>2, ParserForm
    <3>3. QED
      BY <3>1, <3>2
  <2>3. p.ends + 1 \in Nat
    BY ParserForm
  <2>4. Parser("ground", <<>>, p.seqStart, buf, p.inCommand, p.ends + 1) \in Parsers
    BY <1>1, <2>2, <2>3, ParserForm, ParserTypes
  <2>5. QED
    BY <1>3, <2>1, <2>4, FinishForm
<1>4. CASE p.payload \notin {<<"C">>, <<"D">>}
  <2>1. Parser("ground", <<>>, p.seqStart, p.buf, p.inCommand, p.ends) \in Parsers
    BY <1>1, ParserForm, ParserTypes
  <2>2. QED
    BY <1>4, <2>1, FinishForm
<1>5. QED
  BY <1>2, <1>3, <1>4

(* A byte, by the mode it finds.  q is the parser with the byte in its block. *)
LEMMA FeedForm ==
  ASSUME NEW p \in Parsers, NEW byte \in Symbols, NEW q, q = Kept(p, byte)
  PROVE  /\ p.mode = "ground" =>
              Feed(p, byte) = IF byte = "esc"
                THEN Parser("esc", p.payload, Len(p.buf), Buffered(p, byte), p.inCommand, p.ends)
                ELSE q
         /\ p.mode = "esc" =>
              Feed(p, byte) = IF byte = "]"
                THEN Parser("osc", <<>>, p.seqStart, Buffered(p, byte), p.inCommand, p.ends)
                ELSE Parser("ground", p.payload, p.seqStart, Buffered(p, byte), p.inCommand, p.ends)
         /\ p.mode = "osc" =>
              Feed(p, byte) =
                IF byte = "bel" THEN Finish(q)
                ELSE IF byte = "esc"
                THEN Parser("oscEsc", p.payload, p.seqStart, Buffered(p, byte), p.inCommand, p.ends)
                ELSE IF Len(p.payload) < MaxOsc
                THEN Parser("osc", Append(p.payload, byte), p.seqStart, Buffered(p, byte),
                            p.inCommand, p.ends)
                ELSE Parser("ground", <<>>, p.seqStart, Buffered(p, byte), p.inCommand, p.ends)
         /\ p.mode = "oscEsc" =>
              Feed(p, byte) = IF byte = "\\" THEN Finish(q)
                ELSE Parser("osc", p.payload, p.seqStart, Buffered(p, byte), p.inCommand, p.ends)
<1>1. /\ q = Parser(p.mode, p.payload, p.seqStart, Buffered(p, byte), p.inCommand, p.ends)
      /\ q \in Parsers
  BY KeptForm
<1>2. /\ q.mode = p.mode /\ q.payload = p.payload /\ q.seqStart = p.seqStart
      /\ q.buf = Buffered(p, byte) /\ q.inCommand = p.inCommand /\ q.ends = p.ends
  BY <1>1, ParserFields
<1>3. CASE p.mode = "ground"
  <2>1. Feed(p, byte) = IF byte = "esc" THEN [Go(q, "esc") EXCEPT !.seqStart = Len(p.buf)] ELSE q
    BY <1>2, <1>3 DEF Feed
  <2>2. [Go(q, "esc") EXCEPT !.seqStart = Len(p.buf)]
          = Parser("esc", q.payload, Len(p.buf), q.buf, q.inCommand, q.ends)
    BY <1>1, GoForm
  <2>3. QED
    BY <1>2, <1>3, <2>1, <2>2
<1>4. CASE p.mode = "esc"
  <2>1. Feed(p, byte) = IF byte = "]" THEN [Go(q, "osc") EXCEPT !.payload = <<>>] ELSE Go(q, "ground")
    BY <1>2, <1>4 DEF Feed
  <2>2. /\ [Go(q, "osc") EXCEPT !.payload = <<>>]
               = Parser("osc", <<>>, q.seqStart, q.buf, q.inCommand, q.ends)
        /\ Go(q, "ground")
               = Parser("ground", q.payload, q.seqStart, q.buf, q.inCommand, q.ends)
    BY <1>1, GoForm
  <2>3. QED
    BY <1>2, <1>4, <2>1, <2>2
<1>5. CASE p.mode = "osc"
  <2>1. Feed(p, byte) =
          IF byte = "bel" THEN Finish(q)
          ELSE IF byte = "esc" THEN Go(q, "oscEsc")
          ELSE IF Len(q.payload) < MaxOsc THEN [q EXCEPT !.payload = Append(q.payload, byte)]
          ELSE [Go(q, "ground") EXCEPT !.payload = <<>>]
    <3>1. q.mode = "osc"
      BY <1>2, <1>5
    <3>2. QED
      BY <3>1 DEF Feed
  <2>2. /\ Go(q, "oscEsc")
               = Parser("oscEsc", q.payload, q.seqStart, q.buf, q.inCommand, q.ends)
        /\ [q EXCEPT !.payload = Append(q.payload, byte)]
               = Parser(q.mode, Append(q.payload, byte), q.seqStart, q.buf, q.inCommand, q.ends)
        /\ [Go(q, "ground") EXCEPT !.payload = <<>>]
               = Parser("ground", <<>>, q.seqStart, q.buf, q.inCommand, q.ends)
    BY <1>1, GoForm
  <2>3. QED
    BY <1>2, <1>5, <2>1, <2>2
<1>6. CASE p.mode = "oscEsc"
  <2>1. Feed(p, byte) = IF byte = "\\" THEN Finish(q) ELSE Go(q, "osc")
    BY <1>2, <1>6 DEF Feed
  <2>2. Go(q, "osc") = Parser("osc", q.payload, q.seqStart, q.buf, q.inCommand, q.ends)
    BY <1>1, GoForm
  <2>3. QED
    BY <1>2, <1>6, <2>1, <2>2
<1>7. QED
  BY <1>3, <1>4, <1>5, <1>6

LEMMA FeedTypes ==
  ASSUME NEW p \in Parsers, NEW byte \in Symbols
  PROVE  Feed(p, byte) \in Parsers
<1>1. PICK q, buf : q = Kept(p, byte) /\ buf = Buffered(p, byte)
  OBVIOUS
<1>2. /\ q \in Parsers /\ q = Parser(p.mode, p.payload, p.seqStart, buf, p.inCommand, p.ends)
      /\ buf \in Seq(Symbols) /\ Len(buf) \in Nat /\ Len(p.buf) <= Len(buf) /\ Len(buf) <= MaxBlock
  BY <1>1, KeptForm, BufferedTypes
<1>3. q.mode = p.mode
  BY <1>2, ParserFields
<1>4. {"ground", "esc", "osc", "oscEsc"} = Modes
  BY DEF Modes
<1>5. ASSUME NEW mode \in Modes, NEW payload \in Seq(Symbols), Len(payload) <= MaxOsc,
             mode # "ground" => p.mode # "ground"
      PROVE  Parser(mode, payload, p.seqStart, buf, p.inCommand, p.ends) \in Parsers
  <2>1. p.inCommand /\ mode # "ground" => p.seqStart <= Len(buf)
    BY <1>2, <1>5, ParserForm
  <2>2. QED
    BY <1>2, <1>5, <2>1, ParserForm, ParserTypes
<1>6. <<>> \in Seq(Symbols) /\ Len(<<>>) <= MaxOsc
  BY CapsAssumption
<1>7. p.payload \in Seq(Symbols) /\ Len(p.payload) <= MaxOsc /\ p.mode \in Modes
  BY ParserForm
<1>8. CASE p.mode = "ground"
  <2>1. Parser("esc", p.payload, Len(p.buf), buf, p.inCommand, p.ends) \in Parsers
    BY <1>2, <1>4, ParserForm, ParserTypes
  <2>2. Feed(p, byte) = IF byte = "esc"
          THEN Parser("esc", p.payload, Len(p.buf), buf, p.inCommand, p.ends) ELSE q
    BY <1>1, <1>8, FeedForm
  <2>3. QED
    BY <1>2, <2>1, <2>2
<1>9. CASE p.mode = "esc"
  <2>1. /\ Parser("osc", <<>>, p.seqStart, buf, p.inCommand, p.ends) \in Parsers
        /\ Parser("ground", p.payload, p.seqStart, buf, p.inCommand, p.ends) \in Parsers
    BY <1>4, <1>5, <1>6, <1>7, <1>9
  <2>2. QED
    BY <1>1, <1>9, <2>1, FeedForm
<1>10. CASE p.mode = "osc"
  <2>1. /\ Parser("oscEsc", p.payload, p.seqStart, buf, p.inCommand, p.ends) \in Parsers
        /\ Parser("ground", <<>>, p.seqStart, buf, p.inCommand, p.ends) \in Parsers
    BY <1>4, <1>5, <1>6, <1>7, <1>10
  <2>2. Len(p.payload) < MaxOsc =>
          Parser("osc", Append(p.payload, byte), p.seqStart, buf, p.inCommand, p.ends) \in Parsers
    <3>1. SUFFICES ASSUME Len(p.payload) < MaxOsc
                   PROVE  Parser("osc", Append(p.payload, byte), p.seqStart, buf,
                                 p.inCommand, p.ends) \in Parsers
      OBVIOUS
    <3>2. PICK payload : payload = Append(p.payload, byte)
      OBVIOUS
    <3>3. payload \in Seq(Symbols) /\ Len(payload) <= MaxOsc
      BY <1>7, <3>1, <3>2, CapsAssumption
    <3>4. QED
      BY <1>4, <1>5, <1>10, <3>2, <3>3
  <2>3. Finish(q) \in Parsers
    BY <1>2, <1>3, <1>10, FinishTypes
  <2>4. QED
    BY <1>1, <1>10, <2>1, <2>2, <2>3, FeedForm
<1>11. CASE p.mode = "oscEsc"
  <2>1. Parser("osc", p.payload, p.seqStart, buf, p.inCommand, p.ends) \in Parsers
    BY <1>4, <1>5, <1>7, <1>11
  <2>2. Finish(q) \in Parsers
    BY <1>2, <1>3, <1>11, FinishTypes
  <2>3. QED
    BY <1>1, <1>11, <2>1, <2>2, FeedForm
<1>12. QED
  BY <1>4, <1>7, <1>8, <1>9, <1>10, <1>11

(* What a chunk does is what each of its bytes does, one after the other. *)
LEMMA EatenSteps ==
  ASSUME NEW p \in Parsers, NEW bytes \in Seq(Symbols)
  PROVE  /\ Eaten(p, bytes)[0] = p
         /\ \A i \in 1..Len(bytes) :
              Eaten(p, bytes)[i] = Feed(Eaten(p, bytes)[i - 1], bytes[i])
         /\ \A i \in 0..Len(bytes) : Eaten(p, bytes)[i] \in Parsers
<1> DEFINE L == Len(bytes)
           Def(g) == [i \in 0..L |-> IF i = 0 THEN p ELSE Feed(g[i - 1], bytes[i])]
           step == [x \in Parsers \X (0..L) |->
                      IF x[2] = 0 THEN p ELSE Feed(x[1], bytes[x[2]])]
<1>1. L \in Nat /\ \A i \in 1..L : bytes[i] \in Symbols
  OBVIOUS
<1>2. step \in [Parsers \X (0..L) -> Parsers]
  <2>1. ASSUME NEW s \in Parsers, NEW i \in 0..L
        PROVE  (IF i = 0 THEN p ELSE Feed(s, bytes[i])) \in Parsers
    <3>1. i # 0 => i \in 1..L
      BY <1>1
    <3>2. QED
      BY <1>1, <3>1, FeedTypes
  <2>2. QED
    BY <2>1
<1>3. \A s \in Parsers, i \in 1..L : step[<<s, i>>] = Feed(s, bytes[i])
  BY <1>1
<1> HIDE DEF step
<1>4. PICK g \in [0..L -> Parsers] : Stepwise(g, 0, L, p, step)
  <2>1. 0 \in Int /\ L \in Int /\ 0 <= L
    BY <1>1
  <2> HIDE DEF L
  <2>2. QED
    BY <1>2, <2>1, Iterated
<1>5. g = Def(g)
  <2>1. \A i \in 0..L : i # 0 => i \in 1..L /\ i - 1 \in 0..L
    BY <1>1
  <2> HIDE DEF L
  <2>2. \A i \in 0..L : i # 0 => g[i] = Feed(g[i - 1], bytes[i])
    BY <1>3, <1>4, <2>1 DEF Stepwise
  <2>3. \A i \in 0..L : g[i] = IF i = 0 THEN p ELSE Feed(g[i - 1], bytes[i])
    BY <1>4, <2>2 DEF Stepwise
  <2>4. QED
    BY <2>3
<1>6. Eaten(p, bytes) = CHOOSE f : f = Def(f)
  BY DEF Eaten
<1> HIDE DEF Def
<1>7. Eaten(p, bytes) = Def(Eaten(p, bytes))
  BY <1>5, <1>6
<1> USE DEF Def
<1>8. Eaten(p, bytes)[0] = p
  <2>1. 0 \in 0..L
    BY <1>1
  <2>2. QED
    BY <1>7, <2>1
<1>9. \A i \in 1..L : Eaten(p, bytes)[i] = Feed(Eaten(p, bytes)[i - 1], bytes[i])
  <2>1. \A i \in 1..L : i \in 0..L /\ i # 0
    BY <1>1
  <2> HIDE DEF L
  <2>2. QED
    BY <1>7, <2>1
<1>10. \A i \in 0..L : Eaten(p, bytes)[i] \in Parsers
  <2> DEFINE T == {i \in 0..L : Eaten(p, bytes)[i] \in Parsers}
  <2>1. 0 \in T
    BY <1>1, <1>8
  <2>2. \A i \in 0..L : i # 0 /\ i - 1 \in T => i \in T
    BY <1>1, <1>9, FeedTypes
  <2>3. 0 \in Int /\ L \in Int
    BY <1>1
  <2> HIDE DEF T, L
  <2>4. 0..L \subseteq T
    BY <2>1, <2>2, <2>3, Upwards, ZenonT(30)
  <2>5. QED
    BY <2>4 DEF T
<1>11. QED
  BY <1>8, <1>9, <1>10

LEMMA PushTypes ==
  ASSUME NEW p \in Parsers, NEW bytes \in Seq(Symbols)
  PROVE  Push(p, bytes) \in Parsers
BY EatenSteps DEF Push

-----------------------------------------------------------------------------
(* Types.                                                                  *)

Entry == [of : Commands, output : Seq(Symbols)]
Found == [of : {Partial} \cup Commands, output : Seq(Symbols)]

ShellTypes ==
  /\ shell \in {"hook", "reporting", "reported", "prompt", "input", "running"}
  /\ hist \in Nat /\ lines \in 0..MaxLines /\ hist + lines <= MaxLines + 1
  /\ printed \in Seq(Symbols)

ProxyTypes ==
  /\ taken \in Nat /\ parser \in Parsers
  /\ recorder = Idle \/ recorder \in Found
  /\ last \in {Absent} \cup Commands /\ log \in Seq(Entry) /\ torn \in BOOLEAN

CaptureTypes ==
  /\ ShellTypes /\ ProxyTypes /\ taken <= Len(printed)
  /\ pending \in {Absent, Partial} \cup Commands /\ faults \in 0..MaxFaults

LEMMA HistTypes == ShellTypes => hist \in Commands /\ Len(printed) \in Nat
BY BoundsAssumption DEF ShellTypes, Commands

LEMMA IdleOrFound ==
  ASSUME NEW r \in Found
  PROVE  r # Idle
<1>1. "output" \in DOMAIN r /\ DOMAIN Idle = {"of"}
  BY DEF Found, Idle
<1>2. QED
  BY <1>1

LEMMA CaptureInit == Init => CaptureTypes
<1> SUFFICES ASSUME Init PROVE CaptureTypes
  OBVIOUS
<1>1. ShellTypes
  BY BoundsAssumption DEF Init, ShellTypes
<1>2. ProxyTypes
  <2>1. taken \in Nat /\ recorder = Idle /\ last = Absent /\ torn \in BOOLEAN
    BY DEF Init
  <2>2. parser \in Parsers
    BY FreshTypes DEF Init
  <2>3. log \in Seq(Entry)
    BY DEF Init
  <2>4. QED
    BY <2>1, <2>2, <2>3 DEF ProxyTypes
<1>3. QED
  BY <1>1, <1>2, BoundsAssumption DEF Init, CaptureTypes

LEMMA MarkerTypes ==
  ASSUME NEW kind \in {"C", "D"}
  PROVE  Marker(kind) \in Seq(Symbols) /\ Len(Marker(kind)) = 5
BY DEF Marker, Symbols

LEMMA EmitTypes ==
  ASSUME printed \in Seq(Symbols), NEW symbols \in Seq(Symbols), Emit(symbols)
  PROVE  /\ printed' \in Seq(Symbols) /\ Len(printed') = Len(printed) + Len(symbols)
         /\ Len(printed) \in Nat /\ Len(symbols) \in Nat
BY DEF Emit

LEMMA ShellKeepsTypes ==
  ASSUME CaptureTypes, Shell
  PROVE  CaptureTypes'
<1>0. ShellTypes /\ hist \in Commands /\ Len(printed) \in Nat
  BY HistTypes DEF CaptureTypes
<1>1. proxyVars' = proxyVars => ProxyTypes'
  BY DEF CaptureTypes, ProxyTypes, proxyVars
<1>2. CASE OpenReport
  BY <1>0, <1>1, <1>2 DEF OpenReport, At, CaptureTypes, ShellTypes, proxyVars
<1>3. CASE WriteReport
  BY <1>0, <1>1, <1>3 DEF WriteReport, At, CaptureTypes, ShellTypes, proxyVars
<1>4. CASE CloseBlock
  <2>1. printed' \in Seq(Symbols) /\ Len(printed') >= Len(printed)
    BY <1>0, <1>4, EmitTypes, MarkerTypes DEF CloseBlock, PrintMarker, ShellTypes
  <2>2. QED
    BY <1>0, <1>1, <1>4, <2>1 DEF CloseBlock, At, CaptureTypes, ShellTypes, ProxyTypes, proxyVars
<1>5. CASE FailReport
  BY <1>0, <1>1, <1>5, BoundsAssumption
  DEF FailReport, Fail, At, CaptureTypes, ShellTypes, proxyVars
<1>6. CASE PrintPrompt
  <2>1. PICK symbols : symbols = <<"prompt">>
    OBVIOUS
  <2>2. symbols \in Seq(Symbols) /\ Emit(symbols)
    BY <1>6, <2>1 DEF PrintPrompt, Symbols
  <2>3. printed' \in Seq(Symbols) /\ Len(printed') >= Len(printed)
    BY <1>0, <2>2, EmitTypes DEF ShellTypes
  <2>4. QED
    BY <1>0, <1>1, <1>6, <2>3 DEF PrintPrompt, At, CaptureTypes, ShellTypes, ProxyTypes, proxyVars
<1>7. CASE EnterNothing
  BY <1>0, <1>1, <1>7, BoundsAssumption
  DEF EnterNothing, At, CaptureTypes, ShellTypes, proxyVars
<1>8. CASE EnterCommand
  <2>1. printed' \in Seq(Symbols) /\ Len(printed') >= Len(printed)
    BY <1>0, <1>8, EmitTypes, MarkerTypes DEF EnterCommand, ShellTypes
  <2>2. hist' \in Nat /\ lines' \in 0..MaxLines /\ hist' + lines' <= MaxLines + 1
    BY <1>0, <1>8, BoundsAssumption DEF EnterCommand, ShellTypes
  <2>3. ShellTypes'
    BY <1>8, <2>1, <2>2 DEF EnterCommand, At, ShellTypes
  <2>4. QED
    BY <1>0, <1>1, <1>8, <2>1, <2>3 DEF EnterCommand, CaptureTypes, ProxyTypes, proxyVars
<1>9. ASSUME NEW output \in Outputs, Run(output) PROVE CaptureTypes'
  <2>1. printed' \in Seq(Symbols) /\ Len(printed') >= Len(printed)
    BY <1>0, <1>9, EmitTypes, OutputsAssumption DEF Run, ShellTypes
  <2>2. QED
    BY <1>0, <1>1, <1>9, <2>1 DEF Run, At, CaptureTypes, ShellTypes, ProxyTypes, proxyVars
<1>10. QED
  BY <1>2, <1>3, <1>4, <1>5, <1>6, <1>7, <1>8, <1>9 DEF Shell

LEMMA ChunkTypes ==
  ASSUME CaptureTypes, NEW n \in (taken + 1)..Len(printed)
  PROVE  /\ n \in Nat /\ taken < n /\ n <= Len(printed)
         /\ SubSeq(printed, taken + 1, n) \in Seq(Symbols)
         /\ Len(SubSeq(printed, taken + 1, n)) = n - taken
         /\ \A i \in 1..(n - taken) : SubSeq(printed, taken + 1, n)[i] = printed[taken + i]
<1>1. taken \in Nat /\ printed \in Seq(Symbols) /\ Len(printed) \in Nat
  BY HistTypes DEF CaptureTypes, ProxyTypes, ShellTypes
<1>2. n \in Nat /\ taken < n /\ n <= Len(printed)
  BY <1>1
<1>3. QED
  BY <1>1, <1>2

LEMMA EndsForm ==
  ASSUME NEW mode, NEW payload, NEW seqStart, NEW buf, NEW inCommand, NEW ends, NEW new
  PROVE  [Parser(mode, payload, seqStart, buf, inCommand, ends) EXCEPT !.ends = new]
           = Parser(mode, payload, seqStart, buf, inCommand, new)
BY DEF Parser

LEMMA TakeOutputTypes ==
  ASSUME NEW p \in Parsers, p.ends > 0
  PROVE  /\ TakeOutput(p) = Parser(p.mode, p.payload, p.seqStart, <<>>, FALSE, p.ends - 1)
         /\ TakeOutput(p) \in Parsers
<1>1. TakeOutput(p) = Parser(p.mode, p.payload, p.seqStart, <<>>, FALSE, p.ends - 1)
  <2>1. PICK ends, buf, open : ends = p.ends - 1 /\ buf = <<>> /\ open = FALSE
    OBVIOUS
  <2>2. p = Parser(p.mode, p.payload, p.seqStart, p.buf, p.inCommand, p.ends)
    BY ParserForm
  <2>3. PICK q : q = [p EXCEPT !.buf = buf, !.inCommand = open]
    OBVIOUS
  <2>4. q = Parser(p.mode, p.payload, p.seqStart, buf, open, p.ends)
    BY <2>2, <2>3 DEF Parser
  <2>5. [q EXCEPT !.ends = ends] = Parser(p.mode, p.payload, p.seqStart, buf, open, ends)
    BY <2>4, EndsForm
  <2>6. TakeOutput(p) = [q EXCEPT !.ends = ends]
    BY <2>1, <2>3 DEF TakeOutput
  <2>7. QED
    BY <2>1, <2>5, <2>6
<1>2. p.ends - 1 \in Nat
  BY ParserForm
<1>3. <<>> \in Seq(Symbols) /\ Len(<<>>) <= MaxBlock
  BY CapsAssumption
<1>4. /\ p.mode \in Modes /\ p.payload \in Seq(Symbols) /\ p.seqStart \in Nat
      /\ p.seqStart <= MaxBlock /\ Len(p.payload) <= MaxOsc /\ FALSE \in BOOLEAN
  BY ParserForm
<1>5. Parser(p.mode, p.payload, p.seqStart, <<>>, FALSE, p.ends - 1) \in Parsers
  BY <1>2, <1>3, <1>4, ParserTypes
<1>6. QED
  BY <1>1, <1>5

LEMMA AppendedTypes ==
  ASSUME CaptureTypes, recorder \in Entry
  PROVE  /\ Appended \in Seq(Entry) /\ Front(Appended) \in Seq(Entry)
         /\ Len(Appended) \in Nat \ {0} /\ Len(Front(Appended)) = Len(Appended) - 1
         /\ Appended[Len(Appended)] = recorder
         /\ \A i \in 1..(Len(Appended) - 1) :
              i \in DOMAIN log /\ Appended[i] = log[i] /\ Front(Appended)[i] = log[i]
<1>1. PICK old : old = IF torn THEN <<>> ELSE log
  OBVIOUS
<1>2. /\ old \in Seq(Entry) /\ Len(old) \in Nat
      /\ \A i \in 1..Len(old) : i \in DOMAIN log /\ old[i] = log[i]
  BY <1>1 DEF CaptureTypes, ProxyTypes
<1>3. Appended = Append(old, recorder)
  BY <1>1 DEF Appended
<1>4. Appended \in Seq(Entry) /\ Len(Appended) = Len(old) + 1
      /\ Appended[Len(old) + 1] = recorder /\ \A i \in 1..Len(old) : Appended[i] = old[i]
  BY <1>2, <1>3
<1>5. Front(Appended) = SubSeq(Appended, 1, Len(old))
  BY <1>2, <1>4 DEF Front
<1>6. Front(Appended) \in Seq(Entry) /\ Len(Front(Appended)) = Len(old)
      /\ \A i \in 1..Len(old) : Front(Appended)[i] = Appended[i]
  BY <1>2, <1>4, <1>5
<1>7. QED
  BY <1>2, <1>4, <1>6

LEMMA NewEntry ==
  ASSUME CaptureTypes, recorder # Idle, ShouldRecord(recorder.of)
  PROVE  recorder \in Entry /\ recorder.of \in Commands \ {0, last}
BY DEF CaptureTypes, ProxyTypes, ShouldRecord, Found, Entry

LEMMA ProxyKeepsTypes ==
  ASSUME CaptureTypes, Proxy
  PROVE  CaptureTypes'
<1>0. ShellTypes /\ Len(printed) \in Nat
  BY HistTypes DEF CaptureTypes
<1>1. ASSUME shellVars' = shellVars
      PROVE  ShellTypes' /\ printed' = printed
  BY <1>0, <1>1 DEF ShellTypes, shellVars
<1>2. ASSUME NEW n \in (taken + 1)..Len(printed), Read(n) PROVE CaptureTypes'
  <2>1. parser' \in Parsers
    BY <1>2, ChunkTypes, PushTypes DEF Read, CaptureTypes, ProxyTypes
  <2>2. taken' \in Nat /\ taken' <= Len(printed)
    BY <1>2, ChunkTypes DEF Read
  <2>3. QED
    BY <1>1, <1>2, <2>1, <2>2 DEF Read, CaptureTypes, ProxyTypes
<1>3. CASE HandleEnd
  <2>1. parser' \in Parsers
    BY <1>3, TakeOutputTypes DEF HandleEnd, CaptureTypes, ProxyTypes
  <2>2. recorder' = Idle \/ recorder' \in Found
    <3>1. parser.buf \in Seq(Symbols)
      BY ParserForm DEF CaptureTypes, ProxyTypes
    <3>2. QED
      BY <1>3, <3>1 DEF HandleEnd, CaptureTypes, Found
  <2>3. QED
    BY <1>1, <1>3, <2>1, <2>2 DEF HandleEnd, CaptureTypes, ProxyTypes
<1>4. CASE Skip
  BY <1>1, <1>4 DEF Skip, RemoveReport, CaptureTypes, ProxyTypes
<1>5. CASE Record
  <2>1. recorder \in Entry
    BY <1>5, NewEntry DEF Record, RemoveReport
  <2>2. log' \in Seq(Entry) /\ last' \in Commands
    BY <1>5, <2>1, AppendedTypes DEF Record, Entry
  <2>3. QED
    BY <1>1, <1>5, <2>2 DEF Record, RemoveReport, CaptureTypes, ProxyTypes
<1>6. CASE FailRecord
  <2>1. recorder \in Entry
    BY <1>6, NewEntry DEF FailRecord, RemoveReport
  <2>2. log' \in Seq(Entry) /\ torn' \in BOOLEAN
    BY <1>6, <2>1, AppendedTypes DEF FailRecord, CaptureTypes, ProxyTypes
  <2>3. faults' \in 0..MaxFaults
    BY <1>6, BoundsAssumption DEF FailRecord, Fail, CaptureTypes
  <2>4. QED
    BY <1>1, <1>6, <2>2, <2>3 DEF FailRecord, RemoveReport, CaptureTypes, ProxyTypes
<1>7. QED
  BY <1>2, <1>3, <1>4, <1>5, <1>6 DEF Proxy

LEMMA TypesNext == CaptureTypes /\ [Next]_vars => CaptureTypes'
<1>1. CASE UNCHANGED vars
  BY <1>1 DEF vars, CaptureTypes, ShellTypes, ProxyTypes
<1>2. QED
  BY <1>1, ShellKeepsTypes, ProxyKeepsTypes DEF Next

LEMMA CaptureAlways == Spec => []CaptureTypes
BY CaptureInit, TypesNext, PTL DEF Spec

(* Shell, proxy and files keep their types; the open block and the sequence *)
(* being parsed stay within their caps.                                     *)
THEOREM TypeCorrect == Spec => []TypeOK
<1>1. CaptureTypes => TypeOK
  <2> SUFFICES ASSUME CaptureTypes PROVE TypeOK
    OBVIOUS
  <2>1. hist \in Commands /\ taken \in 0..Len(printed)
    BY HistTypes DEF CaptureTypes, ProxyTypes, ShellTypes
  <2>2. ParserOK(parser)
    BY DEF CaptureTypes, ProxyTypes, Parsers, ParserOK
  <2>3. recorder # Idle => recorder.of \in {Partial} \cup Commands
    BY DEF CaptureTypes, ProxyTypes, Found
  <2>4. QED
    BY <2>1, <2>2, <2>3 DEF TypeOK, CaptureTypes, ShellTypes, ProxyTypes
<1>2. QED
  BY <1>1, CaptureAlways, PTL

-----------------------------------------------------------------------------
(* One entry per command.                                                  *)

(* What is recorded or was the last to be recorded is no newer than h. *)
Upto(h) ==
  /\ \A i \in DOMAIN log : log[i].of <= h
  /\ last # Absent => last <= h

(* Reports come in the order of the history, from the file to the log.  As *)
(* long as nothing failed, the state knows the last that was recorded.     *)
RecordInv ==
  /\ Upto(hist)
  /\ pending \in Commands => pending <= hist /\ Upto(pending)
  /\ recorder \in Entry =>
       /\ recorder.of <= hist /\ Upto(recorder.of)
       /\ pending \in Commands => recorder.of <= pending
  /\ faults = MaxFaults => \A i \in DOMAIN log : last # Absent /\ log[i].of <= last
  /\ RecordedOnce

LEMMA ReportFacts ==
  /\ Absent \notin Commands /\ Partial \notin Commands /\ Absent # Partial
  /\ \A c \in Commands : c \in Nat
BY ReportsAssumption DEF Commands

LEMMA LogFacts ==
  ASSUME CaptureTypes
  PROVE  /\ \A i \in DOMAIN log : log[i] \in Entry /\ log[i].of \in Nat
         /\ last # Absent => last \in Nat
         /\ recorder \in Entry => recorder.of \in Nat
         /\ hist \in Nat /\ MaxFaults \in Nat /\ faults \in Nat
<1>1. log \in Seq(Entry) /\ last \in {Absent} \cup Commands /\ hist \in Nat
  BY DEF CaptureTypes, ProxyTypes, ShellTypes
<1>2. MaxFaults \in Nat /\ faults \in Nat
  BY BoundsAssumption DEF CaptureTypes
<1>3. \A e \in Entry : e.of \in Nat
  BY ReportFacts DEF Entry
<1>4. \A i \in DOMAIN log : log[i] \in Entry
  BY <1>1
<1>5. QED
  BY <1>1, <1>2, <1>3, <1>4, ReportFacts

LEMMA RecordInit == Init => RecordInv
BY ReportFacts, IdleOrFound DEF Init, RecordInv, Upto, RecordedOnce, Idle, Entry, Found

LEMMA UptoGrows ==
  ASSUME CaptureTypes, NEW h \in Nat, NEW g \in Nat, h <= g, Upto(h)
  PROVE  Upto(g)
BY LogFacts DEF Upto

LEMMA ShellKeepsRecords ==
  ASSUME CaptureTypes, RecordInv, Shell
  PROVE  RecordInv'
<1>1. /\ UNCHANGED <<taken, parser, recorder, last, log, torn, late>>
  BY DEF Shell, OpenReport, WriteReport, CloseBlock, FailReport, PrintPrompt, EnterNothing,
         EnterCommand, Run, proxyVars
<1>2. hist' \in Nat /\ hist <= hist'
  BY LogFacts DEF Shell, OpenReport, WriteReport, CloseBlock, FailReport, PrintPrompt,
     EnterNothing, EnterCommand, Run
<1>3. faults' \in Nat /\ faults' <= faults
  BY LogFacts DEF Shell, OpenReport, WriteReport, CloseBlock, FailReport, PrintPrompt,
     EnterNothing, EnterCommand, Run, Fail
<1>4. pending' \in {pending, Partial} \/ (pending' = hist /\ hist' = hist)
  BY DEF Shell, OpenReport, WriteReport, CloseBlock, FailReport, PrintPrompt, EnterNothing,
         EnterCommand, Run
<1>5. \A h : Upto(h)' <=> Upto(h)
  BY <1>1 DEF Upto
<1>6. Upto(hist)'
  BY <1>1, <1>2, LogFacts, UptoGrows DEF RecordInv, Upto
<1>7. pending' \in Commands => pending' <= hist' /\ Upto(pending)'
  BY <1>1, <1>2, <1>4, LogFacts, ReportFacts DEF RecordInv, Upto
<1>8. recorder' \in Entry =>
        /\ recorder'.of <= hist' /\ Upto(recorder.of)'
        /\ pending' \in Commands => recorder'.of <= pending'
  BY <1>1, <1>2, <1>4, LogFacts, ReportFacts DEF RecordInv, Upto
<1>9. faults' = MaxFaults => \A i \in DOMAIN log' : last' # Absent /\ log'[i].of <= last'
  BY <1>1, <1>3, LogFacts DEF RecordInv, CaptureTypes
<1>10. RecordedOnce'
  BY <1>1, <1>3, LogFacts DEF RecordInv, RecordedOnce, CaptureTypes
<1>11. QED
  BY <1>6, <1>7, <1>8, <1>9, <1>10 DEF RecordInv

(* A new entry is of a newer command than the others, or something failed. *)
LEMMA EntryAdded ==
  ASSUME CaptureTypes, RecordInv, recorder \in Entry, recorder.of \in Commands \ {0, last},
         NEW new, new \in {Appended, Front(Appended), log}, log' = new,
         faults' = faults \/ faults' < MaxFaults
  PROVE  /\ \A i \in DOMAIN new : new[i].of \in Nat /\ new[i].of <= recorder.of
         /\ RecordedOnce'
<1>1. recorder.of \in Nat /\ Upto(recorder.of)
  BY LogFacts DEF RecordInv
<1>2. \A i \in DOMAIN new :
        \/ i \in DOMAIN log /\ new[i] = log[i]
        \/ i = Len(new) /\ new[i] = recorder
  <2>1. CASE new = Appended
    BY <2>1, AppendedTypes
  <2>2. CASE new = Front(Appended)
    BY <2>2, AppendedTypes
  <2>3. CASE new = log
    BY <2>3
  <2>4. QED
    BY <2>1, <2>2, <2>3
<1>3. \A i \in DOMAIN new : new[i].of \in Nat /\ new[i].of <= recorder.of
  BY <1>1, <1>2, LogFacts DEF Upto
<1>4. new \in Seq(Entry)
  BY AppendedTypes DEF CaptureTypes, ProxyTypes
<1>5. ASSUME NEW i \in DOMAIN new, NEW j \in DOMAIN new, i < j
      PROVE  \/ new[i].of < new[j].of
             \/ new[i].of = new[j].of /\ faults' < MaxFaults
  <2>1. i \in DOMAIN log /\ new[i] = log[i]
    BY <1>2, <1>4, <1>5
  <2>2. CASE j \in DOMAIN log /\ new[j] = log[j]
    BY <1>5, <2>1, <2>2, LogFacts DEF RecordInv, RecordedOnce, CaptureTypes
  <2>3. CASE new[j] = recorder
    <3>1. CASE faults' < MaxFaults
      BY <1>1, <1>3, <2>3, <3>1
    <3>2. CASE faults = MaxFaults
      <4>1. last # Absent /\ log[i].of <= last /\ last <= recorder.of
        BY <1>1, <2>1, <3>2 DEF RecordInv, Upto
      <4>2. log[i].of < recorder.of
        BY <1>1, <2>1, <4>1, LogFacts
      <4>3. QED
        BY <2>1, <2>3, <4>2
    <3>3. QED
      BY <3>1, <3>2, LogFacts DEF CaptureTypes
  <2>4. QED
    BY <1>2, <2>2, <2>3
<1>6. QED
  BY <1>3, <1>5 DEF RecordedOnce

LEMMA ProxyKeepsRecords ==
  ASSUME CaptureTypes, RecordInv, Proxy
  PROVE  RecordInv'
<1>0. hist' = hist
  BY DEF Proxy, Read, HandleEnd, Skip, Record, FailRecord, RemoveReport, shellVars
<1>1. CASE UNCHANGED <<log, last, faults>> /\ pending' \in {pending, Absent}
           /\ recorder' \in {recorder, Idle}
  <2>1. recorder' = Idle => recorder' \notin Entry
    BY IdleOrFound DEF Entry, Found
  <2>2. QED
    BY <1>0, <1>1, <2>1, ReportFacts DEF RecordInv, Upto, RecordedOnce
<1>2. ASSUME NEW n, Read(n) PROVE RecordInv'
  BY <1>1, <1>2 DEF Read
<1>3. CASE HandleEnd
  <2>1. UNCHANGED <<log, last, faults, pending>>
    BY <1>3 DEF HandleEnd
  <2>2. recorder' \in Entry => recorder'.of = pending /\ pending \in Commands
    BY <1>3, IdleOrFound DEF HandleEnd, Entry, Found
  <2>3. QED
    BY <1>0, <2>1, <2>2, ReportFacts DEF RecordInv, Upto, RecordedOnce
<1>4. CASE Skip
  BY <1>1, <1>4 DEF Skip, RemoveReport
<1>5. ASSUME RemoveReport(TRUE), last' \in {last, recorder.of},
             log' \in {Appended, Front(Appended), log},
             \/ faults' = faults /\ last' = recorder.of
             \/ faults' \in Nat /\ faults' < MaxFaults
      PROVE  RecordInv'
  <2>1. recorder \in Entry /\ recorder.of \in Commands \ {0, last}
    BY <1>5, NewEntry DEF RemoveReport
  <2>2. recorder' \notin Entry /\ pending' \notin Commands
    BY <1>5, ReportFacts, IdleOrFound DEF RemoveReport, Entry, Found
  <2>3. RecordedOnce' /\ \A i \in DOMAIN log' : log'[i].of \in Nat /\ log'[i].of <= recorder.of
    BY <1>5, <2>1, EntryAdded
  <2>4. recorder.of <= hist /\ recorder.of \in Nat /\ hist \in Nat /\ last # Absent => last <= hist
    BY <2>1, LogFacts DEF RecordInv, Upto
  <2>5. Upto(hist)'
    BY <1>0, <1>5, <2>1, <2>3, <2>4, LogFacts DEF Upto, RecordInv
  <2>6. faults' = MaxFaults => \A i \in DOMAIN log' : last' # Absent /\ log'[i].of <= last'
    BY <1>5, <2>1, <2>3, LogFacts, ReportFacts
  <2>7. QED
    BY <2>2, <2>3, <2>5, <2>6 DEF RecordInv
<1>6. CASE Record
  BY <1>5, <1>6 DEF Record
<1>7. CASE FailRecord
  <2>1. faults' \in Nat /\ faults' < MaxFaults
    BY <1>7, LogFacts DEF FailRecord, Fail, CaptureTypes
  <2>2. QED
    BY <1>5, <1>7, <2>1 DEF FailRecord
<1>8. QED
  BY <1>2, <1>3, <1>4, <1>6, <1>7 DEF Proxy

LEMMA RecordNext == CaptureTypes /\ RecordInv /\ [Next]_vars => RecordInv'
<1>1. CASE UNCHANGED vars
  BY <1>1 DEF vars, RecordInv, Upto, RecordedOnce
<1>2. QED
  BY <1>1, ShellKeepsRecords, ProxyKeepsRecords DEF Next

(* Reports reach the log in the order of the history. *)
THEOREM RecordInvariant == Spec => []RecordInv
BY RecordInit, RecordNext, CaptureAlways, PTL DEF Spec

(* A command is recorded once, however often the prompt's hook reports it   *)
(* and however late the proxy reads; only a failure can give it a second    *)
(* entry.                                                                   *)
THEOREM RecordedOnceCorrect == Spec => []RecordedOnce
<1>1. RecordInv => RecordedOnce
  BY DEF RecordInv
<1>2. QED
  BY <1>1, RecordInvariant, PTL

-----------------------------------------------------------------------------
(* What a byte does to the parts of the parser.                            *)

Plain == Symbols \ {"C", "D"}

\* No command prints the payload of one of the shell's markers.
PlainOutputs == Outputs \subseteq Seq(Plain)

InSequence(p) == p.mode \in {"osc", "oscEsc"}
PlainPayload(p) == InSequence(p) => p.payload \in Seq(Plain)

\* Two parsers are at the same place of the same sequence.
Alike(p, q) == p.mode = q.mode /\ (InSequence(p) => p.payload = q.payload)

LEMMA FinishMode ==
  ASSUME NEW p \in Parsers
  PROVE  Finish(p).mode = "ground" /\ Finish(p).payload = <<>>
<1>1. PICK seqStart, buf, inCommand, ends :
        Finish(p) = Parser("ground", <<>>, seqStart, buf, inCommand, ends)
  BY FinishForm
<1>2. QED
  BY <1>1, ParserFields

(* Where a byte leads: mode and payload only depend on mode and payload. *)
LEMMA FeedMode ==
  ASSUME NEW p \in Parsers, NEW b \in Symbols
  PROVE  LET r == Feed(p, b)
         IN /\ p.mode = "ground" =>
                 r.mode = (IF b = "esc" THEN "esc" ELSE "ground")
            /\ p.mode = "esc" =>
                 IF b = "]" THEN r.mode = "osc" /\ r.payload = <<>> ELSE r.mode = "ground"
            /\ p.mode = "osc" =>
                 IF b = "bel" THEN r.mode = "ground"
                 ELSE IF b = "esc" THEN r.mode = "oscEsc" /\ r.payload = p.payload
                 ELSE IF Len(p.payload) < MaxOsc
                 THEN r.mode = "osc" /\ r.payload = Append(p.payload, b)
                 ELSE r.mode = "ground"
            /\ p.mode = "oscEsc" =>
                 IF b = "\\" THEN r.mode = "ground"
                             ELSE r.mode = "osc" /\ r.payload = p.payload
<1>1. PICK r, q : r = Feed(p, b) /\ q = Kept(p, b)
  OBVIOUS
<1>2. /\ q \in Parsers /\ q.mode = p.mode /\ q.payload = p.payload
      /\ Finish(q).mode = "ground"
  BY <1>1, KeptForm, ParserFields, FinishMode
<1>3. CASE p.mode = "ground"
  <2>1. r = IF b = "esc"
              THEN Parser("esc", p.payload, Len(p.buf), Buffered(p, b), p.inCommand, p.ends) ELSE q
    BY <1>1, <1>3, FeedForm
  <2>2. QED
    BY <1>1, <1>2, <1>3, <2>1, ParserFields
<1>4. CASE p.mode = "esc"
  <2>1. r = IF b = "]"
              THEN Parser("osc", <<>>, p.seqStart, Buffered(p, b), p.inCommand, p.ends)
              ELSE Parser("ground", p.payload, p.seqStart, Buffered(p, b), p.inCommand, p.ends)
    BY <1>1, <1>4, FeedForm
  <2>2. QED
    BY <1>1, <1>4, <2>1, ParserFields
<1>5. CASE p.mode = "osc"
  <2>1. r = IF b = "bel" THEN Finish(q)
            ELSE IF b = "esc"
            THEN Parser("oscEsc", p.payload, p.seqStart, Buffered(p, b), p.inCommand, p.ends)
            ELSE IF Len(p.payload) < MaxOsc
            THEN Parser("osc", Append(p.payload, b), p.seqStart, Buffered(p, b),
                        p.inCommand, p.ends)
            ELSE Parser("ground", <<>>, p.seqStart, Buffered(p, b), p.inCommand, p.ends)
    BY <1>1, <1>5, FeedForm
  <2>2. IF b = "bel" THEN r.mode = "ground"
        ELSE IF b = "esc" THEN r.mode = "oscEsc" /\ r.payload = p.payload
        ELSE IF Len(p.payload) < MaxOsc
        THEN r.mode = "osc" /\ r.payload = Append(p.payload, b)
        ELSE r.mode = "ground"
    <3>1. CASE b = "bel"
      BY <1>2, <2>1, <3>1
    <3>2. CASE b = "esc"
      <4>1. r = Parser("oscEsc", p.payload, p.seqStart, Buffered(p, b), p.inCommand, p.ends)
            /\ b # "bel"
        BY <2>1, <3>2
      <4>2. QED
        BY <3>2, <4>1, ParserFields
    <3>3. CASE b \notin {"bel", "esc"} /\ Len(p.payload) < MaxOsc
      <4>1. PICK payload : payload = Append(p.payload, b)
        OBVIOUS
      <4>2. r = Parser("osc", payload, p.seqStart, Buffered(p, b), p.inCommand, p.ends)
        BY <2>1, <3>3, <4>1
      <4>3. r.mode = "osc" /\ r.payload = payload
        BY <4>2, ParserFields
      <4>4. QED
        BY <3>3, <4>1, <4>3
    <3>4. CASE b \notin {"bel", "esc"} /\ ~(Len(p.payload) < MaxOsc)
      <4>1. r = Parser("ground", <<>>, p.seqStart, Buffered(p, b), p.inCommand, p.ends)
        BY <2>1, <3>4
      <4>2. QED
        BY <3>4, <4>1, ParserFields
    <3>5. QED
      BY <3>1, <3>2, <3>3, <3>4
  <2>3. QED
    BY <1>1, <1>5, <2>2
<1>6. CASE p.mode = "oscEsc"
  <2>1. r = IF b = "\\" THEN Finish(q)
              ELSE Parser("osc", p.payload, p.seqStart, Buffered(p, b), p.inCommand, p.ends)
    BY <1>1, <1>6, FeedForm
  <2>2. QED
    BY <1>1, <1>2, <1>6, <2>1, ParserFields
<1>7. QED
  BY <1>1, <1>3, <1>4, <1>5, <1>6, ParserForm DEF Modes

LEMMA FeedAlike ==
  ASSUME NEW p \in Parsers, NEW q \in Parsers, NEW b \in Symbols, Alike(p, q)
  PROVE  Alike(Feed(p, b), Feed(q, b))
<1>1. PICK r, s : r = Feed(p, b) /\ s = Feed(q, b)
  OBVIOUS
<1>2. p.mode = q.mode /\ (p.mode \in {"osc", "oscEsc"} => p.payload = q.payload)
  BY DEF Alike, InSequence
<1>3. SUFFICES r.mode = s.mode /\ (r.mode \in {"osc", "oscEsc"} => r.payload = s.payload)
  BY <1>1 DEF Alike, InSequence
<1>4. CASE p.mode = "ground"
  <2>1. r.mode = IF b = "esc" THEN "esc" ELSE "ground"
    BY <1>1, <1>4, FeedMode
  <2>2. s.mode = IF b = "esc" THEN "esc" ELSE "ground"
    <3>1. q.mode = p.mode /\ q \in Parsers /\ b \in Symbols
      BY <1>2
    <3>2. QED
      BY <1>1, <1>4, <3>1, FeedMode
  <2>3. QED
    BY <2>1, <2>2
<1>5. CASE p.mode = "esc"
  <2>1. IF b = "]" THEN r.mode = "osc" /\ r.payload = <<>> ELSE r.mode = "ground"
    BY <1>1, <1>5, FeedMode
  <2>2. IF b = "]" THEN s.mode = "osc" /\ s.payload = <<>> ELSE s.mode = "ground"
    <3>1. q.mode = p.mode /\ q \in Parsers /\ b \in Symbols
      BY <1>2
    <3>2. QED
      BY <1>1, <1>5, <3>1, FeedMode
  <2>3. QED
    BY <2>1, <2>2
<1>6. CASE p.mode = "osc"
  <2>1. IF b = "bel" THEN r.mode = "ground"
        ELSE IF b = "esc" THEN r.mode = "oscEsc" /\ r.payload = p.payload
        ELSE IF Len(p.payload) < MaxOsc
        THEN r.mode = "osc" /\ r.payload = Append(p.payload, b)
        ELSE r.mode = "ground"
    BY <1>1, <1>6, FeedMode
  <2>2. IF b = "bel" THEN s.mode = "ground"
        ELSE IF b = "esc" THEN s.mode = "oscEsc" /\ s.payload = q.payload
        ELSE IF Len(q.payload) < MaxOsc
        THEN s.mode = "osc" /\ s.payload = Append(q.payload, b)
        ELSE s.mode = "ground"
    <3>1. q.mode = p.mode /\ q \in Parsers /\ b \in Symbols
      BY <1>2
    <3>2. QED
      BY <1>1, <1>6, <3>1, FeedMode
  <2>3. p.payload = q.payload
    BY <1>2, <1>6
  <2>4. QED
    BY <2>1, <2>2, <2>3
<1>7. CASE p.mode = "oscEsc"
  <2>1. IF b = "\\" THEN r.mode = "ground" ELSE r.mode = "osc" /\ r.payload = p.payload
    BY <1>1, <1>7, FeedMode
  <2>2. IF b = "\\" THEN s.mode = "ground" ELSE s.mode = "osc" /\ s.payload = q.payload
    <3>1. q.mode = p.mode /\ q \in Parsers /\ b \in Symbols
      BY <1>2
    <3>2. QED
      BY <1>1, <1>7, <3>1, FeedMode
  <2>3. QED
    BY <1>2, <1>7, <2>1, <2>2
<1>8. QED
  BY <1>4, <1>5, <1>6, <1>7, ParserForm DEF Modes

(* Output keeps the payload plain. *)
LEMMA FeedPlain ==
  ASSUME NEW p \in Parsers, NEW b \in Plain, PlainPayload(p)
  PROVE  PlainPayload(Feed(p, b))
<1>1. PICK r : r = Feed(p, b)
  OBVIOUS
<1>2. b \in Symbols
  BY DEF Plain
<1>3. p.mode \in {"osc", "oscEsc"} => p.payload \in Seq(Plain)
  BY DEF PlainPayload, InSequence
<1>4. <<>> \in Seq(Plain)
  OBVIOUS
<1>5. CASE p.mode = "ground"
  BY <1>1, <1>2, <1>5, FeedMode DEF PlainPayload, InSequence
<1>6. CASE p.mode = "esc"
  BY <1>1, <1>2, <1>4, <1>6, FeedMode DEF PlainPayload, InSequence
<1>7. CASE p.mode = "osc"
  <2>1. p.payload \in Seq(Plain) /\ Append(p.payload, b) \in Seq(Plain)
    BY <1>3, <1>7
  <2>2. r.mode = "ground" \/ r.payload \in {p.payload, Append(p.payload, b)}
    BY <1>1, <1>2, <1>7, FeedMode
  <2>3. QED
    BY <1>1, <2>1, <2>2 DEF PlainPayload, InSequence
<1>8. CASE p.mode = "oscEsc"
  BY <1>1, <1>2, <1>3, <1>8, FeedMode DEF PlainPayload, InSequence
<1>9. QED
  BY <1>2, <1>5, <1>6, <1>7, <1>8, ParserForm DEF Modes

LEMMA PlainIsNoMarker ==
  ASSUME NEW s \in Seq(Plain)
  PROVE  s \notin {<<"C">>, <<"D">>}
<1>1. \A j \in DOMAIN s : s[j] \in Plain
  OBVIOUS
<1>2. "C" \notin Plain /\ "D" \notin Plain
  BY DEF Plain
<1>3. /\ 1 \in DOMAIN <<"C">> /\ <<"C">>[1] = "C"
      /\ 1 \in DOMAIN <<"D">> /\ <<"D">>[1] = "D"
  OBVIOUS
<1>4. QED
  BY <1>1, <1>2, <1>3

(* A byte that ends no marker of the shell goes into the open block. *)
LEMMA FeedBuffers ==
  ASSUME NEW p \in Parsers, NEW b \in Symbols,
         b \in {"bel", "\\"} /\ InSequence(p) => p.payload \notin {<<"C">>, <<"D">>}
  PROVE  LET r == Feed(p, b)
         IN /\ r.buf = Buffered(p, b) /\ r.inCommand = p.inCommand /\ r.ends = p.ends
            /\ r.seqStart = IF p.mode = "ground" /\ b = "esc" THEN Len(p.buf) ELSE p.seqStart
<1>1. PICK r, q : r = Feed(p, b) /\ q = Kept(p, b)
  OBVIOUS
<1>2. /\ q \in Parsers /\ q.payload = p.payload /\ q.buf = Buffered(p, b)
      /\ q.inCommand = p.inCommand /\ q.ends = p.ends /\ q.seqStart = p.seqStart
  BY <1>1, KeptForm, ParserFields
<1>3. b \in {"bel", "\\"} /\ p.mode \in {"osc", "oscEsc"} =>
        Finish(q) = Parser("ground", <<>>, p.seqStart, Buffered(p, b), p.inCommand, p.ends)
  BY <1>2, FinishForm DEF InSequence
<1>4. CASE p.mode = "ground"
  <2>1. r = IF b = "esc"
              THEN Parser("esc", p.payload, Len(p.buf), Buffered(p, b), p.inCommand, p.ends) ELSE q
    BY <1>1, <1>4, FeedForm
  <2>2. QED
    BY <1>1, <1>2, <1>4, <2>1, ParserFields
<1>5. CASE p.mode # "ground"
  <2>1. PICK mode, payload :
          r = Parser(mode, payload, p.seqStart, Buffered(p, b), p.inCommand, p.ends)
    <3>1. CASE p.mode = "esc"
      BY <1>1, <3>1, FeedForm
    <3>2. CASE p.mode = "osc"
      BY <1>1, <1>3, <3>2, FeedForm
    <3>3. CASE p.mode = "oscEsc"
      BY <1>1, <1>3, <3>3, FeedForm
    <3>4. QED
      BY <1>5, <3>1, <3>2, <3>3, ParserForm DEF Modes
  <2>2. QED
    BY <1>1, <1>5, <2>1, ParserFields
<1>6. QED
  BY <1>4, <1>5

(* The last byte of a marker. *)
LEMMA FeedMarkerEnd ==
  ASSUME NEW p \in Parsers, p.mode = "oscEsc"
  PROVE  LET r == Feed(p, "\\")
         IN /\ p.payload = <<"C">> => r.buf = <<>> /\ r.inCommand = TRUE /\ r.ends = p.ends
            /\ p.payload = <<"D">> =>
                 /\ r.ends = p.ends + 1
                 /\ p.inCommand => r.buf = SubSeq(Buffered(p, "\\"), 1, p.seqStart)
<1>0. "\\" \in Symbols
  BY DEF Symbols
<1>1. PICK r, q : r = Feed(p, "\\") /\ q = Kept(p, "\\")
  OBVIOUS
<1>2. /\ q \in Parsers /\ q.payload = p.payload /\ q.buf = Buffered(p, "\\")
      /\ q.inCommand = p.inCommand /\ q.ends = p.ends /\ q.seqStart = p.seqStart
  BY <1>0, <1>1, KeptForm, ParserFields
<1>3. r = Finish(q)
  BY <1>0, <1>1, FeedForm
<1>4. <<"C">> # <<"D">>
  <2>1. <<"C">>[1] = "C" /\ <<"D">>[1] = "D"
    OBVIOUS
  <2>2. QED
    BY <2>1
<1>5. CASE p.payload = <<"C">>
  <2>1. PICK open : open = TRUE
    OBVIOUS
  <2>2. Finish(q) = Parser("ground", <<>>, q.seqStart, <<>>, TRUE, q.ends)
    BY <1>2, <1>5, FinishForm
  <2>3. r = Parser("ground", <<>>, q.seqStart, <<>>, open, q.ends)
    BY <1>3, <2>1, <2>2
  <2>4. r.buf = <<>> /\ r.inCommand = open /\ r.ends = q.ends
    BY <2>3, ParserFields
  <2>5. QED
    BY <1>1, <1>2, <1>4, <1>5, <2>1, <2>4
<1>6. CASE p.payload = <<"D">>
  <2>1. PICK buf, ends : /\ buf = IF q.inCommand THEN SubSeq(q.buf, 1, q.seqStart) ELSE q.buf
                         /\ ends = q.ends + 1
    OBVIOUS
  <2>2. Finish(q) = Parser("ground", <<>>, q.seqStart,
                           IF q.inCommand THEN SubSeq(q.buf, 1, q.seqStart) ELSE q.buf,
                           q.inCommand, q.ends + 1)
    BY <1>2, <1>6, FinishForm
  <2>3. r = Parser("ground", <<>>, q.seqStart, buf, q.inCommand, ends)
    BY <1>3, <2>1, <2>2
  <2>4. r.buf = buf /\ r.ends = ends
    BY <2>3, ParserFields
  <2>5. r.ends = p.ends + 1
    BY <1>2, <2>1, <2>4
  <2>6. p.inCommand => r.buf = SubSeq(Buffered(p, "\\"), 1, p.seqStart)
    BY <1>2, <2>1, <2>4
  <2>7. QED
    BY <1>1, <1>4, <1>6, <2>5, <2>6
<1>7. QED
  BY <1>1, <1>5, <1>6

(* One byte more. *)
LEMMA PushMore ==
  ASSUME NEW p \in Parsers, NEW s \in Seq(Symbols), NEW b \in Symbols
  PROVE  Push(p, Append(s, b)) = Feed(Push(p, s), b)
<1> DEFINE t == Append(s, b)
           L == Len(s)
<1>1. /\ t \in Seq(Symbols) /\ L \in Nat /\ Len(t) = L + 1
      /\ t[L + 1] = b /\ \A i \in 1..L : t[i] = s[i]
  OBVIOUS
<1>2. /\ Eaten(p, s)[0] = p
      /\ \A i \in 1..L : Eaten(p, s)[i] = Feed(Eaten(p, s)[i - 1], s[i])
  BY EatenSteps
<1> HIDE DEF t
<1>3. /\ Eaten(p, t)[0] = p
      /\ \A i \in 1..(L + 1) : Eaten(p, t)[i] = Feed(Eaten(p, t)[i - 1], t[i])
  BY <1>1, EatenSteps
<1> HIDE DEF L
<1>4. \A i \in 0..L : Eaten(p, t)[i] = Eaten(p, s)[i]
  <2> DEFINE T == {i \in 0..L : Eaten(p, t)[i] = Eaten(p, s)[i]}
  <2>1. 0 \in T
    BY <1>1, <1>2, <1>3
  <2>2. \A i \in 0..L : i # 0 /\ i - 1 \in T => i \in T
    <3> SUFFICES ASSUME NEW i \in 0..L, i # 0, i - 1 \in T PROVE i \in T
      OBVIOUS
    <3>1. i \in 1..L /\ i \in 1..(L + 1)
      BY <1>1
    <3>2. QED
      BY <1>1, <1>2, <1>3, <3>1
  <2>3. 0 \in Int /\ L \in Int
    BY <1>1
  <2> HIDE DEF T
  <2>4. 0..L \subseteq T
    BY <2>1, <2>2, <2>3, Upwards, ZenonT(30)
  <2>5. QED
    BY <2>4 DEF T
<1>5. L + 1 \in 1..(L + 1) /\ L \in 0..L /\ (L + 1) - 1 = L
  BY <1>1
<1>6. Eaten(p, t)[L + 1] = Feed(Eaten(p, s)[L], b)
  BY <1>1, <1>3, <1>4, <1>5
<1>7. QED
  BY <1>1, <1>6 DEF Push, t, L

LEMMA PushNone ==
  ASSUME NEW p \in Parsers
  PROVE  Push(p, <<>>) = p
<1>1. <<>> \in Seq(Symbols) /\ Len(<<>>) = 0
  OBVIOUS
<1>2. QED
  BY <1>1, EatenSteps DEF Push

(* The cap. *)
Cut(s) == SubSeq(s, 1, Min({MaxBlock, Len(s)}))

LEMMA CutFacts ==
  ASSUME NEW s \in Seq(Symbols)
  PROVE  /\ Cut(s) \in Seq(Symbols)
         /\ Len(Cut(s)) = IF Len(s) <= MaxBlock THEN Len(s) ELSE MaxBlock
         /\ \A i \in 1..Len(Cut(s)) : Cut(s)[i] = s[i]
<1>1. PICK m : m = Min({MaxBlock, Len(s)})
  OBVIOUS
<1>2. m = IF Len(s) <= MaxBlock THEN Len(s) ELSE MaxBlock
  <2>1. Len(s) \in Nat /\ MaxBlock \in Nat
    BY CapsAssumption
  <2>2. \E x \in {MaxBlock, Len(s)} : \A y \in {MaxBlock, Len(s)} : x <= y
    BY <2>1
  <2>3. m \in {MaxBlock, Len(s)} /\ \A y \in {MaxBlock, Len(s)} : m <= y
    BY <1>1, <2>2 DEF Min
  <2>4. QED
    BY <2>1, <2>3
<1>3. m \in 0..Len(s)
  BY <1>2, CapsAssumption
<1>4. Cut(s) = SubSeq(s, 1, m)
  BY <1>1 DEF Cut
<1>5. QED
  BY <1>2, <1>3, <1>4

LEMMA CutMore ==
  ASSUME NEW s \in Seq(Symbols), NEW b \in Symbols
  PROVE  Cut(Append(s, b)) = IF Len(Cut(s)) < MaxBlock THEN Append(Cut(s), b) ELSE Cut(s)
<1>1. PICK t : t = Append(s, b)
  OBVIOUS
<1>2. /\ t \in Seq(Symbols) /\ Len(t) = Len(s) + 1 /\ Len(s) \in Nat /\ MaxBlock \in Nat
      /\ t[Len(s) + 1] = b /\ \A i \in 1..Len(s) : t[i] = s[i]
  BY <1>1, CapsAssumption
<1>3. /\ Cut(s) \in Seq(Symbols)
      /\ Len(Cut(s)) = IF Len(s) <= MaxBlock THEN Len(s) ELSE MaxBlock
      /\ \A i \in 1..Len(Cut(s)) : Cut(s)[i] = s[i]
  BY CutFacts
<1>4. /\ Cut(t) \in Seq(Symbols)
      /\ Len(Cut(t)) = IF Len(t) <= MaxBlock THEN Len(t) ELSE MaxBlock
      /\ \A i \in 1..Len(Cut(t)) : Cut(t)[i] = t[i]
  BY <1>2, CutFacts
<1>5. CASE Len(s) < MaxBlock
  <2>1. PICK u : u = Append(Cut(s), b)
    OBVIOUS
  <2>2. /\ u \in Seq(Symbols) /\ Len(u) = Len(s) + 1 /\ u[Len(s) + 1] = b
        /\ \A i \in 1..Len(s) : u[i] = s[i]
    BY <1>2, <1>3, <1>5, <2>1
  <2>3. Len(Cut(t)) = Len(s) + 1
    BY <1>2, <1>4, <1>5
  <2>4. \A i \in 1..(Len(s) + 1) : Cut(t)[i] = u[i]
    BY <1>2, <1>4, <2>2, <2>3
  <2>5. Cut(t) = u
    BY <1>2, <1>4, <2>2, <2>3, <2>4
  <2>6. QED
    BY <1>1, <1>2, <1>3, <1>5, <2>1, <2>5
<1>6. CASE ~(Len(s) < MaxBlock)
  <2>1. Len(Cut(t)) = MaxBlock /\ Len(Cut(s)) = MaxBlock
    BY <1>2, <1>3, <1>4, <1>6
  <2>2. \A i \in 1..MaxBlock : Cut(t)[i] = Cut(s)[i]
    BY <1>2, <1>3, <1>4, <1>6, <2>1
  <2>3. Cut(t) = Cut(s)
    BY <1>2, <1>3, <1>4, <2>1, <2>2
  <2>4. QED
    BY <1>1, <1>2, <2>1, <2>3
<1>7. QED
  BY <1>2, <1>5, <1>6

(* What follows the block is cut off again. *)
LEMMA CutBack ==
  ASSUME NEW s \in Seq(Symbols), NEW t \in Seq(Symbols), Len(s) <= Len(t),
         \A i \in 1..Len(s) : t[i] = s[i]
  PROVE  SubSeq(Cut(t), 1, Len(Cut(s))) = Cut(s)
<1>0. Len(s) \in Nat /\ Len(t) \in Nat /\ MaxBlock \in Nat
  BY CapsAssumption
<1>1. /\ Cut(s) \in Seq(Symbols)
      /\ Len(Cut(s)) = IF Len(s) <= MaxBlock THEN Len(s) ELSE MaxBlock
      /\ \A i \in 1..Len(Cut(s)) : Cut(s)[i] = s[i]
  BY CutFacts
<1>2. /\ Cut(t) \in Seq(Symbols)
      /\ Len(Cut(t)) = IF Len(t) <= MaxBlock THEN Len(t) ELSE MaxBlock
      /\ \A i \in 1..Len(Cut(t)) : Cut(t)[i] = t[i]
  BY CutFacts
<1>3. Len(Cut(s)) \in Nat /\ Len(Cut(s)) <= Len(s) /\ Len(Cut(s)) <= Len(Cut(t))
  BY <1>0, <1>1, <1>2
<1>4. PICK u : u = SubSeq(Cut(t), 1, Len(Cut(s)))
  OBVIOUS
<1>5. /\ u \in Seq(Symbols) /\ Len(u) = Len(Cut(s))
      /\ \A i \in 1..Len(Cut(s)) : u[i] = Cut(t)[i]
  BY <1>2, <1>3, <1>4
<1>6. \A i \in 1..Len(Cut(s)) : u[i] = Cut(s)[i]
  <2> SUFFICES ASSUME NEW i \in 1..Len(Cut(s)) PROVE u[i] = Cut(s)[i]
    OBVIOUS
  <2>1. i \in 1..Len(Cut(t)) /\ i \in 1..Len(s)
    BY <1>0, <1>2, <1>3
  <2>2. u[i] = Cut(t)[i] /\ Cut(t)[i] = t[i] /\ Cut(s)[i] = s[i] /\ t[i] = s[i]
    BY <1>1, <1>2, <1>5, <2>1
  <2>3. QED
    BY <2>2
<1>7. u = Cut(s)
  <2>1. PICK v : v = Cut(s)
    OBVIOUS
  <2>2. v \in Seq(Symbols) /\ Len(u) = Len(v) /\ \A i \in 1..Len(v) : u[i] = v[i]
    BY <1>1, <1>5, <1>6, <2>1
  <2>3. u = v
    BY <1>5, <2>2
  <2>4. QED
    BY <2>1, <2>3
<1>8. QED
  BY <1>4, <1>7

-----------------------------------------------------------------------------
(* What the shell printed, while no report failed.                         *)

Places == 1..(Len(marks) + 1)

\* The text before a marker or, after the last, at the end of the terminal.
Base(k) == IF k = 1 THEN 0 ELSE marks[k - 1].stop
Start(k) == IF k <= Len(marks) THEN marks[k].stop - 5 ELSE Len(printed)
AfterC(k) == k > 1 /\ marks[k - 1].kind = "C"

\* After a start marker a command prints; elsewhere there are only prompts.
Text(k) ==
  \A i \in (Base(k) + 1)..Start(k) : printed[i] \in IF AfterC(k) THEN Plain ELSE {"prompt"}

MarkerAt(k) ==
  /\ printed[Start(k) + 1] = "esc" /\ printed[Start(k) + 2] = "]"
  /\ printed[Start(k) + 3] = marks[k].kind
  /\ printed[Start(k) + 4] = "esc" /\ printed[Start(k) + 5] = "\\"

Marks == [kind : {"C", "D"}, stop : Nat, of : Nat]

Layout ==
  /\ marks \in Seq(Marks)
  /\ \A j, k \in DOMAIN marks : j < k => marks[j].stop + 5 <= marks[k].stop
  /\ \A k \in DOMAIN marks :
       /\ MarkerAt(k) /\ marks[k].stop <= Len(printed)
       /\ AfterC(k) => marks[k].kind = "D"
  /\ \A k \in Places : Base(k) <= Start(k) /\ Text(k)

\* The parser, had it read the terminal's first bytes at once.
Heard(t) == Push(Fresh, SubSeq(printed, 1, t))

LEMMA MarkerForm ==
  ASSUME NEW kind
  PROVE  /\ Len(Marker(kind)) = 5 /\ Marker(kind)[1] = "esc" /\ Marker(kind)[2] = "]"
         /\ Marker(kind)[3] = kind /\ Marker(kind)[4] = "esc" /\ Marker(kind)[5] = "\\"
BY DEF Marker

LEMMA LayoutNumbers ==
  ASSUME CaptureTypes, Layout
  PROVE  /\ printed \in Seq(Symbols) /\ Len(printed) \in Nat /\ Len(marks) \in Nat
         /\ DOMAIN marks = 1..Len(marks)
         /\ \A k \in Places : k \in Nat /\ Base(k) \in Nat /\ Start(k) \in Nat
                              /\ Base(k) <= Start(k) /\ Start(k) <= Len(printed)
         /\ \A k \in DOMAIN marks : k \in Places /\ marks[k].stop \in Nat
                              /\ marks[k].stop = Start(k) + 5 /\ marks[k].stop <= Len(printed)
                              /\ marks[k].kind \in {"C", "D"}
<1>1. printed \in Seq(Symbols) /\ Len(printed) \in Nat
  BY DEF CaptureTypes, ShellTypes
<1>2. Len(marks) \in Nat /\ DOMAIN marks = 1..Len(marks)
      /\ \A k \in 1..Len(marks) : marks[k].stop \in Nat /\ marks[k].kind \in {"C", "D"}
                                  /\ marks[k].stop <= Len(printed)
  <2>1. marks \in Seq(Marks)
    BY DEF Layout
  <2>2. Len(marks) \in Nat /\ DOMAIN marks = 1..Len(marks)
        /\ \A k \in 1..Len(marks) : marks[k] \in Marks
    BY <2>1
  <2>3. \A m \in Marks : m.stop \in Nat /\ m.kind \in {"C", "D"}
    BY DEF Marks
  <2>4. QED
    BY <2>2, <2>3 DEF Layout
<1>3. \A k \in Places : k \in Nat /\ k >= 1 /\ k <= Len(marks) + 1
                        /\ (k > 1 => k - 1 \in 1..Len(marks))
                        /\ (k <= Len(marks) => k \in 1..Len(marks))
  BY <1>2 DEF Places
<1>4. \A k \in Places : Base(k) \in Nat
  BY <1>2, <1>3 DEF Base
<1>5. \A k \in Places : Base(k) <= Start(k)
  BY DEF Layout
<1>6. \A k \in Places : Start(k) \in Int /\ Start(k) <= Len(printed)
  BY <1>1, <1>2, <1>3 DEF Start
<1>7. \A k \in Places : Start(k) \in Nat
  BY <1>4, <1>5, <1>6
<1>8. \A k \in DOMAIN marks : k \in Places /\ marks[k].stop = Start(k) + 5
  BY <1>2 DEF Places, Start
<1>9. QED
  BY <1>1, <1>2, <1>3, <1>4, <1>5, <1>6, <1>7, <1>8

LEMMA OneMore ==
  ASSUME NEW s \in Seq(Symbols), NEW m \in Nat \ {0}, NEW t \in Nat, m <= t + 1, t + 1 <= Len(s)
  PROVE  /\ SubSeq(s, m, t) \in Seq(Symbols) /\ s[t + 1] \in Symbols
         /\ SubSeq(s, m, t + 1) = Append(SubSeq(s, m, t), s[t + 1])
<1>1. Len(s) \in Nat /\ t + 1 \in 1..Len(s)
  OBVIOUS
<1>2. PICK u, v : u = SubSeq(s, m, t) /\ v = SubSeq(s, m, t + 1)
  OBVIOUS
<1>3. /\ u \in Seq(Symbols) /\ Len(u) = (t + 1) - m
      /\ \A i \in 1..((t + 1) - m) : u[i] = s[m + i - 1]
  BY <1>1, <1>2
<1>4. /\ v \in Seq(Symbols) /\ Len(v) = (t + 2) - m
      /\ \A i \in 1..((t + 2) - m) : v[i] = s[m + i - 1]
  BY <1>1, <1>2
<1>5. s[t + 1] \in Symbols
  BY <1>1
<1>6. PICK w : w = Append(u, s[t + 1])
  OBVIOUS
<1>7. /\ w \in Seq(Symbols) /\ Len(w) = (t + 2) - m /\ w[(t + 2) - m] = s[t + 1]
      /\ \A i \in 1..((t + 1) - m) : w[i] = u[i]
  <2>1. /\ w \in Seq(Symbols) /\ Len(w) = Len(u) + 1 /\ w[Len(u) + 1] = s[t + 1]
        /\ \A i \in 1..Len(u) : w[i] = u[i]
    BY <1>3, <1>5, <1>6
  <2>2. Len(u) + 1 = (t + 2) - m
    BY <1>3
  <2>3. QED
    BY <1>3, <2>1, <2>2
<1>8. \A i \in 1..((t + 2) - m) : v[i] = w[i]
  <2> SUFFICES ASSUME NEW i \in 1..((t + 2) - m) PROVE v[i] = w[i]
    OBVIOUS
  <2>1. CASE i = (t + 2) - m
    <3>1. m + i - 1 = t + 1
      BY <2>1
    <3>2. QED
      BY <1>4, <1>7, <2>1, <3>1
  <2>2. CASE i # (t + 2) - m
    <3>1. i \in 1..((t + 1) - m)
      BY <2>2
    <3>2. QED
      BY <1>3, <1>4, <1>7, <3>1
  <2>3. QED
    BY <2>1, <2>2
<1>9. v = w
  BY <1>4, <1>7, <1>8
<1>10. QED
  BY <1>2, <1>3, <1>5, <1>6, <1>9

LEMMA HeardSteps ==
  ASSUME CaptureTypes
  PROVE  /\ \A t \in 0..Len(printed) : Heard(t) \in Parsers
         /\ Heard(0) = Fresh
         /\ \A t \in 0..(Len(printed) - 1) :
              printed[t + 1] \in Symbols /\ Heard(t + 1) = Feed(Heard(t), printed[t + 1])
<1>1. printed \in Seq(Symbols) /\ Len(printed) \in Nat
  BY DEF CaptureTypes, ShellTypes
<1>2. \A t \in 0..Len(printed) : SubSeq(printed, 1, t) \in Seq(Symbols)
  BY <1>1
<1>3. \A t \in 0..Len(printed) : Heard(t) \in Parsers
  BY <1>2, FreshTypes, PushTypes DEF Heard
<1>4. Heard(0) = Fresh
  <2>1. SubSeq(printed, 1, 0) = <<>>
    BY <1>1
  <2>2. QED
    BY <2>1, FreshTypes, PushNone DEF Heard
<1>5. ASSUME NEW t \in 0..(Len(printed) - 1)
      PROVE  printed[t + 1] \in Symbols /\ Heard(t + 1) = Feed(Heard(t), printed[t + 1])
  <2>1. t \in 0..Len(printed) /\ t + 1 \in 1..Len(printed)
    BY <1>1
  <2>2. printed[t + 1] \in Symbols
    BY <1>1, <2>1
  <2>3. SubSeq(printed, 1, t + 1) = Append(SubSeq(printed, 1, t), printed[t + 1])
    BY <1>1, <2>1, OneMore
  <2>4. QED
    BY <1>2, <2>1, <2>2, <2>3, FreshTypes, PushMore DEF Heard
<1>6. QED
  BY <1>3, <1>4, <1>5

LEMMA MarkerBytes ==
  /\ {"esc", "]", "\\", "C", "D", "prompt"} \subseteq Symbols
  /\ "esc" # "bel" /\ "esc" # "]" /\ "esc" # "\\" /\ "]" # "bel" /\ "]" # "\\"
  /\ "C" # "bel" /\ "C" # "esc" /\ "C" # "\\" /\ "D" # "bel" /\ "D" # "esc" /\ "D" # "\\"
  /\ "prompt" # "esc" /\ "prompt" # "bel" /\ "prompt" # "\\" /\ "prompt" \in Plain
BY DEF Symbols, Plain

(* A marker is read whole where no sequence is open, and ends any that is. *)
LEMMA MarkerRead ==
  ASSUME NEW p0 \in Parsers, NEW kind \in {"C", "D"}
  PROVE  LET r1 == Feed(p0, "esc")
             r2 == Feed(r1, "]")
             r3 == Feed(r2, kind)
             r4 == Feed(r3, "esc")
         IN /\ Feed(r4, "\\").mode = "ground"
            /\ p0.mode = "ground" =>
                 /\ r1.mode = "esc" /\ r2.mode = "osc" /\ r3.mode = "osc"
                 /\ r4.mode = "oscEsc" /\ r4.payload = <<kind>>
<1>1. kind \in Symbols /\ kind # "bel" /\ kind # "esc" /\ kind # "\\" /\ kind # "]"
  BY DEF Symbols
<1>2. PICK p1, p2, p3, p4, p5 :
        /\ p1 = Feed(p0, "esc") /\ p2 = Feed(p1, "]") /\ p3 = Feed(p2, kind)
        /\ p4 = Feed(p3, "esc") /\ p5 = Feed(p4, "\\")
  OBVIOUS
<1>3. p1 \in Parsers /\ p2 \in Parsers /\ p3 \in Parsers /\ p4 \in Parsers
  BY <1>2, <1>1, MarkerBytes, FeedTypes
<1>4. p0.mode \in Modes /\ p1.mode \in Modes /\ p2.mode \in Modes /\ p3.mode \in Modes
      /\ p4.mode \in Modes
  BY <1>3, ParserForm
<1>5. /\ p0.mode = "ground" => p1.mode = "esc"
      /\ p0.mode = "esc" => p1.mode = "ground"
      /\ p0.mode = "osc" => p1.mode = "oscEsc"
      /\ p0.mode = "oscEsc" => p1.mode = "osc"
  BY <1>2, <1>3, MarkerBytes, FeedMode
<1>6. /\ p1.mode = "ground" => p2.mode = "ground"
      /\ p1.mode = "esc" => p2.mode = "osc" /\ p2.payload = <<>>
      /\ p1.mode = "osc" => p2.mode = "osc" \/ p2.mode = "ground"
      /\ p1.mode = "oscEsc" => p2.mode = "osc"
  BY <1>2, <1>3, MarkerBytes, FeedMode
<1>7. /\ p2.mode = "ground" => p3.mode = "ground"
      /\ p2.mode = "osc" => p3.mode = "osc" \/ p3.mode = "ground"
      /\ p2.mode = "osc" /\ Len(p2.payload) < MaxOsc =>
           p3.mode = "osc" /\ p3.payload = Append(p2.payload, kind)
  BY <1>2, <1>3, <1>1, FeedMode
<1>8. /\ p3.mode = "ground" => p4.mode = "esc"
      /\ p3.mode = "osc" => p4.mode = "oscEsc" /\ p4.payload = p3.payload
  BY <1>2, <1>3, MarkerBytes, FeedMode
<1>9. p4.mode = "esc" \/ p4.mode = "oscEsc" => p5.mode = "ground"
  BY <1>2, <1>3, MarkerBytes, FeedMode
<1>10. p5.mode = "ground"
  <2>1. p1.mode # "esc" \/ p2.payload = <<>>
    BY <1>6
  <2>2. p2.mode = "ground" \/ p2.mode = "osc"
    BY <1>4, <1>6 DEF Modes
  <2>3. p3.mode = "ground" \/ p3.mode = "osc"
    BY <1>7, <2>2
  <2>4. QED
    BY <1>8, <1>9, <2>3
<1>11. ASSUME p0.mode = "ground"
      PROVE  /\ p1.mode = "esc" /\ p2.mode = "osc" /\ p3.mode = "osc"
             /\ p4.mode = "oscEsc" /\ p4.payload = <<kind>>
  <2>1. p1.mode = "esc" /\ p2.mode = "osc" /\ p2.payload = <<>>
    BY <1>5, <1>6, <1>11
  <2>2. Len(p2.payload) < MaxOsc /\ Append(p2.payload, kind) = <<kind>>
    <3>1. Len(<<>>) = 0 /\ 0 < MaxOsc
      BY CapsAssumption
    <3>2. Append(<<>>, kind) = <<kind>>
      OBVIOUS
    <3>3. QED
      BY <2>1, <3>1, <3>2
  <2>3. QED
    BY <1>7, <1>8, <2>1, <2>2
<1>12. QED
  BY <1>2, <1>10, <1>11

(* What the parser is in after each byte of a marker. *)
LEMMA MarkerHeard ==
  ASSUME CaptureTypes, Layout, NEW k \in DOMAIN marks
  PROVE  /\ Heard(marks[k].stop).mode = "ground"
         /\ Heard(Start(k)).mode = "ground" =>
              /\ Heard(Start(k) + 1).mode = "esc" /\ Heard(Start(k) + 2).mode = "osc"
              /\ Heard(Start(k) + 3).mode = "osc" /\ Heard(Start(k) + 4).mode = "oscEsc"
              /\ Heard(Start(k) + 4).payload = <<marks[k].kind>>
<1>1. PICK s : s = Start(k)
  OBVIOUS
<1>2. s \in Nat /\ s + 5 <= Len(printed) /\ Len(printed) \in Nat /\ marks[k].stop = s + 5
      /\ marks[k].kind \in {"C", "D"}
  BY <1>1, LayoutNumbers
<1>3. /\ printed[s + 1] = "esc" /\ printed[s + 2] = "]" /\ printed[s + 3] = marks[k].kind
      /\ printed[s + 4] = "esc" /\ printed[s + 5] = "\\"
  BY <1>1 DEF Layout, MarkerAt
<1>4. \A t \in 0..Len(printed) : Heard(t) \in Parsers
  BY HeardSteps
<1>5. \A t \in 0..(Len(printed) - 1) : Heard(t + 1) = Feed(Heard(t), printed[t + 1])
  BY HeardSteps
<1>6. /\ Heard(s) \in Parsers /\ Heard(s + 1) \in Parsers /\ Heard(s + 2) \in Parsers
      /\ Heard(s + 3) \in Parsers /\ Heard(s + 4) \in Parsers /\ Heard(s + 5) \in Parsers
  BY <1>2, <1>4
<1>7. Heard(s + 1) = Feed(Heard(s), "esc")
  BY <1>2, <1>3, <1>5
<1>8. Heard(s + 2) = Feed(Heard(s + 1), "]")
  <2>1. s + 1 \in 0..(Len(printed) - 1) /\ (s + 1) + 1 = s + 2
    BY <1>2
  <2>2. QED
    BY <1>3, <1>5, <2>1
<1>9. Heard(s + 3) = Feed(Heard(s + 2), marks[k].kind)
  <2>1. s + 2 \in 0..(Len(printed) - 1) /\ (s + 2) + 1 = s + 3
    BY <1>2
  <2>2. QED
    BY <1>3, <1>5, <2>1
<1>10. Heard(s + 4) = Feed(Heard(s + 3), "esc")
  <2>1. s + 3 \in 0..(Len(printed) - 1) /\ (s + 3) + 1 = s + 4
    BY <1>2
  <2>2. QED
    BY <1>3, <1>5, <2>1
<1>11. Heard(s + 5) = Feed(Heard(s + 4), "\\")
  <2>1. s + 4 \in 0..(Len(printed) - 1) /\ (s + 4) + 1 = s + 5
    BY <1>2
  <2>2. QED
    BY <1>3, <1>5, <2>1
<1>12. /\ Heard(s + 5).mode = "ground"
       /\ Heard(s).mode = "ground" =>
              /\ Heard(s + 1).mode = "esc" /\ Heard(s + 2).mode = "osc"
              /\ Heard(s + 3).mode = "osc" /\ Heard(s + 4).mode = "oscEsc"
              /\ Heard(s + 4).payload = <<marks[k].kind>>
  <2>1. PICK p0, kind : p0 = Heard(s) /\ kind = marks[k].kind
    OBVIOUS
  <2>2. p0 \in Parsers /\ kind \in {"C", "D"}
    BY <1>2, <1>6, <2>1
  <2>3. LET r1 == Feed(p0, "esc")
            r2 == Feed(r1, "]")
            r3 == Feed(r2, kind)
            r4 == Feed(r3, "esc")
        IN /\ Feed(r4, "\\").mode = "ground"
           /\ p0.mode = "ground" =>
                /\ r1.mode = "esc" /\ r2.mode = "osc" /\ r3.mode = "osc"
                /\ r4.mode = "oscEsc" /\ r4.payload = <<kind>>
    BY <2>2, MarkerRead
  <2>4. QED
    BY <1>7, <1>8, <1>9, <1>10, <1>11, <2>1, <2>3
<1>13. QED
  BY <1>1, <1>2, <1>12

(* No sequence is open where a text begins. *)
LEMMA BaseHeard ==
  ASSUME CaptureTypes, Layout, NEW k \in Places
  PROVE  Heard(Base(k)).mode = "ground"
<1>1. CASE k = 1
  <2>1. Heard(Base(k)) = Fresh
    BY <1>1, HeardSteps DEF Base
  <2>2. QED
    BY <2>1 DEF Fresh
<1>2. CASE k # 1
  <2>1. k - 1 \in DOMAIN marks
    BY <1>2, LayoutNumbers DEF Places
  <2>2. Base(k) = marks[k - 1].stop
    BY <1>2 DEF Base
  <2>3. QED
    BY <2>1, <2>2, MarkerHeard
<1>3. QED
  BY <1>1, <1>2

(* Prompts open none. *)
LEMMA PromptHeard ==
  ASSUME CaptureTypes, Layout, NEW k \in Places, ~AfterC(k), NEW t \in Base(k)..Start(k)
  PROVE  Heard(t).mode = "ground"
<1> DEFINE T == {i \in Base(k)..Start(k) : Heard(i).mode = "ground"}
<1>1. Base(k) \in Nat /\ Start(k) \in Nat /\ Start(k) <= Len(printed) /\ Base(k) <= Start(k)
  BY LayoutNumbers
<1>2. Base(k) \in T
  BY <1>1, BaseHeard
<1>3. \A i \in Base(k)..Start(k) : i # Base(k) /\ i - 1 \in T => i \in T
  <2> SUFFICES ASSUME NEW i \in Base(k)..Start(k), i # Base(k), i - 1 \in T PROVE i \in T
    OBVIOUS
  <2>1. i \in (Base(k) + 1)..Start(k) /\ i - 1 \in 0..(Len(printed) - 1) /\ (i - 1) + 1 = i
        /\ i - 1 \in 0..Len(printed)
    BY <1>1, LayoutNumbers
  <2>2. printed[i] = "prompt"
    BY <2>1 DEF Layout, Text
  <2>3. Heard(i) = Feed(Heard(i - 1), "prompt") /\ Heard(i - 1) \in Parsers
    BY <2>1, <2>2, HeardSteps
  <2>4. Heard(i - 1).mode = "ground"
    OBVIOUS
  <2>5. Heard(i).mode = "ground"
    BY <2>3, <2>4, MarkerBytes, FeedMode
  <2>6. QED
    BY <2>5
<1>4. Base(k) \in Int /\ Start(k) \in Int
  BY <1>1
<1> HIDE DEF T
<1>5. Base(k)..Start(k) \subseteq T
  BY <1>2, <1>3, <1>4, Upwards, ZenonT(30)
<1>6. QED
  BY <1>5 DEF T

(* No text has the payload of a marker. *)
LEMMA TextHeard ==
  ASSUME CaptureTypes, Layout, NEW k \in Places, NEW t \in Base(k)..Start(k)
  PROVE  PlainPayload(Heard(t))
<1> DEFINE T == {i \in Base(k)..Start(k) : PlainPayload(Heard(i))}
<1>1. Base(k) \in Nat /\ Start(k) \in Nat /\ Start(k) <= Len(printed) /\ Base(k) <= Start(k)
  BY LayoutNumbers
<1>2. Base(k) \in T
  BY <1>1, BaseHeard DEF PlainPayload, InSequence
<1>3. \A i \in Base(k)..Start(k) : i # Base(k) /\ i - 1 \in T => i \in T
  <2> SUFFICES ASSUME NEW i \in Base(k)..Start(k), i # Base(k), i - 1 \in T PROVE i \in T
    OBVIOUS
  <2>1. i \in (Base(k) + 1)..Start(k) /\ i - 1 \in 0..(Len(printed) - 1) /\ (i - 1) + 1 = i
        /\ i - 1 \in 0..Len(printed)
    BY <1>1, LayoutNumbers
  <2>2. printed[i] \in Plain
    BY <2>1, MarkerBytes DEF Layout, Text
  <2>3. Heard(i) = Feed(Heard(i - 1), printed[i]) /\ Heard(i - 1) \in Parsers
    BY <2>1, HeardSteps
  <2>4. PlainPayload(Heard(i - 1))
    OBVIOUS
  <2>5. PlainPayload(Heard(i))
    BY <2>2, <2>3, <2>4, FeedPlain
  <2>6. QED
    BY <2>5
<1>4. Base(k) \in Int /\ Start(k) \in Int
  BY <1>1
<1> HIDE DEF T
<1>5. Base(k)..Start(k) \subseteq T
  BY <1>2, <1>3, <1>4, Upwards, ZenonT(30)
<1>6. QED
  BY <1>5 DEF T

(* A text is read as if the terminal began with it. *)
LEMMA OwnText ==
  ASSUME CaptureTypes, Layout, NEW k \in Places, NEW t \in Base(k)..Start(k)
  PROVE  Alike(Push(Fresh, SubSeq(printed, Base(k) + 1, t)), Heard(t))
<1> DEFINE Own(i) == Push(Fresh, SubSeq(printed, Base(k) + 1, i))
           T == {i \in Base(k)..Start(k) : Alike(Own(i), Heard(i))}
<1>1. /\ Base(k) \in Nat /\ Start(k) \in Nat /\ Start(k) <= Len(printed) /\ Base(k) <= Start(k)
      /\ printed \in Seq(Symbols) /\ Len(printed) \in Nat
  BY LayoutNumbers
<1>2. Base(k) \in T
  <2>1. SubSeq(printed, Base(k) + 1, Base(k)) = <<>>
    BY <1>1
  <2>2. Own(Base(k)).mode = "ground"
    <3>1. Push(Fresh, <<>>) = Fresh /\ Fresh.mode = "ground"
      BY FreshTypes, PushNone DEF Fresh
    <3>2. QED
      BY <2>1, <3>1
  <2>3. Base(k) \in Base(k)..Start(k)
    BY <1>1
  <2>4. QED
    BY <2>2, <2>3, BaseHeard DEF Alike, InSequence
<1>3. \A i \in Base(k)..Start(k) : i # Base(k) /\ i - 1 \in T => i \in T
  <2> SUFFICES ASSUME NEW i \in Base(k)..Start(k), i # Base(k), i - 1 \in T PROVE i \in T
    OBVIOUS
  <2>1. /\ i - 1 \in 0..(Len(printed) - 1) /\ (i - 1) + 1 = i /\ i - 1 \in 0..Len(printed)
        /\ i - 1 \in Nat /\ Base(k) + 1 \in Nat \ {0} /\ Base(k) + 1 <= i /\ i <= Len(printed)
    BY <1>1
  <2>2. Heard(i) = Feed(Heard(i - 1), printed[i]) /\ Heard(i - 1) \in Parsers
    BY <2>1, HeardSteps
  <2>3. PICK s, m : s = SubSeq(printed, m, i - 1) /\ m = Base(k) + 1
    OBVIOUS
  <2>4. /\ s \in Seq(Symbols) /\ printed[i] \in Symbols
        /\ SubSeq(printed, m, i) = Append(s, printed[i])
    <3>1. m <= (i - 1) + 1 /\ (i - 1) + 1 <= Len(printed) /\ m \in Nat \ {0}
      BY <2>1, <2>3
    <3>2. /\ SubSeq(printed, m, i - 1) \in Seq(Symbols) /\ printed[(i - 1) + 1] \in Symbols
          /\ SubSeq(printed, m, (i - 1) + 1)
               = Append(SubSeq(printed, m, i - 1), printed[(i - 1) + 1])
      BY <1>1, <2>1, <3>1, OneMore
    <3>3. QED
      BY <2>1, <2>3, <3>2
  <2>5. Push(Fresh, Append(s, printed[i])) = Feed(Push(Fresh, s), printed[i])
    BY <2>4, FreshTypes, PushMore
  <2>6. Own(i) = Feed(Own(i - 1), printed[i])
    BY <2>3, <2>4, <2>5
  <2>7. Own(i - 1) \in Parsers
    BY <2>3, <2>4, FreshTypes, PushTypes
  <2>8. Alike(Own(i - 1), Heard(i - 1))
    OBVIOUS
  <2> HIDE DEF Own
  <2>9. Alike(Own(i), Heard(i))
    BY <2>2, <2>4, <2>6, <2>7, <2>8, FeedAlike
  <2>10. QED
    BY <2>9
<1>4. Base(k) \in Int /\ Start(k) \in Int
  BY <1>1
<1> HIDE DEF T
<1>5. Base(k)..Start(k) \subseteq T
  BY <1>2, <1>3, <1>4, Upwards, ZenonT(30)
<1>6. QED
  BY <1>5 DEF T

LEMMA ClosedHeard ==
  ASSUME CaptureTypes, Layout, NEW k \in DOMAIN marks, k > 1
  PROVE  /\ BlockOf(k) = SubSeq(printed, Base(k) + 1, Start(k))
         /\ Closed(BlockOf(k)) => Heard(Start(k)).mode = "ground"
<1>1. k \in Places /\ Base(k) <= Start(k) /\ Base(k) \in Nat /\ Start(k) \in Nat
      /\ k \in Nat /\ marks[k].stop = Start(k) + 5
  BY LayoutNumbers
<1>2. Base(k) = marks[k - 1].stop /\ marks[k].stop - 5 = Start(k)
  BY <1>1 DEF Base
<1>3. BlockOf(k) = SubSeq(printed, Base(k) + 1, Start(k))
  <2>1. Len(Marker("D")) = 5
    BY MarkerForm
  <2>2. BlockOf(k) = SubSeq(printed, marks[k - 1].stop + 1, marks[k].stop - 5)
    BY <2>1 DEF BlockOf
  <2>3. QED
    BY <1>2, <2>2
<1>4. Start(k) \in Base(k)..Start(k)
  BY <1>1
<1>5. Alike(Push(Fresh, BlockOf(k)), Heard(Start(k)))
  BY <1>1, <1>3, <1>4, OwnText
<1>6. QED
  BY <1>3, <1>5 DEF Closed, Alike

-----------------------------------------------------------------------------
(* What a byte of the terminal does to the open block.                     *)

\* The text with its marker that the byte after t belongs to.
Within(k, t) ==
  k \in Places /\ Base(k) <= t /\ t <= Len(printed) /\ (k <= Len(marks) => t < marks[k].stop)

\* The parser holds what the command printed and, once the end marker has
\* begun, knows where.
InBlock(p, k, t) ==
  /\ p.inCommand /\ p.buf = Cut(SubSeq(printed, Base(k) + 1, t))
  /\ k <= Len(marks) /\ t > Start(k) /\ Closed(BlockOf(k)) => p.seqStart = Len(Cut(BlockOf(k)))

LEMMA MarkerInside ==
  ASSUME CaptureTypes, Layout, NEW k \in DOMAIN marks, NEW t \in Nat,
         Start(k) <= t, t + 1 < marks[k].stop
  PROVE  /\ printed[t + 1] \notin {"bel", "\\"}
         /\ t \in {Start(k), Start(k) + 1, Start(k) + 2, Start(k) + 3}
<1>1. Start(k) \in Nat /\ marks[k].stop = Start(k) + 5 /\ marks[k].kind \in {"C", "D"}
  BY LayoutNumbers
<1>2. t \in {Start(k), Start(k) + 1, Start(k) + 2, Start(k) + 3}
  BY <1>1
<1>3. t + 1 \in {Start(k) + 1, Start(k) + 2, Start(k) + 3, Start(k) + 4}
  BY <1>1, <1>2
<1>4. /\ printed[Start(k) + 1] = "esc" /\ printed[Start(k) + 2] = "]"
      /\ printed[Start(k) + 3] = marks[k].kind /\ printed[Start(k) + 4] = "esc"
  BY DEF Layout, MarkerAt
<1>5. printed[t + 1] \in {"esc", "]", "C", "D"}
  BY <1>1, <1>3, <1>4
<1>6. QED
  BY <1>2, <1>5, MarkerBytes

(* Only the last byte of a marker ends the shell's sequence. *)
LEMMA OtherByte ==
  ASSUME CaptureTypes, Layout, NEW k, NEW t \in Nat, Within(k, t), t + 1 <= Len(printed),
         k <= Len(marks) => t + 1 # marks[k].stop,
         NEW p \in Parsers, Alike(p, Heard(t))
  PROVE  LET r == Feed(p, printed[t + 1])
         IN /\ r.buf = Buffered(p, printed[t + 1]) /\ r.inCommand = p.inCommand
            /\ r.ends = p.ends
            /\ r.seqStart = IF p.mode = "ground" /\ printed[t + 1] = "esc"
                              THEN Len(p.buf) ELSE p.seqStart
<1>1. k \in Places /\ Base(k) <= t /\ Base(k) \in Nat /\ Start(k) \in Nat /\ Len(printed) \in Nat
  BY LayoutNumbers DEF Within
<1>2. printed[t + 1] \in Symbols
  <2>1. t \in 0..(Len(printed) - 1)
    BY <1>1
  <2>2. QED
    BY <2>1, HeardSteps
<1>3. printed[t + 1] \in {"bel", "\\"} /\ InSequence(p) => p.payload \notin {<<"C">>, <<"D">>}
  <2>1. CASE t <= Start(k)
    <3>1. PlainPayload(Heard(t))
      BY <1>1, <2>1, TextHeard
    <3>2. InSequence(p) => p.payload \in Seq(Plain)
      BY <3>1 DEF Alike, PlainPayload, InSequence
    <3>3. QED
      BY <3>2, PlainIsNoMarker
  <2>2. CASE ~(t <= Start(k))
    <3>1. k \in DOMAIN marks
      <4>1. k \in Nat /\ k >= 1 /\ Len(marks) \in Nat /\ DOMAIN marks = 1..Len(marks)
        BY <1>1, LayoutNumbers DEF Places
      <4>2. k <= Len(marks)
        BY <1>1, <2>2, <4>1 DEF Start
      <4>3. QED
        BY <4>1, <4>2
    <3>2. t + 1 < marks[k].stop /\ Start(k) <= t
      <4>1. marks[k].stop \in Nat /\ k <= Len(marks)
        BY <3>1, LayoutNumbers
      <4>2. QED
        BY <1>1, <2>2, <4>1 DEF Within
    <3>3. QED
      BY <3>1, <3>2, MarkerInside
  <2>3. QED
    BY <2>1, <2>2
<1>4. QED
  BY <1>2, <1>3, FeedBuffers

LEMMA InBlockNext ==
  ASSUME CaptureTypes, Layout, NEW k, NEW t \in Nat, Within(k, t), t + 1 <= Len(printed),
         k <= Len(marks) => t + 1 # marks[k].stop,
         NEW p \in Parsers, Alike(p, Heard(t)), AfterC(k), InBlock(p, k, t)
  PROVE  InBlock(Feed(p, printed[t + 1]), k, t + 1)
<1>1. PICK r, b : r = Feed(p, b) /\ b = printed[t + 1]
  OBVIOUS
<1>2. /\ r.buf = Buffered(p, b) /\ r.inCommand = p.inCommand
      /\ r.seqStart = IF p.mode = "ground" /\ b = "esc" THEN Len(p.buf) ELSE p.seqStart
  BY <1>1, OtherByte
<1>3. k \in Places /\ Base(k) <= t /\ Base(k) \in Nat /\ Start(k) \in Nat /\ Len(printed) \in Nat
      /\ printed \in Seq(Symbols) /\ k \in Nat /\ k > 1 /\ Len(marks) \in Nat
  BY LayoutNumbers DEF Within, AfterC
<1>4. PICK s, m : s = SubSeq(printed, m, t) /\ m = Base(k) + 1
  OBVIOUS
<1>5. s \in Seq(Symbols) /\ b \in Symbols /\ SubSeq(printed, m, t + 1) = Append(s, b)
  <2>1. m \in Nat \ {0} /\ m <= t + 1
    BY <1>3, <1>4
  <2>2. QED
    BY <1>1, <1>3, <1>4, <2>1, OneMore
<1>6. p.inCommand /\ p.buf = Cut(s)
  BY <1>4 DEF InBlock
<1>7. r.buf = Cut(SubSeq(printed, Base(k) + 1, t + 1))
  <2>1. Buffered(p, b) = IF Len(p.buf) < MaxBlock THEN Append(p.buf, b) ELSE p.buf
    BY <1>6 DEF Buffered
  <2>2. Cut(Append(s, b)) = IF Len(Cut(s)) < MaxBlock THEN Append(Cut(s), b) ELSE Cut(s)
    BY <1>5, CutMore
  <2>3. QED
    BY <1>2, <1>4, <1>5, <1>6, <2>1, <2>2
<1>8. ASSUME k <= Len(marks), t + 1 > Start(k), Closed(BlockOf(k))
      PROVE  r.seqStart = Len(Cut(BlockOf(k)))
  <2>1. k \in DOMAIN marks /\ t + 1 < marks[k].stop /\ Start(k) <= t
    <3>1. k \in DOMAIN marks
      BY <1>3, <1>8, LayoutNumbers
    <3>2. marks[k].stop \in Nat
      BY <3>1, LayoutNumbers
    <3>3. QED
      BY <1>3, <1>8, <3>1, <3>2 DEF Within
  <2>2. BlockOf(k) = SubSeq(printed, Base(k) + 1, Start(k)) /\ Heard(Start(k)).mode = "ground"
    BY <1>3, <1>8, <2>1, ClosedHeard
  <2>3. t \in {Start(k), Start(k) + 1, Start(k) + 2, Start(k) + 3}
    BY <2>1, MarkerInside
  <2>4. p.mode = Heard(t).mode
    BY DEF Alike
  <2>5. CASE t = Start(k)
    <3>1. b = "esc"
      BY <1>1, <2>1, <2>5 DEF Layout, MarkerAt
    <3>2. r.seqStart = Len(p.buf)
      BY <1>2, <2>2, <2>4, <2>5, <3>1
    <3>3. QED
      BY <1>4, <1>6, <2>2, <2>5, <3>2
  <2>6. CASE t # Start(k)
    <3>1. p.mode # "ground"
      <4>1. Heard(Start(k) + 1).mode = "esc" /\ Heard(Start(k) + 2).mode = "osc"
            /\ Heard(Start(k) + 3).mode = "osc"
        BY <2>1, <2>2, MarkerHeard
      <4>2. QED
        BY <2>3, <2>4, <2>6, <4>1
    <3>2. t > Start(k)
      BY <1>3, <2>1, <2>6
    <3>3. p.seqStart = Len(Cut(BlockOf(k)))
      BY <1>8, <3>2 DEF InBlock
    <3>4. QED
      BY <1>2, <3>1, <3>3
  <2>7. QED
    BY <2>5, <2>6
<1>9. QED
  BY <1>1, <1>2, <1>6, <1>7, <1>8 DEF InBlock

(* A start marker opens the block of the text after it. *)
LEMMA StartRead ==
  ASSUME CaptureTypes, Layout, NEW k \in DOMAIN marks, marks[k].kind = "C",
         NEW p \in Parsers, Alike(p, Heard(marks[k].stop - 1))
  PROVE  LET r == Feed(p, printed[marks[k].stop])
         IN InBlock(r, k + 1, marks[k].stop) /\ r.ends = p.ends
<1>1. /\ k \in Places /\ Base(k) <= Start(k) /\ Base(k) \in Nat /\ Start(k) \in Nat
      /\ k \in Nat /\ marks[k].stop = Start(k) + 5 /\ k + 1 \in Places
      /\ printed \in Seq(Symbols)
  BY LayoutNumbers DEF Places
<1>2. ~AfterC(k)
  BY DEF Layout
<1>3. Heard(Start(k)).mode = "ground"
  BY <1>1, <1>2, PromptHeard
<1>4. Heard(Start(k) + 4).mode = "oscEsc" /\ Heard(Start(k) + 4).payload = <<"C">>
  BY <1>3, MarkerHeard
<1>5. marks[k].stop - 1 = Start(k) + 4
  BY <1>1
<1>6. p.mode = "oscEsc" /\ p.payload = <<"C">>
  BY <1>4, <1>5 DEF Alike, InSequence
<1>7. printed[marks[k].stop] = "\\"
  BY <1>1 DEF Layout, MarkerAt
<1>8. PICK r : r = Feed(p, "\\")
  OBVIOUS
<1>9. r.buf = <<>> /\ r.inCommand = TRUE /\ r.ends = p.ends
  BY <1>6, <1>8, FeedMarkerEnd
<1>10. Base(k + 1) = marks[k].stop /\ Base(k + 1) <= Start(k + 1) /\ Start(k + 1) \in Nat
  <2>1. k + 1 # 1 /\ (k + 1) - 1 = k
    BY <1>1
  <2>2. QED
    BY <1>1, <2>1, LayoutNumbers DEF Base
<1>11. r.buf = Cut(SubSeq(printed, Base(k + 1) + 1, marks[k].stop))
  <2>1. SubSeq(printed, Base(k + 1) + 1, marks[k].stop) = <<>>
    BY <1>1, <1>10
  <2>2. <<>> \in Seq(Symbols) /\ Len(<<>>) = 0 /\ 0 <= MaxBlock
    BY CapsAssumption
  <2>3. Cut(<<>>) \in Seq(Symbols) /\ Len(Cut(<<>>)) = 0
    BY <2>2, CutFacts
  <2>4. Cut(<<>>) = <<>>
    BY <2>3
  <2>5. QED
    BY <1>9, <2>1, <2>4
<1>12. ~(marks[k].stop > Start(k + 1))
  BY <1>1, <1>10
<1>13. QED
  BY <1>7, <1>8, <1>9, <1>11, <1>12 DEF InBlock

LEMMA PieceFacts ==
  ASSUME NEW s \in Seq(Symbols), NEW m \in Nat, NEW n \in Nat, m <= n, n <= Len(s)
  PROVE  /\ SubSeq(s, m + 1, n) \in Seq(Symbols) /\ Len(SubSeq(s, m + 1, n)) = n - m
         /\ \A i \in 1..(n - m) : SubSeq(s, m + 1, n)[i] = s[m + i]
<1>1. PICK u, l : u = SubSeq(s, l, n) /\ l = m + 1
  OBVIOUS
<1>2. /\ u \in Seq(Symbols) /\ Len(u) = (n + 1) - l
      /\ \A i \in 1..((n + 1) - l) : u[i] = s[l + i - 1]
  BY <1>1
<1>3. (n + 1) - l = n - m /\ \A i \in 1..(n - m) : l + i - 1 = m + i
  BY <1>1
<1>4. \A i \in 1..(n - m) : u[i] = s[m + i]
  BY <1>2, <1>3
<1>5. QED
  BY <1>1, <1>2, <1>3, <1>4

(* An end marker closes the block that was closed by its text. *)
LEMMA EndRead ==
  ASSUME CaptureTypes, Layout, NEW k \in DOMAIN marks, AfterC(k), Closed(BlockOf(k)),
         NEW p \in Parsers, Alike(p, Heard(marks[k].stop - 1)),
         InBlock(p, k, marks[k].stop - 1)
  PROVE  LET r == Feed(p, printed[marks[k].stop])
         IN r.ends = p.ends + 1 /\ r.buf = Cut(BlockOf(k))
<1>1. /\ k \in Places /\ Base(k) <= Start(k) /\ Base(k) \in Nat /\ Start(k) \in Nat
      /\ k \in Nat /\ marks[k].stop = Start(k) + 5 /\ marks[k].stop <= Len(printed)
      /\ printed \in Seq(Symbols) /\ k > 1 /\ Len(printed) \in Nat /\ k <= Len(marks)
  BY LayoutNumbers DEF AfterC
<1>2. marks[k].kind = "D" /\ printed[marks[k].stop] = "\\"
  BY <1>1 DEF Layout, MarkerAt
<1>3. BlockOf(k) = SubSeq(printed, Base(k) + 1, Start(k)) /\ Heard(Start(k)).mode = "ground"
  BY <1>1, ClosedHeard
<1>4. Heard(Start(k) + 4).mode = "oscEsc" /\ Heard(Start(k) + 4).payload = <<"D">>
  BY <1>2, <1>3, MarkerHeard
<1>5. marks[k].stop - 1 = Start(k) + 4
  BY <1>1
<1>6. p.mode = "oscEsc" /\ p.payload = <<"D">>
  BY <1>4, <1>5 DEF Alike, InSequence
<1>7. PICK r, b : r = Feed(p, b) /\ b = "\\"
  OBVIOUS
<1>8. PICK s, t, m : s = BlockOf(k) /\ t = SubSeq(printed, m, marks[k].stop) /\ m = Base(k) + 1
  OBVIOUS
<1>9. p.inCommand /\ p.buf = Cut(SubSeq(printed, m, marks[k].stop - 1))
      /\ p.seqStart = Len(Cut(s))
  <2>1. marks[k].stop - 1 > Start(k)
    BY <1>1
  <2>2. QED
    BY <1>1, <1>8, <2>1 DEF InBlock
<1>10. r.ends = p.ends + 1 /\ r.buf = SubSeq(Buffered(p, b), 1, p.seqStart)
  BY <1>6, <1>7, <1>9, FeedMarkerEnd
<1>11. PICK u : u = SubSeq(printed, m, marks[k].stop - 1)
  OBVIOUS
<1>12. u \in Seq(Symbols) /\ b \in Symbols /\ t = Append(u, b)
  <2>1. /\ m \in Nat \ {0} /\ marks[k].stop - 1 \in Nat /\ m <= (marks[k].stop - 1) + 1
        /\ (marks[k].stop - 1) + 1 = marks[k].stop
    BY <1>1, <1>8
  <2>2. /\ SubSeq(printed, m, marks[k].stop - 1) \in Seq(Symbols)
        /\ printed[(marks[k].stop - 1) + 1] \in Symbols
        /\ SubSeq(printed, m, (marks[k].stop - 1) + 1)
             = Append(SubSeq(printed, m, marks[k].stop - 1), printed[(marks[k].stop - 1) + 1])
    BY <1>1, <2>1, OneMore
  <2>3. QED
    BY <1>2, <1>7, <1>8, <1>11, <2>1, <2>2
<1>13. Buffered(p, b) = Cut(t)
  <2>1. Buffered(p, b) = IF Len(p.buf) < MaxBlock THEN Append(p.buf, b) ELSE p.buf
    BY <1>9 DEF Buffered
  <2>2. Cut(Append(u, b)) = IF Len(Cut(u)) < MaxBlock THEN Append(Cut(u), b) ELSE Cut(u)
    BY <1>12, CutMore
  <2>3. QED
    BY <1>9, <1>11, <1>12, <2>1, <2>2
<1>14. SubSeq(Cut(t), 1, Len(Cut(s))) = Cut(s)
  <2>1. /\ s \in Seq(Symbols) /\ Len(s) = Start(k) - Base(k)
        /\ \A i \in 1..(Start(k) - Base(k)) : s[i] = printed[Base(k) + i]
    <3>1. s = SubSeq(printed, Base(k) + 1, Start(k)) /\ Start(k) <= Len(printed)
      BY <1>1, <1>3, <1>8
    <3>2. QED
      BY <1>1, <3>1, PieceFacts
  <2>2. /\ t \in Seq(Symbols) /\ Len(t) = marks[k].stop - Base(k)
        /\ \A i \in 1..(marks[k].stop - Base(k)) : t[i] = printed[Base(k) + i]
    <3>1. /\ t = SubSeq(printed, Base(k) + 1, marks[k].stop) /\ Base(k) <= marks[k].stop
          /\ marks[k].stop \in Nat
      BY <1>1, <1>8
    <3>2. QED
      BY <1>1, <3>1, PieceFacts
  <2>3. Len(s) <= Len(t) /\ \A i \in 1..Len(s) :
          i \in 1..(Start(k) - Base(k)) /\ i \in 1..(marks[k].stop - Base(k))
    BY <1>1, <2>1, <2>2
  <2>4. \A i \in 1..Len(s) : t[i] = s[i]
    BY <2>1, <2>2, <2>3
  <2>5. QED
    BY <2>1, <2>2, <2>3, <2>4, CutBack
<1>15. r.buf = Cut(BlockOf(k))
  BY <1>8, <1>9, <1>10, <1>13, <1>14
<1>16. QED
  BY <1>2, <1>7, <1>10, <1>15

-----------------------------------------------------------------------------
(* The open block, from the shell to the log.                              *)

LastIsD == Len(marks) > 0 /\ marks[Len(marks)].kind = "D"

(* The report in the file is that of the last end marker until the next     *)
(* report is opened.                                                        *)
Reports ==
  /\ shell \in {"prompt", "input"} => ~AfterC(Len(marks) + 1)
  /\ shell = "running" => AfterC(Len(marks) + 1)
  /\ shell = "reporting" => pending \in {Partial, Absent}
  /\ shell = "reported" => pending \in {hist, Absent}
  /\ shell \in {"prompt", "input", "hook"} /\ LastIsD =>
       /\ marks[Len(marks)].of = hist /\ pending \in {hist, Absent}
       /\ taken = marks[Len(marks)].stop /\ recorder # Idle => recorder.of = hist

(* Unless it is late, the proxy holds the open block as far as it has read, *)
(* and at its end marker the whole of it, in the parser or the recorder.    *)
Following ==
  /\ Alike(parser, Heard(taken))
  /\ ~late =>
       /\ \A k \in Places :
            Within(k, taken) /\ AfterC(k) => InBlock(parser, k, taken) /\ parser.ends = 0
       /\ \A k \in DOMAIN marks :
            AfterC(k) /\ marks[k].stop = taken /\ Closed(BlockOf(k)) =>
              \/ parser.ends = 1 /\ recorder = Idle /\ parser.buf = Cut(BlockOf(k))
              \/ parser.ends = 0 /\ (recorder # Idle => recorder.output = Cut(BlockOf(k)))

BlockInv == faults = MaxFaults => Layout /\ Reports /\ Following

-----------------------------------------------------------------------------
(* The shell goes on printing: what was printed stays. *)
Grown ==
  /\ printed' \in Seq(Symbols) /\ Len(printed) <= Len(printed')
  /\ \A i \in 1..Len(printed) : printed'[i] = printed[i]
  /\ \A k \in DOMAIN marks : marks'[k] = marks[k]
  /\ \/ Len(marks') = Len(marks)
     \/ Len(marks') = Len(marks) + 1 /\ marks'[Len(marks) + 1].stop = Len(printed) + 5

LEMMA GrownPieces ==
  ASSUME CaptureTypes, Grown
  PROVE  /\ \A m \in Nat \ {0} : \A t \in 0..Len(printed) :
              SubSeq(printed', m, t) = SubSeq(printed, m, t)
         /\ \A t \in 0..Len(printed) : Heard(t)' = Heard(t)
<1>1. /\ printed \in Seq(Symbols) /\ Len(printed) \in Nat
      /\ printed' \in Seq(Symbols) /\ Len(printed') \in Nat /\ Len(printed) <= Len(printed')
      /\ \A i \in 1..Len(printed) : printed'[i] = printed[i]
  BY DEF CaptureTypes, ShellTypes, Grown
<1>2. ASSUME NEW m \in Nat \ {0}, NEW t \in 0..Len(printed)
      PROVE  SubSeq(printed', m, t) = SubSeq(printed, m, t)
  <2>1. PICK u, v, n : u = SubSeq(printed', m, t) /\ v = SubSeq(printed, m, t)
                       /\ n = IF m <= t THEN (t + 1) - m ELSE 0
    OBVIOUS
  <2>2. n \in Nat
    BY <2>1
  <2>3. u \in Seq(Symbols) /\ Len(u) = n /\ \A i \in 1..n : u[i] = printed'[m + i - 1]
    BY <1>1, <2>1
  <2>4. v \in Seq(Symbols) /\ Len(v) = n /\ \A i \in 1..n : v[i] = printed[m + i - 1]
    BY <1>1, <2>1
  <2>5. \A i \in 1..n : m + i - 1 \in 1..Len(printed)
    BY <1>1, <2>1
  <2>6. \A i \in 1..n : u[i] = v[i]
    BY <1>1, <2>3, <2>4, <2>5
  <2>7. u = v
    BY <2>2, <2>3, <2>4, <2>6
  <2>8. QED
    BY <2>1, <2>7
<1>3. ASSUME NEW t \in 0..Len(printed)
      PROVE  Heard(t)' = Heard(t)
  <2>1. SubSeq(printed', 1, t) = SubSeq(printed, 1, t)
    BY <1>2
  <2>2. QED
    BY <2>1 DEF Heard
<1>4. QED
  BY <1>2, <1>3

LEMMA GrownMarks ==
  ASSUME CaptureTypes, Layout, Grown, Len(marks') \in Nat
  PROVE  /\ \A k \in Places : /\ k \in Places' /\ Base(k)' = Base(k)
                              /\ AfterC(k)' <=> AfterC(k)
         /\ \A k \in DOMAIN marks : Start(k)' = Start(k)
         /\ \A k \in DOMAIN marks : k > 1 => BlockOf(k)' = BlockOf(k)
         /\ \A k \in Nat : k = Len(marks) + 1 /\ Len(marks') = k => Start(k)' = Len(printed)
<1>1. /\ Len(marks) \in Nat /\ DOMAIN marks = 1..Len(marks) /\ Len(printed) \in Nat
      /\ Len(marks) <= Len(marks') /\ \A k \in DOMAIN marks : marks'[k] = marks[k]
  BY LayoutNumbers DEF Grown
<1>2. \A k \in Places : k \in Nat /\ k >= 1 /\ k <= Len(marks) + 1
                        /\ (k # 1 => k > 1 /\ k - 1 \in DOMAIN marks)
  BY <1>1 DEF Places
<1>3. \A k \in Places : k \in Places' /\ Base(k)' = Base(k) /\ (AfterC(k)' <=> AfterC(k))
  BY <1>1, <1>2 DEF Places, Base, AfterC
<1>4. \A k \in DOMAIN marks : Start(k)' = Start(k)
  BY <1>1 DEF Start
<1>5. ASSUME NEW k \in DOMAIN marks, k > 1
      PROVE  BlockOf(k)' = BlockOf(k)
  <2>1. k \in Places /\ Base(k) \in Nat /\ Start(k) \in Nat /\ Start(k) <= Len(printed)
    BY LayoutNumbers
  <2>2. Base(k) = marks[k - 1].stop /\ Start(k) = marks[k].stop - 5
    BY <1>1, <1>5, <2>1 DEF Base, Start
  <2>3. marks'[k - 1].stop = Base(k) /\ marks'[k].stop - 5 = Start(k)
    BY <1>1, <1>5, <2>2
  <2>4. Len(Marker("D")) = 5
    BY MarkerForm
  <2>5. BlockOf(k) = SubSeq(printed, Base(k) + 1, Start(k))
    BY <2>2, <2>4 DEF BlockOf
  <2>6. BlockOf(k)' = SubSeq(printed', Base(k) + 1, Start(k))
    BY <2>3, <2>4 DEF BlockOf
  <2>7. SubSeq(printed', Base(k) + 1, Start(k)) = SubSeq(printed, Base(k) + 1, Start(k))
    <3>1. Base(k) + 1 \in Nat \ {0} /\ Start(k) \in 0..Len(printed)
      BY <1>1, <2>1
    <3>2. QED
      BY <3>1, GrownPieces
  <2>8. QED
    BY <2>5, <2>6, <2>7
<1>6. ASSUME NEW k \in Nat, k = Len(marks) + 1, Len(marks') = k
      PROVE  Start(k)' = Len(printed)
  <2>1. marks'[k].stop = Len(printed) + 5
    <3>1. Len(marks') # Len(marks)
      <4>1. PICK n : n = Len(marks)
        OBVIOUS
      <4>2. n \in Nat /\ Len(marks') = n + 1
        BY <1>1, <1>6, <4>1
      <4>3. QED
        BY <4>1, <4>2
    <3>2. QED
      BY <1>6, <3>1 DEF Grown
  <2>2. Start(k)' = (Len(printed) + 5) - 5
    BY <1>6, <2>1 DEF Start
  <2>3. QED
    BY <1>1, <2>2
<1>7. QED
  BY <1>3, <1>4, <1>5, <1>6

(* A command's output, or a prompt. *)
LEMMA TextGrown ==
  ASSUME CaptureTypes, Layout, marks' = marks, NEW output \in Seq(Symbols),
         printed' = printed \o output,
         \A i \in 1..Len(output) :
            output[i] \in IF AfterC(Len(marks) + 1) THEN Plain ELSE {"prompt"}
  PROVE  Layout' /\ Grown
<1>1. printed \in Seq(Symbols) /\ Len(printed) \in Nat /\ Len(marks) \in Nat
      /\ DOMAIN marks = 1..Len(marks) /\ Len(marks) + 1 \in Places
  BY LayoutNumbers DEF Places
<1>2. /\ printed' \in Seq(Symbols) /\ Len(printed') = Len(printed) + Len(output)
      /\ Len(output) \in Nat
      /\ \A i \in 1..Len(printed) : printed'[i] = printed[i]
      /\ \A i \in (Len(printed) + 1)..Len(printed') : printed'[i] = output[i - Len(printed)]
  BY <1>1
<1>3. Grown
  BY <1>1, <1>2 DEF Grown
<1>4. /\ Places' = Places /\ \A k : Base(k)' = Base(k) /\ (AfterC(k)' <=> AfterC(k))
      /\ \A k \in DOMAIN marks : Start(k)' = Start(k)
      /\ \A k : k = Len(marks) + 1 => Start(k) = Len(printed) /\ Start(k)' = Len(printed')
  BY <1>1 DEF Places, Base, AfterC, Start
<1>5. ASSUME NEW k \in DOMAIN marks
      PROVE  MarkerAt(k)' /\ marks[k].stop <= Len(printed')
  <2>1. Start(k) \in Nat /\ marks[k].stop = Start(k) + 5 /\ marks[k].stop <= Len(printed)
    BY LayoutNumbers
  <2>2. /\ Start(k) + 1 \in 1..Len(printed) /\ Start(k) + 2 \in 1..Len(printed)
        /\ Start(k) + 3 \in 1..Len(printed) /\ Start(k) + 4 \in 1..Len(printed)
        /\ Start(k) + 5 \in 1..Len(printed)
    BY <1>1, <2>1
  <2>3. MarkerAt(k)
    BY DEF Layout
  <2>4. /\ printed'[Start(k) + 1] = "esc" /\ printed'[Start(k) + 2] = "]"
        /\ printed'[Start(k) + 3] = marks[k].kind
        /\ printed'[Start(k) + 4] = "esc" /\ printed'[Start(k) + 5] = "\\"
    BY <1>2, <2>2, <2>3 DEF MarkerAt
  <2>5. Start(k)' = Start(k) /\ marks' = marks
    BY <1>4
  <2>6. MarkerAt(k)'
    BY <2>4, <2>5 DEF MarkerAt
  <2>7. QED
    BY <1>1, <1>2, <2>1, <2>6
<1>6. ASSUME NEW k \in Places
      PROVE  Base(k)' <= Start(k)' /\ Text(k)'
  <2>1. /\ Base(k) \in Nat /\ Base(k) <= Start(k) /\ Start(k) \in Nat /\ Start(k) <= Len(printed)
    BY LayoutNumbers
  <2>2. \A i \in (Base(k) + 1)..Start(k) : printed[i] \in IF AfterC(k) THEN Plain ELSE {"prompt"}
    BY DEF Layout, Text
  <2>3. \A i \in (Base(k) + 1)..Start(k) : i \in 1..Len(printed)
    BY <1>1, <2>1
  <2>4. CASE k \in DOMAIN marks
    <3>1. Start(k)' = Start(k) /\ Base(k)' = Base(k)
      BY <1>4, <2>4
    <3>2. QED
      BY <1>2, <1>4, <2>1, <2>2, <2>3, <3>1 DEF Text
  <2>5. CASE k = Len(marks) + 1
    <3>1. Start(k) = Len(printed) /\ Start(k)' = Len(printed') /\ Base(k)' = Base(k)
      BY <1>4, <2>5
    <3>2. ASSUME NEW i \in (Base(k) + 1)..Len(printed')
          PROVE  printed'[i] \in IF AfterC(k) THEN Plain ELSE {"prompt"}
      <4>1. CASE i <= Len(printed)
        BY <1>1, <1>2, <2>1, <2>2, <3>1, <4>1
      <4>2. CASE ~(i <= Len(printed))
        <5>1. i \in (Len(printed) + 1)..Len(printed') /\ i - Len(printed) \in 1..Len(output)
          BY <1>1, <1>2, <2>1, <4>2
        <5>2. QED
          BY <1>2, <2>5, <5>1
      <4>3. QED
        BY <4>1, <4>2
    <3>3. Base(k) <= Len(printed')
      BY <1>1, <1>2, <2>1, <3>1
    <3>4. QED
      BY <1>4, <3>1, <3>2, <3>3 DEF Text
  <2>6. QED
    BY <1>1, <2>4, <2>5 DEF Places
<1>7. Layout'
  BY <1>1, <1>4, <1>5, <1>6 DEF Layout
<1>8. QED
  BY <1>3, <1>7

LEMMA Joined ==
  ASSUME NEW s \in Seq(Symbols), NEW t \in Seq(Symbols)
  PROVE  /\ s \o t \in Seq(Symbols) /\ Len(s \o t) = Len(s) + Len(t)
         /\ \A i \in 1..Len(s) : (s \o t)[i] = s[i]
         /\ \A i \in 1..Len(t) : (s \o t)[Len(s) + i] = t[i]
<1>1. PICK u, m, n : u = s \o t /\ m = Len(s) /\ n = Len(t)
  OBVIOUS
<1>2. /\ m \in Nat /\ n \in Nat /\ u \in Seq(Symbols) /\ Len(u) = m + n
      /\ \A i \in 1..(m + n) : u[i] = IF i <= m THEN s[i] ELSE t[i - m]
  BY <1>1
<1>3. ASSUME NEW i \in 1..n
      PROVE  u[m + i] = t[i]
  <2>1. m + i \in 1..(m + n) /\ ~(m + i <= m) /\ (m + i) - m = i
    BY <1>2
  <2>2. u[m + i] = t[(m + i) - m]
    BY <1>2, <2>1
  <2>3. QED
    BY <2>1, <2>2
<1>4. \A i \in 1..m : u[i] = s[i]
  BY <1>2
<1>5. QED
  BY <1>1, <1>2, <1>3, <1>4

(* A marker. *)
LEMMA MarkerGrown ==
  ASSUME CaptureTypes, Layout, NEW kind \in {"C", "D"}, NEW of \in Nat, NEW stop,
         stop = Len(printed'), printed' = printed \o Marker(kind),
         marks' = Append(marks, [kind |-> kind, stop |-> stop, of |-> of]),
         AfterC(Len(marks) + 1) => kind = "D"
  PROVE  /\ Layout' /\ Grown
         /\ Len(marks') = Len(marks) + 1 /\ marks'[Len(marks) + 1].kind = kind
         /\ marks'[Len(marks) + 1].stop = Len(printed) + 5 /\ marks'[Len(marks) + 1].of = of
<1>1. printed \in Seq(Symbols) /\ Len(printed) \in Nat /\ Len(marks) \in Nat
      /\ DOMAIN marks = 1..Len(marks) /\ Len(marks) + 1 \in Places
  BY LayoutNumbers DEF Places
<1>2. Marker(kind) \in Seq(Symbols) /\ Len(Marker(kind)) = 5
  BY MarkerForm, MarkerBytes DEF Marker
<1>3. PICK l : l = Len(printed)
  OBVIOUS
<1>4. /\ printed' \in Seq(Symbols) /\ Len(printed') = l + 5
      /\ \A i \in 1..l : printed'[i] = printed[i]
      /\ printed'[l + 1] = "esc" /\ printed'[l + 2] = "]" /\ printed'[l + 3] = kind
      /\ printed'[l + 4] = "esc" /\ printed'[l + 5] = "\\"
  <2>1. PICK m : m = Marker(kind)
    OBVIOUS
  <2>2. /\ printed' \in Seq(Symbols) /\ Len(printed') = l + 5
        /\ \A i \in 1..l : printed'[i] = printed[i]
        /\ \A i \in 1..5 : printed'[l + i] = m[i]
    <3>1. m \in Seq(Symbols) /\ Len(m) = 5 /\ printed' = printed \o m
      BY <1>2, <2>1
    <3>2. /\ printed \o m \in Seq(Symbols) /\ Len(printed \o m) = Len(printed) + Len(m)
          /\ \A i \in 1..Len(printed) : (printed \o m)[i] = printed[i]
          /\ \A i \in 1..Len(m) : (printed \o m)[Len(printed) + i] = m[i]
      BY <1>1, <3>1, Joined
    <3>3. QED
      BY <1>3, <3>1, <3>2
  <2>3. m[1] = "esc" /\ m[2] = "]" /\ m[3] = kind /\ m[4] = "esc" /\ m[5] = "\\"
    BY <2>1, MarkerForm
  <2>4. 1 \in 1..5 /\ 2 \in 1..5 /\ 3 \in 1..5 /\ 4 \in 1..5 /\ 5 \in 1..5
    OBVIOUS
  <2>5. /\ printed'[l + 1] = m[1] /\ printed'[l + 2] = m[2] /\ printed'[l + 3] = m[3]
        /\ printed'[l + 4] = m[4] /\ printed'[l + 5] = m[5]
    BY <2>2, <2>4, Zenon
  <2>6. QED
    BY <2>2, <2>3, <2>5
<1>5. PICK new : new = [kind |-> kind, stop |-> stop, of |-> of]
  OBVIOUS
<1>6. new.kind = kind /\ new.stop = l + 5 /\ new.of = of /\ new \in Marks
  <2>1. stop = l + 5 /\ stop \in Nat
    BY <1>1, <1>3, <1>4
  <2>2. QED
    BY <1>5, <2>1 DEF Marks
<1>7. /\ marks' \in Seq(Marks) /\ Len(marks') = Len(marks) + 1
      /\ DOMAIN marks' = 1..(Len(marks) + 1) /\ marks'[Len(marks) + 1] = new
      /\ \A k \in DOMAIN marks : marks'[k] = marks[k]
  <2>1. marks \in Seq(Marks) /\ marks' = Append(marks, new)
    BY <1>5 DEF Layout
  <2>2. QED
    BY <1>1, <1>6, <2>1
<1>8. Grown
  <2>1. printed' \in Seq(Symbols) /\ l <= Len(printed') /\ l = Len(printed)
        /\ \A i \in 1..l : printed'[i] = printed[i]
    BY <1>1, <1>3, <1>4
  <2>2. marks'[Len(marks) + 1].stop = l + 5
    BY <1>6, <1>7
  <2>3. QED
    BY <1>7, <2>1, <2>2 DEF Grown
<1>9. /\ \A k \in Places : k \in Places' /\ Base(k)' = Base(k) /\ (AfterC(k)' <=> AfterC(k))
      /\ \A k \in DOMAIN marks : Start(k)' = Start(k)
      /\ \A k \in Nat : k = Len(marks) + 1 => Start(k)' = l /\ Start(k) = l
  <2>1. Len(marks') \in Nat
    BY <1>1, <1>7
  <2>2. \A k \in Nat : k = Len(marks) + 1 => Start(k) = l
    BY <1>1, <1>3 DEF Start
  <2>3. QED
    BY <1>3, <1>7, <1>8, <2>1, <2>2, GrownMarks
<1>10. /\ \A k \in Places' : k \in Places \/ k = Len(marks) + 2
       /\ \A k : k = Len(marks) + 2 => Start(k)' = l + 5 /\ Base(k)' = l + 5
  <2>1. \A k \in 1..((Len(marks) + 1) + 1) : k \in 1..(Len(marks) + 1) \/ k = Len(marks) + 2
    BY <1>1
  <2>2. \A k \in Places' : k \in Places \/ k = Len(marks) + 2
    BY <1>7, <2>1 DEF Places
  <2>3. ASSUME NEW k, k = Len(marks) + 2
        PROVE  Start(k)' = l + 5 /\ Base(k)' = l + 5
    <3>1. ~(k <= Len(marks')) /\ k # 1 /\ k - 1 = Len(marks) + 1
      BY <1>1, <1>7, <2>3
    <3>2. Start(k)' = Len(printed')
      BY <3>1 DEF Start
    <3>3. Base(k)' = marks'[k - 1].stop
      BY <3>1 DEF Base
    <3>4. QED
      BY <1>4, <1>6, <1>7, <3>1, <3>2, <3>3
  <2>4. QED
    BY <2>2, <2>3
<1>11. ASSUME NEW j \in DOMAIN marks', NEW k \in DOMAIN marks', j < k
       PROVE  marks'[j].stop + 5 <= marks'[k].stop
  <2>1. j \in DOMAIN marks
    BY <1>1, <1>7, <1>11
  <2>2. CASE k \in DOMAIN marks
    BY <1>7, <1>11, <2>1, <2>2 DEF Layout
  <2>3. CASE k = Len(marks) + 1
    <3>1. marks[j].stop \in Nat /\ marks[j].stop <= l
      BY <1>3, <2>1, LayoutNumbers
    <3>2. QED
      BY <1>1, <1>3, <1>6, <1>7, <2>1, <2>3, <3>1
  <2>4. QED
    BY <1>1, <1>7, <2>2, <2>3
<1>12. ASSUME NEW k \in DOMAIN marks'
       PROVE  /\ MarkerAt(k)' /\ marks'[k].stop <= Len(printed')
              /\ AfterC(k)' => marks'[k].kind = "D"
  <2>1. CASE k \in DOMAIN marks
    <3>1. Start(k) \in Nat /\ marks[k].stop = Start(k) + 5 /\ marks[k].stop <= l /\ k \in Places
      BY <1>3, <2>1, LayoutNumbers
    <3>2. /\ Start(k) + 1 \in 1..l /\ Start(k) + 2 \in 1..l /\ Start(k) + 3 \in 1..l
          /\ Start(k) + 4 \in 1..l /\ Start(k) + 5 \in 1..l
      BY <1>1, <1>3, <3>1
    <3>3. MarkerAt(k) /\ (AfterC(k) => marks[k].kind = "D")
      BY <2>1 DEF Layout
    <3>4. MarkerAt(k)'
      <4>1. /\ printed'[Start(k) + 1] = "esc" /\ printed'[Start(k) + 2] = "]"
            /\ printed'[Start(k) + 3] = marks[k].kind
            /\ printed'[Start(k) + 4] = "esc" /\ printed'[Start(k) + 5] = "\\"
        BY <1>4, <3>2, <3>3 DEF MarkerAt
      <4>2. Start(k)' = Start(k) /\ marks'[k] = marks[k]
        BY <1>7, <1>9, <2>1
      <4>3. QED
        BY <4>1, <4>2 DEF MarkerAt
    <3>5. QED
      BY <1>1, <1>3, <1>4, <1>7, <1>9, <2>1, <3>1, <3>3, <3>4
  <2>2. CASE k = Len(marks) + 1
    <3>1. MarkerAt(k)'
      <4>1. Start(k)' = l /\ marks'[k].kind = kind
        BY <1>1, <1>6, <1>7, <1>9, <2>2
      <4>2. QED
        BY <1>4, <4>1 DEF MarkerAt
    <3>2. AfterC(k)' => kind = "D"
      BY <1>1, <1>9, <2>2
    <3>3. QED
      BY <1>1, <1>3, <1>4, <1>6, <1>7, <2>2, <3>1, <3>2
  <2>3. QED
    BY <1>1, <1>7, <2>1, <2>2
<1>13. ASSUME NEW k \in Places'
       PROVE  Base(k)' <= Start(k)' /\ Text(k)'
  <2>1. CASE k \in Places
    <3>1. /\ Base(k) \in Nat /\ Base(k) <= Start(k) /\ Start(k) \in Nat /\ Start(k) <= l
      BY <1>3, <2>1, LayoutNumbers
    <3>2. Start(k)' = Start(k) /\ Base(k)' = Base(k) /\ (AfterC(k)' <=> AfterC(k))
      <4>1. k \in Nat /\ (k \in DOMAIN marks \/ k = Len(marks) + 1)
        BY <1>1, <2>1 DEF Places
      <4>2. QED
        BY <1>9, <2>1, <4>1
    <3>3. \A i \in (Base(k) + 1)..Start(k) :
             printed[i] \in IF AfterC(k) THEN Plain ELSE {"prompt"}
      BY <2>1 DEF Layout, Text
    <3>4. \A i \in (Base(k) + 1)..Start(k) : i \in 1..l
      BY <1>1, <1>3, <3>1
    <3>5. QED
      BY <1>4, <3>1, <3>2, <3>3, <3>4 DEF Text
  <2>2. CASE k = Len(marks) + 2
    <3>1. Base(k)' = l + 5 /\ Start(k)' = l + 5 /\ l + 5 \in Nat
      BY <1>1, <1>3, <1>10, <2>2
    <3>2. (Base(k)' + 1)..Start(k)' = {}
      BY <3>1
    <3>3. QED
      BY <3>1, <3>2 DEF Text
  <2>3. QED
    BY <1>10, <2>1, <2>2
<1>14. Layout'
  BY <1>7, <1>11, <1>12, <1>13 DEF Layout
<1>15. QED
  BY <1>3, <1>6, <1>7, <1>8, <1>14

(* So the proxy still follows it. *)
LEMMA StillFollowing ==
  ASSUME CaptureTypes, Layout, Layout', Grown, Following,
         UNCHANGED <<taken, parser, recorder, late>>
  PROVE  Following'
<1>1. PICK t, l, m, n : t = taken /\ l = Len(printed) /\ m = Len(marks) /\ n = Len(marks')
  OBVIOUS
<1>2. /\ t \in 0..l /\ t \in Nat /\ l \in Nat /\ m \in Nat /\ n \in Nat
      /\ DOMAIN marks = 1..m /\ DOMAIN marks' = 1..n
      /\ Places = 1..(m + 1) /\ Places' = 1..(n + 1)
  <2>1. marks' \in Seq(Marks)
    BY DEF Layout
  <2>2. n \in Nat /\ DOMAIN marks' = 1..n
    BY <1>1, <2>1
  <2>3. QED
    BY <1>1, <2>2, LayoutNumbers DEF CaptureTypes, ProxyTypes, Places
<1>3. /\ n = m \/ (n = m + 1 /\ marks'[m + 1].stop = l + 5)
      /\ \A k \in 1..m : marks'[k] = marks[k]
  <2>1. /\ Len(marks') = Len(marks) \/ (Len(marks') = Len(marks) + 1
                                        /\ marks'[Len(marks) + 1].stop = Len(printed) + 5)
        /\ \A k \in DOMAIN marks : marks'[k] = marks[k]
    BY DEF Grown
  <2>2. \A k \in 1..m : marks'[k] = marks[k]
    BY <1>2, <2>1
  <2>3. n = m \/ (n = m + 1 /\ marks'[m + 1].stop = l + 5)
    BY <1>1, <2>1
  <2>4. QED
    BY <2>2, <2>3
<1>4. /\ \A k \in Places : k \in Places' /\ Base(k)' = Base(k) /\ (AfterC(k)' <=> AfterC(k))
      /\ \A k \in DOMAIN marks : Start(k)' = Start(k)
      /\ \A k \in DOMAIN marks : k > 1 => BlockOf(k)' = BlockOf(k)
      /\ \A k \in Nat : k = m + 1 /\ n = k => Start(k)' = l
  <2>1. Len(marks') \in Nat
    BY <1>1, <1>2
  <2>2. QED
    BY <1>1, <2>1, GrownMarks
<1>5. Alike(parser', Heard(t)')
  <2>1. Heard(t)' = Heard(t)
    BY <1>1, <1>2, GrownPieces
  <2>2. QED
    BY <1>1, <2>1 DEF Following
<1>6. ASSUME ~late, NEW k \in Places', Within(k, t)', AfterC(k)'
      PROVE  InBlock(parser, k, t)' /\ parser.ends = 0
  <2>1. Base(k)' <= t /\ (k <= n => t < marks'[k].stop)
    BY <1>1, <1>6 DEF Within
  <2>2. k \in Places
    <3>1. CASE k \in 1..(m + 1)
      BY <1>2, <3>1
    <3>2. CASE k \notin 1..(m + 1)
      <4>1. n = m + 1 /\ k = m + 2
        BY <1>2, <1>3, <3>2
      <4>2. k # 1 /\ k - 1 = m + 1
        BY <1>2, <4>1
      <4>3. Base(k)' = l + 5
        BY <1>3, <4>1, <4>2 DEF Base
      <4>4. QED
        BY <1>2, <2>1, <4>3
    <3>3. QED
      BY <3>1, <3>2
  <2>3. Base(k)' = Base(k) /\ AfterC(k) /\ Base(k) \in Nat
    BY <1>4, <1>6, <2>2, LayoutNumbers
  <2>4. k \in Nat /\ k > 1 /\ k <= m + 1
    BY <1>2, <2>2, <2>3 DEF AfterC
  <2>5. Within(k, t)
    <3>1. k <= m => t < marks[k].stop
      <4>1. k <= m => k <= n /\ marks'[k] = marks[k]
        BY <1>2, <1>3, <2>4
      <4>2. QED
        BY <2>1, <4>1
    <3>2. Base(k) <= t /\ t <= Len(printed)
      BY <1>1, <1>2, <2>1, <2>3
    <3>3. QED
      BY <1>1, <2>2, <3>1, <3>2 DEF Within
  <2>6. InBlock(parser, k, t) /\ parser.ends = 0
    BY <1>1, <1>6, <2>2, <2>3, <2>5 DEF Following
  <2>7. SubSeq(printed', Base(k) + 1, t) = SubSeq(printed, Base(k) + 1, t)
    <3>1. Base(k) + 1 \in Nat \ {0}
      BY <2>3
    <3>2. QED
      BY <1>1, <1>2, <3>1, GrownPieces
  <2>8. parser'.inCommand /\ parser'.buf = Cut(SubSeq(printed', Base(k)' + 1, t))
    BY <2>3, <2>6, <2>7 DEF InBlock
  <2>9. ASSUME k <= Len(marks'), t > Start(k)', Closed(BlockOf(k)')
        PROVE  parser'.seqStart = Len(Cut(BlockOf(k)'))
    <3>1. CASE k \in 1..m
      <4>1. Start(k)' = Start(k) /\ BlockOf(k)' = BlockOf(k) /\ k <= Len(marks)
        BY <1>1, <1>2, <1>4, <2>4, <3>1
      <4>2. QED
        BY <2>6, <2>9, <4>1 DEF InBlock
    <3>2. CASE k \notin 1..m
      <4>1. k = m + 1 /\ n = k
        BY <1>1, <1>2, <1>3, <2>4, <2>9, <3>2
      <4>2. Start(k)' = l
        BY <1>4, <2>4, <4>1
      <4>3. QED
        BY <1>2, <2>9, <4>2
    <3>3. QED
      BY <3>1, <3>2
  <2>10. InBlock(parser, k, t)'
    BY <2>8, <2>9 DEF InBlock
  <2>11. QED
    BY <2>6, <2>10
<1>7. ASSUME ~late, NEW k \in DOMAIN marks', AfterC(k)', marks'[k].stop = t, Closed(BlockOf(k)')
      PROVE  \/ parser.ends = 1 /\ recorder = Idle /\ parser.buf = Cut(BlockOf(k)')
             \/ parser.ends = 0 /\ (recorder # Idle => recorder.output = Cut(BlockOf(k)'))
  <2>1. k \in 1..m
    <3>1. CASE k \in 1..m
      BY <3>1
    <3>2. CASE k \notin 1..m
      <4>1. n = m + 1 /\ k = m + 1
        BY <1>2, <1>3, <3>2
      <4>2. n # m
        BY <1>2, <4>1
      <4>3. marks'[m + 1].stop = l + 5
        BY <1>3, <4>2
      <4>4. marks'[k].stop = l + 5
        BY <4>1, <4>3
      <4>5. QED
        BY <1>2, <1>7, <4>4
    <3>3. QED
      BY <3>1, <3>2
  <2>2. k \in Places /\ k \in DOMAIN marks /\ k \in Nat
    BY <1>2, <2>1
  <2>3. AfterC(k) /\ k > 1
    BY <1>4, <1>7, <2>2 DEF AfterC
  <2>4. BlockOf(k)' = BlockOf(k) /\ marks[k].stop = t
    BY <1>3, <1>4, <1>7, <2>1, <2>2, <2>3
  <2>5. QED
    BY <1>1, <1>7, <2>2, <2>3, <2>4 DEF Following
<1>8. UNCHANGED <<late, parser, recorder, taken>>
  OBVIOUS
<1>9. QED
  BY <1>1, <1>5, <1>6, <1>7, <1>8 DEF Following

(* Every byte belongs to one text and its marker. *)
LEMMA OnePlace ==
  ASSUME CaptureTypes, Layout
  PROVE  /\ \A t \in 0..(Len(printed) - 1) : \E k \in Places : Within(k, t)
         /\ \A t \in Nat : \A j, k \in Places : Within(j, t) /\ Within(k, t) => j = k
         /\ \A j \in DOMAIN marks : \A k \in Places : j < k => marks[j].stop <= Base(k)
<1>1. /\ Len(marks) \in Nat /\ DOMAIN marks = 1..Len(marks) /\ Places = 1..(Len(marks) + 1)
      /\ \A k \in Places : k \in Nat /\ k >= 1 /\ Base(k) \in Nat
      /\ \A k \in DOMAIN marks : marks[k].stop \in Nat
      /\ Len(printed) \in Nat
  BY LayoutNumbers DEF Places
<1>2. ASSUME NEW t \in 0..(Len(printed) - 1)
      PROVE  \E k \in Places : Within(k, t)
  <2> DEFINE T == {k \in Places : k <= Len(marks) => t < marks[k].stop}
  <2>1. T \in SUBSET Nat /\ T # {}
    <3>1. Len(marks) + 1 \in T
      BY <1>1
    <3>2. QED
      BY <1>1, <3>1
  <2>2. PICK k \in T : \A j \in T : k <= j
    BY <2>1, NatLeast
  <2>3. k \in Places /\ (k <= Len(marks) => t < marks[k].stop)
    OBVIOUS
  <2>4. Base(k) <= t
    <3>1. CASE k = 1
      BY <1>2, <3>1 DEF Base
    <3>2. CASE k # 1
      <4>1. k - 1 \in Places /\ k - 1 \in DOMAIN marks /\ k - 1 <= Len(marks) /\ ~(k <= k - 1)
        BY <1>1, <2>3, <3>2
      <4>2. k - 1 \notin T
        BY <2>2, <4>1
      <4>3. ~(t < marks[k - 1].stop)
        BY <4>1, <4>2
      <4>4. QED
        BY <1>1, <3>2, <4>1, <4>3 DEF Base
    <3>3. QED
      BY <3>1, <3>2
  <2>5. QED
    BY <1>1, <2>3, <2>4 DEF Within
<1>3. ASSUME NEW j \in DOMAIN marks, NEW k \in Places, j < k
      PROVE  marks[j].stop <= Base(k)
  <2>1. k # 1 /\ k - 1 \in DOMAIN marks /\ Base(k) = marks[k - 1].stop
    BY <1>1, <1>3 DEF Base
  <2>2. CASE j = k - 1
    BY <1>1, <2>1, <2>2
  <2>3. CASE j # k - 1
    <3>1. j < k - 1
      BY <1>1, <1>3, <2>3
    <3>2. marks[j].stop + 5 <= marks[k - 1].stop
      BY <2>1, <3>1 DEF Layout
    <3>3. QED
      BY <1>1, <2>1, <3>2
  <2>4. QED
    BY <2>2, <2>3
<1>4. ASSUME NEW t \in Nat, NEW j \in Places, NEW k \in Places, Within(j, t), Within(k, t), j < k
      PROVE  FALSE
  <2>1. j \in DOMAIN marks /\ j <= Len(marks)
    BY <1>1, <1>4
  <2>2. t < marks[j].stop /\ Base(k) <= t
    BY <1>4, <2>1 DEF Within
  <2>3. QED
    BY <1>1, <1>3, <1>4, <2>1, <2>2
<1>5. ASSUME NEW t \in Nat, NEW j \in Places, NEW k \in Places, Within(j, t), Within(k, t)
      PROVE  j = k
  <2>1. ~(j < k) /\ ~(k < j)
    BY <1>4, <1>5
  <2>2. QED
    BY <1>1, <2>1
<1>6. QED
  BY <1>2, <1>3, <1>5

-----------------------------------------------------------------------------
(* The proxy reads a chunk. *)

\* The parser in the middle of the chunk that goes up to n.
During(n, i) == Eaten(parser, SubSeq(printed, taken + 1, n))[i - taken]

\* No end marker was read.
NoEndUpto(i) ==
  \A k \in DOMAIN marks : marks[k].kind = "D" /\ taken < marks[k].stop => i < marks[k].stop

\* The start of the block is known: read in this chunk, or in time before.
Known(k) == late => taken < Base(k)

Read1(n, i) ==
  /\ During(n, i) \in Parsers /\ Alike(During(n, i), Heard(i))
  /\ NoEndUpto(i) =>
       /\ During(n, i).ends = 0
       /\ \A k \in Places :
            Within(k, i) /\ AfterC(k) /\ Known(k) => InBlock(During(n, i), k, i)

LEMMA AfterMarker ==
  ASSUME CaptureTypes, Layout, NEW j \in DOMAIN marks
  PROVE  j + 1 \in Places /\ Within(j + 1, marks[j].stop)
<1>1. PICK l, x : l = Len(marks) /\ x = marks[j].stop
  OBVIOUS
<1>2. /\ l \in Nat /\ DOMAIN marks = 1..l /\ j \in 1..l /\ x \in Nat /\ x <= Len(printed)
      /\ Places = 1..(l + 1)
  BY <1>1, LayoutNumbers DEF Places
<1>3. j + 1 \in Places /\ j + 1 # 1 /\ (j + 1) - 1 = j
  BY <1>2
<1>4. Base(j + 1) = x
  BY <1>1, <1>3 DEF Base
<1>5. j + 1 <= l => x < marks[j + 1].stop
  <2>1. SUFFICES ASSUME j + 1 <= l PROVE x < marks[j + 1].stop
    OBVIOUS
  <2>2. j + 1 \in DOMAIN marks /\ j < j + 1
    BY <1>2, <2>1
  <2>3. PICK y : y = marks[j + 1].stop
    OBVIOUS
  <2>4. y \in Nat
    BY <2>2, <2>3, LayoutNumbers
  <2>5. x + 5 <= y
    BY <1>1, <2>2, <2>3 DEF Layout
  <2>6. QED
    BY <1>2, <2>3, <2>4, <2>5
<1>6. QED
  BY <1>1, <1>2, <1>3, <1>4, <1>5 DEF Within

LEMMA DuringSteps ==
  ASSUME CaptureTypes, NEW n \in (taken + 1)..Len(printed)
  PROVE  /\ taken \in Nat /\ n \in Nat /\ taken < n /\ n <= Len(printed) /\ Len(printed) \in Nat
         /\ \A i \in taken..n : During(n, i) \in Parsers
         /\ During(n, taken) = parser
         /\ During(n, n) = Push(parser, SubSeq(printed, taken + 1, n))
         /\ \A i \in (taken + 1)..n : During(n, i) = Feed(During(n, i - 1), printed[i])
<1>1. PICK chunk, t : chunk = SubSeq(printed, taken + 1, n) /\ t = taken
  OBVIOUS
<1>2. /\ n \in Nat /\ t < n /\ n <= Len(printed) /\ chunk \in Seq(Symbols)
      /\ Len(chunk) = n - t /\ \A i \in 1..(n - t) : chunk[i] = printed[t + i]
  BY <1>1, ChunkTypes
<1>3. t \in Nat /\ parser \in Parsers /\ Len(printed) \in Nat
  BY <1>1 DEF CaptureTypes, ProxyTypes, ShellTypes
<1>4. /\ Eaten(parser, chunk)[0] = parser
      /\ \A i \in 1..(n - t) : Eaten(parser, chunk)[i] = Feed(Eaten(parser, chunk)[i - 1], chunk[i])
      /\ \A i \in 0..(n - t) : Eaten(parser, chunk)[i] \in Parsers
  BY <1>2, <1>3, EatenSteps
<1>5. \A i : During(n, i) = Eaten(parser, chunk)[i - t]
  BY <1>1 DEF During
<1>6. \A i \in t..n : During(n, i) \in Parsers
  <2>1. \A i \in t..n : i - t \in 0..(n - t)
    BY <1>2, <1>3
  <2>2. QED
    BY <1>4, <1>5, <2>1
<1>7. During(n, t) = parser
  <2>1. t - t = 0
    BY <1>3
  <2>2. QED
    BY <1>4, <1>5, <2>1
<1>8. During(n, n) = Push(parser, chunk)
  BY <1>2, <1>5 DEF Push
<1>9. ASSUME NEW i \in (t + 1)..n
      PROVE  During(n, i) = Feed(During(n, i - 1), printed[i])
  <2>1. i - t \in 1..(n - t) /\ t + (i - t) = i /\ (i - 1) - t = (i - t) - 1
    BY <1>2, <1>3
  <2>2. chunk[i - t] = printed[i]
    BY <1>2, <2>1
  <2>3. Eaten(parser, chunk)[i - t] = Feed(Eaten(parser, chunk)[(i - t) - 1], chunk[i - t])
    BY <1>4, <2>1
  <2>4. QED
    BY <1>5, <2>1, <2>2, <2>3
<1>10. QED
  BY <1>1, <1>2, <1>3, <1>6, <1>7, <1>8, <1>9

LEMMA ByteOfChunk ==
  ASSUME CaptureTypes, Layout, NEW n \in (taken + 1)..Len(printed), NEW i \in (taken + 1)..n,
         Read1(n, i - 1)
  PROVE  Read1(n, i)
<1>1. PICK p, t : p = During(n, t) /\ t = i - 1
  OBVIOUS
<1>2. /\ taken \in Nat /\ n \in Nat /\ i \in Nat /\ t \in Nat /\ taken <= t /\ t + 1 = i
      /\ i <= n /\ n <= Len(printed) /\ Len(printed) \in Nat
      /\ t \in 0..(Len(printed) - 1) /\ t \in 0..Len(printed) /\ i \in taken..n
  BY <1>1, DuringSteps
<1>3. p \in Parsers /\ Alike(p, Heard(t))
  BY <1>1 DEF Read1
<1>4. During(n, i) = Feed(p, printed[i]) /\ During(n, i) \in Parsers
  BY <1>1, <1>2, DuringSteps
<1>5. Alike(During(n, i), Heard(i))
  <2>1. Heard(t) \in Parsers /\ printed[i] \in Symbols /\ Heard(i) = Feed(Heard(t), printed[i])
    BY <1>2, HeardSteps
  <2>2. QED
    BY <1>3, <1>4, <2>1, FeedAlike
<1>6. PICK j \in Places : Within(j, t)
  BY <1>2, OnePlace
<1>7. ASSUME NoEndUpto(i)
      PROVE  /\ During(n, i).ends = 0
             /\ \A k \in Places :
                  Within(k, i) /\ AfterC(k) /\ Known(k) => InBlock(During(n, i), k, i)
  <2>1. NoEndUpto(t)
    <3>1. \A k \in DOMAIN marks : marks[k].stop \in Nat
      BY LayoutNumbers
    <3>2. QED
      BY <1>2, <1>7, <3>1 DEF NoEndUpto
  <2>2. /\ p.ends = 0
        /\ \A k \in Places : Within(k, t) /\ AfterC(k) /\ Known(k) => InBlock(p, k, t)
    BY <1>1, <2>1 DEF Read1
  <2>3. CASE j <= Len(marks) /\ i = marks[j].stop
    <3>1. j \in DOMAIN marks /\ marks[j].kind \in {"C", "D"} /\ j + 1 \in Places /\ j \in Nat
      <4>1. Places = 1..(Len(marks) + 1) /\ Len(marks) \in Nat /\ DOMAIN marks = 1..Len(marks)
        BY LayoutNumbers DEF Places
      <4>2. j \in DOMAIN marks /\ j + 1 \in Places /\ j \in Nat
        BY <2>3, <4>1
      <4>3. QED
        BY <4>2, LayoutNumbers
    <3>2. marks[j].kind = "C"
      <4>1. taken < marks[j].stop /\ ~(i < marks[j].stop)
        BY <1>2, <2>3
      <4>2. marks[j].kind # "D"
        BY <1>7, <3>1, <4>1 DEF NoEndUpto
      <4>3. QED
        BY <3>1, <4>2
    <3>3. InBlock(During(n, i), j + 1, i) /\ During(n, i).ends = 0
      <4>1. Alike(p, Heard(marks[j].stop - 1))
        BY <1>1, <1>3, <2>3
      <4>2. InBlock(Feed(p, printed[marks[j].stop]), j + 1, marks[j].stop)
            /\ Feed(p, printed[marks[j].stop]).ends = p.ends
        BY <1>3, <3>1, <3>2, <4>1, StartRead
      <4>3. QED
        BY <1>4, <2>2, <2>3, <4>2
    <3>4. Within(j + 1, i)
      BY <2>3, <3>1, AfterMarker
    <3>5. \A k \in Places : Within(k, i) => k = j + 1
      BY <1>2, <3>1, <3>4, OnePlace
    <3>6. QED
      BY <3>3, <3>5
  <2>4. CASE j <= Len(marks) => i # marks[j].stop
    <3>1. Within(j, i)
      <4>1. Base(j) \in Nat /\ (j <= Len(marks) => marks[j].stop \in Nat)
        BY LayoutNumbers DEF Places
      <4>2. QED
        BY <1>2, <1>6, <2>4, <4>1 DEF Within
    <3>2. \A k \in Places : Within(k, i) => k = j
      BY <1>2, <3>1, OnePlace
    <3>3. t + 1 <= Len(printed) /\ (j <= Len(marks) => t + 1 # marks[j].stop)
      BY <1>2, <2>4
    <3>4. During(n, i).ends = 0
      <4>1. Feed(p, printed[t + 1]).ends = p.ends
        BY <1>2, <1>3, <1>6, <3>3, OtherByte
      <4>2. QED
        BY <1>2, <1>4, <2>2, <4>1
    <3>5. ASSUME AfterC(j), Known(j)
          PROVE  InBlock(During(n, i), j, i)
      <4>1. InBlock(p, j, t)
        BY <1>6, <2>2, <3>5
      <4>2. InBlock(Feed(p, printed[t + 1]), j, t + 1)
        BY <1>2, <1>3, <1>6, <3>3, <3>5, <4>1, InBlockNext
      <4>3. QED
        BY <1>2, <1>4, <4>2
    <3>6. QED
      BY <3>2, <3>4, <3>5
  <2>5. QED
    BY <2>3, <2>4
<1>8. QED
  BY <1>4, <1>5, <1>7 DEF Read1

LEMMA ChunkRead ==
  ASSUME CaptureTypes, Layout, Following, parser.ends = 0,
         NEW n \in (taken + 1)..Len(printed), NEW i \in taken..n
  PROVE  Read1(n, i)
<1> DEFINE T == {x \in taken..n : Read1(n, x)}
<1>1. taken \in Nat /\ n \in Nat /\ taken < n /\ taken \in taken..n
  BY DuringSteps
<1>2. Read1(n, taken)
  <2>1. During(n, taken) = parser /\ During(n, taken) \in Parsers
    BY <1>1, DuringSteps
  <2>2. Alike(parser, Heard(taken))
    BY DEF Following
  <2>3. ASSUME NEW k \in Places, Within(k, taken), AfterC(k), Known(k)
        PROVE  InBlock(parser, k, taken)
    <3>1. Base(k) <= taken /\ Base(k) \in Nat
      BY <2>3, LayoutNumbers DEF Within
    <3>2. ~late
      BY <1>1, <2>3, <3>1 DEF Known
    <3>3. QED
      BY <2>3, <3>2 DEF Following
  <2>4. QED
    BY <2>1, <2>2, <2>3 DEF Read1
<1>3. \A x \in taken..n : x # taken /\ x - 1 \in T => x \in T
  <2> SUFFICES ASSUME NEW x \in taken..n, x # taken, x - 1 \in T PROVE x \in T
    OBVIOUS
  <2>1. x \in (taken + 1)..n
    BY <1>1
  <2>2. Read1(n, x)
    BY <2>1, ByteOfChunk
  <2>3. QED
    BY <2>2
<1>4. taken \in Int /\ n \in Int /\ taken \in T
  BY <1>1, <1>2
<1> HIDE DEF T
<1>5. taken..n \subseteq T
  BY <1>3, <1>4, Upwards, ZenonT(30)
<1>6. QED
  BY <1>5 DEF T

LEMMA SamePlaces ==
  ASSUME UNCHANGED <<printed, marks>>
  PROVE  /\ Places' = Places /\ (Layout' <=> Layout)
         /\ \A k : Base(k)' = Base(k) /\ BlockOf(k)' = BlockOf(k) /\ (AfterC(k)' <=> AfterC(k))
         /\ \A t : Heard(t)' = Heard(t)
         /\ \A k, t : Within(k, t)' <=> Within(k, t)
         /\ \A p, k, t : InBlock(p, k, t)' <=> InBlock(p, k, t)
<1>1. Places' = Places
  BY DEF Places
<1>2. \A k : /\ Base(k)' = Base(k) /\ BlockOf(k)' = BlockOf(k) /\ (AfterC(k)' <=> AfterC(k))
             /\ Start(k)' = Start(k)
  BY DEF Base, BlockOf, AfterC, Start
<1>3. \A t : Heard(t)' = Heard(t)
  BY DEF Heard
<1>4. \A k : (Text(k)' <=> Text(k)) /\ (MarkerAt(k)' <=> MarkerAt(k))
  BY <1>2 DEF Text, MarkerAt
<1>5. Layout' <=> Layout
  BY <1>1, <1>2, <1>4 DEF Layout
<1>6. \A k, t : Within(k, t)' <=> Within(k, t)
  BY <1>1, <1>2 DEF Within
<1>7. \A p, k, t : InBlock(p, k, t)' <=> InBlock(p, k, t)
  BY <1>2 DEF InBlock
<1>8. QED
  BY <1>1, <1>2, <1>3, <1>5, <1>6, <1>7

(* A chunk that goes past no end marker, and has a start if one is missing. *)
LEMMA InTime ==
  ASSUME CaptureTypes, Layout, NEW n \in (taken + 1)..Len(printed), Read(n), ~late'
  PROVE  /\ NoEndUpto(n - 1)
         /\ \A i \in {n - 1, n} : \A k \in Places : Within(k, i) /\ AfterC(k) => Known(k)
<1>1. /\ taken \in Nat /\ n \in Nat /\ taken < n
  BY DuringSteps
<1>2. /\ \A m \in ReadMarks(n) : ~(m.kind = "D" /\ m.stop < n)
      /\ late => \E m \in ReadMarks(n) : m.kind = "C"
  BY DEF Read
<1>3. ReadMarks(n) = {m \in {marks[k] : k \in DOMAIN marks} : m.stop \in (taken + 1)..n}
  BY DEF ReadMarks, ToSet
<1>4. NoEndUpto(n - 1)
  <2> SUFFICES ASSUME NEW k \in DOMAIN marks, marks[k].kind = "D", taken < marks[k].stop,
                      ~(n - 1 < marks[k].stop)
               PROVE  FALSE
    BY DEF NoEndUpto
  <2>1. marks[k].stop \in Nat
    BY LayoutNumbers
  <2>2. marks[k].stop < n /\ marks[k].stop \in (taken + 1)..n
    BY <1>1, <2>1
  <2>3. marks[k] \in ReadMarks(n)
    BY <1>3, <2>2
  <2>4. QED
    BY <1>2, <2>2, <2>3
<1>5. ASSUME NEW i \in {n - 1, n}, NEW k \in Places, Within(k, i), AfterC(k), late
      PROVE  taken < Base(k)
  <2>1. PICK j \in DOMAIN marks : marks[j].kind = "C" /\ marks[j].stop \in (taken + 1)..n
    BY <1>2, <1>3, <1>5
  <2>2. PICK x, b : x = marks[j].stop /\ b = Base(k)
    OBVIOUS
  <2>3. /\ x \in Nat /\ b \in Nat /\ taken < x /\ x <= n /\ i \in Nat /\ i <= n
        /\ j \in Nat /\ k \in Nat /\ Len(marks) \in Nat /\ DOMAIN marks = 1..Len(marks)
    BY <1>1, <2>1, <2>2, LayoutNumbers DEF Places
  <2>4. j < k
    <3> SUFFICES ASSUME ~(j < k) PROVE FALSE
      OBVIOUS
    <3>1. k \in DOMAIN marks /\ k <= Len(marks) /\ k <= j
      BY <2>3, LayoutNumbers DEF Places
    <3>2. k # j
      BY <1>5, <2>1, <3>1 DEF Layout
    <3>3. PICK y : y = marks[k].stop
      OBVIOUS
    <3>4. k < j
      BY <2>3, <3>1, <3>2
    <3>5. y + 5 <= x
      BY <2>2, <3>1, <3>3, <3>4 DEF Layout
    <3>6. y \in Nat /\ i < y
      BY <1>5, <3>1, <3>3, LayoutNumbers DEF Within
    <3>7. i = n - 1 \/ i = n
      OBVIOUS
    <3>8. QED
      BY <1>1, <2>3, <3>5, <3>6, <3>7
  <2>5. x <= b
    BY <2>2, <2>4, OnePlace
  <2>6. QED
    BY <1>1, <2>2, <2>3, <2>5
<1>6. QED
  BY <1>4, <1>5 DEF Known

LEMMA ReadFollowing ==
  ASSUME CaptureTypes, Layout, Following, NEW n \in (taken + 1)..Len(printed), Read(n)
  PROVE  Following'
<1>1. /\ taken \in Nat /\ n \in Nat /\ taken < n /\ n <= Len(printed) /\ Len(printed) \in Nat
      /\ n - 1 \in taken..n /\ n \in taken..n /\ n \in (taken + 1)..n
      /\ n - 1 \in Nat /\ (n - 1) + 1 = n
  BY DuringSteps
<1>2. /\ UNCHANGED <<printed, marks>> /\ recorder = Idle /\ recorder' = Idle
      /\ parser.ends = 0 /\ taken' = n /\ parser' = During(n, n)
  BY DuringSteps DEF Read, shellVars
<1>3. Read1(n, n - 1) /\ Read1(n, n)
  BY <1>1, <1>2, ChunkRead
<1>4. Alike(parser', Heard(n)')
  BY <1>2, <1>3, SamePlaces DEF Read1
<1>5. ASSUME ~late', NEW k \in Places, Within(k, n), AfterC(k)
      PROVE  InBlock(parser', k, n) /\ parser'.ends = 0
  <2>1. NoEndUpto(n)
    <3> SUFFICES ASSUME NEW j \in DOMAIN marks, marks[j].kind = "D", taken < marks[j].stop,
                        ~(n < marks[j].stop)
                 PROVE  FALSE
      BY DEF NoEndUpto
    <3>1. n - 1 < marks[j].stop /\ marks[j].stop \in Nat
      BY <1>5, InTime, LayoutNumbers DEF NoEndUpto
    <3>2. marks[j].stop = n
      BY <1>1, <3>1
    <3>3. j + 1 \in Places /\ Within(j + 1, n)
      BY <3>2, AfterMarker
    <3>4. k = j + 1
      BY <1>1, <1>5, <3>3, OnePlace
    <3>5. (j + 1) - 1 = j
      BY LayoutNumbers
    <3>6. marks[j].kind = "C"
      BY <1>5, <3>4, <3>5 DEF AfterC
    <3>7. QED
      BY <3>6
  <2>2. Known(k)
    BY <1>5, InTime
  <2>3. QED
    BY <1>2, <1>3, <1>5, <2>1, <2>2 DEF Read1
<1>6. ASSUME ~late', NEW k \in DOMAIN marks, AfterC(k), marks[k].stop = n, Closed(BlockOf(k))
      PROVE  parser'.ends = 1 /\ parser'.buf = Cut(BlockOf(k))
  <2>1. PICK p, t : p = During(n, n - 1) /\ t = n - 1
    OBVIOUS
  <2>2. k \in Places /\ Within(k, t)
    <3>1. /\ k \in Places /\ Base(k) \in Nat /\ Start(k) \in Nat /\ Base(k) <= Start(k)
          /\ n = Start(k) + 5
      BY <1>6, LayoutNumbers
    <3>2. Base(k) <= t /\ t <= Len(printed) /\ t < n
      BY <1>1, <2>1, <3>1
    <3>3. QED
      BY <1>6, <3>1, <3>2 DEF Within
  <2>3. Known(k) /\ NoEndUpto(t)
    BY <1>6, <2>1, <2>2, InTime
  <2>4. p \in Parsers /\ Alike(p, Heard(t)) /\ p.ends = 0 /\ InBlock(p, k, t)
    BY <1>3, <1>6, <2>1, <2>2, <2>3 DEF Read1
  <2>5. marks[k].stop - 1 = t
    BY <1>6, <2>1
  <2>6. LET r == Feed(p, printed[marks[k].stop])
        IN r.ends = p.ends + 1 /\ r.buf = Cut(BlockOf(k))
    BY <1>6, <2>4, <2>5, EndRead
  <2>7. During(n, n) = Feed(p, printed[n])
    BY <1>1, <2>1, DuringSteps
  <2>8. QED
    BY <1>2, <1>6, <2>4, <2>6, <2>7
<1>7. /\ Places' = Places /\ DOMAIN marks' = DOMAIN marks
      /\ \A k : BlockOf(k)' = BlockOf(k) /\ (AfterC(k)' <=> AfterC(k))
      /\ \A k, t : Within(k, t)' <=> Within(k, t)
      /\ \A p, k, t : InBlock(p, k, t)' <=> InBlock(p, k, t)
  BY <1>2, SamePlaces
<1>8. ASSUME ~late', NEW k \in Places', Within(k, n)', AfterC(k)'
      PROVE  InBlock(parser, k, n)' /\ parser'.ends = 0
  <2>1. PICK p : p = parser'
    OBVIOUS
  <2>2. k \in Places /\ Within(k, n) /\ AfterC(k)
    BY <1>7, <1>8
  <2>3. InBlock(p, k, n) /\ parser'.ends = 0
    BY <1>5, <1>8, <2>1, <2>2
  <2>4. InBlock(p, k, n)'
    BY <1>7, <2>3
  <2>5. InBlock(parser, k, n)'
    BY <2>1, <2>4 DEF InBlock
  <2>6. QED
    BY <2>3, <2>5
<1>9. ASSUME ~late', NEW k \in DOMAIN marks', AfterC(k)', marks'[k].stop = n,
             Closed(BlockOf(k)')
      PROVE  parser'.ends = 1 /\ parser'.buf = Cut(BlockOf(k)')
  BY <1>2, <1>6, <1>7, <1>9
<1>10. QED
  BY <1>2, <1>4, <1>8, <1>9 DEF Following

-----------------------------------------------------------------------------
(* Where the proxy's other steps, and the shell's, leave the open block. *)

LEMMA Parted ==
  ASSUME UNCHANGED <<printed, marks, hist, shell, taken>>, pending' \in {pending, Absent},
         recorder' # Idle =>
            \/ recorder # Idle /\ recorder' = recorder
            \/ pending # Absent /\ recorder'.of = pending,
         Reports
  PROVE  Reports'
<1>1. LastIsD' <=> LastIsD
  BY DEF LastIsD
<1>2. AfterC(Len(marks) + 1)' <=> AfterC(Len(marks) + 1)
  BY DEF AfterC
<1>3. shell \in {"prompt", "input", "hook"} /\ LastIsD =>
        /\ marks[Len(marks)].of = hist /\ pending \in {hist, Absent}
        /\ taken = marks[Len(marks)].stop /\ recorder # Idle => recorder.of = hist
  BY DEF Reports
<1>4. shell' \in {"prompt", "input", "hook"} /\ LastIsD' =>
        /\ marks'[Len(marks')].of = hist' /\ pending' \in {hist', Absent}
        /\ taken' = marks'[Len(marks')].stop /\ recorder' # Idle => recorder'.of = hist'
  BY <1>1, <1>3
<1>5. QED
  BY <1>2, <1>4 DEF Reports

LEMMA EndFollowing ==
  ASSUME CaptureTypes, Layout, Reports, Following, HandleEnd
  PROVE  Reports' /\ Following'
<1>1. /\ UNCHANGED <<printed, marks, hist, shell, pending, taken, late>>
      /\ recorder = Idle /\ parser \in Parsers /\ parser.ends > 0
      /\ recorder' = IF pending = Absent THEN Idle ELSE [of |-> pending, output |-> parser.buf]
  BY DEF HandleEnd, shellVars, CaptureTypes, ProxyTypes
<1>2. recorder' # Idle => pending # Absent /\ recorder'.of = pending
                          /\ recorder'.output = parser.buf
  BY <1>1
<1>3. Reports'
  BY <1>1, <1>2, Parted
<1>4. parser' = Parser(parser.mode, parser.payload, parser.seqStart, <<>>, FALSE, parser.ends - 1)
  BY <1>1, TakeOutputTypes DEF HandleEnd
<1>5. parser'.mode = parser.mode /\ parser'.payload = parser.payload
      /\ parser'.ends = parser.ends - 1
  <2>1. PICK open, buf, ends : open = FALSE /\ buf = <<>> /\ ends = parser.ends - 1
    OBVIOUS
  <2>2. parser' = Parser(parser.mode, parser.payload, parser.seqStart, buf, open, ends)
    BY <1>4, <2>1
  <2>3. QED
    BY <2>1, <2>2, ParserFields
<1>6. Alike(parser', Heard(taken)')
  <2>1. Alike(parser, Heard(taken))
    BY DEF Following
  <2>2. PICK t : t = taken
    OBVIOUS
  <2>3. Heard(t)' = Heard(t)
    BY <1>1, SamePlaces
  <2>4. QED
    BY <1>1, <1>5, <2>1, <2>2, <2>3 DEF Alike, InSequence
<1>7. parser.ends # 0
  BY <1>1
<1>8. PICK t : t = taken
  OBVIOUS
<1>9. /\ Places' = Places /\ DOMAIN marks' = DOMAIN marks
      /\ \A k : BlockOf(k)' = BlockOf(k) /\ (AfterC(k)' <=> AfterC(k))
      /\ \A k : Within(k, t)' <=> Within(k, t)
  BY <1>1, SamePlaces
<1>10. ASSUME ~late', NEW k \in Places', Within(k, t)', AfterC(k)'
       PROVE  FALSE
  BY <1>1, <1>7, <1>8, <1>9, <1>10 DEF Following
<1>11. ASSUME ~late', NEW k \in DOMAIN marks', AfterC(k)', marks'[k].stop = t,
              Closed(BlockOf(k)')
       PROVE  parser'.ends = 0 /\ (recorder' # Idle => recorder'.output = Cut(BlockOf(k)'))
  <2>1. parser.ends = 1 /\ parser.buf = Cut(BlockOf(k))
    BY <1>1, <1>7, <1>8, <1>9, <1>11 DEF Following
  <2>2. parser'.ends = 0
    BY <1>5, <2>1
  <2>3. QED
    BY <1>2, <1>9, <2>1, <2>2
<1>12. taken' = t
  BY <1>1, <1>8
<1>13. Following'
  BY <1>6, <1>10, <1>11, <1>12 DEF Following
<1>14. QED
  BY <1>3, <1>13

LEMMA DoneFollowing ==
  ASSUME CaptureTypes, Layout, Reports, Following, NEW record, RemoveReport(record)
  PROVE  Reports' /\ Following'
<1>1. /\ UNCHANGED <<printed, marks, hist, shell, parser, taken, late>>
      /\ recorder # Idle /\ recorder' = Idle /\ pending' = Absent
  BY DEF RemoveReport, shellVars
<1>2. Reports'
  BY <1>1, Parted
<1>3. PICK t : t = taken
  OBVIOUS
<1>4. /\ Places' = Places /\ DOMAIN marks' = DOMAIN marks
      /\ \A k : BlockOf(k)' = BlockOf(k) /\ (AfterC(k)' <=> AfterC(k))
      /\ \A k : Within(k, t)' <=> Within(k, t)
      /\ \A p, k : InBlock(p, k, t)' <=> InBlock(p, k, t)
      /\ Heard(t)' = Heard(t)
  BY <1>1, SamePlaces
<1>5. Alike(parser', Heard(t)')
  BY <1>1, <1>3, <1>4 DEF Following
<1>6. ASSUME ~late', NEW k \in Places', Within(k, t)', AfterC(k)'
      PROVE  InBlock(parser, k, t)' /\ parser'.ends = 0
  <2>1. InBlock(parser, k, t) /\ parser.ends = 0
    BY <1>1, <1>3, <1>4, <1>6 DEF Following
  <2>2. PICK p : p = parser
    OBVIOUS
  <2>3. InBlock(p, k, t)'
    BY <1>4, <2>1, <2>2
  <2>4. InBlock(parser, k, t)'
    BY <1>1, <2>2, <2>3 DEF InBlock
  <2>5. QED
    BY <1>1, <2>1, <2>4
<1>7. ASSUME ~late', NEW k \in DOMAIN marks', AfterC(k)', marks'[k].stop = t,
             Closed(BlockOf(k)')
      PROVE  parser'.ends = 0
  BY <1>1, <1>3, <1>4, <1>7 DEF Following
<1>8. taken' = t
  BY <1>1, <1>3
<1>9. Following'
  BY <1>1, <1>5, <1>6, <1>7, <1>8 DEF Following
<1>10. QED
  BY <1>2, <1>9

LEMMA QuietGrown ==
  ASSUME CaptureTypes, Layout, UNCHANGED <<printed, marks>>
  PROVE  Layout' /\ Grown
<1>1. Layout'
  BY SamePlaces
<1>2. printed \in Seq(Symbols) /\ Len(printed) \in Nat
  BY LayoutNumbers
<1>3. QED
  BY <1>1, <1>2 DEF Grown

(* The shell's steps, while no report fails. *)
LEMMA ShellKeepsBlock ==
  ASSUME PlainOutputs, CaptureTypes, Layout, Reports, Following, Shell, ~FailReport
  PROVE  Layout' /\ Reports' /\ Following'
<1>0. /\ UNCHANGED <<taken, parser, recorder, late>>
      /\ Len(marks) \in Nat /\ taken <= Len(printed) /\ taken \in Nat /\ Len(printed) \in Nat
      /\ hist \in Nat /\ hist \in Commands
  <2>1. UNCHANGED <<taken, parser, recorder, late>>
    BY DEF Shell, OpenReport, WriteReport, CloseBlock, PrintPrompt, EnterNothing, EnterCommand,
       Run, proxyVars
  <2>2. QED
    BY <2>1, LayoutNumbers, HistTypes DEF CaptureTypes, ProxyTypes, ShellTypes
<1>1. ASSUME Layout', Grown, Reports'
      PROVE  Layout' /\ Reports' /\ Following'
  BY <1>0, <1>1, StillFollowing
<1>2. ASSUME UNCHANGED marks, Reports
      PROVE  /\ AfterC(Len(marks) + 1)' <=> AfterC(Len(marks) + 1)
             /\ LastIsD' <=> LastIsD
  BY <1>2 DEF AfterC, LastIsD
<1>3. CASE OpenReport
  <2>1. UNCHANGED <<printed, marks>> /\ shell' = "reporting" /\ pending' = Partial
    BY <1>3 DEF OpenReport, At
  <2>2. Reports'
    BY <2>1 DEF Reports
  <2>3. QED
    BY <1>1, <2>1, <2>2, QuietGrown
<1>4. CASE WriteReport
  <2>1. /\ UNCHANGED <<printed, marks, hist>> /\ shell = "reporting" /\ shell' = "reported"
        /\ pending' = IF pending = Partial THEN hist ELSE pending
    BY <1>4 DEF WriteReport, At
  <2>2. pending' \in {hist', Absent}
    BY <2>1 DEF Reports
  <2>3. Reports'
    BY <2>1, <2>2 DEF Reports
  <2>4. QED
    BY <1>1, <2>1, <2>3, QuietGrown
<1>5. CASE CloseBlock
  <2>1. /\ UNCHANGED <<hist, pending>> /\ shell = "reported" /\ shell' = "prompt"
        /\ printed' = printed \o Marker("D")
        /\ marks' = Append(marks, [kind |-> "D", stop |-> Len(printed'), of |-> hist])
    BY <1>5 DEF CloseBlock, At, PrintMarker, Emit
  <2>2. /\ Layout' /\ Grown /\ Len(marks') = Len(marks) + 1
        /\ marks'[Len(marks) + 1].kind = "D" /\ marks'[Len(marks) + 1].stop = Len(printed) + 5
        /\ marks'[Len(marks) + 1].of = hist
    BY <1>0, <2>1, MarkerGrown
  <2>3. marks'[Len(marks')].kind = "D" /\ marks'[Len(marks')].stop = Len(printed) + 5
        /\ marks'[Len(marks')].of = hist' /\ Len(marks') \in Nat
    BY <1>0, <2>1, <2>2
  <2>4. ~AfterC(Len(marks) + 1)'
    <3>1. (Len(marks') + 1) - 1 = Len(marks')
      BY <2>3
    <3>2. QED
      BY <2>3, <3>1 DEF AfterC
  <2>5. pending' \in {hist', Absent}
    BY <2>1 DEF Reports
  <2>6. taken' # marks'[Len(marks')].stop
    BY <1>0, <2>3
  <2>7. Reports'
    BY <2>1, <2>3, <2>4, <2>5, <2>6 DEF Reports
  <2>8. QED
    BY <1>1, <2>2, <2>7
<1>6. CASE PrintPrompt
  <2>1. /\ UNCHANGED <<hist, pending, marks>> /\ shell = "prompt" /\ shell' = "input"
        /\ printed' = printed \o <<"prompt">>
    BY <1>6 DEF PrintPrompt, At, Emit
  <2>2. ~AfterC(Len(marks) + 1)
    BY <2>1 DEF Reports
  <2>3. PICK s : s = <<"prompt">>
    OBVIOUS
  <2>4. s \in Seq(Symbols) /\ \A i \in 1..Len(s) : s[i] = "prompt"
    BY <2>3, MarkerBytes
  <2>5. \A i \in 1..Len(s) : s[i] \in IF AfterC(Len(marks) + 1) THEN Plain ELSE {"prompt"}
    BY <2>2, <2>4
  <2>6. Layout' /\ Grown
    BY <2>1, <2>3, <2>4, <2>5, TextGrown
  <2>7. Reports'
    BY <1>0, <1>2, <2>1, <2>2 DEF Reports
  <2>8. QED
    BY <1>1, <2>6, <2>7
<1>7. CASE EnterNothing
  <2>1. UNCHANGED <<hist, pending, marks, printed>> /\ shell = "input" /\ shell' = "hook"
    BY <1>7 DEF EnterNothing, At
  <2>2. Reports'
    BY <1>0, <1>2, <2>1 DEF Reports
  <2>3. QED
    BY <1>1, <2>1, <2>2, QuietGrown
<1>8. CASE EnterCommand
  <2>1. /\ shell = "input" /\ shell' = "running" /\ hist' \in {hist, hist + 1}
        /\ printed' = printed \o Marker("C")
        /\ marks' = Append(marks, [kind |-> "C", stop |-> Len(printed'), of |-> hist'])
    BY <1>8 DEF EnterCommand, At, Emit
  <2>2. ~AfterC(Len(marks) + 1) /\ hist' \in Nat
    BY <1>0, <2>1 DEF Reports
  <2>3. /\ Layout' /\ Grown /\ Len(marks') = Len(marks) + 1
        /\ marks'[Len(marks) + 1].kind = "C"
    BY <1>0, <2>1, <2>2, MarkerGrown
  <2>4. AfterC(Len(marks) + 1)'
    <3>1. (Len(marks') + 1) - 1 = Len(marks) + 1 /\ Len(marks') + 1 > 1
      BY <1>0, <2>3
    <3>2. QED
      BY <2>3, <3>1 DEF AfterC
  <2>5. Reports'
    BY <2>1, <2>4 DEF Reports
  <2>6. QED
    BY <1>1, <2>3, <2>5
<1>9. ASSUME NEW output \in Outputs, Run(output)
      PROVE  Layout' /\ Reports' /\ Following'
  <2>1. /\ UNCHANGED <<hist, pending, marks>> /\ shell = "running" /\ shell' = "hook"
        /\ printed' = printed \o output
    BY <1>9 DEF Run, At, Emit
  <2>2. AfterC(Len(marks) + 1)
    BY <2>1 DEF Reports
  <2>3. output \in Seq(Symbols) /\ output \in Seq(Plain)
    BY OutputsAssumption DEF PlainOutputs
  <2>4. \A i \in 1..Len(output) : output[i] \in Plain
    BY <2>3
  <2>5. \A i \in 1..Len(output) :
          output[i] \in IF AfterC(Len(marks) + 1) THEN Plain ELSE {"prompt"}
    BY <2>2, <2>4
  <2>6. Layout' /\ Grown
    BY <2>1, <2>3, <2>5, TextGrown
  <2>7. ~LastIsD
    <3>1. (Len(marks) + 1) - 1 = Len(marks)
      BY <1>0
    <3>2. marks[Len(marks)].kind = "C"
      BY <2>2, <3>1 DEF AfterC
    <3>3. QED
      BY <3>2 DEF LastIsD
  <2>8. Reports'
    BY <1>2, <2>1, <2>7 DEF Reports
  <2>9. QED
    BY <1>1, <2>6, <2>8
<1>10. QED
  BY <1>3, <1>4, <1>5, <1>6, <1>7, <1>8, <1>9 DEF Shell

LEMMA BlockInit == Init => BlockInv
<1> SUFFICES ASSUME Init PROVE Layout /\ Reports /\ Following
  BY DEF BlockInv
<1>1. CaptureTypes
  BY CaptureInit
<1>2. /\ marks = <<>> /\ printed = <<>> /\ taken = 0 /\ parser = Fresh /\ shell = "hook"
      /\ Len(marks) = 0 /\ DOMAIN marks = {} /\ Len(printed) = 0
  BY DEF Init
<1>3. Places = {1} /\ Base(1) = 0 /\ Start(1) = 0 /\ ~AfterC(1)
  BY <1>2 DEF Places, Base, Start, AfterC
<1>4. Layout
  <2>1. marks \in Seq(Marks)
    BY <1>2
  <2>2. Base(1) <= Start(1) /\ Text(1)
    BY <1>3 DEF Text
  <2>3. QED
    BY <1>2, <1>3, <2>1, <2>2 DEF Layout
<1>5. Reports
  BY <1>2, <1>3 DEF Reports, LastIsD
<1>6. Following
  <2>1. Heard(0) = Fresh
    BY <1>1, HeardSteps
  <2>2. Alike(parser, Heard(taken))
    BY <1>2, <2>1 DEF Alike
  <2>3. QED
    BY <1>2, <1>3, <2>2 DEF Following
<1>7. QED
  BY <1>4, <1>5, <1>6

LEMMA BlockNext == PlainOutputs /\ CaptureTypes /\ BlockInv /\ [Next]_vars => BlockInv'
<1> SUFFICES ASSUME PlainOutputs, CaptureTypes, BlockInv, [Next]_vars, faults' = MaxFaults
             PROVE  Layout' /\ Reports' /\ Following'
  BY DEF BlockInv
<1>1. MaxFaults \in Nat /\ faults \in 0..MaxFaults
  BY BoundsAssumption DEF CaptureTypes
<1>2. ~Fail
  BY <1>1 DEF Fail
<1>3. faults = MaxFaults
  <2>1. faults' = faults
    BY <1>2 DEF Next, Shell, OpenReport, WriteReport, CloseBlock, FailReport, PrintPrompt,
       EnterNothing, EnterCommand, Run, Proxy, Read, HandleEnd, Skip, Record, FailRecord, vars
  <2>2. QED
    BY <2>1
<1>4. Layout /\ Reports /\ Following
  BY <1>3 DEF BlockInv
<1>5. CASE UNCHANGED vars
  <2>1. UNCHANGED <<printed, marks, hist, shell, taken, pending, recorder, parser, late>>
    BY <1>5 DEF vars
  <2>2. Layout' /\ Grown
    BY <1>4, <2>1, QuietGrown
  <2>3. Following'
    BY <1>4, <2>1, <2>2, StillFollowing
  <2>4. recorder' # Idle => recorder # Idle /\ recorder' = recorder
    BY <2>1
  <2>5. Reports'
    BY <1>4, <2>1, <2>4, Parted
  <2>6. QED
    BY <2>2, <2>3, <2>5
<1>6. CASE Shell
  <2>1. ~FailReport
    BY <1>2 DEF FailReport
  <2>2. QED
    BY <1>4, <1>6, <2>1, ShellKeepsBlock
<1>7. ASSUME UNCHANGED <<printed, marks>>
      PROVE  Layout'
  BY <1>4, <1>7, SamePlaces
<1>8. ASSUME NEW n \in (taken + 1)..Len(printed), Read(n)
      PROVE  Layout' /\ Reports' /\ Following'
  <2>1. UNCHANGED <<printed, marks, hist, shell, pending, recorder>> /\ recorder = Idle
        /\ taken' = n
    BY <1>8 DEF Read, shellVars
  <2>2. Following'
    BY <1>4, <1>8, ReadFollowing
  <2>3. Reports'
    <3>1. LastIsD => ~(taken = marks[Len(marks)].stop /\ recorder # Idle)
      BY <2>1
    <3>2. LastIsD' <=> LastIsD
      BY <2>1 DEF LastIsD
    <3>3. AfterC(Len(marks) + 1)' <=> AfterC(Len(marks) + 1)
      BY <2>1 DEF AfterC
    <3>4. shell' \in {"prompt", "input", "hook"} /\ LastIsD' =>
            /\ marks'[Len(marks')].of = hist' /\ pending' \in {hist', Absent}
      BY <1>4, <2>1, <3>2 DEF Reports
    <3>5. recorder' = Idle
      BY <2>1
    <3>6. QED
      BY <1>4, <2>1, <3>3, <3>4, <3>5 DEF Reports
  <2>4. QED
    BY <1>7, <2>1, <2>2, <2>3
<1>9. CASE HandleEnd
  <2>1. UNCHANGED <<printed, marks>>
    BY <1>9 DEF HandleEnd, shellVars
  <2>2. QED
    BY <1>4, <1>7, <1>9, <2>1, EndFollowing
<1>10. ASSUME NEW record, RemoveReport(record)
       PROVE  Layout' /\ Reports' /\ Following'
  <2>1. UNCHANGED <<printed, marks>>
    BY <1>10 DEF RemoveReport, shellVars
  <2>2. QED
    BY <1>4, <1>7, <1>10, <2>1, DoneFollowing
<1>11. QED
  BY <1>5, <1>6, <1>8, <1>9, <1>10 DEF Next, Proxy, Skip, Record, FailRecord

(* While nothing failed, what the shell printed is made of prompts, output  *)
(* and markers, the report's file is that of the last end marker, and the   *)
(* proxy, unless it is late, holds the open block as far as it has read.    *)
THEOREM BlockInvariant == PlainOutputs => (Spec => []BlockInv)
<1> SUFFICES ASSUME PlainOutputs PROVE Spec => []BlockInv
  OBVIOUS
<1>1. CaptureTypes /\ BlockInv /\ [Next]_vars => BlockInv'
  BY BlockNext
<1>2. QED
  BY BlockInit, <1>1, CaptureAlways, PTL DEF Spec

(* What the proxy records when it reads in time is the command of the report *)
(* and exactly what it printed, cut to the cap, in whatever chunks it reads  *)
(* it and whatever the command prints short of a marker's payload.           *)
THEOREM OwnBlockCorrect == PlainOutputs => (Spec => []OwnBlock)
<1>1. CaptureTypes /\ BlockInv => OwnBlock
  <2> SUFFICES ASSUME CaptureTypes, BlockInv, ReadInTime(Len(marks))
               PROVE  /\ recorder.of = marks[Len(marks)].of
                      /\ recorder.output = Cut(BlockOf(Len(marks)))
    BY DEF OwnBlock, Cut
  <2>1. PICK k : k = Len(marks)
    OBVIOUS
  <2>2. /\ recorder # Idle /\ ~late /\ k > 1 /\ marks[k - 1].kind = "C" /\ marks[k].kind = "D"
        /\ marks[k].stop = taken /\ shell \in {"prompt", "input", "hook"}
        /\ faults = MaxFaults /\ Closed(BlockOf(k))
    BY <2>1 DEF ReadInTime
  <2>3. Layout /\ Reports /\ Following
    BY <2>2 DEF BlockInv
  <2>4. k \in DOMAIN marks /\ AfterC(k) /\ Len(marks) > 0
    BY <2>1, <2>2, <2>3, LayoutNumbers DEF AfterC
  <2>5. recorder.output = Cut(BlockOf(k))
    BY <2>2, <2>3, <2>4 DEF Following
  <2>6. recorder.of = marks[k].of
    BY <2>1, <2>2, <2>3, <2>4 DEF Reports, LastIsD
  <2>7. QED
    BY <2>1, <2>5, <2>6
<1>2. QED
  BY <1>1, BlockInvariant, CaptureAlways, PTL
=============================================================================
