----------------------------- MODULE ControlCodec -----------------------------
(***************************************************************************)
(* The replies of the control protocol as text (tor/controller/codec.rs),  *)
(* and what the client makes of them (client.rs, auth.rs).  A text is a    *)
(* sequence of symbols: the characters that the parsers tell apart, and    *)
(* longer pieces that they leave whole.  A line holds no line break.       *)
(***************************************************************************)
EXTENDS Integers, Sequences, SequencesExt

Blank == " "
Equals == "="
Quote == "\""
Backslash == "\\"
Comma == ","
Dot == "."

Codes == {"250", "515", "551"}
Separators == {" ", "-", "+"}

\* The first place of a symbol in a text, 0 if it is not there.
Find(text, symbol) ==
  IF \E i \in DOMAIN text : text[i] = symbol
  THEN CHOOSE i \in DOMAIN text :
         text[i] = symbol /\ \A j \in 1 .. i - 1 : text[j] # symbol
  ELSE 0

Upto(text, i)  == SubSeq(text, 1, i)
After(text, i) == SubSeq(text, i + 1, Len(text))

-----------------------------------------------------------------------------
(* read_reply, a line at a time.                                           *)

\* A ControlLine; the value of a "data" line is the sequence of its lines.
TextLine(text)        == [kind |-> "text", key |-> <<>>, value |-> <<text>>]
PairLine(key, value)  == [kind |-> "pair", key |-> key, value |-> <<value>>]
DataLine(key, body)   == [kind |-> "data", key |-> key, value |-> body]

\* parse_payload: a key is not empty and has no blank.
ParsePayload(text) ==
  LET i == Find(text, Equals)
  IN  IF i > 1 /\ Find(Upto(text, i), Blank) = 0
      THEN PairLine(Upto(text, i - 1), After(text, i))
      ELSE TextLine(text)

\* strip_suffix('=').
DataKey(text) == IF text # <<>> /\ Last(text) = Equals THEN Front(text) ELSE text

IsStatus(line) == Len(line) >= 2 /\ line[1] \in Codes /\ line[2] \in Separators

\* Faulty: the dots are left as they came.
UnescapeNot(line) == line

\* strip_prefix(".."): one of two leading dots is dropped.
Unescape(line) ==
  IF Len(line) >= 2 /\ line[1] = Dot /\ line[2] = Dot THEN Tail(line) ELSE line

\* at: "first" line, "more" lines, lines of "data", the "whole" reply, a "failed" one
\* or "none" at the end of the stream.
StartReply == [at |-> "first", code |-> "", lines |-> <<>>, key |-> <<>>, body |-> <<>>]

\* A status line: of the same code as the first, and the last one after a blank.
ReadStatus(r, line) ==
  IF ~IsStatus(line) \/ (r.at = "more" /\ line[1] # r.code) THEN [r EXCEPT !.at = "failed"]
  ELSE IF line[2] = "+"
  THEN [r EXCEPT !.at = "data", !.code = line[1], !.key = DataKey(After(line, 2)), !.body = <<>>]
  ELSE [r EXCEPT !.at = IF line[2] = " " THEN "whole" ELSE "more",
                 !.code = line[1], !.lines = Append(@, ParsePayload(After(line, 2)))]

\* consume_line, up to the line with a dot alone.
ReadData(r, line) ==
  IF line = <<Dot>>
  THEN [r EXCEPT !.at = "more", !.lines = Append(@, DataLine(r.key, r.body))]
  ELSE [r EXCEPT !.body = Append(@, Unescape(line))]

ReadLine(r, line) == IF r.at = "data" THEN ReadData(r, line) ELSE ReadStatus(r, line)

\* The end of the stream: no reply, or the error of one that is cut.
ReadEnd(r) == [r EXCEPT !.at = IF @ = "first" THEN "none" ELSE "failed"]

-----------------------------------------------------------------------------
(* What Tor writes.                                                        *)

\* A line of a body that begins with a dot gets another.
Escape(line) == IF line # <<>> /\ line[1] = Dot THEN <<Dot>> \o line ELSE line

Payload(l) == l.key \o (IF l.kind = "pair" THEN <<Equals>> ELSE <<>>) \o l.value[1]

Encode(code, lines) ==
  FlattenSeq([i \in DOMAIN lines |->
    IF lines[i].kind = "data"
    THEN <<(<<code, "+">> \o lines[i].key) \o <<Equals>>>>
         \o [k \in DOMAIN lines[i].value |-> Escape(lines[i].value[k])] \o << <<Dot>> >>
    ELSE <<(<<code, IF i = Len(lines) THEN " " ELSE "-">>) \o Payload(lines[i])>>])

\* What a stream that breaks still delivers: some lines, the last of them maybe cut.
Cuts(wire) ==
  {Upto(wire, n) : n \in 0 .. Len(wire)} \cup
  UNION {{Append(Upto(wire, n - 1), Upto(wire[n], k)) : k \in 1 .. Len(wire[n]) - 1}
           : n \in DOMAIN wire}

-----------------------------------------------------------------------------
(* control_words and field.                                                *)

\* Faulty: a backslash is a character like any other.
WordStepRaw(w, symbol) ==
  IF symbol = Quote THEN [w EXCEPT !.quoted = ~@]
  ELSE IF symbol = Blank /\ ~w.quoted
  THEN IF w.current = <<>> THEN w ELSE [w EXCEPT !.words = Append(@, w.current), !.current = <<>>]
  ELSE [w EXCEPT !.current = Append(@, symbol)]

WordStep(w, symbol) ==
  IF w.escaped THEN [w EXCEPT !.current = Append(@, symbol), !.escaped = FALSE]
  ELSE IF symbol = Quote THEN [w EXCEPT !.quoted = ~@]
  ELSE IF symbol = Backslash /\ w.quoted THEN [w EXCEPT !.escaped = TRUE]
  ELSE IF symbol = Blank /\ ~w.quoted
  THEN IF w.current = <<>> THEN w ELSE [w EXCEPT !.words = Append(@, w.current), !.current = <<>>]
  ELSE [w EXCEPT !.current = Append(@, symbol)]

NoWords == [words |-> <<>>, current |-> <<>>, quoted |-> FALSE, escaped |-> FALSE]

\* What the loop makes of a text, symbol after symbol.
Scan(w, text) ==
  LET scan[i \in 0 .. Len(text)] == IF i = 0 THEN w ELSE WordStep(scan[i - 1], text[i])
  IN  scan[Len(text)]

\* The blanks around a text go first, also one in a string whose end is missing.
Trim(text) ==
  LET solid == {i \in DOMAIN text : text[i] # Blank}
  IN  IF solid = {} THEN <<>> ELSE SubSeq(text, Min(solid), Max(solid))

WordsAtEnd(w) == IF w.current = <<>> THEN w.words ELSE Append(w.words, w.current)

ControlWords(text) == WordsAtEnd(Scan(NoWords, Trim(text)))

Prefixed(word, name) == Len(word) >= 2 /\ word[1] = name /\ word[2] = Equals

\* The first or the last of what is at some places: a set with at most one element.
FirstAt(seq, places) == {seq[i] : i \in {j \in places : \A k \in places : j <= k}}
LastAt(seq, places)  == {seq[i] : i \in {j \in places : \A k \in places : k <= j}}

\* The value of the first word `name=value'.
Field(words, name) ==
  {After(word, 2) : word \in FirstAt(words, {i \in DOMAIN words : Prefixed(words[i], name)})}

\* How Tor quotes a string.
Quoted(text) ==
  <<Quote>> \o FlattenSeq([i \in DOMAIN text |->
      IF text[i] \in {Quote, Backslash} THEN <<Backslash, text[i]>> ELSE <<text[i]>>])
  \o <<Quote>>

-----------------------------------------------------------------------------
(* The replies that the client reads.                                      *)

WordsOf(line) == ControlWords(line.value[1])
Begins(line, name) ==
  line.kind = "text" /\ WordsOf(line) # <<>> /\ WordsOf(line)[1] = <<name>>

\* parse_protocol_info: the methods of the last AUTH line that has some, and the file
\* of the last one.
ProtocolInfo(lines) ==
  LET auth    == {i \in DOMAIN lines : Begins(lines[i], "AUTH")}
      some    == {i \in auth : Field(WordsOf(lines[i]), "METHODS") # {}}
      methods == UNION {Field(WordsOf(l), "METHODS") : l \in LastAt(lines, some)}
  IN  [methods |-> UNION {{m[i] : i \in DOMAIN m} \ {Comma} : m \in methods},
       file    |-> UNION {Field(WordsOf(l), "COOKIEFILE") : l \in LastAt(lines, auth)}]

\* bootstrap_progress: of the first line that tells it.
PhaseWords(line) == ControlWords(After(line.value[1], Find(line.value[1], "BOOTSTRAP")))
TellsProgress(line) ==
  /\ line.kind = "text" \/ (line.kind = "pair" /\ line.key = <<"status/bootstrap-phase">>)
  /\ Find(line.value[1], "BOOTSTRAP") # 0
  /\ Field(PhaseWords(line), "PROGRESS") # {}
Progress(lines) ==
  UNION {Field(PhaseWords(l), "PROGRESS") :
           l \in FirstAt(lines, {i \in DOMAIN lines : TellsProgress(lines[i])})}

\* socks_listeners: the words that parse as socket addresses.
SocksListeners(lines) ==
  UNION {{i \in DOMAIN WordsOf(l) : WordsOf(l)[i][1] # "unix"} :
           l \in FirstAt(lines, {i \in DOMAIN lines :
                   lines[i].kind = "pair" /\ lines[i].key = <<"net/listeners/socks">>})}
=============================================================================
