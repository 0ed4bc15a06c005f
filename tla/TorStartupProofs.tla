--------------------------- MODULE TorStartupProofs ---------------------------
(***************************************************************************)
(* Proofs about the bringing up of Tor: whatever path Tor keeps its cookie *)
(* at, whatever a user reads, and wherever the connection breaks, replies  *)
(* are read as they were written, and the client finds in them what it     *)
(* needs.                                                                  *)
(***************************************************************************)
EXTENDS TorConfigProofs

Starting == {"build", "built", "PROTOCOLINFO"}
Entered  == {"TAKEOWNERSHIP", "RESETCONF", "phase", "listeners", "up", "text"}

\* How a Tor was configured.
TorOK ==
  /\ tor.auth \in {"cookie", "hashed", "none"} /\ tor.safe \in BOOLEAN
  /\ tor.path \in Text /\ tor.bound \in Seq({"tcp", "unix"})
  /\ stage \in Commands \cup {"up"} => tor.path # <<>>

\* The client reads the reply to its command, and what is to come of it is on its way, but
\* for what a broken connection has lost; or it has read a reply whose last line is cut; or
\* nothing more will come.
Given ==
  /\ meant \in Replies(stage)
  /\ stage = "AUTHENTICATE" /\ meant.code = "250" => authed
Following ==
  /\ Given
  /\ OnTrack(meant.code, meant.lines, reply)
  /\ \/ wire = Left(meant.code, meant.lines, reply)
     \/ broken /\ wire \in Cuts(Left(meant.code, meant.lines, reply))
Cut ==
  /\ Given /\ broken /\ wire = <<>>
  /\ reply.at = "whole" /\ CutWhole(meant.code, meant.lines, reply)
Ended == broken /\ wire = <<>> /\ reply.at # "whole"

FrameInv ==
  /\ TorOK /\ reply \in ReplyState /\ wire \in Seq(Text) /\ authed \in BOOLEAN
  /\ asked => Following \/ Cut \/ Ended
  /\ ~asked /\ stage # "failed" => wire = <<>>
  /\ closed /\ stage # "failed" =>
       \/ broken
       \/ asked /\ stage = "AUTHENTICATE" /\ meant \in Replies(stage) /\ meant.code = "515"

\* What the client knows and has proved.
AuthInv ==
  /\ jar \in {<<>>, TorCookie, OtherCookie} /\ cookie \in {<<>>, jar}
  /\ stage \in Starting => cookie = <<>> /\ credential = <<>>
  /\ stage = "AUTHCHALLENGE" => credential = <<>> /\ cookie # <<>> /\ tor.auth = "cookie" /\ tor.safe
  /\ \/ credential = <<>>
     \/ credential = cookie
     \/ credential = Hash("client", cookie, ServerNonce) /\ cookie = TorCookie
  /\ stage \in Starting \cup {"AUTHCHALLENGE"} => ~authed
  /\ stage \in Entered => authed
  /\ authed /\ tor.auth = "cookie" => cookie = TorCookie

\* How a start ends.
EndInv ==
  /\ stage \in Starting \cup (Commands \ {"text"}) => outcome = "none"
  /\ stage \in {"up", "text"} => outcome = "ok"
  /\ stage = "failed" => outcome \notin {"none", "ok"}
  /\ FailuresExplained

-----------------------------------------------------------------------------
(* Every reply of Tor is one that its reader understands.                  *)

\* What is a string is a text.
LEMMA StringsAreTexts == Seq(STRING) \subseteq Text /\ Seq(Seq(STRING)) \subseteq Seq(Text)
<1>1. Seq(STRING) \subseteq Text
  BY SeqMonotonic DEF Symbol, Text
<1> QED
  BY <1>1, SeqMonotonic

\* A line that has a blank after its first symbol is text, however it goes on.
BlankSecond(t) == t \in Text /\ Len(t) >= 2 /\ t[1] # Equals /\ t[2] = Blank

LEMMA BlankStays ==
  ASSUME NEW u, BlankSecond(u), NEW v \in Text
  PROVE  BlankSecond(u \o v)
<1>1. u \in Seq(Symbol) /\ v \in Seq(Symbol) /\ Len(u) \in Nat /\ Len(v) \in Nat
  BY LenProperties DEF BlankSecond, Text
<1>2. /\ u \o v \in Seq(Symbol) /\ Len(u \o v) = Len(u) + Len(v)
      /\ \A i \in 1 .. Len(u) + Len(v) : (u \o v)[i] = IF i <= Len(u) THEN u[i] ELSE v[i - Len(u)]
  BY <1>1, ConcatProperties
<1>3. Len(u) >= 2
  BY DEF BlankSecond
<1>4. (u \o v)[1] = u[1] /\ (u \o v)[2] = u[2]
  BY <1>1, <1>2, <1>3
<1> QED
  BY <1>1, <1>2, <1>3, <1>4 DEF BlankSecond, Text

LEMMA BlankStarts ==
  ASSUME NEW x \in Symbol, x # Equals
  PROVE  BlankSecond(<<x, Blank>>)
<1>1. Blank \in Symbol
  BY Symbols
<1>2. <<x, Blank>> \in Seq(Symbol) /\ Len(<<x, Blank>>) = 2
      /\ <<x, Blank>>[1] = x /\ <<x, Blank>>[2] = Blank
  BY <1>1
<1> QED
  BY <1>2 DEF BlankSecond, Text

LEMMA TextMeant ==
  ASSUME NEW t \in Text, BlankSecond(t) \/ \A i \in 1 .. Len(t) : t[i] # Equals
  PROVE  WellMeant(TextLine(t)) /\ Payload(TextLine(t)) = t
<1>1. ParsePayload(t) = TextLine(t)
  BY TextIsRead DEF BlankSecond
<1>2. TextLine(t) \in Lines /\ TextLine(t).kind = "text"
  BY TextLineTyped DEF TextLine
<1>3. Payload(TextLine(t)) = (<<>> \o <<>>) \o t
  <2>1. TextLine(t).key = <<>> /\ TextLine(t).value[1] = t
    BY DEF TextLine
  <2> QED
    BY <1>2, <2>1 DEF Payload
<1>4. (<<>> \o <<>>) \o t = t
  BY TextLaws, TextTyped
<1> QED
  BY <1>1, <1>2, <1>3, <1>4 DEF WellMeant

LEMMA PairMeant ==
  ASSUME NEW key \in Symbol, key \notin {Equals, Blank}, NEW value \in Text
  PROVE  WellMeant(PairLine(<<key>>, value))
<1>1. <<key>> \in Text /\ <<key>> # <<>> /\ Len(<<key>>) = 1 /\ <<key>>[1] = key
  BY TextTyped
<1>2. \A i \in 1 .. Len(<<key>>) : <<key>>[i] \notin {Equals, Blank}
  <2>1. \A i \in 1 .. Len(<<key>>) : i = 1
    BY <1>1
  <2> QED
    BY <1>1, <2>1
<1>3. /\ (<<key>> \o <<Equals>>) \o value \in Text
      /\ ParsePayload((<<key>> \o <<Equals>>) \o value) = PairLine(<<key>>, value)
  BY <1>1, <1>2, PairIsRead
<1>4. PairLine(<<key>>, value) \in Lines /\ PairLine(<<key>>, value).kind = "pair"
  BY <1>1, PairLineTyped DEF PairLine
<1>5. Payload(PairLine(<<key>>, value)) = (<<key>> \o <<Equals>>) \o value
  <2>1. PairLine(<<key>>, value).key = <<key>> /\ PairLine(<<key>>, value).value[1] = value
    BY DEF PairLine
  <2> QED
    BY <1>4, <2>1 DEF Payload
<1> QED
  BY <1>3, <1>4, <1>5 DEF WellMeant

LEMMA DataMeant ==
  ASSUME NEW key \in Text, NEW body \in Seq(Text)
  PROVE  WellMeant(DataLine(key, body))
  BY DEF WellMeant, DataLine, Lines

\* The lines of an answer are followed by Ok.
LEMMA OkMeant ==
  /\ WellMeant(Ok) /\ Payload(Ok) = <<"OK">> /\ Ok.kind = "text"
  /\ WellMeant(TextLine(<<"no">>)) /\ TextLine(<<"no">>).kind = "text"
<1>1. \A x \in Symbol : x # Equals =>
        <<x>> \in Text /\ \A i \in 1 .. Len(<<x>>) : <<x>>[i] # Equals
  <2> TAKE x \in Symbol
  <2>1. <<x>> \in Text /\ Len(<<x>>) = 1 /\ <<x>>[1] = x /\ \A i \in 1 .. 1 : i = 1
    BY TextTyped
  <2> QED
    BY <2>1
<1>2. {"OK", "no"} \subseteq Symbol /\ Equals \notin {"OK", "no"}
  BY DEF Symbol, Words1, Equals
<1>3. /\ WellMeant(TextLine(<<"OK">>)) /\ Payload(TextLine(<<"OK">>)) = <<"OK">>
      /\ WellMeant(TextLine(<<"no">>))
  BY <1>1, <1>2, TextMeant
<1> QED
  BY <1>3 DEF Ok, TextLine

LEMMA AnswerMeant ==
  ASSUME NEW lines \in Seq(Lines), \A i \in 1 .. Len(lines) : WellMeant(lines[i])
  PROVE  Reply(Answer(lines).code, Answer(lines).lines)
<1>1. Ok \in Lines
  BY OkMeant DEF WellMeant
<1>2. /\ Append(lines, Ok) \in Seq(Lines) /\ Len(Append(lines, Ok)) = Len(lines) + 1
      /\ \A i \in 1 .. Len(lines) : Append(lines, Ok)[i] = lines[i]
      /\ Append(lines, Ok)[Len(lines) + 1] = Ok
  BY <1>1, AppendProperties
<1>3. Len(lines) \in Nat /\ \A i \in 1 .. Len(lines) + 1 : i \in 1 .. Len(lines) \/ i = Len(lines) + 1
  BY LenProperties
<1>4. \A i \in 1 .. Len(lines) + 1 : WellMeant(Append(lines, Ok)[i])
  BY <1>2, <1>3, OkMeant
<1>5. Append(lines, Ok) # <<>>
  BY <1>2, <1>3, EmptySeq
<1>6. Answer(lines).code = "250" /\ Answer(lines).lines = Append(lines, Ok) /\ "250" \in Codes
  BY DEF Answer, Codes
<1> QED
  BY <1>2, <1>4, <1>5, <1>6, OkMeant DEF Reply

LEMMA LineMeant ==
  ASSUME NEW code \in Codes, NEW l, WellMeant(l), l.kind # "data"
  PROVE  Reply(code, <<l>>)
<1>1. <<l>> \in Seq(Lines) /\ <<l>> # <<>> /\ Len(<<l>>) = 1 /\ <<l>>[1] = l
  BY DEF WellMeant
<1>2. \A i \in 1 .. Len(<<l>>) : WellMeant(<<l>>[i])
  <2>1. \A i \in 1 .. Len(<<l>>) : i = 1
    BY <1>1
  <2> QED
    BY <1>1, <2>1
<1> QED
  BY <1>1, <1>2 DEF Reply

-----------------------------------------------------------------------------
(* The lines of Tor's replies, and the words in them.                      *)

Listed == {"tcp", "unix"}
Piece(bound, i) == (IF i = 1 THEN <<>> ELSE <<Blank>>) \o Quoted(<<bound[i]>>)
Pieces(bound) == [i \in DOMAIN bound |-> Piece(bound, i)]
Singles(bound) == [i \in 1 .. Len(bound) |-> <<bound[i]>>]

LEMMA PieceTyped ==
  ASSUME NEW bound \in Seq(Listed), NEW i \in 1 .. Len(bound)
  PROVE  Piece(bound, i) \in Text /\ <<bound[i]>> \in Text /\ bound[i] \in Listed
<1>1. bound[i] \in Listed
  BY ElementOfSeq
<1>2. bound[i] \in Symbol
  BY <1>1 DEF Listed, Symbol, Words1
<1>3. <<bound[i]>> \in Text /\ <<Blank>> \in Text /\ <<>> \in Text
  BY <1>2, TextTyped, Symbols
<1>4. Quoted(<<bound[i]>>) \in Text
  BY <1>3, QuotedParts
<1> QED
  BY <1>1, <1>3, <1>4, TextTyped DEF Piece

LEMMA PiecesTyped ==
  ASSUME NEW bound \in Seq(Listed)
  PROVE  Pieces(bound) \in Seq(Text) /\ FlattenSeq(Pieces(bound)) \in Text
<1>1. DOMAIN bound = 1 .. Len(bound) /\ Len(bound) \in Nat
  BY LenProperties
<1>2. \A i \in 1 .. Len(bound) : Piece(bound, i) \in Text
  BY PieceTyped
<1>3. [i \in 1 .. Len(bound) |-> Piece(bound, i)] \in Seq(Text)
  BY <1>1, <1>2
<1>4. Pieces(bound) \in Seq(Text)
  BY <1>1, <1>3 DEF Pieces
<1> QED
  BY <1>4, FlattenTyped DEF Text

LEMMA SinglesAppend ==
  ASSUME NEW bound \in Seq(Listed), NEW x \in Listed
  PROVE  /\ Append(bound, x) \in Seq(Listed) /\ Len(Append(bound, x)) = Len(bound) + 1
         /\ Append(bound, x)[Len(bound) + 1] = x
         /\ Singles(bound) \in Seq(Text) /\ <<x>> \in Text
         /\ Singles(Append(bound, x)) = Append(Singles(bound), <<x>>)
<1> DEFINE n == Len(bound)
           b == Append(bound, x)
<1>1. n \in Nat
  BY LenProperties
<1>2. /\ b \in Seq(Listed) /\ Len(b) = n + 1 /\ b[n + 1] = x
      /\ \A i \in 1 .. n : b[i] = bound[i]
  BY AppendProperties
<1>3. <<x>> \in Text
  <2>1. x \in Symbol
    BY DEF Listed, Symbol, Words1
  <2> QED
    BY <2>1, TextTyped
<1>4. \A i \in 1 .. n : <<bound[i]>> \in Text
  BY PieceTyped
<1> HIDE DEF n, b
<1>5. [i \in 1 .. n |-> <<bound[i]>>] \in Seq(Text)
      /\ Len([i \in 1 .. n |-> <<bound[i]>>]) = n
  BY <1>1, <1>4
<1> DEFINE s == [i \in 1 .. n |-> <<bound[i]>>]
           t == [i \in 1 .. n + 1 |-> <<b[i]>>]
<1>6. s = Singles(bound) /\ t = Singles(b)
  BY <1>2 DEF Singles, n
<1>7. /\ Append(s, <<x>>) \in Seq(Text) /\ Len(Append(s, <<x>>)) = n + 1
      /\ Append(s, <<x>>)[n + 1] = <<x>>
      /\ \A i \in 1 .. n : Append(s, <<x>>)[i] = s[i]
  <2>1. s \in Seq(Text) /\ Len(s) = n
    BY <1>5
  <2> HIDE DEF s
  <2> QED
    BY <1>3, <2>1, AppendProperties
<1>8. \A i \in 1 .. n : s[i] = <<b[i]>>
  BY <1>2
<1>9. \A i \in 1 .. n + 1 : t[i] = <<b[i]>>
  OBVIOUS
<1>10. \A i \in 1 .. n + 1 : <<b[i]>> \in Text
  <2> TAKE i \in 1 .. n + 1
  <2>1. i \in 1 .. n \/ i = n + 1
    BY <1>1
  <2> QED
    BY <1>2, <1>3, <1>4, <2>1
<1>11. t \in Seq(Text) /\ Len(t) = n + 1
  BY <1>1, <1>10
<1> HIDE DEF s, t
<1>12. \A i \in 1 .. n + 1 : t[i] = Append(s, <<x>>)[i]
  <2> TAKE i \in 1 .. n + 1
  <2>1. i \in 1 .. n \/ i = n + 1
    BY <1>1
  <2> QED
    BY <1>2, <1>7, <1>8, <1>9, <2>1
<1>13. t = Append(s, <<x>>)
  BY <1>7, <1>11, <1>12, SeqEqual
<1> QED
  BY <1>2, <1>3, <1>5, <1>6, <1>13 DEF n, b, s

\* The listeners that Tor tells are read as words, one for each.
LEMMA ListenersScan ==
  \A bound \in Seq(Listed) :
    \/ bound = <<>>
    \/ \E a \in Seq(Listed), y \in Listed :
         bound = Append(a, y) /\ Scan(NoWords, FlattenSeq(Pieces(bound))) = St(Singles(a), <<y>>)
<1> DEFINE Good(b) ==
             \/ b = <<>>
             \/ \E a \in Seq(Listed), y \in Listed :
                  b = Append(a, y) /\ Scan(NoWords, FlattenSeq(Pieces(b))) = St(Singles(a), <<y>>)
           S == {b \in Seq(Listed) : Good(b)}
<1>1. <<>> \in S
  OBVIOUS
<1>2. ASSUME NEW b \in Seq(Listed), NEW x \in Listed, b \in S
      PROVE  Append(b, x) \in S
  <2> DEFINE c == Append(b, x)
             n == Len(b)
  <2>1. /\ c \in Seq(Listed) /\ Len(c) = n + 1 /\ c[n + 1] = x /\ n \in Nat
        /\ \A i \in 1 .. n : c[i] = b[i]
    BY AppendProperties, LenProperties
  <2>2. /\ Pieces(b) \in Seq(Text) /\ FlattenSeq(Pieces(b)) \in Text
        /\ Pieces(c) \in Seq(Text) /\ Singles(b) \in Seq(Text) /\ <<x>> \in Text
    BY <2>1, PiecesTyped, SinglesAppend
  <2>3. Piece(c, n + 1) \in Text
    <3>1. n + 1 \in 1 .. Len(c)
      BY <2>1
    <3> HIDE DEF c
    <3> QED
      BY <2>1, <3>1, PieceTyped
  <2>4. Pieces(c) = Append(Pieces(b), Piece(c, n + 1))
    <3> DEFINE p == Pieces(b)
               q == Piece(c, n + 1)
    <3>1. DOMAIN b = 1 .. n /\ DOMAIN c = 1 .. n + 1
      BY <2>1, LenProperties
    <3> HIDE DEF c, n
    <3>2. Len(p) = n /\ (\A i \in 1 .. n : p[i] = Piece(b, i))
          /\ Len(Pieces(c)) = n + 1 /\ (\A i \in 1 .. n + 1 : Pieces(c)[i] = Piece(c, i))
      BY <2>1, <2>2, <3>1 DEF Pieces
    <3>3. \A i \in 1 .. n : Piece(b, i) = Piece(c, i)
      BY <2>1 DEF Piece
    <3> HIDE DEF p, q
    <3>4. /\ Append(p, q) \in Seq(Text) /\ Len(Append(p, q)) = Len(p) + 1
          /\ Append(p, q)[Len(p) + 1] = q
          /\ \A i \in 1 .. Len(p) : Append(p, q)[i] = p[i]
      BY <2>2, <2>3, AppendProperties DEF p, q
    <3>5. \A i \in 1 .. n + 1 : Pieces(c)[i] = Append(p, q)[i]
      <4> TAKE i \in 1 .. n + 1
      <4>1. i \in 1 .. n \/ i = n + 1
        BY <2>1
      <4>2. CASE i \in 1 .. n
        BY <3>2, <3>3, <3>4, <4>2
      <4>3. CASE i = n + 1
        BY <3>2, <3>4, <4>3 DEF q
      <4> QED
        BY <4>1, <4>2, <4>3
    <3>6. Len(Pieces(c)) = Len(Append(p, q))
      BY <3>2, <3>4
    <3>7. Pieces(c) = Append(p, q)
      BY <2>2, <3>2, <3>4, <3>5, <3>6, SeqEqual
    <3> QED
      BY <3>7 DEF p, q
  <2> HIDE DEF c
  <2>5. FlattenSeq(Pieces(c)) = FlattenSeq(Pieces(b)) \o Piece(c, n + 1)
    BY <2>2, <2>3, <2>4, FlattenSnoc DEF Text
  <2>6. Scan(NoWords, FlattenSeq(Pieces(c)))
          = Scan(Scan(NoWords, FlattenSeq(Pieces(b))), Piece(c, n + 1))
    BY <2>2, <2>3, <2>5, ScanConcat
  <2>7. <<Blank>> \in Text /\ Quoted(<<x>>) \in Text /\ <<>> \o Quoted(<<x>>) = Quoted(<<x>>)
    BY <2>2, TextTyped, TextLaws, Symbols, QuotedParts
  <2>8. Scan(NoWords, FlattenSeq(Pieces(c))) = St(Singles(b), <<x>>)
    <3>1. CASE b = <<>>
      <4>1. n = 0 /\ DOMAIN b = {}
        BY <3>1
      <4>2. Pieces(b) = <<>> /\ Singles(b) = <<>>
        BY <2>2, <4>1, EmptySeq DEF Pieces, Singles
      <4>3. Piece(c, n + 1) = Quoted(<<x>>)
        BY <2>1, <2>7, <4>1 DEF Piece
      <4>4. Scan(NoWords, FlattenSeq(Pieces(b))) = St(<<>>, <<>>)
        BY <4>2, FlattenEmpty, ScanEmpty, NoWordsSt
      <4>5. Scan(St(<<>>, <<>>), Quoted(<<x>>)) = St(<<>>, <<>> \o <<x>>)
        BY <2>2, StQuoted, NoWordsSt
      <4> QED
        BY <2>2, <2>6, <4>2, <4>3, <4>4, <4>5, TextLaws
    <3>2. CASE b # <<>>
      <4>1. PICK a \in Seq(Listed), y \in Listed :
              b = Append(a, y) /\ Scan(NoWords, FlattenSeq(Pieces(b))) = St(Singles(a), <<y>>)
        BY <1>2, <3>2
      <4>2. Singles(a) \in Seq(Text) /\ <<y>> \in Text /\ Singles(b) = Append(Singles(a), <<y>>)
        BY <4>1, SinglesAppend
      <4>3. <<y>> # <<>>
        OBVIOUS
      <4>4. Scan(St(Singles(a), <<y>>), <<Blank>>) = St(Singles(b), <<>>)
        BY <4>2, <4>3, StBlank
      <4>5. Scan(St(Singles(b), <<>>), Quoted(<<x>>)) = St(Singles(b), <<>> \o <<x>>)
        BY <2>2, StQuoted, TextTyped
      <4>6. n # 0
        BY <3>2, EmptySeq
      <4>7. Piece(c, n + 1) = <<Blank>> \o Quoted(<<x>>)
        BY <2>1, <4>6 DEF Piece
      <4>8. Scan(St(Singles(a), <<y>>), <<Blank>> \o Quoted(<<x>>))
              = Scan(Scan(St(Singles(a), <<y>>), <<Blank>>), Quoted(<<x>>))
        BY <2>7, ScanConcat
      <4> QED
        BY <2>2, <2>6, <4>1, <4>4, <4>5, <4>7, <4>8, TextLaws
    <3> QED
      BY <3>1, <3>2
  <2>9. Good(c)
    BY <2>8 DEF c
  <2> QED
    BY <2>1, <2>9 DEF c
<1> HIDE DEF S
<1>3. \A b \in Seq(Listed) : b \in S
  BY <1>1, <1>2, SeqBySet
<1> QED
  BY <1>3 DEF S

LEMMA ListenersRead ==
  ASSUME NEW bound \in Seq(Listed)
  PROVE  ControlWords(FlattenSeq(Pieces(bound))) = Singles(bound)
<1>0. FlattenSeq(Pieces(bound)) \in Text
  BY PiecesTyped
<1>1. CASE bound = <<>>
  <2>1. Pieces(bound) = <<>> /\ Singles(bound) = <<>>
    <3>1. DOMAIN bound = {} /\ Len(bound) = 0
      BY <1>1
    <3>2. Pieces(bound) \in Seq(Text)
      BY PiecesTyped
    <3> QED
      BY <3>1, <3>2, EmptySeq DEF Pieces, Singles
  <2>2. Scan(NoWords, FlattenSeq(Pieces(bound))) = St(<<>>, <<>>)
    BY <2>1, FlattenEmpty, ScanEmpty, NoWordsSt
  <2> QED
    BY <1>0, <2>1, <2>2, StWords
<1>2. CASE bound # <<>>
  <2>1. PICK a \in Seq(Listed), y \in Listed :
          bound = Append(a, y) /\ Scan(NoWords, FlattenSeq(Pieces(bound))) = St(Singles(a), <<y>>)
    BY <1>2, ListenersScan
  <2>2. <<y>> # <<>>
    OBVIOUS
  <2>3. ControlWords(FlattenSeq(Pieces(bound))) = Append(Singles(a), <<y>>)
    BY <1>0, <2>1, <2>2, StWords
  <2> QED
    BY <2>1, <2>3, SinglesAppend
<1> QED
  BY <1>1, <1>2

\* The first word of a line, before whatever follows.
LEMMA PairSplit ==
  /\ \A a, b, c, d \in Symbol : <<a, b, c, d>> = <<a, b>> \o <<c, d>>
  /\ \A a, b, c \in Symbol : <<a, b, c>> = <<a, b>> \o <<c>>
  /\ \A a, b \in Symbol : <<a, b>> = <<a>> \o <<b>> /\ <<a, b>> \in Text
<1>1. ASSUME NEW a \in Symbol, NEW b \in Symbol, NEW c \in Symbol, NEW d \in Symbol
      PROVE  <<a, b, c, d>> = <<a, b>> \o <<c, d>>
  OBVIOUS
<1>2. ASSUME NEW a \in Symbol, NEW b \in Symbol, NEW c \in Symbol
      PROVE  <<a, b, c>> = <<a, b>> \o <<c>>
  OBVIOUS
<1>3. ASSUME NEW a \in Symbol, NEW b \in Symbol
      PROVE  <<a, b>> = <<a>> \o <<b>> /\ <<a, b>> \in Text
  <2>1. <<a, b>> = <<a>> \o <<b>>
    <3>1. Append(<<a>>, b) = <<a, b>>
      BY PairOfSymbols
    <3>2. <<a>> \in Text
      BY TextTyped
    <3>3. Append(<<a>>, b) = <<a>> \o <<b>>
      BY <3>2, TextLaws
    <3> QED
      BY <3>1, <3>3
  <2>2. <<a, b>> \in Seq(Symbol)
    OBVIOUS
  <2> QED
    BY <2>1, <2>2 DEF Text
<1> QED
  BY <1>1, <1>2, <1>3

LEMMA FirstWord ==
  ASSUME NEW x \in Symbol, x \notin {Quote, Blank}, NEW v \in Text
  PROVE  /\ <<x, Blank>> \o v \in Text /\ << <<x>> >> \in Seq(Text)
         /\ Scan(NoWords, <<x, Blank>> \o v) = Scan(St(<< <<x>> >>, <<>>), v)
<1>1. /\ <<x>> \in Text /\ <<Blank>> \in Text /\ <<x, Blank>> \in Text
      /\ <<x, Blank>> = <<x>> \o <<Blank>> /\ <<x>> # <<>> /\ <<x, Blank>> \o v \in Text
  BY PairSplit, TextTyped, Symbols
<1>2. Scan(NoWords, <<x>>) = St(<<>>, <<>> \o <<x>>) /\ <<>> \o <<x>> = <<x>>
  <2>1. Plain(<<x>>) /\ <<>> \o <<x>> = <<x>>
    BY <1>1, PlainSymbol, TextLaws
  <2>2. Scan(St(<<>>, <<>>), <<x>>) = St(<<>>, <<>> \o <<x>>)
    BY <2>1, NoWordsSt, StPlain
  <2> QED
    BY <2>1, <2>2, NoWordsSt
<1>3. Scan(St(<<>>, <<x>>), <<Blank>>) = St(Append(<<>>, <<x>>), <<>>)
  BY <1>1, NoWordsSt, StBlank
<1>4. Append(<<>>, <<x>>) = << <<x>> >> /\ << <<x>> >> \in Seq(Text)
  BY <1>1, SingleTyped
<1>5. Scan(NoWords, <<x, Blank>>) = St(<< <<x>> >>, <<>>)
  <2>1. Scan(NoWords, <<x>> \o <<Blank>>) = Scan(Scan(NoWords, <<x>>), <<Blank>>)
    BY <1>1, ScanConcat
  <2> QED
    BY <1>1, <1>2, <1>3, <1>4, <2>1
<1>6. Scan(NoWords, <<x, Blank>> \o v) = Scan(Scan(NoWords, <<x, Blank>>), v)
  BY <1>1, ScanConcat
<1> QED
  BY <1>1, <1>4, <1>5, <1>6

\* A name and its value, which is plain or quoted.
Named(name, value) == <<name, Equals>> \o value

LEMMA NamedWord ==
  ASSUME NEW ws \in Seq(Text), NEW name \in Symbol, name \notin {Quote, Blank}, NEW value \in Text
  PROVE  /\ Named(name, value) \in Text /\ Named(name, value) # <<>>
         /\ <<name, Equals>> \in Text /\ Named(name, Quoted(value)) \in Text
         /\ Plain(value) => Scan(St(ws, <<>>), Named(name, value)) = St(ws, Named(name, value))
         /\ Scan(St(ws, <<>>), Named(name, Quoted(value))) = St(ws, Named(name, value))
         /\ Len(Named(name, value)) >= 2 /\ Named(name, value)[1] = name
         /\ Named(name, value)[2] = Equals /\ After(Named(name, value), 2) = value
<1> DEFINE p == <<name, Equals>>
           word == p \o value
<1>1. p \in Text /\ p = <<name>> \o <<Equals>> /\ <<name>> \in Text /\ <<Equals>> \in Text
  BY PairSplit, TextTyped, Symbols
<1>2. Plain(p)
  <2>1. Plain(<<name>>) /\ Plain(<<Equals>>)
    BY PlainSymbol, Symbols
  <2> QED
    BY <1>1, <2>1, PlainConcat
<1>3. Len(p) = 2 /\ p[1] = name /\ p[2] = Equals
  OBVIOUS
<1> HIDE DEF p
<1>4. /\ word \in Text /\ Len(word) = 2 + Len(value) /\ Len(value) \in Nat
      /\ word[1] = p[1] /\ word[2] = p[2] /\ After(word, 2) = value
  <2>1. /\ p \in Seq(Symbol) /\ value \in Seq(Symbol)
    BY <1>1 DEF Text
  <2>2. /\ word \in Seq(Symbol) /\ Len(word) = Len(p) + Len(value) /\ Len(value) \in Nat
        /\ \A i \in 1 .. Len(p) + Len(value) :
             word[i] = IF i <= Len(p) THEN p[i] ELSE value[i - Len(p)]
    BY <2>1, ConcatProperties, LenProperties
  <2>3. After(word, Len(p)) = value
    BY <2>1, AfterPrefix
  <2> HIDE DEF word
  <2>4. word[1] = p[1] /\ word[2] = p[2]
    BY <1>3, <2>2
  <2> QED
    BY <1>3, <2>2, <2>3, <2>4 DEF Text
<1>5. Scan(St(ws, <<>>), p) = St(ws, p)
  <2>1. <<>> \in Text /\ <<>> \o p = p
    BY <1>1, TextTyped, TextLaws
  <2>2. Scan(St(ws, <<>>), p) = St(ws, <<>> \o p)
    BY <1>2, <2>1, StPlain
  <2> QED
    BY <2>1, <2>2
<1>6. Plain(value) => Scan(St(ws, <<>>), word) = St(ws, word)
  <2>1. Scan(St(ws, <<>>), word) = Scan(Scan(St(ws, <<>>), p), value)
    BY <1>1, ScanConcat
  <2>2. Plain(value) => Scan(St(ws, p), value) = St(ws, p \o value)
    BY <1>1, StPlain
  <2> QED
    BY <1>5, <2>1, <2>2
<1>7. Scan(St(ws, <<>>), p \o Quoted(value)) = St(ws, word)
  <2>1. Scan(St(ws, <<>>), p \o Quoted(value)) = Scan(Scan(St(ws, <<>>), p), Quoted(value))
    BY <1>1, QuotedParts, ScanConcat
  <2>2. Scan(St(ws, p), Quoted(value)) = St(ws, p \o value)
    BY <1>1, StQuoted
  <2> QED
    BY <1>5, <2>1, <2>2
<1>8. word # <<>>
  BY <1>4, EmptySeq DEF Text
<1>9. p \o Quoted(value) \in Text
  BY <1>1, QuotedParts, TextTyped
<1>10. Named(name, value) = word /\ Named(name, Quoted(value)) = p \o Quoted(value)
  BY DEF Named, p
<1>11. Len(word) >= 2
  BY <1>4
<1> HIDE DEF word
<1> QED
  BY <1>1, <1>3, <1>4, <1>6, <1>7, <1>8, <1>9, <1>10, <1>11 DEF p

\* The methods that Tor tells.
Offered == {MethodsText[i] : i \in DOMAIN MethodsText} \ {Comma}

LEMMA MethodsOffered ==
  ASSUME TorOK
  PROVE  /\ Plain(MethodsText)
         /\ tor.auth = "cookie" => Offered = {"COOKIE"} \cup (IF tor.safe THEN {"SAFECOOKIE"} ELSE {})
         /\ tor.auth = "hashed" => Offered = {"HASHEDPASSWORD"}
         /\ tor.auth = "none" => Offered = {"NULL"}
<1>1. {"COOKIE", "SAFECOOKIE", "HASHEDPASSWORD", "NULL", Comma} \subseteq Symbol
  BY Symbols DEF Symbol, Words2
<1>2. {"COOKIE", "SAFECOOKIE", "HASHEDPASSWORD", "NULL", Comma} \cap {Quote, Blank} = {}
      /\ Comma \notin {"COOKIE", "SAFECOOKIE", "HASHEDPASSWORD", "NULL"}
  BY DEF Quote, Blank, Comma
<1>3. \A x : {<<x>>[i] : i \in DOMAIN <<x>>} = {x}
  OBVIOUS
<1>4. CASE tor.auth = "cookie" /\ tor.safe
  <2> DEFINE m == <<"COOKIE", Comma, "SAFECOOKIE">>
  <2>1. MethodsText = m
    BY <1>4 DEF MethodsText
  <2>2. m \in Text /\ Len(m) = 3 /\ DOMAIN m = 1 .. 3
    BY <1>1 DEF Text
  <2>3. m[1] = "COOKIE" /\ m[2] = Comma /\ m[3] = "SAFECOOKIE"
    OBVIOUS
  <2>4. \A i \in 1 .. 3 : i = 1 \/ i = 2 \/ i = 3
    OBVIOUS
  <2> HIDE DEF m
  <2>5. {m[i] : i \in DOMAIN m} = {"COOKIE", Comma, "SAFECOOKIE"}
    BY <2>2, <2>3, <2>4
  <2>6. \A i \in 1 .. 3 : m[i] \notin {Quote, Blank}
    BY <1>2, <2>3, <2>4
  <2>7. Plain(m)
    BY <2>2, <2>6 DEF Plain
  <2> QED
    BY <1>2, <1>4, <2>1, <2>5, <2>7 DEF Offered
<1>5. ASSUME NEW x \in {"COOKIE", "HASHEDPASSWORD", "NULL"}, MethodsText = <<x>>
      PROVE  Plain(MethodsText) /\ Offered = {x}
  <2>1. Plain(<<x>>)
    BY <1>1, <1>2, PlainSymbol
  <2> QED
    BY <1>2, <1>3, <1>5, <2>1 DEF Offered
<1>6. CASE tor.auth = "cookie" /\ ~tor.safe
  BY <1>5, <1>6 DEF MethodsText
<1>7. CASE tor.auth = "hashed"
  BY <1>5, <1>7 DEF MethodsText
<1>8. CASE tor.auth = "none"
  BY <1>5, <1>8 DEF MethodsText
<1> QED
  BY <1>4, <1>6, <1>7, <1>8 DEF TorOK

\* The lines of PROTOCOLINFO, and their words.
InfoText    == <<"PROTOCOLINFO", Blank, "1">>
AuthText    == <<"AUTH", Blank, "METHODS", Equals>> \o MethodsText \o FileText
VersionText == <<"VERSION", Blank, "Tor", Equals>> \o Quoted(<<"0.4.8">>)
MethodsWord == Named("METHODS", MethodsText)
FileWord    == Named("COOKIEFILE", tor.path)
InfoLines   == <<TextLine(InfoText), TextLine(AuthText), TextLine(VersionText)>>

Name(x) == x \in Symbol /\ x \notin {Quote, Blank} /\ x # Equals

LEMMA InfoNames ==
  /\ Name("PROTOCOLINFO") /\ Name("1") /\ Name("AUTH") /\ Name("METHODS")
  /\ Name("COOKIEFILE") /\ Name("VERSION") /\ Name("Tor") /\ Name("0.4.8")
<1>1. \A x \in Words2 : Name(x)
  BY DEF Name, Symbol, Words2, Quote, Blank, Equals
<1> QED
  BY <1>1 DEF Words2

LEMMA NamedAlways ==
  ASSUME NEW name, Name(name), NEW value \in Text
  PROVE  /\ Named(name, value) \in Text /\ Named(name, value) # <<>>
         /\ <<name, Equals>> \in Text /\ Named(name, Quoted(value)) \in Text
         /\ Len(Named(name, value)) >= 2 /\ Named(name, value)[1] = name
         /\ Named(name, value)[2] = Equals /\ After(Named(name, value), 2) = value
         /\ Plain(value) =>
              \A ws \in Seq(Text) : Scan(St(ws, <<>>), Named(name, value)) = St(ws, Named(name, value))
         /\ \A ws \in Seq(Text) :
              Scan(St(ws, <<>>), Named(name, Quoted(value))) = St(ws, Named(name, value))
<1>1. name \in Symbol /\ name \notin {Quote, Blank}
  BY DEF Name
<1>2. /\ Named(name, value) \in Text /\ Named(name, value) # <<>>
      /\ <<name, Equals>> \in Text /\ Named(name, Quoted(value)) \in Text
      /\ Len(Named(name, value)) >= 2 /\ Named(name, value)[1] = name
      /\ Named(name, value)[2] = Equals /\ After(Named(name, value), 2) = value
  <2>1. <<>> \in Seq(Text)
    BY NoWordsSt
  <2> QED
    BY <1>1, <2>1, NamedWord
<1>3. ASSUME NEW ws \in Seq(Text)
      PROVE  /\ Plain(value) => Scan(St(ws, <<>>), Named(name, value)) = St(ws, Named(name, value))
             /\ Scan(St(ws, <<>>), Named(name, Quoted(value))) = St(ws, Named(name, value))
  BY <1>1, NamedWord
<1> QED
  BY <1>2, <1>3

\* A line of two words.
LEMMA TwoWords ==
  ASSUME NEW x, Name(x), NEW word \in Text, word # <<>>, NEW rest \in Text,
         \A ws \in Seq(Text) : Scan(St(ws, <<>>), rest) = St(ws, word)
  PROVE  /\ BlankSecond(<<x, Blank>> \o rest)
         /\ ControlWords(<<x, Blank>> \o rest) = << <<x>>, word>>
<1> DEFINE w == << <<x>> >>
<1>1. BlankSecond(<<x, Blank>> \o rest)
  <2>1. BlankSecond(<<x, Blank>>)
    BY BlankStarts DEF Name
  <2> QED
    BY <2>1, BlankStays
<1>2. Scan(NoWords, <<x, Blank>> \o rest) = Scan(St(w, <<>>), rest) /\ w \in Seq(Text)
  BY FirstWord DEF Name
<1> HIDE DEF w
<1>3. Scan(NoWords, <<x, Blank>> \o rest) = St(w, word)
  BY <1>2
<1>4. ControlWords(<<x, Blank>> \o rest) = Append(w, word)
  <2>2. <<x, Blank>> \o rest \in Text
    BY <1>1 DEF BlankSecond
  <2> QED
    BY <1>3, <2>2, StWords
<1>5. Append(w, word) = << <<x>>, word>>
  <2>1. <<x>> \in Text
    BY TextTyped DEF Name
  <2> QED
    BY <2>1, PairOfSymbols DEF w
<1> QED
  BY <1>1, <1>4, <1>5

LEMMA InfoTextRead ==
  BlankSecond(InfoText) /\ ControlWords(InfoText) = << <<"PROTOCOLINFO">>, <<"1">> >>
<1>1. InfoText = <<"PROTOCOLINFO", Blank>> \o <<"1">>
  BY DEF InfoText
<1>2. <<"1">> \in Text /\ Plain(<<"1">>) /\ <<"1">> # <<>>
  BY InfoNames, TextTyped, PlainSymbol DEF Name
<1>3. ASSUME NEW ws \in Seq(Text) PROVE Scan(St(ws, <<>>), <<"1">>) = St(ws, <<"1">>)
  <2>1. Scan(St(ws, <<>>), <<"1">>) = St(ws, <<>> \o <<"1">>)
    BY <1>2, StPlain, TextTyped
  <2> QED
    BY <1>2, <2>1, TextLaws
<1> QED
  BY <1>1, <1>2, <1>3, InfoNames, TwoWords

LEMMA VersionTextRead ==
  /\ BlankSecond(VersionText)
  /\ ControlWords(VersionText) = << <<"VERSION">>, Named("Tor", <<"0.4.8">>)>>
<1> DEFINE v == <<"0.4.8">>
           rest == Named("Tor", Quoted(v))
           word == Named("Tor", v)
<1>1. v \in Text
  BY InfoNames, TextTyped DEF Name
<1> HIDE DEF v
<1>2. /\ word \in Text /\ word # <<>> /\ rest \in Text /\ <<"Tor", Equals>> \in Text
      /\ \A ws \in Seq(Text) : Scan(St(ws, <<>>), rest) = St(ws, word)
  BY <1>1, InfoNames, NamedAlways
<1>3. VersionText = <<"VERSION", Blank>> \o rest
  <2>1. <<"VERSION", Blank, "Tor", Equals>> = <<"VERSION", Blank>> \o <<"Tor", Equals>>
    OBVIOUS
  <2>2. <<"VERSION", Blank>> \in Text /\ Quoted(v) \in Text
    BY <1>1, InfoNames, PairSplit, Symbols, QuotedParts DEF Name
  <2>3. VersionText = (<<"VERSION", Blank>> \o <<"Tor", Equals>>) \o Quoted(v)
    BY <2>1 DEF VersionText, v
  <2> QED
    BY <1>2, <2>2, <2>3, TextLaws DEF Named
<1> HIDE DEF rest, word
<1> QED
  BY <1>2, <1>3, InfoNames, TwoWords DEF word, v

LEMMA TripleTyped ==
  ASSUME NEW X, NEW a \in X, NEW b \in X, NEW c \in X
  PROVE  <<a, b, c>> \in Seq(X) /\ Append(<<a, b>>, c) = <<a, b, c>>
<1>1. <<a, b>> \in Seq(X) /\ Len(<<a, b>>) = 2 /\ <<a, b>>[1] = a /\ <<a, b>>[2] = b
      /\ <<a, b, c>> \in Seq(X) /\ Len(<<a, b, c>>) = 3
      /\ <<a, b, c>>[1] = a /\ <<a, b, c>>[2] = b /\ <<a, b, c>>[3] = c
  OBVIOUS
<1> DEFINE p == <<a, b>>
           t == <<a, b, c>>
<1> HIDE DEF p, t
<1>2. /\ Append(p, c) \in Seq(X) /\ Len(Append(p, c)) = 3 /\ Append(p, c)[3] = c
      /\ \A i \in 1 .. 2 : Append(p, c)[i] = p[i]
  <2>1. /\ Append(p, c) \in Seq(X) /\ Len(Append(p, c)) = Len(p) + 1
        /\ Append(p, c)[Len(p) + 1] = c
        /\ \A i \in 1 .. Len(p) : Append(p, c)[i] = p[i]
    BY <1>1, AppendProperties DEF p
  <2>2. Len(p) = 2 /\ 2 + 1 = 3
    BY <1>1 DEF p
  <2> QED
    BY <2>1, <2>2
<1>3. \A i \in 1 .. 3 : Append(p, c)[i] = t[i]
  <2>1. \A i \in 1 .. 3 : i = 3 \/ i = 1 \/ i = 2
    OBVIOUS
  <2>2. p[1] = a /\ p[2] = b /\ t[1] = a /\ t[2] = b /\ t[3] = c
    BY <1>1 DEF p, t
  <2> QED
    BY <1>2, <2>1, <2>2
<1>4. t \in Seq(X) /\ Len(t) = 3
  BY <1>1 DEF t
<1>5. Append(p, c) = t
  BY <1>2, <1>3, <1>4, SeqEqual
<1> QED
  BY <1>1, <1>5 DEF p, t

\* However the file is called, the methods are read, and the file.
LEMMA AuthTextRead ==
  ASSUME TorOK
  PROVE  /\ BlankSecond(AuthText)
         /\ ControlWords(AuthText) =
              IF tor.auth = "cookie" THEN << <<"AUTH">>, MethodsWord, FileWord>>
                                     ELSE << <<"AUTH">>, MethodsWord>>
<1> DEFINE w == << <<"AUTH">> >>
           m == MethodsText
           name == <<"METHODS", Equals>>
           file == Named("COOKIEFILE", Quoted(tor.path))
<1>1. /\ m \in Text /\ Plain(m) /\ tor.path \in Text /\ Quoted(tor.path) \in Text
  BY MethodsOffered, QuotedParts DEF Plain, TorOK
<1>2. /\ Name("AUTH") /\ Name("METHODS") /\ Name("COOKIEFILE") /\ <<Blank>> \in Text
      /\ <<"AUTH", Blank>> \in Text /\ <<"AUTH">> \in Text
  BY InfoNames, TextTyped, Symbols, PairSplit DEF Name
<1>3. /\ MethodsWord \in Text /\ MethodsWord # <<>> /\ name \in Text
      /\ \A ws \in Seq(Text) : Scan(St(ws, <<>>), MethodsWord) = St(ws, MethodsWord)
  BY <1>1, <1>2, NamedAlways DEF MethodsWord
<1>4. /\ FileWord \in Text /\ FileWord # <<>> /\ file \in Text /\ <<"COOKIEFILE", Equals>> \in Text
      /\ \A ws \in Seq(Text) : Scan(St(ws, <<>>), file) = St(ws, FileWord)
  BY <1>1, <1>2, NamedAlways DEF FileWord
<1>5. MethodsWord = name \o m
  BY DEF MethodsWord, Named
<1>6. FileText \in Text /\ (tor.auth # "cookie" => FileText = <<>>)
      /\ (tor.auth = "cookie" => FileText = <<Blank>> \o file)
  <2>1. <<Blank, "COOKIEFILE", Equals>> = <<Blank>> \o <<"COOKIEFILE", Equals>>
    OBVIOUS
  <2>2. (<<Blank>> \o <<"COOKIEFILE", Equals>>) \o Quoted(tor.path) = <<Blank>> \o file
    BY <1>1, <1>2, <1>4, TextLaws DEF Named
  <2>3. <<Blank>> \o file \in Text
    BY <1>2, <1>4, TextTyped
  <2>4. CASE tor.auth = "cookie"
    BY <2>1, <2>2, <2>3, <2>4 DEF FileText
  <2>5. CASE tor.auth # "cookie"
    BY <2>5, TextTyped DEF FileText
  <2> QED
    BY <2>4, <2>5
<1>7. AuthText = <<"AUTH", Blank>> \o (MethodsWord \o FileText) /\ MethodsWord \o FileText \in Text
  <2>1. <<"AUTH", Blank, "METHODS", Equals>> = <<"AUTH", Blank>> \o name
    OBVIOUS
  <2> HIDE DEF name, m, file
  <2>2. AuthText = ((<<"AUTH", Blank>> \o name) \o m) \o FileText
    BY <2>1 DEF AuthText, m
  <2>3. (<<"AUTH", Blank>> \o name) \o m = <<"AUTH", Blank>> \o MethodsWord
    BY <1>1, <1>2, <1>3, <1>5, TextLaws
  <2>4. (<<"AUTH", Blank>> \o MethodsWord) \o FileText = <<"AUTH", Blank>> \o (MethodsWord \o FileText)
    BY <1>2, <1>3, <1>6, TextLaws
  <2>5. MethodsWord \o FileText \in Text
    BY <1>3, <1>6, TextTyped
  <2> QED
    BY <2>2, <2>3, <2>4, <2>5
<1> HIDE DEF m, name, file
<1>8. BlankSecond(AuthText)
  <2>1. BlankSecond(<<"AUTH", Blank>>)
    BY <1>2, BlankStarts DEF Name
  <2> QED
    BY <1>7, <2>1, BlankStays
<1>9. Scan(NoWords, AuthText) = Scan(St(w, <<>>), MethodsWord \o FileText) /\ w \in Seq(Text)
  BY <1>2, <1>7, FirstWord DEF Name
<1> HIDE DEF w
<1>10. Scan(St(w, <<>>), MethodsWord \o FileText) = Scan(St(w, MethodsWord), FileText)
  <2>1. Scan(St(w, <<>>), MethodsWord) = St(w, MethodsWord)
    BY <1>3, <1>9
  <2>2. Scan(St(w, <<>>), MethodsWord \o FileText) = Scan(Scan(St(w, <<>>), MethodsWord), FileText)
    BY <1>3, <1>6, ScanConcat
  <2> QED
    BY <2>1, <2>2
<1>11. Append(w, MethodsWord) = << <<"AUTH">>, MethodsWord>> /\ Append(w, MethodsWord) \in Seq(Text)
  <2>1. Append(w, MethodsWord) \in Seq(Text)
    BY <1>3, <1>9, AppendProperties
  <2>2. Append(w, MethodsWord) = << <<"AUTH">>, MethodsWord>>
    BY <1>2, <1>3, PairOfSymbols DEF w
  <2> QED
    BY <2>1, <2>2
<1>12. AuthText \in Text
  BY <1>8 DEF BlankSecond
<1>13. CASE tor.auth # "cookie"
  <2>1. Scan(NoWords, AuthText) = St(w, MethodsWord)
    BY <1>6, <1>9, <1>10, <1>13, ScanEmpty
  <2>2. ControlWords(AuthText) = Append(w, MethodsWord)
    BY <1>3, <1>12, <2>1, StWords
  <2> QED
    BY <1>8, <1>11, <1>13, <2>2
<1>14. CASE tor.auth = "cookie"
  <2> DEFINE v == Append(w, MethodsWord)
  <2> HIDE DEF v
  <2>1. Scan(St(w, MethodsWord), <<Blank>>) = St(v, <<>>)
    BY <1>3, <1>9, StBlank DEF v
  <2>2. Scan(St(w, MethodsWord), <<Blank>> \o file)
          = Scan(Scan(St(w, MethodsWord), <<Blank>>), file)
    BY <1>2, <1>4, ScanConcat
  <2>3. Scan(NoWords, AuthText) = St(v, FileWord)
    BY <1>4, <1>6, <1>9, <1>10, <1>11, <1>14, <2>1, <2>2 DEF v
  <2>4. ControlWords(AuthText) = Append(v, FileWord)
    BY <1>4, <1>12, <2>3, StWords
  <2>5. Append(v, FileWord) = << <<"AUTH">>, MethodsWord, FileWord>>
    BY <1>2, <1>3, <1>4, <1>11, TripleTyped DEF v
  <2> QED
    BY <1>8, <1>14, <2>4, <2>5
<1> QED
  BY <1>13, <1>14

\* The challenge, and its words.
ServerHash == Hash("server", TorCookie, ServerNonce)
HashWord   == Named("SERVERHASH", ServerHash)
NonceWord  == Named("SERVERNONCE", ServerNonce)
BeforeNonce == (<<"AUTHCHALLENGE", Blank, "SERVERHASH", Equals>> \o ServerHash) \o <<Blank>>
NonceText   == <<"SERVERNONCE", Equals, "sn">>
ChallengeText ==
  <<"AUTHCHALLENGE", Blank, "SERVERHASH", Equals>> \o ServerHash
    \o <<Blank, "SERVERNONCE", Equals>> \o ServerNonce
Unnamed == Symbol \ {"SERVERNONCE"}

LEMMA ChallengeNames ==
  /\ Name("AUTHCHALLENGE") /\ Name("SERVERHASH") /\ Name("SERVERNONCE")
  /\ Name("server") /\ Name("client") /\ Name("k") /\ Name("k2") /\ Name("cn") /\ Name("sn")
  /\ {"AUTHCHALLENGE", "SERVERHASH", "server", "client", "k", "k2", "cn", "sn", Blank, Equals}
       \subseteq Unnamed
<1>1. \A x \in Words3 \cup Words1 : x \notin {" "} => Name(x)
  BY DEF Name, Symbol, Words3, Words1, Quote, Blank, Equals
<1>2. {"AUTHCHALLENGE", "SERVERHASH", "server", "client", "k", "k2", "cn", "sn", Blank, Equals}
        \subseteq Symbol
  BY Symbols DEF Symbol, Words1, Words3
<1> QED
  BY <1>1, <1>2 DEF Words1, Words3, Unnamed, Blank, Equals

LEMMA HashIs ==
  \A x \in Symbol : /\ Hash("server", <<x>>, ServerNonce) = <<"server", x, "cn", "sn">>
                    /\ Hash("client", <<x>>, ServerNonce) = <<"client", x, "cn", "sn">>
<1>1. ASSUME NEW a \in Symbol, NEW x \in Symbol, NEW c \in Symbol, NEW d \in Symbol
      PROVE  ((<<a>> \o <<x>>) \o <<c>>) \o <<d>> = <<a, x, c, d>>
  <2>1. <<a, x>> \in Text /\ <<c>> \in Text /\ <<d>> \in Text
    BY PairSplit, TextTyped
  <2>2. <<a>> \o <<x>> = <<a, x>> /\ <<c>> \o <<d>> = <<c, d>>
    BY PairSplit
  <2>3. (<<a, x>> \o <<c>>) \o <<d>> = <<a, x>> \o (<<c>> \o <<d>>)
    BY <2>1, TextLaws
  <2>4. <<a, x>> \o <<c, d>> = <<a, x, c, d>>
    <3>1. <<a, x, c, d>> = <<a, x>> \o <<c, d>>
      OBVIOUS
    <3> QED
      BY <3>1
  <2> QED
    BY <2>2, <2>3, <2>4
<1>2. "server" \in Symbol /\ "client" \in Symbol /\ "cn" \in Symbol /\ "sn" \in Symbol
  BY ChallengeNames DEF Name
<1> TAKE x \in Symbol
<1>3. /\ Hash("server", <<x>>, ServerNonce) = ((<<"server">> \o <<x>>) \o <<"cn">>) \o <<"sn">>
      /\ Hash("client", <<x>>, ServerNonce) = ((<<"client">> \o <<x>>) \o <<"cn">>) \o <<"sn">>
  BY DEF Hash, ClientNonce, ServerNonce
<1>4. ((<<"server">> \o <<x>>) \o <<"cn">>) \o <<"sn">> = <<"server", x, "cn", "sn">>
  BY <1>1, <1>2
<1>5. ((<<"client">> \o <<x>>) \o <<"cn">>) \o <<"sn">> = <<"client", x, "cn", "sn">>
  BY <1>1, <1>2
<1> QED
  BY <1>3, <1>4, <1>5

LEMMA ServerHashTyped ==
  /\ Plain(ServerHash) /\ ServerHash \in Seq(Unnamed) /\ Len(ServerHash) = HashLen
  /\ Plain(ServerNonce) /\ ServerNonce \in Seq(Symbol) /\ Len(ServerNonce) = 1
<1>1. ServerHash = <<"server", "k", "cn", "sn">>
  BY HashIs, ChallengeNames DEF ServerHash, TorCookie, Name
<1>2. <<"server", "k", "cn", "sn">> \in Seq(Unnamed) /\ Len(<<"server", "k", "cn", "sn">>) = 4
  BY ChallengeNames
<1>3. ServerHash \in Text
  <2>1. Unnamed \subseteq Symbol
    BY DEF Unnamed
  <2> QED
    BY <1>1, <1>2, <2>1, SeqMonotonic DEF Text
<1>4. \A i \in 1 .. 4 : ServerHash[i] \notin {Quote, Blank}
  <2>1. \A i \in 1 .. 4 : i = 1 \/ i = 2 \/ i = 3 \/ i = 4
    OBVIOUS
  <2>2. /\ ServerHash[1] = "server" /\ ServerHash[2] = "k"
        /\ ServerHash[3] = "cn" /\ ServerHash[4] = "sn"
    BY <1>1
  <2> QED
    BY <2>1, <2>2, ChallengeNames DEF Name
<1>5. Plain(ServerNonce) /\ ServerNonce \in Text /\ Len(ServerNonce) = 1
  BY ChallengeNames, PlainSymbol, TextTyped DEF ServerNonce, Name
<1> QED
  BY <1>1, <1>2, <1>3, <1>4, <1>5 DEF Plain, HashLen, Text

\* The part of the challenge before the nonce is read as two words.
LEMMA BeforeNonceRead ==
  /\ BeforeNonce \in Seq(Unnamed) /\ BlankSecond(BeforeNonce)
  /\ << <<"AUTHCHALLENGE">>, HashWord>> \in Seq(Text) /\ HashWord \in Text
  /\ Scan(NoWords, BeforeNonce) = St(<< <<"AUTHCHALLENGE">>, HashWord>>, <<>>)
<1> DEFINE w == << <<"AUTHCHALLENGE">> >>
           v == << <<"AUTHCHALLENGE">>, HashWord>>
           head == <<"AUTHCHALLENGE", Blank>>
           name == <<"SERVERHASH", Equals>>
<1>1. /\ Name("AUTHCHALLENGE") /\ Name("SERVERHASH") /\ <<Blank>> \in Text /\ head \in Text
      /\ <<"AUTHCHALLENGE">> \in Text /\ name \in Text /\ ServerHash \in Text
  BY ChallengeNames, ServerHashTyped, TextTyped, Symbols, PairSplit DEF Name, Plain
<1>2. /\ HashWord \in Text /\ HashWord # <<>>
      /\ \A ws \in Seq(Text) : Scan(St(ws, <<>>), HashWord) = St(ws, HashWord)
  BY <1>1, ServerHashTyped, NamedAlways DEF HashWord
<1>3. BeforeNonce = head \o (HashWord \o <<Blank>>) /\ HashWord \o <<Blank>> \in Text
  <2>1. <<"AUTHCHALLENGE", Blank, "SERVERHASH", Equals>> = head \o name
    OBVIOUS
  <2> HIDE DEF head, name
  <2>2. (head \o name) \o ServerHash = head \o (name \o ServerHash)
    BY <1>1, TextLaws
  <2>3. name \o ServerHash = HashWord
    BY DEF HashWord, Named, name
  <2>4. (head \o HashWord) \o <<Blank>> = head \o (HashWord \o <<Blank>>)
    BY <1>1, <1>2, TextLaws
  <2> QED
    BY <1>1, <1>2, <2>1, <2>2, <2>3, <2>4, TextTyped DEF BeforeNonce
<1>4. BeforeNonce \in Seq(Unnamed)
  <2>1. <<"AUTHCHALLENGE", Blank, "SERVERHASH", Equals>> \in Seq(Unnamed) /\ <<Blank>> \in Seq(Unnamed)
    BY ChallengeNames
  <2> QED
    BY <2>1, ServerHashTyped, ConcatProperties DEF BeforeNonce
<1>5. BlankSecond(BeforeNonce)
  <2>1. BlankSecond(head)
    BY <1>1, BlankStarts DEF Name
  <2> HIDE DEF head
  <2> QED
    BY <1>3, <2>1, BlankStays
<1>6. Scan(NoWords, BeforeNonce) = Scan(St(w, <<>>), HashWord \o <<Blank>>) /\ w \in Seq(Text)
  BY <1>1, <1>3, FirstWord DEF Name
<1> HIDE DEF w
<1>7. Scan(St(w, <<>>), HashWord \o <<Blank>>) = Scan(St(w, HashWord), <<Blank>>)
  <2>1. Scan(St(w, <<>>), HashWord \o <<Blank>>) = Scan(Scan(St(w, <<>>), HashWord), <<Blank>>)
    BY <1>1, <1>2, ScanConcat
  <2> QED
    BY <1>2, <1>6, <2>1
<1>8. Scan(St(w, HashWord), <<Blank>>) = St(Append(w, HashWord), <<>>) /\ Append(w, HashWord) \in Seq(Text)
  BY <1>2, <1>6, StBlank
<1>9. Append(w, HashWord) = v
  BY <1>1, <1>2, PairOfSymbols DEF w
<1> QED
  BY <1>2, <1>4, <1>5, <1>6, <1>7, <1>8, <1>9

LEMMA ChallengeParts ==
  /\ ChallengeText = BeforeNonce \o NonceText /\ NonceText \in Seq(Symbol) /\ Len(NonceText) = 3
  /\ NonceText = NonceWord /\ BeforeNonce \in Text
<1> DEFINE head == <<"AUTHCHALLENGE", Blank, "SERVERHASH", Equals>>
           name == <<"SERVERNONCE", Equals>>
<1>1. head \in Text /\ ServerHash \in Text /\ <<Blank>> \in Text /\ NonceText \in Text
      /\ name \in Text /\ ServerNonce \in Text
  <2>1. /\ {"AUTHCHALLENGE", Blank, "SERVERHASH", "SERVERNONCE", "sn", Equals} \subseteq Symbol
    BY ChallengeNames, Symbols DEF Name
  <2>2. head \in Seq(Symbol) /\ NonceText \in Seq(Symbol) /\ <<Blank>> \in Seq(Symbol)
        /\ name \in Seq(Symbol)
    BY <2>1 DEF NonceText
  <2> QED
    BY <2>2, ServerHashTyped DEF Text, Plain
<1>2. <<Blank, "SERVERNONCE", Equals>> = <<Blank>> \o name
  OBVIOUS
<1>3. name \o <<"sn">> = NonceText
  <2>1. "SERVERNONCE" \in Symbol /\ Equals \in Symbol /\ "sn" \in Symbol
    BY ChallengeNames, Symbols DEF Name
  <2>2. <<"SERVERNONCE", Equals, "sn">> = <<"SERVERNONCE", Equals>> \o <<"sn">>
    BY <2>1, PairSplit
  <2> QED
    BY <2>2 DEF NonceText
<1> HIDE DEF head, name
<1>4. BeforeNonce = (head \o ServerHash) \o <<Blank>> /\ head \o ServerHash \in Text
      /\ BeforeNonce \in Text
  BY <1>1, TextTyped DEF BeforeNonce, head
<1>5. ChallengeText = ((head \o ServerHash) \o (<<Blank>> \o name)) \o ServerNonce
  BY <1>2 DEF ChallengeText, head
<1>6. (head \o ServerHash) \o (<<Blank>> \o name) = BeforeNonce \o name
  BY <1>1, <1>4, TextLaws
<1>7. (BeforeNonce \o name) \o ServerNonce
        = BeforeNonce \o (name \o ServerNonce)
  <2>1. BeforeNonce \in Text /\ name \in Text /\ ServerNonce \in Text
    BY <1>1, <1>4
  <2>2. \A u, v, t \in Text : (u \o v) \o t = u \o (v \o t)
    BY TextLaws
  <2> QED
    BY ONLY <2>1, <2>2
<1>8. name \o ServerNonce = NonceText /\ NonceWord = name \o ServerNonce
  BY <1>3 DEF ServerNonce, NonceWord, Named, name
<1>9. Len(NonceText) = 3
  BY DEF NonceText
<1> QED
  BY <1>1, <1>4, <1>5, <1>6, <1>7, <1>8, <1>9 DEF Text

-----------------------------------------------------------------------------
(* What the client finds in a line, and in a part of it.                   *)

LEMMA UptoConcat ==
  ASSUME NEW X, NEW u \in Seq(X), NEW v \in Seq(X), NEW m \in 0 .. Len(u) + Len(v)
  PROVE  Upto(u \o v, m) = IF m <= Len(u) THEN Upto(u, m) ELSE u \o Upto(v, m - Len(u))
<1> DEFINE t == u \o v
<1>1. /\ Len(u) \in Nat /\ Len(v) \in Nat /\ m \in Nat /\ m <= Len(u) + Len(v)
      /\ t \in Seq(X) /\ Len(t) = Len(u) + Len(v)
      /\ \A i \in 1 .. Len(u) + Len(v) : t[i] = IF i <= Len(u) THEN u[i] ELSE v[i - Len(u)]
  BY ConcatProperties, LenProperties
<1> HIDE DEF t
<1>2. Upto(t, m) \in Seq(X) /\ Len(Upto(t, m)) = m /\ \A i \in 1 .. m : Upto(t, m)[i] = t[i]
  <2>1. m \in 0 .. Len(t)
    BY <1>1
  <2> QED
    BY <1>1, <2>1, UptoProperties
<1>3. CASE m <= Len(u)
  <2>1. m \in 0 .. Len(u)
    BY <1>1, <1>3
  <2>2. Upto(u, m) \in Seq(X) /\ Len(Upto(u, m)) = m /\ \A i \in 1 .. m : Upto(u, m)[i] = u[i]
    BY <2>1, UptoProperties
  <2>3. \A i \in 1 .. m : Upto(t, m)[i] = Upto(u, m)[i]
    <3> TAKE i \in 1 .. m
    <3>1. i \in 1 .. Len(u) + Len(v) /\ i <= Len(u)
      BY <1>1, <1>3
    <3> QED
      BY <1>1, <1>2, <2>2, <3>1
  <2>4. Upto(t, m) = Upto(u, m)
    BY <1>2, <2>2, <2>3, SeqEqual
  <2> QED
    BY <1>3, <2>4 DEF t
<1>4. CASE ~(m <= Len(u))
  <2> DEFINE k == m - Len(u)
             w == Upto(v, k)
  <2>1. k \in 0 .. Len(v) /\ k \in Nat /\ m = Len(u) + k
    BY <1>1, <1>4
  <2> HIDE DEF k
  <2>2. w \in Seq(X) /\ Len(w) = k /\ \A i \in 1 .. k : w[i] = v[i]
    BY <2>1, UptoProperties
  <2> HIDE DEF w
  <2>3. /\ u \o w \in Seq(X) /\ Len(u \o w) = Len(u) + k
        /\ \A i \in 1 .. Len(u) + k : (u \o w)[i] = IF i <= Len(u) THEN u[i] ELSE w[i - Len(u)]
    <3>1. /\ u \o w \in Seq(X) /\ Len(u \o w) = Len(u) + Len(w)
          /\ \A i \in 1 .. Len(u) + Len(w) : (u \o w)[i] = IF i <= Len(u) THEN u[i] ELSE w[i - Len(u)]
      BY <2>2, ConcatProperties
    <3> QED
      BY <2>2, <3>1
  <2>4. \A i \in 1 .. m : Upto(t, m)[i] = (u \o w)[i]
    <3> TAKE i \in 1 .. m
    <3>1. i \in 1 .. Len(u) + Len(v) /\ i \in 1 .. Len(u) + k
      BY <1>1, <2>1
    <3>2. CASE i <= Len(u)
      BY <1>1, <1>2, <2>3, <3>1, <3>2
    <3>3. CASE ~(i <= Len(u))
      <4>1. i - Len(u) \in 1 .. k
        BY <1>1, <2>1, <3>1, <3>3
      <4> QED
        BY <1>1, <1>2, <2>2, <2>3, <3>1, <3>3, <4>1
    <3> QED
      BY <3>2, <3>3
  <2>5. Upto(t, m) = u \o w
    BY <1>2, <2>1, <2>3, <2>4, SeqEqual
  <2> QED
    BY <1>4, <2>5 DEF t, w, k
<1> QED
  BY <1>3, <1>4

\* A part of a line that is text is text.
LEMMA PartIsRead ==
  ASSUME NEW t, BlankSecond(t), NEW m \in 0 .. Len(t)
  PROVE  Upto(t, m) \in Text /\ ParsePayload(Upto(t, m)) = TextLine(Upto(t, m))
<1> DEFINE u == Upto(t, m)
<1>1. t \in Seq(Symbol) /\ Len(t) \in Nat /\ Len(t) >= 2 /\ t[1] # Equals /\ t[2] = Blank
  BY LenProperties DEF BlankSecond, Text
<1>2. u \in Seq(Symbol) /\ Len(u) = m /\ \A i \in 1 .. m : u[i] = t[i]
  BY <1>1, UptoProperties
<1> HIDE DEF u
<1>3. u \in Text
  BY <1>2 DEF Text
<1>4. CASE m >= 2
  <2>1. 1 \in 1 .. m /\ 2 \in 1 .. m
    BY <1>1, <1>4
  <2>2. Len(u) >= 2 /\ u[1] # Equals /\ u[2] = Blank
    BY <1>1, <1>2, <1>4, <2>1
  <2>3. ParsePayload(u) = TextLine(u)
    BY <1>3, <2>2, TextIsRead
  <2> QED
    BY <1>3, <2>3 DEF u
<1>5. CASE ~(m >= 2)
  <2>1. \A i \in 1 .. Len(u) : i = 1 /\ i \in 1 .. m
    BY <1>1, <1>2, <1>5
  <2>2. \A i \in 1 .. Len(u) : u[i] # Equals
    BY <1>1, <1>2, <2>1
  <2>3. ParsePayload(u) = TextLine(u)
    BY <1>3, <2>2, TextIsRead
  <2> QED
    BY <1>3, <2>3 DEF u
<1> QED
  BY <1>4, <1>5

\* The value of a name: of the only word that has it, or none.
LEMMA FieldOne ==
  ASSUME NEW words, NEW name, NEW i \in DOMAIN words, Prefixed(words[i], name),
         \A j \in DOMAIN words : Prefixed(words[j], name) => j = i, i \in Int
  PROVE  Field(words, name) = {After(words[i], 2)}
<1>1. {j \in DOMAIN words : Prefixed(words[j], name)} = {i}
  OBVIOUS
<1>2. FirstAt(words, {i}) = {words[i]}
  BY DEF FirstAt
<1> QED
  BY <1>1, <1>2 DEF Field

LEMMA FieldIn ==
  ASSUME NEW words, NEW name
  PROVE  \A f \in Field(words, name) :
           \E i \in DOMAIN words : Prefixed(words[i], name) /\ f = After(words[i], 2)
  BY DEF Field, FirstAt

\* The challenge as it was sent says both its values.
LEMMA ChallengeRead ==
  /\ BlankSecond(ChallengeText)
  /\ ControlWords(ChallengeText) = << <<"AUTHCHALLENGE">>, HashWord, NonceWord>>
  /\ Field(ControlWords(ChallengeText), "SERVERHASH") = {ServerHash}
  /\ Field(ControlWords(ChallengeText), "SERVERNONCE") = {ServerNonce}
<1> DEFINE v == << <<"AUTHCHALLENGE">>, HashWord>>
           w == << <<"AUTHCHALLENGE">>, HashWord, NonceWord>>
<1>1. BlankSecond(ChallengeText) /\ ChallengeText \in Text
  BY ChallengeParts, BeforeNonceRead, BlankStays DEF Text, BlankSecond
<1>2. /\ NonceWord \in Text /\ NonceWord # <<>>
      /\ \A ws \in Seq(Text) : Scan(St(ws, <<>>), NonceWord) = St(ws, NonceWord)
  BY ChallengeNames, ServerHashTyped, NamedAlways DEF NonceWord, Plain
<1>3. <<"AUTHCHALLENGE">> \in Text /\ HashWord \in Text /\ v \in Seq(Text)
  BY ChallengeNames, BeforeNonceRead, TextTyped DEF Name
<1>4. Append(v, NonceWord) = w
  BY <1>2, <1>3, TripleTyped
<1>5. Scan(NoWords, BeforeNonce \o NonceWord) = Scan(Scan(NoWords, BeforeNonce), NonceWord)
  BY <1>2, ChallengeParts, ScanConcat
<1> HIDE DEF v
<1>6. Scan(NoWords, ChallengeText) = St(v, NonceWord)
  BY <1>2, <1>3, <1>5, ChallengeParts, BeforeNonceRead DEF v
<1>7. ControlWords(ChallengeText) = w
  BY <1>1, <1>2, <1>4, <1>6, StWords
<1>8. /\ Prefixed(HashWord, "SERVERHASH") /\ ~Prefixed(HashWord, "SERVERNONCE")
      /\ After(HashWord, 2) = ServerHash
      /\ Prefixed(NonceWord, "SERVERNONCE") /\ ~Prefixed(NonceWord, "SERVERHASH")
      /\ After(NonceWord, 2) = ServerNonce
  <2>1. /\ Len(HashWord) >= 2 /\ HashWord[1] = "SERVERHASH" /\ HashWord[2] = Equals
        /\ After(HashWord, 2) = ServerHash
    BY ChallengeNames, ServerHashTyped, NamedAlways DEF HashWord, Plain
  <2>2. /\ Len(NonceWord) >= 2 /\ NonceWord[1] = "SERVERNONCE" /\ NonceWord[2] = Equals
        /\ After(NonceWord, 2) = ServerNonce
    BY ChallengeNames, ServerHashTyped, NamedAlways DEF NonceWord, Plain
  <2> QED
    BY <2>1, <2>2 DEF Prefixed
<1>9. /\ DOMAIN w = 1 .. 3 /\ w[1] = <<"AUTHCHALLENGE">> /\ w[2] = HashWord /\ w[3] = NonceWord
      /\ \A i \in 1 .. 3 : i = 1 \/ i = 2 \/ i = 3
  OBVIOUS
<1>10. \A name : ~Prefixed(<<"AUTHCHALLENGE">>, name)
  BY DEF Prefixed
<1> HIDE DEF w
<1>11. Field(w, "SERVERHASH") = {After(w[2], 2)}
  BY <1>8, <1>9, <1>10, FieldOne
<1>12. Field(w, "SERVERNONCE") = {After(w[3], 2)}
  BY <1>8, <1>9, <1>10, FieldOne
<1> QED
  BY <1>1, <1>7, <1>8, <1>9, <1>11, <1>12 DEF w

\* One that is cut has no nonce that is long enough.
LEMMA ChallengeCut ==
  ASSUME NEW m \in 0 .. Len(ChallengeText) - 1
  PROVE  \A n \in Field(ControlWords(Upto(ChallengeText, m)), "SERVERNONCE") : Len(n) # 1
<1> DEFINE b == BeforeNonce
           u == Upto(ChallengeText, m)
           w == ControlWords(u)
<1>1. /\ b \in Seq(Unnamed) /\ b \in Seq(Symbol) /\ Len(b) \in Nat
      /\ NonceText \in Seq(Symbol) /\ Len(NonceText) = 3 /\ Unnamed \subseteq Symbol
      /\ Len(ChallengeText) = Len(b) + 3 /\ ChallengeText = b \o NonceText
  <2>1. /\ b \in Seq(Unnamed) /\ b \in Seq(Symbol) /\ Len(b) \in Nat
        /\ NonceText \in Seq(Symbol) /\ Len(NonceText) = 3 /\ ChallengeText = b \o NonceText
    BY ChallengeParts, BeforeNonceRead, LenProperties DEF Text
  <2>2. Unnamed \subseteq Symbol
    BY DEF Unnamed
  <2> HIDE DEF b
  <2>3. Len(b \o NonceText) = Len(b) + Len(NonceText)
    BY <2>1, ConcatProperties
  <2> QED
    BY <2>1, <2>2, <2>3
<1>2. m \in Nat /\ m < Len(b) + 3 /\ m \in 0 .. Len(b) + Len(NonceText)
  BY <1>1
<1>3. u = IF m <= Len(b) THEN Upto(b, m) ELSE b \o Upto(NonceText, m - Len(b))
  BY <1>1, <1>2, UptoConcat
<1> HIDE DEF b, u
<1>4. CASE m <= Len(b)
  <2>1. m \in 0 .. Len(b)
    BY <1>1, <1>2, <1>4
  <2>2. u \in Seq(Unnamed)
    BY <1>1, <1>3, <1>4, <2>1, UptoProperties
  <2>3. w \in Seq(Seq(Unnamed))
    BY <1>1, <2>2, ControlWordsOver
  <2> HIDE DEF w
  <2>4. \A i \in DOMAIN w : ~Prefixed(w[i], "SERVERNONCE")
    <3> TAKE i \in DOMAIN w
    <3>1. i \in 1 .. Len(w)
      BY <2>3, LenProperties
    <3>2. w[i] \in Seq(Unnamed)
      BY <2>3, <3>1, ElementOfSeq
    <3> SUFFICES ASSUME Len(w[i]) >= 2 PROVE w[i][1] # "SERVERNONCE"
      BY DEF Prefixed
    <3>3. 1 \in 1 .. Len(w[i])
      BY <3>2, LenProperties
    <3>4. w[i][1] \in Unnamed
      BY <3>2, <3>3, ElementOfSeq
    <3> QED
      BY <3>4 DEF Unnamed
  <2> QED
    BY <2>4, FieldIn DEF w, u
<1>5. CASE ~(m <= Len(b))
  <2> DEFINE v == << <<"AUTHCHALLENGE">>, HashWord>>
             c == Upto(NonceText, m - Len(b))
  <2>1. m - Len(b) = 1 \/ m - Len(b) = 2
    BY <1>1, <1>2, <1>5
  <2>2. Upto(NonceText, 1) = <<"SERVERNONCE">> /\ Upto(NonceText, 2) = <<"SERVERNONCE", Equals>>
    <3> DEFINE n == <<"SERVERNONCE">>
               p == <<"SERVERNONCE", Equals>>
    <3>1. /\ n \in Seq(Symbol) /\ p \in Seq(Symbol) /\ <<Equals, "sn">> \in Seq(Symbol)
          /\ <<"sn">> \in Seq(Symbol) /\ Len(n) = 1 /\ Len(p) = 2
      BY ChallengeNames, Symbols DEF Name
    <3>2. NonceText = n \o <<Equals, "sn">> /\ NonceText = p \o <<"sn">>
      BY DEF NonceText
    <3> HIDE DEF n, p
    <3>3. Upto(n \o <<Equals, "sn">>, Len(n)) = n /\ Upto(p \o <<"sn">>, Len(p)) = p
      BY <3>1, AfterPrefix
    <3> QED
      BY <3>1, <3>2, <3>3 DEF n, p
  <2>3. \/ c = <<"SERVERNONCE">>
        \/ c = <<"SERVERNONCE", Equals>>
    BY <2>1, <2>2
  <2> HIDE DEF c
  <2>4. Plain(c) /\ c # <<>> /\ c \in Text
    <3>1. Plain(<<"SERVERNONCE">>) /\ Plain(<<Equals>>) /\ <<"SERVERNONCE">> # <<>>
      BY ChallengeNames, PlainSymbol, Symbols DEF Name
    <3>2. <<"SERVERNONCE", Equals>> = <<"SERVERNONCE">> \o <<Equals>> /\ <<"SERVERNONCE", Equals>> # <<>>
      BY ChallengeNames, PairSplit, Symbols DEF Name
    <3>3. Plain(<<"SERVERNONCE", Equals>>)
      BY <3>1, <3>2, PlainConcat
    <3> QED
      BY <2>3, <3>1, <3>2, <3>3 DEF Plain
  <2>5. After(c, 2) = <<>>
    <3>1. SubSeq(<<"SERVERNONCE">>, 3, 1) = <<>> /\ SubSeq(<<"SERVERNONCE", Equals>>, 3, 2) = <<>>
      BY SubSeqEmpty
    <3>2. Len(<<"SERVERNONCE">>) = 1 /\ Len(<<"SERVERNONCE", Equals>>) = 2 /\ 2 + 1 = 3
      OBVIOUS
    <3> QED
      BY <2>3, <3>1, <3>2 DEF After
  <2>6. Scan(NoWords, u) = St(v, c) /\ v \in Seq(Text)
    <3>1. u = BeforeNonce \o c
      BY <1>3, <1>5 DEF b, c
    <3>2. Scan(NoWords, BeforeNonce \o c) = Scan(Scan(NoWords, BeforeNonce), c)
      BY <2>4, ChallengeParts, ScanConcat
    <3>3. v \in Seq(Text) /\ Scan(NoWords, BeforeNonce) = St(v, <<>>)
      BY BeforeNonceRead
    <3> HIDE DEF v
    <3>4. Scan(St(v, <<>>), c) = St(v, <<>> \o c) /\ <<>> \o c = c
      <4>1. <<>> \in Text /\ <<>> \o c = c
        BY <2>4, TextTyped, TextLaws
      <4>2. Scan(St(v, <<>>), c) = St(v, <<>> \o c)
        BY <2>4, <3>3, <4>1, StPlain
      <4> QED
        BY <4>1, <4>2
    <3> QED
      BY <3>1, <3>2, <3>3, <3>4
  <2>7. w = << <<"AUTHCHALLENGE">>, HashWord, c>>
    <3>1. w = Append(v, c)
      <4>1. u \in Text
        BY <1>3, <1>5, <2>4, ChallengeParts, TextTyped DEF b, c
      <4> QED
        BY <2>4, <2>6, <4>1, StWords
    <3>2. <<"AUTHCHALLENGE">> \in Text /\ HashWord \in Text
      BY ChallengeNames, BeforeNonceRead, TextTyped DEF Name
    <3> QED
      BY <2>4, <3>1, <3>2, TripleTyped
  <2> HIDE DEF w
  <2>8. \A i \in DOMAIN w : Prefixed(w[i], "SERVERNONCE") => After(w[i], 2) = <<>>
    <3>1. /\ DOMAIN w = 1 .. 3 /\ w[1] = <<"AUTHCHALLENGE">> /\ w[2] = HashWord /\ w[3] = c
          /\ \A i \in 1 .. 3 : i = 1 \/ i = 2 \/ i = 3
      BY <2>7
    <3>2. ~Prefixed(<<"AUTHCHALLENGE">>, "SERVERNONCE")
      BY DEF Prefixed
    <3>3. HashWord[1] = "SERVERHASH"
      BY ChallengeNames, ServerHashTyped, NamedAlways DEF HashWord, Plain
    <3>4. ~Prefixed(HashWord, "SERVERNONCE")
      BY <3>3 DEF Prefixed
    <3> QED
      BY <2>5, <3>1, <3>2, <3>4
  <2>9. Len(<<>>) # 1
    OBVIOUS
  <2> QED
    BY <2>8, <2>9, FieldIn DEF w, u
<1> QED
  BY <1>4, <1>5

-----------------------------------------------------------------------------
(* The replies of Tor, one after the other.                                *)

Rejection == [Refusal EXCEPT !.code = "515"]
Challenge == [code |-> "250", lines |-> <<TextLine(ChallengeText)>>]
PhaseAt(p) ==
  PairLine(<<"status/bootstrap-phase">>, <<"NOTICE", Blank, "BOOTSTRAP", Blank, "PROGRESS", Equals, p>>)
ListenersLine == PairLine(<<"net/listeners/socks">>, FlattenSeq(Pieces(tor.bound)))

\* Where the client is already in, or not yet.
Before == {"PROTOCOLINFO", "AUTHCHALLENGE", "AUTHENTICATE"}

LEMMA RepliesAre ==
  ASSUME NEW command \in Commands, NEW r \in Replies(command)
  PROVE  \/ command \notin Before /\ r = Refusal
         \/ command = "PROTOCOLINFO" /\ r = Answer(InfoLines)
         \/ command = "AUTHCHALLENGE" /\ r = Challenge
         \/ command = "AUTHENTICATE" /\ Accepted /\ r = Answer(<<>>)
         \/ command = "AUTHENTICATE" /\ r = Rejection
         \/ command \in {"TAKEOWNERSHIP", "RESETCONF"} /\ authed /\ r = Answer(<<>>)
         \/ command = "phase" /\ authed /\ \E p \in {"50", "100"} : r = Answer(<<PhaseAt(p)>>)
         \/ command = "listeners" /\ authed /\ r = Answer(<<ListenersLine>>)
         \/ command = "text" /\ authed /\ \E body \in Bodies : r = Answer(<<DataLine(<<"config-text">>, body)>>)
<1>1. CASE command \notin Before /\ ~authed
  <2>1. Replies(command) = {Refusal}
    BY <1>1 DEF Replies, Before
  <2> QED
    BY <1>1, <2>1
<1>2. CASE command = "PROTOCOLINFO"
  <2>1. Replies(command) = {Answer(InfoLines)}
    BY <1>2 DEF Replies, InfoLines, InfoText, AuthText, VersionText
  <2> QED
    BY <1>2, <2>1
<1>3. CASE command = "AUTHCHALLENGE"
  <2>1. Replies(command) = {Challenge}
    BY <1>3 DEF Replies, Challenge, ChallengeText, ServerHash
  <2> QED
    BY <1>3, <2>1
<1>4. CASE command = "AUTHENTICATE"
  <2>1. Replies(command) = {IF Accepted THEN Answer(<<>>) ELSE Rejection}
    BY <1>4 DEF Replies, Rejection
  <2> QED
    BY <1>4, <2>1
<1>5. CASE command \in {"TAKEOWNERSHIP", "RESETCONF"} /\ authed
  <2>1. Replies(command) = {Answer(<<>>), Refusal}
    BY <1>5 DEF Replies
  <2> QED
    BY <1>5, <2>1 DEF Before
<1>6. CASE command = "phase" /\ authed
  <2>1. Replies(command) = {Answer(<<PhaseAt(p)>>) : p \in {"50", "100"}}
    BY <1>6 DEF Replies, PhaseAt
  <2> QED
    BY <1>6, <2>1
<1>7. CASE command = "listeners" /\ authed
  <2>1. ListenersText = FlattenSeq(Pieces(tor.bound))
    BY DEF ListenersText, Pieces, Piece
  <2>2. Replies(command) = {Answer(<<ListenersLine>>)}
    BY <1>7, <2>1 DEF Replies, ListenersLine
  <2> QED
    BY <1>7, <2>2
<1>8. CASE command = "text" /\ authed
  <2>1. Replies(command) = {Answer(<<DataLine(<<"config-text">>, body)>>) : body \in Bodies}
    BY <1>8 DEF Replies
  <2> QED
    BY <1>8, <2>1
<1> QED
  BY <1>1, <1>2, <1>3, <1>4, <1>5, <1>6, <1>7, <1>8 DEF Commands, Before

\* The lines of an answer are read as they were meant.
LEMMA InfoMeant ==
  ASSUME TorOK
  PROVE  /\ InfoLines \in Seq(Lines) /\ \A i \in 1 .. Len(InfoLines) : WellMeant(InfoLines[i])
         /\ Len(InfoLines) = 3 /\ InfoLines[1] = TextLine(InfoText)
         /\ InfoLines[2] = TextLine(AuthText) /\ InfoLines[3] = TextLine(VersionText)
<1>1. WellMeant(TextLine(InfoText)) /\ WellMeant(TextLine(AuthText)) /\ WellMeant(TextLine(VersionText))
  BY InfoTextRead, AuthTextRead, VersionTextRead, TextMeant DEF BlankSecond
<1> DEFINE a == TextLine(InfoText)
           b == TextLine(AuthText)
           c == TextLine(VersionText)
<1>2. a \in Lines /\ b \in Lines /\ c \in Lines
  BY <1>1 DEF WellMeant
<1>3. InfoLines = <<a, b, c>>
  BY DEF InfoLines
<1> HIDE DEF a, b, c
<1>4. /\ <<a, b, c>> \in Seq(Lines) /\ Len(<<a, b, c>>) = 3
      /\ <<a, b, c>>[1] = a /\ <<a, b, c>>[2] = b /\ <<a, b, c>>[3] = c
      /\ \A i \in 1 .. 3 : i = 1 \/ i = 2 \/ i = 3
  BY <1>2
<1>5. \A i \in 1 .. Len(InfoLines) : WellMeant(InfoLines[i])
  BY <1>1, <1>3, <1>4 DEF a, b, c
<1> QED
  BY <1>3, <1>4, <1>5 DEF a, b, c

LEMMA OneMeant ==
  ASSUME NEW l, WellMeant(l)
  PROVE  Reply(Answer(<<l>>).code, Answer(<<l>>).lines)
<1>1. <<l>> \in Seq(Lines) /\ Len(<<l>>) = 1 /\ <<l>>[1] = l /\ \A i \in 1 .. 1 : i = 1
  BY DEF WellMeant
<1>2. \A i \in 1 .. Len(<<l>>) : WellMeant(<<l>>[i])
  BY <1>1
<1> HIDE DEF WellMeant
<1> QED
  BY <1>1, <1>2, AnswerMeant

LEMMA RepliesMeant ==
  ASSUME TorOK, NEW command \in Commands, NEW r \in Replies(command)
  PROVE  Reply(r.code, r.lines)
<1>1. Reply(Refusal.code, Refusal.lines) /\ Reply(Rejection.code, Rejection.lines)
  <2>1. /\ Refusal.code = "551" /\ Refusal.lines = <<TextLine(<<"no">>)>>
        /\ Rejection.code = "515" /\ Rejection.lines = <<TextLine(<<"no">>)>>
    BY DEF Refusal, Rejection
  <2>2. "551" \in Codes /\ "515" \in Codes
    BY DEF Codes
  <2>3. WellMeant(TextLine(<<"no">>)) /\ TextLine(<<"no">>).kind # "data"
    BY OkMeant
  <2> QED
    BY <2>1, <2>2, <2>3, LineMeant
<1>2. Reply(Answer(InfoLines).code, Answer(InfoLines).lines)
  BY InfoMeant, AnswerMeant
<1>3. Reply(Challenge.code, Challenge.lines)
  <2>1. WellMeant(TextLine(ChallengeText)) /\ TextLine(ChallengeText).kind # "data"
    BY ChallengeRead, TextMeant DEF BlankSecond, TextLine
  <2>2. Challenge.code = "250" /\ Challenge.lines = <<TextLine(ChallengeText)>> /\ "250" \in Codes
    BY DEF Challenge, Codes
  <2> QED
    BY <2>1, <2>2, LineMeant
<1>4. Reply(Answer(<<>>).code, Answer(<<>>).lines)
  <2>1. <<>> \in Seq(Lines) /\ \A i \in 1 .. Len(<<>>) : FALSE
    OBVIOUS
  <2> QED
    BY <2>1, AnswerMeant
<1>5. ASSUME NEW p \in {"50", "100"} PROVE WellMeant(PhaseAt(p))
  <2>1. /\ "NOTICE" \in Symbol /\ Blank \in Symbol /\ "BOOTSTRAP" \in Symbol /\ "PROGRESS" \in Symbol
        /\ Equals \in Symbol /\ p \in Symbol
    BY Symbols DEF Symbol, Words3
  <2>2. <<"NOTICE", Blank, "BOOTSTRAP", Blank, "PROGRESS", Equals, p>> \in Text
    BY <2>1 DEF Text
  <2>3. "status/bootstrap-phase" \in Symbol /\ "status/bootstrap-phase" \notin {Equals, Blank}
    BY DEF Symbol, Words3, Equals, Blank
  <2> QED
    BY <2>2, <2>3, PairMeant DEF PhaseAt
<1>6. WellMeant(ListenersLine)
  <2>1. FlattenSeq(Pieces(tor.bound)) \in Text
    BY PiecesTyped DEF TorOK, Listed
  <2>2. "net/listeners/socks" \in Symbol /\ "net/listeners/socks" \notin {Equals, Blank}
    BY DEF Symbol, Words3, Equals, Blank
  <2> QED
    BY <2>1, <2>2, PairMeant DEF ListenersLine
<1>7. ASSUME NEW body \in Bodies PROVE WellMeant(DataLine(<<"config-text">>, body))
  <2>1. body \in Seq(Text)
    BY BodiesAssumption, StringsAreTexts
  <2>2. "config-text" \in Symbol
    BY DEF Symbol, Words3
  <2> QED
    BY <2>1, <2>2, TextTyped, DataMeant
<1>8. \A p \in {"50", "100"} : Reply(Answer(<<PhaseAt(p)>>).code, Answer(<<PhaseAt(p)>>).lines)
  BY <1>5, OneMeant
<1>9. Reply(Answer(<<ListenersLine>>).code, Answer(<<ListenersLine>>).lines)
  BY <1>6, OneMeant
<1>10. \A body \in Bodies : LET l == DataLine(<<"config-text">>, body)
                            IN  Reply(Answer(<<l>>).code, Answer(<<l>>).lines)
  BY <1>7, OneMeant
<1> QED
  BY <1>1, <1>2, <1>3, <1>4, <1>8, <1>9, <1>10, RepliesAre

-----------------------------------------------------------------------------
(* The reader is always somewhere in the reply that it waits for.          *)

\* What a stream that breaks delivers are lines.
LEMMA CutsTyped == \A w \in Seq(Text) : Cuts(w) \subseteq Seq(Text)
<1> SUFFICES ASSUME NEW w \in Seq(Text), NEW c \in Cuts(w) PROVE c \in Seq(Text)
  OBVIOUS
<1>1. DOMAIN w = 1 .. Len(w) /\ Len(w) \in Nat
  BY LenProperties
<1>2. ASSUME NEW n \in 0 .. Len(w) PROVE Upto(w, n) \in Seq(Text)
  BY UptoProperties
<1>3. ASSUME NEW n \in 1 .. Len(w), NEW k \in 1 .. Len(w[n]) - 1
      PROVE  Append(Upto(w, n - 1), Upto(w[n], k)) \in Seq(Text)
  <2>1. w[n] \in Text /\ w[n] \in Seq(Symbol)
    BY ElementOfSeq DEF Text
  <2>2. k \in 0 .. Len(w[n]) /\ n - 1 \in 0 .. Len(w)
    BY <1>1, <2>1, LenProperties
  <2>3. Upto(w[n], k) \in Text
    BY <2>1, <2>2, UptoProperties DEF Text
  <2> QED
    BY <1>2, <2>2, <2>3, AppendProperties
<1>4. \/ \E n \in 0 .. Len(w) : c = Upto(w, n)
      \/ \E n \in DOMAIN w : \E k \in 1 .. Len(w[n]) - 1 : c = Append(Upto(w, n - 1), Upto(w[n], k))
  BY DEF Cuts
<1> QED
  BY <1>1, <1>2, <1>3, <1>4

\* At first everything is still to come.
LEMMA StartFollows ==
  ASSUME NEW code, NEW lines, Reply(code, lines)
  PROVE  /\ OnTrack(code, lines, StartReply)
         /\ Encode(code, lines) = Left(code, lines, StartReply)
         /\ Encode(code, lines) \in Seq(Text)
<1>1. StartReply.at = "first" /\ StartReply.lines = <<>> /\ Len(<<>>) = 0
  BY DEF StartReply
<1>2. lines \in Seq(Lines) /\ lines # <<>> /\ Len(lines) \in Nat /\ Len(lines) > 0
  BY EmptySeq, LenProperties DEF Reply
<1>3. Begun(<<>>, lines)
  BY <1>1, <1>2 DEF Begun
<1>4. OnTrack(code, lines, StartReply)
  BY <1>1, <1>2, <1>3, StartTyped DEF OnTrack
<1>5. Encode(code, lines) = Enc(code, lines, 0) /\ Left(code, lines, StartReply) = Enc(code, lines, 0)
  BY <1>1, EncAll DEF Left
<1>6. Enc(code, lines, 0) \in Seq(Text)
  <2>1. 0 \in 0 .. Len(lines) - 1 /\ 0 + 1 \in 1 .. Len(lines)
    BY <1>2
  <2>2. Enc(code, lines, 0) = Chunk(code, lines, 0 + 1) \o Enc(code, lines, 0 + 1)
        /\ Enc(code, lines, 0 + 1) \in Seq(Text) /\ Chunk(code, lines, 0 + 1) \in Seq(Text)
    BY <2>1, EncNext, ChunkTyped
  <2> QED
    BY <2>2, ConcatProperties
<1> QED
  BY <1>4, <1>5, <1>6

\* The replies to a command do not change while it waits for one.
LEMMA RepliesSame ==
  ASSUME tor' = tor, credential' = credential, stage' = stage,
         authed' = authed \/ stage = "AUTHENTICATE"
  PROVE  Replies(stage)' = Replies(stage)
<1>1. MethodsText' = MethodsText /\ FileText' = FileText /\ ListenersText' = ListenersText
      /\ Accepted' = Accepted
  BY DEF MethodsText, FileText, ListenersText, Accepted
<1>2. CASE authed' = authed
  BY <1>1, <1>2 DEF Replies
<1>3. CASE stage = "AUTHENTICATE"
  BY <1>1, <1>3 DEF Replies
<1> QED
  BY <1>2, <1>3

\* The invariant holds at first.
LEMMA InitFrame == Init => FrameInv
<1> SUFFICES ASSUME Init PROVE FrameInv
  OBVIOUS
<1>1. <<>> \in Seq({"tcp", "unix"}) /\ <<>> \in Text /\ <<>> \in Seq(Text)
  BY TextTyped
<1>2. TorOK
  BY <1>1 DEF Init, NoTor, TorOK, Commands
<1> QED
  BY <1>1, <1>2, StartTyped DEF Init, FrameInv

\* A command is sent: Tor answers it, or the stream has ended.
LEMMA CommandFrame == BuilderInv /\ FrameInv /\ Command => FrameInv'
<1> SUFFICES ASSUME BuilderInv, FrameInv, Command PROVE FrameInv'
  OBVIOUS
<1>1. /\ stage \in Commands /\ ~asked /\ asked' /\ reply' = StartReply /\ wire = <<>>
      /\ stage' = stage /\ credential' = credential /\ tor' = tor /\ broken' = broken
  BY DEF Command, FrameInv, Commands
<1>2. TorOK' /\ TorOK /\ reply' \in ReplyState
  BY <1>1, StartTyped DEF TorOK, FrameInv
<1>3. CASE closed
  <2>1. wire' = wire /\ closed' = closed /\ broken /\ StartReply.at # "whole"
    BY <1>1, <1>3 DEF Command, FrameInv, StartReply, Commands
  <2> QED
    BY <1>1, <1>2, <1>3, <2>1 DEF Command, FrameInv, Ended
<1>4. CASE ~closed
  <2>1. PICK r \in Replies(stage) :
          /\ meant' = r /\ wire' = Encode(r.code, r.lines) /\ closed' = (r.code = "515")
          /\ authed' = (authed \/ (stage = "AUTHENTICATE" /\ r.code = "250"))
    BY <1>4 DEF Command
  <2>2. Reply(r.code, r.lines)
    BY <1>1, <1>2, RepliesMeant
  <2>3. authed' = authed \/ stage = "AUTHENTICATE"
    <3>1. CASE stage = "AUTHENTICATE"
      BY <3>1
    <3>2. CASE stage # "AUTHENTICATE"
      <4>1. authed' = (authed \/ FALSE) /\ authed \in BOOLEAN
        BY <2>1, <3>2 DEF FrameInv
      <4> QED
        BY <4>1
    <3> QED
      BY <3>1, <3>2
  <2>4. Replies(stage)' = Replies(stage)
    BY <1>1, <2>3, RepliesSame
  <2>5. Given'
    BY <1>1, <2>1, <2>4 DEF Given
  <2>6. OnTrack(r.code, r.lines, StartReply) /\ wire' = Left(r.code, r.lines, StartReply)
        /\ wire' \in Seq(Text)
    BY <2>1, <2>2, StartFollows
  <2>7. Following'
    BY <1>1, <2>1, <2>5, <2>6 DEF Following
  <2>8. closed' => stage = "AUTHENTICATE" /\ r.code = "515"
    <3>1. Refusal.code = "551" /\ Challenge.code = "250" /\ \A l : Answer(l).code = "250"
      BY DEF Refusal, Challenge, Answer
    <3>2. \A body : LET l == <<DataLine(<<"config-text">>, body)>> IN Answer(l).code = "250"
      BY <3>1
    <3>3. r.code = "515" => stage = "AUTHENTICATE"
      BY <1>1, <3>1, <3>2, RepliesAre
    <3> QED
      BY <2>1, <3>3
  <2>9. authed' \in BOOLEAN
    BY <2>1
  <2> QED
    BY <1>1, <1>2, <2>1, <2>4, <2>6, <2>7, <2>8, <2>9 DEF FrameInv
<1> QED
  BY <1>3, <1>4

\* The connection breaks, and a part of what was to come is lost.
LEMMA BreakFrame == BuilderInv /\ FrameInv /\ Break => FrameInv'
<1> SUFFICES ASSUME BuilderInv, FrameInv, Break PROVE FrameInv'
  OBVIOUS
<1>1. /\ ~broken /\ broken' /\ wire' \in Cuts(wire) /\ stage' = stage /\ asked' = asked
      /\ reply' = reply /\ tor' = tor /\ authed' = authed /\ meant' = meant
      /\ credential' = credential
  BY DEF Break, client
<1>2. TorOK' /\ wire' \in Seq(Text) /\ reply' \in ReplyState
  BY <1>1, CutsTyped DEF TorOK, FrameInv
<1>3. asked => Following'
  <2> SUFFICES ASSUME asked PROVE Following'
    OBVIOUS
  <2>1. Following /\ wire = Left(meant.code, meant.lines, reply)
    BY <1>1 DEF FrameInv, Following, Cut, Ended
  <2>2. Replies(stage)' = Replies(stage)
    BY <1>1, RepliesSame
  <2>3. Given'
    BY <1>1, <2>1, <2>2 DEF Following, Given
  <2> QED
    BY <1>1, <2>1, <2>3 DEF Following
<1>4. ~asked /\ stage # "failed" => wire' = <<>>
  BY <1>1, CutsEmpty DEF FrameInv
<1> QED
  BY <1>1, <1>2, <1>3, <1>4 DEF FrameInv

\* The client reads a line: the next one of the reply, or a part of it with nothing after
\* it; or it comes to the end of a stream that has broken.
LEMMA ReadFrame == BuilderInv /\ FrameInv /\ Read => FrameInv'
<1> SUFFICES ASSUME BuilderInv, FrameInv, Read PROVE FrameInv'
  OBVIOUS
<1>1. /\ asked /\ asked' /\ reply.at \in {"first", "more", "data"} /\ stage' = stage
      /\ tor' = tor /\ authed' = authed /\ meant' = meant /\ credential' = credential
      /\ closed' = closed /\ broken' = broken
  BY DEF Read, Reading
<1>2. /\ TorOK /\ TorOK' /\ stage \in Commands /\ Replies(stage)' = Replies(stage)
      /\ reply \in ReplyState /\ wire \in Seq(Text) /\ authed' \in BOOLEAN
  BY <1>1, RepliesSame DEF TorOK, FrameInv, BuilderInv
<1>3. reply.at # "whole" /\ ~Cut
  BY <1>1 DEF Cut
<1>4. CASE Following
  <2>1. Given' /\ meant \in Replies(stage) /\ OnTrack(meant.code, meant.lines, reply)
    BY <1>1, <1>2, <1>4 DEF Following, Given
  <2>2. Reply(meant.code, meant.lines)
    BY <1>2, <2>1, RepliesMeant
  <2> DEFINE left(r) == Left(meant.code, meant.lines, r)
             q(l) == ReadLine(reply, l)
  <2>3. PICK l \in Text :
          /\ left(q(l)) \in Seq(Text)
          /\ left(reply) = <<l>> \o left(q(l))
          /\ OnTrack(meant.code, meant.lines, q(l))
          /\ \A k \in 1 .. Len(l) - 1 :
               /\ q(Upto(l, k)) \in ReplyState
               /\ q(Upto(l, k)).at = "whole" => CutWhole(meant.code, meant.lines, q(Upto(l, k)))
    BY <1>3, <2>1, <2>2, ReadStep
  <2>4. q(l) \in ReplyState
    BY <2>3 DEF OnTrack
  <2>5. wire = left(reply) \/ (broken /\ wire \in Cuts(left(reply)))
    BY <1>4 DEF Following
  <2> DEFINE rest == left(q(l))
  <2>6. left(reply) = <<l>> \o rest /\ rest \in Seq(Text)
    BY <2>3
  <2> HIDE DEF q, left, rest
  <2>7. \/ wire = <<l>> \o rest
        \/ broken /\ wire = <<>>
        \/ broken /\ \E k \in 1 .. Len(l) - 1 : wire = <<Upto(l, k)>>
        \/ broken /\ \E u \in Cuts(rest) : wire = <<l>> \o u
    <3>1. CASE wire = left(reply)
      BY <2>6, <3>1
    <3>2. CASE broken /\ wire \in Cuts(left(reply))
      <4>1. rest \in Seq(Text) /\ wire \in Cuts(<<l>> \o rest)
        BY <2>6, <3>2
      <4>2. \/ wire = <<>>
            \/ \E k \in 1 .. Len(l) - 1 : wire = <<Upto(l, k)>>
            \/ \E u \in Cuts(rest) : wire = <<l>> \o u
        BY <4>1, CutsCons
      <4> QED
        BY ONLY <3>2, <4>2, Zenon
    <3> QED
      BY <2>5, <3>1, <3>2
  <2>8. CASE wire = <<l>> \o rest
    <3>1. wire # <<>> /\ Head(wire) = l /\ Tail(wire) = rest
      BY <2>3, <2>6, <2>8, ConsProperties
    <3>2. reply' = q(l) /\ wire' = rest
      BY <3>1 DEF Read, q
    <3>3. Following'
      BY <1>1, <2>1, <2>3, <3>2 DEF Following, left, rest
    <3> QED
      BY <1>1, <1>2, <2>4, <2>6, <3>2, <3>3 DEF FrameInv
  <2>9. CASE broken /\ wire = <<>>
    <3>1. reply' = ReadEnd(reply) /\ wire' = <<>>
      BY <2>9 DEF Read
    <3>2. reply' \in ReplyState /\ reply'.at # "whole"
      BY <1>2, <3>1, ReadEndTyped DEF ReadEnd, ReplyState
    <3> QED
      BY <1>1, <1>2, <2>9, <3>1, <3>2 DEF FrameInv, Ended
  <2>10. ASSUME NEW k \in 1 .. Len(l) - 1, broken, wire = <<Upto(l, k)>>
         PROVE  FrameInv'
    <3>1. wire # <<>> /\ Head(wire) = Upto(l, k) /\ Tail(wire) = <<>>
      BY <2>10
    <3>2. reply' = q(Upto(l, k)) /\ wire' = <<>>
      BY <3>1 DEF Read, q
    <3>3. reply' \in ReplyState /\ (reply'.at = "whole" => CutWhole(meant.code, meant.lines, reply'))
      BY <2>3, <3>2 DEF q
    <3>4. Cut' \/ Ended'
      BY <1>1, <2>1, <2>10, <3>2, <3>3 DEF Cut, Ended
    <3>5. wire' \in Seq(Text)
      BY <3>2, SingleTyped
    <3> QED
      BY <1>1, <1>2, <2>10, <3>2, <3>3, <3>4, <3>5 DEF FrameInv
  <2>11. ASSUME NEW u \in Cuts(rest), broken, wire = <<l>> \o u
         PROVE  FrameInv'
    <3>1. u \in Seq(Text)
      BY <2>6, CutsTyped
    <3>2. wire # <<>> /\ Head(wire) = l /\ Tail(wire) = u
      BY <2>3, <2>11, <3>1, ConsProperties
    <3>3. reply' = q(l) /\ wire' = u
      BY <3>2 DEF Read, q
    <3>4. Following'
      BY <1>1, <2>1, <2>3, <2>11, <3>3 DEF Following, left, rest
    <3> QED
      BY <1>1, <1>2, <2>4, <2>11, <3>1, <3>3, <3>4 DEF FrameInv
  <2> QED
    BY <2>7, <2>8, <2>9, <2>10, <2>11
<1>5. CASE Ended
  <2>1. reply' = ReadEnd(reply) /\ wire' = <<>>
    BY <1>5 DEF Read, Ended
  <2>2. reply' \in ReplyState /\ reply'.at # "whole"
    BY <1>2, <2>1, ReadEndTyped DEF ReadEnd, ReplyState
  <2> QED
    BY <1>1, <1>2, <1>5, <2>1, <2>2, SingleTyped DEF FrameInv, Ended
<1> QED
  BY <1>1, <1>3, <1>4, <1>5 DEF FrameInv

\* How Tor binds its listeners is read from the text.
LEMMA BoundTyped ==
  ASSUME BuilderOK(builder), TextInv,
         NEW bound, bound = Values(Rendered(builder), "SocksPort")
  PROVE  /\ DOMAIN bound = 1 .. Len(bound) /\ Len(bound) \in Nat
         /\ [i \in DOMAIN bound |-> IF bound[i].at.addr = "unix" THEN "unix" ELSE "tcp"]
              \in Seq({"tcp", "unix"})
<1>1. PICK X : Rendered(builder) \in Seq(X)
  BY TextIsSequence
<1>2. bound \in Seq(ValuesIn(X))
  BY <1>1, MatchesTyped
<1>3. DOMAIN bound = 1 .. Len(bound) /\ Len(bound) \in Nat
  BY <1>2, LenProperties
<1>4. [i \in 1 .. Len(bound) |-> IF bound[i].at.addr = "unix" THEN "unix" ELSE "tcp"]
        \in Seq({"tcp", "unix"})
  BY <1>3
<1> QED
  BY <1>3, <1>4

LEMMA LaunchFrame == BuilderInv /\ TextInv /\ FrameInv /\ Launch => FrameInv'
<1> SUFFICES ASSUME BuilderInv, TextInv, FrameInv, Launch PROVE FrameInv'
  OBVIOUS
<1> DEFINE bound == Values(Rendered(builder), "SocksPort")
           ways == [i \in DOMAIN bound |-> IF bound[i].at.addr = "unix" THEN "unix" ELSE "tcp"]
<1>1. PICK path \in Paths, safe \in BOOLEAN :
        tor' = [auth |-> ReadAuth(Rendered(builder)), path |-> path, safe |-> safe, bound |-> ways]
  BY DEF Launch
<1>2. ways \in Seq({"tcp", "unix"})
  BY BoundTyped DEF BuilderInv
<1>3. ReadAuth(Rendered(builder)) \in {"cookie", "hashed", "none"}
  BY DEF ReadAuth
<1>4. path \in Text /\ path # <<>>
  BY PathsAssumption, StringsAreTexts
<1> HIDE DEF ways
<1>5. TorOK'
  BY <1>1, <1>2, <1>3, <1>4 DEF TorOK
<1>6. /\ ~asked /\ ~asked' /\ reply' = reply /\ wire' = wire /\ authed' = authed /\ closed' = closed
      /\ broken' = broken /\ stage = "built"
  BY DEF Launch, BuilderInv, Commands
<1> QED
  BY <1>5, <1>6 DEF FrameInv

\* A reply is handled when nothing of it is left to be read; one that closes the
\* connection is a refusal.
LEMMA HandledReply ==
  ASSUME BuilderInv, FrameInv, asked, ~Reading
  PROVE  /\ wire = <<>> /\ reply.at \in {"whole", "failed", "none"}
         /\ reply.at = "whole" =>
              /\ Given /\ reply.code = meant.code
              /\ \/ reply.lines = meant.lines
                 \/ broken /\ CutWhole(meant.code, meant.lines, reply)
         /\ reply.at # "whole" => broken
<1>1. reply.at \in {"whole", "failed", "none"} /\ TorOK /\ stage \in Commands
  BY DEF FrameInv, Reading, ReplyState, BuilderInv
<1>2. CASE Following
  <2>1. Given /\ OnTrack(meant.code, meant.lines, reply) /\ reply.at = "whole"
    BY <1>1, <1>2 DEF Following, OnTrack
  <2>2. Reply(meant.code, meant.lines)
    BY <1>1, <2>1, RepliesMeant DEF Given
  <2>3. Left(meant.code, meant.lines, reply) = <<>>
    BY <2>1, <2>2, WholeStep
  <2>4. wire = <<>>
    BY <1>2, <2>3, CutsEmpty DEF Following
  <2>5. reply.code = meant.code /\ reply.lines = meant.lines
    BY <2>1, <2>2, BegunWhole DEF OnTrack
  <2> QED
    BY <2>1, <2>4, <2>5
<1>3. CASE Cut
  BY <1>3 DEF Cut, CutWhole
<1>4. CASE Ended
  BY <1>1, <1>4 DEF Ended
<1> QED
  BY <1>2, <1>3, <1>4 DEF FrameInv

LEMMA HandleFrame == BuilderInv /\ FrameInv /\ Handle => FrameInv'
<1> SUFFICES ASSUME BuilderInv, FrameInv, Handle PROVE FrameInv'
  OBVIOUS
<1>1. /\ asked /\ ~Reading /\ ~asked' /\ reply' = StartReply /\ stage' = Outcome.to
      /\ tor' = tor /\ authed' = authed /\ wire' = wire /\ closed' = closed /\ broken' = broken
      /\ stage \in Commands
  BY DEF Handle, server, BuilderInv
<1>2. wire' = <<>> /\ wire' \in Seq(Text) /\ reply' \in ReplyState /\ TorOK'
  BY <1>1, HandledReply, SingleTyped, StartTyped DEF TorOK, FrameInv
<1>3. closed' /\ stage' # "failed" => broken'
  <2> SUFFICES ASSUME closed, ~broken PROVE stage' = "failed"
    BY <1>1
  <2>1. stage = "AUTHENTICATE" /\ meant.code = "515"
    BY <1>1 DEF FrameInv, Commands
  <2>2. reply.at = "whole" /\ reply.code = "515"
    BY <1>1, <2>1, HandledReply
  <2> QED
    BY <1>1, <2>1, <2>2 DEF Outcome, Fails, Goes
<1> QED
  BY <1>1, <1>2, <1>3 DEF FrameInv

\* Every step keeps it.
LEMMA StepKeepsFrame == BuilderInv /\ TextInv /\ FrameInv /\ [Next]_vars => FrameInv'
<1> SUFFICES ASSUME BuilderInv, TextInv, FrameInv, [Next]_vars PROVE FrameInv'
  OBVIOUS
<1>1. CASE Configure \/ AddRaw \/ StartManaged \/ UNCHANGED vars
  <2>1. UNCHANGED <<client, server>>
    BY <1>1 DEF Configure, AddRaw, StartManaged, vars
  <2>2. /\ stage' = stage /\ asked' = asked /\ reply' = reply /\ tor' = tor /\ authed' = authed
        /\ wire' = wire /\ closed' = closed /\ broken' = broken /\ meant' = meant
        /\ credential' = credential
    BY <2>1 DEF client, server
  <2>3. Replies(stage)' = Replies(stage)
    BY <2>2, RepliesSame
  <2> QED
    BY <2>2, <2>3 DEF FrameInv, TorOK, Following, Given, Cut, Ended
<1>2. CASE Build
  <2>1. /\ stage = "build" /\ stage' \in {"built", "failed"} /\ asked' = asked /\ reply' = reply
        /\ tor' = tor /\ authed' = authed /\ wire' = wire /\ closed' = closed /\ broken' = broken
    BY <1>2 DEF Build, server
  <2>2. ~asked
    BY <2>1 DEF BuilderInv, Commands
  <2>3. TorOK'
    BY <2>1 DEF FrameInv, TorOK, Commands
  <2> QED
    BY <2>1, <2>2, <2>3 DEF FrameInv
<1>3. CASE Launch
  BY <1>3, LaunchFrame
<1>4. CASE Command \/ Break \/ Read \/ Handle
  BY <1>4, CommandFrame, BreakFrame, ReadFrame, HandleFrame
<1>5. CASE Timeout
  <2>1. /\ stage = "phase" /\ stage' = "failed" /\ ~asked' /\ reply' = reply /\ tor' = tor
        /\ authed' = authed /\ wire' = wire
    BY <1>5 DEF Timeout, server
  <2> QED
    BY <2>1 DEF FrameInv, TorOK, Commands
<1>6. CASE Ask
  <2>1. /\ stage = "up" /\ stage' = "text" /\ asked' = asked /\ reply' = reply /\ tor' = tor
        /\ authed' = authed /\ wire' = wire /\ closed' = closed /\ broken' = broken
    BY <1>6 DEF Ask, server
  <2>2. ~asked
    BY <2>1 DEF BuilderInv, Commands
  <2> QED
    BY <2>1, <2>2 DEF FrameInv, TorOK, Commands
<1> QED
  BY <1>1, <1>2, <1>3, <1>4, <1>5, <1>6 DEF Next

\* The reply that was read is the one that was given.
LEMMA FrameGivesReply == BuilderInv /\ FrameInv => ReplyFramed
<1> SUFFICES ASSUME BuilderInv, FrameInv, asked, reply.at = "whole"
             PROVE  /\ wire = <<>> /\ reply.code = meant.code
                    /\ \/ reply.lines = meant.lines
                       \/ /\ broken /\ Len(reply.lines) = Len(meant.lines)
                          /\ Front(reply.lines) = Front(meant.lines)
  BY DEF ReplyFramed
<1>1. ~Reading
  BY DEF Reading
<1>2. /\ wire = <<>> /\ reply.code = meant.code
      /\ \/ reply.lines = meant.lines
         \/ broken /\ CutWhole(meant.code, meant.lines, reply)
  BY <1>1, HandledReply
<1>3. ASSUME broken, CutWhole(meant.code, meant.lines, reply)
      PROVE  Len(reply.lines) = Len(meant.lines) /\ Front(reply.lines) = Front(meant.lines)
  <2> DEFINE n == Len(meant.lines)
             t == Payload(meant.lines[n])
             f == Front(meant.lines)
  <2>1. Reply(meant.code, meant.lines)
    <3>1. meant \in Replies(stage) /\ TorOK /\ stage \in Commands
      BY <1>1, HandledReply DEF Given, FrameInv, BuilderInv
    <3> QED
      BY <3>1, RepliesMeant
  <2>2. meant.lines \in Seq(Lines) /\ n \in Nat /\ n > 0 /\ meant.lines[n] \in Lines
    <3>1. meant.lines \in Seq(Lines) /\ meant.lines # <<>>
      BY <2>1 DEF Reply
    <3>2. n \in Nat /\ n > 0
      BY <3>1, EmptySeq, LenProperties
    <3> QED
      BY <3>1, <3>2, ElementOfSeq
  <2>3. PICK m \in 0 .. Len(t) - 1 : reply.lines = Append(f, ParsePayload(Upto(t, m)))
    BY <1>3 DEF CutWhole
  <2>4. ParsePayload(Upto(t, m)) \in Lines
    <3>1. t \in Text /\ t \in Seq(Symbol)
      <4>1. n \in 1 .. n
        BY <2>2
      <4>2. meant.lines[n].kind # "data" /\ WellMeant(meant.lines[n])
        BY <2>1, <4>1 DEF Reply
      <4> QED
        BY <4>2 DEF WellMeant, Text
    <3>2. m \in 0 .. Len(t)
      BY <2>3, <3>1, LenProperties
    <3>3. Upto(t, m) \in Text
      BY <3>1, <3>2, UptoProperties DEF Text
    <3> QED
      BY <3>3, ParsedTyped
  <2>5. f \in Seq(Lines) /\ Len(f) = n - 1
    <3>1. n - 1 \in 0 .. n
      BY <2>2
    <3>2. f = Upto(meant.lines, n - 1)
      BY <2>2, <3>1 DEF Front, Upto
    <3> QED
      BY <2>2, <3>1, <3>2, UptoProperties
  <2> HIDE DEF f, n, t
  <2> DEFINE x == ParsePayload(Upto(t, m))
  <2> HIDE DEF x
  <2>6. Len(reply.lines) = n /\ reply.lines \in Seq(Lines) /\ \A i \in 1 .. n - 1 : reply.lines[i] = f[i]
    BY <2>2, <2>3, <2>4, <2>5, AppendProperties DEF x
  <2>7. n - 1 \in 0 .. n /\ n - 1 \in 0 .. Len(reply.lines)
    BY <2>2, <2>6
  <2> DEFINE u == Upto(reply.lines, n - 1)
  <2>8. u \in Seq(Lines) /\ Len(u) = n - 1 /\ \A i \in 1 .. n - 1 : u[i] = reply.lines[i]
    BY <2>6, <2>7, UptoProperties
  <2>9. u = Front(reply.lines)
    BY <2>2, <2>6, <2>7 DEF Front, Upto
  <2> HIDE DEF u
  <2>10. u = f
    BY <2>2, <2>5, <2>6, <2>8, SeqEqual
  <2> QED
    BY <2>6, <2>9, <2>10 DEF f, n
<1> QED
  BY <1>2, <1>3

\* Whatever Tor answers, in whatever pieces it arrives and wherever the connection breaks,
\* read_reply returns the reply to this command and leaves nothing of it to the next; only
\* the last line of a broken one may be cut.
THEOREM FramesReplies == Spec => []ReplyFramed
<1>1. Spec => [](BuilderInv /\ TextInv /\ FrameInv)
  BY InitBuilder, StepKeepsBuilder, InitText, StepKeepsText, InitFrame, StepKeepsFrame, PTL
     DEF Spec
<1> QED
  BY <1>1, FrameGivesReply, PTL

-----------------------------------------------------------------------------
(* What the client finds in the replies.                                   *)

\* The last line of an answer, which a broken connection may empty.
Lasts == {Ok, TextLine(<<>>)}

LEMMA LastsQuiet ==
  /\ Lasts \subseteq Lines
  /\ \A z \in Lasts : z.kind = "text" /\ \A name : ~Begins(z, name) \/ name = "OK"
<1>1. Name("OK")
  BY DEF Name, Symbol, Words1, Quote, Blank, Equals
<1>2. WordsOf(Ok) = << <<"OK">> >>
  <2>1. <<"OK">> \in Text /\ Plain(<<"OK">>) /\ <<"OK">> # <<>> /\ <<>> \o <<"OK">> = <<"OK">>
    BY <1>1, TextTyped, PlainSymbol, TextLaws DEF Name
  <2>2. Scan(NoWords, <<"OK">>) = St(<<>>, <<"OK">>)
    <3>1. Scan(St(<<>>, <<>>), <<"OK">>) = St(<<>>, <<>> \o <<"OK">>)
      BY <2>1, StPlain, NoWordsSt
    <3> QED
      BY <2>1, <3>1, NoWordsSt
  <2>3. ControlWords(<<"OK">>) = Append(<<>>, <<"OK">>)
    BY <2>1, <2>2, StWords
  <2>4. Append(<<>>, <<"OK">>) = << <<"OK">> >>
    BY <2>1, AppendFirst
  <2>5. Ok.value[1] = <<"OK">>
    BY DEF Ok, TextLine
  <2> QED
    BY <2>3, <2>4, <2>5 DEF WordsOf
<1>3. WordsOf(TextLine(<<>>)) = <<>>
  <2>1. TextLine(<<>>).value[1] = <<>>
    BY DEF TextLine
  <2>2. Scan(NoWords, <<>>) = St(<<>>, <<>>)
    BY ScanEmpty, NoWordsSt
  <2>3. ControlWords(<<>>) = <<>>
    BY <2>2, TextTyped, StWords
  <2> QED
    BY <2>1, <2>3 DEF WordsOf
<1>4. Ok \in Lines /\ TextLine(<<>>) \in Lines /\ Ok.kind = "text" /\ TextLine(<<>>).kind = "text"
  BY OkMeant, TextLineTyped, TextTyped DEF WellMeant, TextLine
<1>5. \A name : Begins(Ok, name) => name = "OK"
  <2>1. << <<"OK">> >>[1] = <<"OK">> /\ <<"OK">>[1] = "OK" /\ \A name : <<name>>[1] = name
    OBVIOUS
  <2> QED
    BY <1>2, <2>1 DEF Begins
<1>6. \A name : ~Begins(TextLine(<<>>), name)
  BY <1>3 DEF Begins
<1> QED
  BY <1>4, <1>5, <1>6 DEF Lasts

\* An answer is read with its lines, and with one of those after them.
LEMMA AnswerRead ==
  ASSUME NEW lines \in Seq(Lines),
         \/ reply.lines = Answer(lines).lines
         \/ CutWhole(Answer(lines).code, Answer(lines).lines, reply)
  PROVE  \E z \in Lasts : reply.lines = Append(lines, z)
<1> DEFINE a == Append(lines, Ok)
<1>1. Answer(lines).lines = a
  BY DEF Answer
<1>2. Ok \in Lines /\ Payload(Ok) = <<"OK">>
  BY OkMeant DEF WellMeant
<1>3. /\ a \in Seq(Lines) /\ Len(a) = Len(lines) + 1 /\ a[Len(lines) + 1] = Ok
      /\ \A i \in 1 .. Len(lines) : a[i] = lines[i]
      /\ Len(lines) \in Nat
  BY <1>2, AppendProperties, LenProperties
<1> HIDE DEF a
<1>4. a[Len(a)] = Ok
  BY <1>3
<1>5. CASE CutWhole(Answer(lines).code, Answer(lines).lines, reply)
  <2>1. Front(a) = lines
    <3>1. Begun(lines, a)
      BY <1>3 DEF Begun
    <3> QED
      BY <1>3, <3>1, FrontOfBegun
  <2>2. PICK m \in 0 .. Len(<<"OK">>) - 1 :
          reply.lines = Append(Front(a), ParsePayload(Upto(<<"OK">>, m)))
    BY <1>1, <1>2, <1>4, <1>5 DEF CutWhole
  <2>3. m = 0
    BY <2>2
  <2>4. <<"OK">> \in Seq(Symbol) /\ 0 \in 0 .. Len(<<"OK">>)
    BY DEF Symbol, Words1
  <2>5. Upto(<<"OK">>, 0) = <<>>
    <3>1. Upto(<<"OK">>, 0) \in Seq(Symbol) /\ Len(Upto(<<"OK">>, 0)) = 0
      BY <2>4, UptoProperties
    <3> QED
      BY <3>1, EmptySeq
  <2>6. ParsePayload(<<>>) = TextLine(<<>>)
    <3>1. <<>> \in Text /\ \A i \in 1 .. Len(<<>>) : FALSE
      BY TextTyped
    <3> QED
      BY <3>1, TextIsRead
  <2>7. reply.lines = Append(lines, TextLine(<<>>))
    BY <2>1, <2>2, <2>3, <2>5, <2>6
  <2> QED
    BY <2>7 DEF Lasts
<1>6. CASE reply.lines = Answer(lines).lines
  BY <1>1, <1>6 DEF Lasts, a
<1> QED
  BY <1>5, <1>6

\* The words of the line about authentication.
LEMMA AuthFields ==
  ASSUME TorOK
  PROVE  /\ Field(ControlWords(AuthText), "METHODS") = {MethodsText}
         /\ Field(ControlWords(AuthText), "COOKIEFILE") =
              IF tor.auth = "cookie" THEN {tor.path} ELSE {}
         /\ ControlWords(AuthText) # <<>> /\ ControlWords(AuthText)[1] = <<"AUTH">>
<1> DEFINE a == <<"AUTH">>
           w == ControlWords(AuthText)
<1>1. MethodsText \in Text /\ tor.path \in Text
  BY MethodsOffered DEF Plain, TorOK
<1>2. /\ Prefixed(MethodsWord, "METHODS") /\ ~Prefixed(MethodsWord, "COOKIEFILE")
      /\ After(MethodsWord, 2) = MethodsText
  <2>1. /\ Len(MethodsWord) >= 2 /\ MethodsWord[1] = "METHODS" /\ MethodsWord[2] = Equals
        /\ After(MethodsWord, 2) = MethodsText
    BY <1>1, InfoNames, NamedAlways DEF MethodsWord
  <2> QED
    BY <2>1 DEF Prefixed
<1>3. /\ Prefixed(FileWord, "COOKIEFILE") /\ ~Prefixed(FileWord, "METHODS")
      /\ After(FileWord, 2) = tor.path
  <2>1. /\ Len(FileWord) >= 2 /\ FileWord[1] = "COOKIEFILE" /\ FileWord[2] = Equals
        /\ After(FileWord, 2) = tor.path
    BY <1>1, InfoNames, NamedAlways DEF FileWord
  <2> QED
    BY <2>1 DEF Prefixed
<1>4. \A name : ~Prefixed(a, name)
  BY DEF Prefixed
<1> HIDE DEF a
<1>5. CASE tor.auth = "cookie"
  <2>1. w = <<a, MethodsWord, FileWord>>
    BY <1>5, AuthTextRead DEF a
  <2>2. /\ DOMAIN w = 1 .. 3 /\ w[1] = a /\ w[2] = MethodsWord /\ w[3] = FileWord
        /\ \A i \in 1 .. 3 : i = 1 \/ i = 2 \/ i = 3
    BY <2>1
  <2> HIDE DEF w
  <2>3. Field(w, "METHODS") = {After(w[2], 2)}
    BY <1>2, <1>3, <1>4, <2>2, FieldOne
  <2>4. Field(w, "COOKIEFILE") = {After(w[3], 2)}
    BY <1>2, <1>3, <1>4, <2>2, FieldOne
  <2>5. w # <<>>
    BY <2>2
  <2> QED
    BY <1>2, <1>3, <1>5, <2>2, <2>3, <2>4, <2>5 DEF w, a
<1>6. CASE tor.auth # "cookie"
  <2>1. w = <<a, MethodsWord>>
    BY <1>6, AuthTextRead DEF a
  <2>2. /\ DOMAIN w = 1 .. 2 /\ w[1] = a /\ w[2] = MethodsWord
        /\ \A i \in 1 .. 2 : i = 1 \/ i = 2
    BY <2>1
  <2> HIDE DEF w
  <2>3. Field(w, "METHODS") = {After(w[2], 2)}
    BY <1>2, <1>4, <2>2, FieldOne
  <2>4. Field(w, "COOKIEFILE") = {}
    BY <1>2, <1>4, <2>2, FieldIn
  <2>5. w # <<>>
    BY <2>2
  <2> QED
    BY <1>2, <1>6, <2>2, <2>3, <2>4, <2>5 DEF w, a
<1> QED
  BY <1>5, <1>6

\* The line that tells of authentication is found, whatever the file is called and wherever
\* the answer ends.
LEMMA InfoRead ==
  ASSUME TorOK, NEW z \in Lasts
  PROVE  /\ ProtocolInfo(Append(InfoLines, z)).methods = Offered
         /\ ProtocolInfo(Append(InfoLines, z)).file = IF tor.auth = "cookie" THEN {tor.path} ELSE {}
<1> DEFINE lines == Append(InfoLines, z)
           w == ControlWords(AuthText)
           auth == {i \in DOMAIN lines : Begins(lines[i], "AUTH")}
           some == {i \in auth : Field(WordsOf(lines[i]), "METHODS") # {}}
           file == IF tor.auth = "cookie" THEN {tor.path} ELSE {}
<1>1. /\ lines \in Seq(Lines) /\ Len(lines) = 4 /\ DOMAIN lines = 1 .. 4
      /\ lines[1] = TextLine(InfoText) /\ lines[2] = TextLine(AuthText)
      /\ lines[3] = TextLine(VersionText) /\ lines[4] = z
  <2>1. /\ InfoLines \in Seq(Lines) /\ Len(InfoLines) = 3 /\ z \in Lines
        /\ InfoLines[1] = TextLine(InfoText)
        /\ InfoLines[2] = TextLine(AuthText) /\ InfoLines[3] = TextLine(VersionText)
    BY InfoMeant, LastsQuiet
  <2>2. /\ lines \in Seq(Lines) /\ Len(lines) = Len(InfoLines) + 1
        /\ lines[Len(InfoLines) + 1] = z
        /\ \A i \in 1 .. Len(InfoLines) : lines[i] = InfoLines[i]
    <3>1. InfoLines \in Seq(Lines) /\ z \in Lines
      BY <2>1
    <3> QED
      BY ONLY <3>1, AppendProperties
  <2> HIDE DEF lines
  <2>3. 1 \in 1 .. 3 /\ 2 \in 1 .. 3 /\ 3 \in 1 .. 3 /\ 3 + 1 = 4
    OBVIOUS
  <2>4. Len(lines) = 4 /\ lines[4] = z
    BY <2>1, <2>2, <2>3
  <2>5. lines[1] = InfoLines[1] /\ lines[2] = InfoLines[2] /\ lines[3] = InfoLines[3]
    BY <2>1, <2>2, <2>3
  <2>6. DOMAIN lines = 1 .. 4
    BY <2>2, <2>4, LenProperties
  <2> QED
    BY <2>1, <2>2, <2>4, <2>5, <2>6
<1>2. \A t : WordsOf(TextLine(t)) = ControlWords(t) /\ TextLine(t).kind = "text"
  BY DEF WordsOf, TextLine
<1>3. /\ Field(w, "METHODS") = {MethodsText} /\ Field(w, "COOKIEFILE") = file
      /\ w # <<>> /\ w[1] = <<"AUTH">>
  BY AuthFields
<1> HIDE DEF lines, w
<1>4. \A i \in 1 .. 4 : Begins(lines[i], "AUTH") <=> i = 2
  <2>1. Begins(lines[2], "AUTH")
    BY <1>1, <1>2, <1>3 DEF Begins, w
  <2>2. ~Begins(lines[1], "AUTH")
    <3>1. ControlWords(InfoText)[1] = <<"PROTOCOLINFO">>
      BY InfoTextRead
    <3>2. <<"PROTOCOLINFO">> # <<"AUTH">>
      OBVIOUS
    <3> QED
      BY <1>1, <1>2, <3>1, <3>2 DEF Begins
  <2>3. ~Begins(lines[3], "AUTH")
    <3>1. ControlWords(VersionText)[1] = <<"VERSION">>
      BY VersionTextRead
    <3>2. <<"VERSION">> # <<"AUTH">>
      OBVIOUS
    <3> QED
      BY <1>1, <1>2, <3>1, <3>2 DEF Begins
  <2>4. ~Begins(lines[4], "AUTH")
    BY <1>1, LastsQuiet
  <2>5. \A i \in 1 .. 4 : i = 1 \/ i = 2 \/ i = 3 \/ i = 4
    OBVIOUS
  <2> QED
    BY <2>1, <2>2, <2>3, <2>4, <2>5
<1>5. auth = {2}
  BY <1>1, <1>4
<1>6. WordsOf(lines[2]) = w
  BY <1>1, <1>2 DEF w
<1> HIDE DEF auth
<1>7. some = {2}
  BY <1>3, <1>5, <1>6
<1> HIDE DEF some, file
<1>8. LastAt(lines, auth) = {lines[2]} /\ LastAt(lines, some) = {lines[2]}
  <2>1. LastAt(lines, {2}) = {lines[2]}
    BY DEF LastAt
  <2> QED
    BY ONLY <1>5, <1>7, <2>1, Zenon
<1>9. UNION {Field(WordsOf(l), "METHODS") : l \in {lines[2]}} = {MethodsText}
  BY <1>3, <1>6
<1>10. UNION {Field(WordsOf(l), "COOKIEFILE") : l \in {lines[2]}} = file
  BY <1>3, <1>6
<1>11. UNION {{m[i] : i \in DOMAIN m} \ {Comma} : m \in {MethodsText}} = Offered
  BY DEF Offered
<1>12. ProtocolInfo(lines).methods =
         UNION {{m[i] : i \in DOMAIN m} \ {Comma} :
                  m \in UNION {Field(WordsOf(l), "METHODS") : l \in LastAt(lines, some)}}
  BY DEF ProtocolInfo, auth, some
<1>13. ProtocolInfo(lines).file =
         UNION {Field(WordsOf(l), "COOKIEFILE") : l \in LastAt(lines, auth)}
  BY DEF ProtocolInfo, auth
<1> QED
  BY <1>8, <1>9, <1>10, <1>11, <1>12, <1>13 DEF lines, file

\* The client answers the challenge that it was given, when its cookie is that of Tor.
LEMMA ChallengeAnswered ==
  ASSUME cookie \in {TorCookie, OtherCookie}, NEW lines,
         lines = Challenge.lines
  PROVE  /\ cookie = TorCookie =>
              Challenged(lines) = [Goes("AUTHENTICATE") EXCEPT !.credential =
                                     Hash("client", cookie, ServerNonce)]
         /\ cookie # TorCookie => Challenged(lines) = Fails("hash")
<1> DEFINE w == ControlWords(ChallengeText)
           l == TextLine(ChallengeText)
           c == <<l>>
           hashes == {h \in UNION {Field(x, "SERVERHASH") : x \in ChallengeWords(lines)} : Len(h) = HashLen}
           nonces == {n \in UNION {Field(x, "SERVERNONCE") : x \in ChallengeWords(lines)} : Len(n) = 1}
<1>1. lines = c
  BY DEF Challenge
<1>2. /\ w = << <<"AUTHCHALLENGE">>, HashWord, NonceWord>>
      /\ Field(w, "SERVERHASH") = {ServerHash} /\ Field(w, "SERVERNONCE") = {ServerNonce}
  BY ChallengeRead
<1>3. w # <<>> /\ w[1] = <<"AUTHCHALLENGE">>
  BY <1>2
<1> HIDE DEF w
<1>4. l.kind = "text" /\ WordsOf(l) = w
  BY DEF TextLine, WordsOf, w
<1> HIDE DEF l
<1>5. DOMAIN c = {1} /\ c[1] = l
  OBVIOUS
<1> HIDE DEF c
<1>6. {i \in DOMAIN lines : Begins(lines[i], "AUTHCHALLENGE")} = {1}
  BY <1>1, <1>3, <1>4, <1>5 DEF Begins
<1>7. ChallengeWords(lines) = {w}
  <2>1. FirstAt(lines, {1}) = {lines[1]}
    BY DEF FirstAt
  <2>2. FirstAt(lines, {i \in DOMAIN lines : Begins(lines[i], "AUTHCHALLENGE")}) = {lines[1]}
    <3> DEFINE p == {i \in DOMAIN lines : Begins(lines[i], "AUTHCHALLENGE")}
    <3>1. p = {1}
      BY ONLY <1>6
    <3> HIDE DEF p
    <3>2. FirstAt(lines, p) = {lines[1]}
      BY ONLY <2>1, <3>1, Zenon
    <3> QED
      BY ONLY <3>2 DEF p
  <2>3. ChallengeWords(lines) = {WordsOf(x) : x \in {lines[1]}}
    BY ONLY <2>2 DEF ChallengeWords
  <2>4. WordsOf(lines[1]) = w
    BY <1>1, <1>4, <1>5
  <2> QED
    BY ONLY <2>3, <2>4
<1>8. hashes = {ServerHash}
  BY <1>2, <1>7, ServerHashTyped
<1>9. nonces = {ServerNonce}
  BY <1>2, <1>7, ServerHashTyped
<1> DEFINE nonce == CHOOSE n \in nonces : TRUE
<1>10. nonce = ServerNonce
  BY <1>9
<1>11. Challenged(lines) =
         IF hashes = {} \/ nonces = {} THEN Fails("protocol")
         ELSE IF hashes # {Hash("server", cookie, nonce)} THEN Fails("hash")
         ELSE [Goes("AUTHENTICATE") EXCEPT !.credential = Hash("client", cookie, nonce)]
  BY DEF Challenged
<1> HIDE DEF hashes, nonces, nonce
<1>12. cookie # TorCookie => Hash("server", cookie, ServerNonce) # ServerHash
  <2>1. "k" \in Symbol /\ "k2" \in Symbol
    BY ChallengeNames DEF Name
  <2>2. /\ Hash("server", <<"k">>, ServerNonce) = <<"server", "k", "cn", "sn">>
        /\ Hash("server", <<"k2">>, ServerNonce) = <<"server", "k2", "cn", "sn">>
    BY <2>1, HashIs
  <2>3. <<"server", "k", "cn", "sn">> # <<"server", "k2", "cn", "sn">>
    OBVIOUS
  <2> QED
    BY <2>2, <2>3 DEF ServerHash, TorCookie, OtherCookie
<1>13. CASE cookie = TorCookie
  <2>1. Hash("server", cookie, ServerNonce) = ServerHash
    BY <1>13 DEF ServerHash
  <2> QED
    BY <1>8, <1>9, <1>10, <1>11, <1>13, <2>1
<1>14. CASE cookie # TorCookie
  BY <1>8, <1>9, <1>10, <1>11, <1>12, <1>14
<1> QED
  BY <1>13, <1>14

\* It answers none that is cut.
LEMMA ChallengeNotAnswered ==
  ASSUME CutWhole(Challenge.code, Challenge.lines, reply)
  PROVE  Challenged(reply.lines) = Fails("protocol")
<1> DEFINE t == ChallengeText
           c == <<TextLine(t)>>
           lines == reply.lines
           nonces == {n \in UNION {Field(x, "SERVERNONCE") : x \in ChallengeWords(lines)} : Len(n) = 1}
<1>1. Challenge.lines = c
  BY DEF Challenge
<1>2. BlankSecond(t) /\ Payload(TextLine(t)) = t
  <2>1. BlankSecond(t) /\ t \in Text
    BY ChallengeRead DEF BlankSecond
  <2> QED
    BY <2>1, TextMeant
<1>3. Len(c) = 1 /\ c[1] = TextLine(t) /\ Front(c) = <<>>
  BY DEF Front
<1> HIDE DEF t, c
<1>4. PICK m \in 0 .. Len(t) - 1 : lines = Append(<<>>, ParsePayload(Upto(t, m)))
  BY <1>1, <1>2, <1>3 DEF CutWhole
<1>5. m \in 0 .. Len(t)
  <2>1. Len(t) \in Nat
    BY <1>2, LenProperties DEF BlankSecond, Text
  <2> QED
    BY <2>1
<1> DEFINE l == TextLine(Upto(t, m))
<1>6. l \in Lines /\ ParsePayload(Upto(t, m)) = l
  BY <1>2, <1>5, PartIsRead, TextLineTyped
<1>7. WordsOf(l) = ControlWords(Upto(t, m))
  BY DEF WordsOf, TextLine
<1> HIDE DEF l
<1>8. lines = <<l>>
  BY <1>4, <1>6, AppendFirst
<1>9. DOMAIN lines = {1} /\ lines[1] = l
  BY <1>8
<1>10. \A n \in Field(ControlWords(Upto(t, m)), "SERVERNONCE") : Len(n) # 1
  BY ChallengeCut DEF t
<1>11. \A x \in ChallengeWords(lines) : x = ControlWords(Upto(t, m))
  BY <1>7, <1>9 DEF ChallengeWords, FirstAt
<1>12. nonces = {}
  BY <1>10, <1>11
<1>13. nonces = {} => Challenged(lines) = Fails("protocol")
  BY DEF Challenged
<1> QED
  BY <1>12, <1>13

\* The listeners that the client finds are those that Tor has bound to a port.
LEMMA ListenersFound ==
  ASSUME TorOK, NEW z \in Lasts
  PROVE  SocksListeners(Append(<<ListenersLine>>, z)) = {i \in DOMAIN tor.bound : tor.bound[i] = "tcp"}
<1> DEFINE l == ListenersLine
           t == FlattenSeq(Pieces(tor.bound))
           lines == <<l, z>>
           key == <<"net/listeners/socks">>
           at == {i \in DOMAIN lines : lines[i].kind = "pair" /\ lines[i].key = key}
           tcp == {i \in DOMAIN tor.bound : tor.bound[i] = "tcp"}
<1>1. tor.bound \in Seq(Listed) /\ DOMAIN tor.bound = 1 .. Len(tor.bound)
      /\ \A i \in DOMAIN tor.bound : tor.bound[i] \in {"tcp", "unix"}
  BY LenProperties, ElementOfSeq DEF TorOK, Listed
<1>2. l.kind = "pair" /\ l.key = key /\ WordsOf(l) = ControlWords(t)
  BY DEF ListenersLine, PairLine, WordsOf
<1>3. WordsOf(l) = Singles(tor.bound)
  BY <1>1, <1>2, ListenersRead
<1>4. l \in Lines /\ z \in Lines /\ z.kind = "text"
  <2>1. t \in Text
    BY <1>1, PiecesTyped
  <2>2. key \in Text
    BY TextTyped DEF Symbol, Words3
  <2>3. l = PairLine(key, t)
    BY DEF ListenersLine
  <2> HIDE DEF key, t, l
  <2>4. l \in Lines
    BY <2>1, <2>2, <2>3, PairLineTyped
  <2> QED
    BY <2>4, LastsQuiet
<1> HIDE DEF l, key
<1>5. Append(<<l>>, z) = lines
  BY <1>4, PairOfSymbols
<1>6. DOMAIN lines = {1, 2} /\ lines[1] = l /\ lines[2] = z
  OBVIOUS
<1> HIDE DEF lines
<1>7. at = {1}
  BY <1>2, <1>4, <1>6
<1> HIDE DEF at
<1>8. FirstAt(lines, {1}) = {l}
  BY <1>6 DEF FirstAt
<1>9. FirstAt(lines, at) = {l}
  BY ONLY <1>7, <1>8, Zenon
<1>10. SocksListeners(lines) =
         UNION {{i \in DOMAIN WordsOf(x) : WordsOf(x)[i][1] # "unix"} : x \in FirstAt(lines, at)}
  BY DEF SocksListeners, at, key
<1>11. UNION {{i \in DOMAIN WordsOf(x) : WordsOf(x)[i][1] # "unix"} : x \in {l}}
         = {i \in DOMAIN WordsOf(l) : WordsOf(l)[i][1] # "unix"}
  OBVIOUS
<1>12. SocksListeners(lines) = {i \in DOMAIN WordsOf(l) : WordsOf(l)[i][1] # "unix"}
  BY ONLY <1>9, <1>10, <1>11, Zenon
<1>13. {i \in DOMAIN WordsOf(l) : WordsOf(l)[i][1] # "unix"} = tcp
  <2>1. DOMAIN Singles(tor.bound) = 1 .. Len(tor.bound)
        /\ \A i \in 1 .. Len(tor.bound) : Singles(tor.bound)[i] = <<tor.bound[i]>>
    BY DEF Singles
  <2>2. \A i \in 1 .. Len(tor.bound) : Singles(tor.bound)[i][1] = tor.bound[i]
    BY <2>1
  <2> QED
    BY <1>1, <1>3, <2>1, <2>2
<1> QED
  BY <1>5, <1>12, <1>13 DEF l

\* Where the client goes when it has read a reply.
Went ==
  \/ stage = "text" /\ Outcome = Goes("up")
  \/ stage # "text" /\ broken /\ \E why \in {"closed", "protocol"} : Outcome = Fails(why)
  \/ stage # "text" /\ meant.code # "250" /\ Outcome = Fails("refused")
  \/ stage = "PROTOCOLINFO" /\ tor.auth = "cookie" /\ jar = <<>> /\ Outcome = Fails("cookie")
  \/ stage = "PROTOCOLINFO" /\ tor.auth = "cookie" /\ jar # <<>> /\ tor.safe
       /\ Outcome = [Goes("AUTHCHALLENGE") EXCEPT !.cookie = jar]
  \/ stage = "PROTOCOLINFO" /\ tor.auth = "cookie" /\ jar # <<>> /\ ~tor.safe
       /\ Outcome = [Goes("AUTHENTICATE") EXCEPT !.cookie = jar, !.credential = jar]
  \/ stage = "PROTOCOLINFO" /\ tor.auth = "hashed" /\ Outcome = Fails("unsupported")
  \/ stage = "PROTOCOLINFO" /\ tor.auth = "none" /\ Outcome = Goes("AUTHENTICATE")
  \/ stage = "AUTHCHALLENGE" /\ cookie = TorCookie
       /\ Outcome = [Goes("AUTHENTICATE") EXCEPT !.credential = Hash("client", cookie, ServerNonce)]
  \/ stage = "AUTHCHALLENGE" /\ cookie = OtherCookie /\ Outcome = Fails("hash")
  \/ stage = "AUTHENTICATE" /\ authed /\ Outcome = Goes("TAKEOWNERSHIP")
  \/ stage = "TAKEOWNERSHIP" /\ Outcome = Goes("RESETCONF")
  \/ stage = "RESETCONF" /\ Outcome = Goes("phase")
  \/ stage = "phase" /\ \E to \in {"phase", "listeners"} : Outcome = Goes(to)
  \/ stage = "listeners" /\ Outcome = [Goes("up") EXCEPT !.outcome = "ok"]
  \/ stage = "listeners" /\ Cardinality({i \in DOMAIN tor.bound : tor.bound[i] = "tcp"}) # 1
       /\ Outcome = Fails("listeners")

\* With the information that Tor gives, the client asks for a challenge, or shows what it
\* has read, or it cannot.
LEMMA AuthenticateGoes ==
  ASSUME TorOK, AuthInv, stage = "PROTOCOLINFO",
         NEW info, info.methods = Offered,
         info.file = IF tor.auth = "cookie" THEN {tor.path} ELSE {},
         Outcome = Authenticate(info)
  PROVE  Went
<1>1. jar \in {<<>>, TorCookie, OtherCookie}
  BY DEF AuthInv
<1>2. Len(<<>>) # 1 /\ Len(TorCookie) = 1 /\ Len(OtherCookie) = 1
  BY DEF TorCookie, OtherCookie
<1>3. tor.auth = "cookie" => CookieFile(info.file) = jar
  BY DEF CookieFile
<1>4. /\ "COOKIE" # "SAFECOOKIE" /\ "COOKIE" # "NULL" /\ "COOKIE" # "HASHEDPASSWORD"
      /\ "SAFECOOKIE" # "NULL" /\ "SAFECOOKIE" # "HASHEDPASSWORD" /\ "NULL" # "HASHEDPASSWORD"
  OBVIOUS
<1>5. CASE tor.auth = "cookie"
  <2>1. info.methods = {"COOKIE"} \cup (IF tor.safe THEN {"SAFECOOKIE"} ELSE {})
    BY <1>5, MethodsOffered
  <2>2. info.methods # {} /\ info.methods \cap {"SAFECOOKIE", "COOKIE"} # {}
        /\ "COOKIE" \in info.methods /\ ("SAFECOOKIE" \in info.methods <=> tor.safe)
    BY <1>4, <2>1 DEF TorOK
  <2>3. CASE jar = <<>>
    <3>1. Outcome = Fails("cookie")
      BY <1>2, <1>3, <1>5, <2>2, <2>3 DEF Authenticate
    <3> QED
      BY <1>5, <2>3, <3>1 DEF Went
  <2>4. CASE jar # <<>> /\ tor.safe
    <3>1. Outcome = [Goes("AUTHCHALLENGE") EXCEPT !.cookie = jar]
      BY <1>1, <1>2, <1>3, <1>5, <2>2, <2>4 DEF Authenticate
    <3> QED
      BY <1>5, <2>4, <3>1 DEF Went
  <2>5. CASE jar # <<>> /\ ~tor.safe
    <3>1. Outcome = [Goes("AUTHENTICATE") EXCEPT !.cookie = jar, !.credential = jar]
      BY <1>1, <1>2, <1>3, <1>5, <2>2, <2>5 DEF Authenticate
    <3> QED
      BY <1>5, <2>5, <3>1 DEF Went
  <2> QED
    BY <2>3, <2>4, <2>5
<1>6. CASE tor.auth = "hashed"
  <2>1. info.methods = {"HASHEDPASSWORD"}
    BY <1>6, MethodsOffered
  <2>2. Outcome = Fails("unsupported")
    BY <1>4, <2>1 DEF Authenticate
  <2> QED
    BY <1>6, <2>2 DEF Went
<1>7. CASE tor.auth = "none"
  <2>1. info.methods = {"NULL"}
    BY <1>7, MethodsOffered
  <2>2. Outcome = Goes("AUTHENTICATE")
    BY <1>4, <2>1 DEF Authenticate
  <2> QED
    BY <1>7, <2>2 DEF Went
<1> QED
  BY <1>5, <1>6, <1>7 DEF TorOK

LEMMA HandleGoes ==
  ASSUME BuilderInv, FrameInv, AuthInv, asked, ~Reading
  PROVE  Went
<1>1. stage \in Commands /\ TorOK
  BY DEF BuilderInv, FrameInv
<1>2. CASE stage = "text"
  BY <1>2 DEF Outcome, Went
<1>3. CASE stage # "text" /\ reply.at # "whole"
  <2>1. broken /\ reply.at \in {"failed", "none"}
    BY <1>3, HandledReply
  <2>2. Outcome = Fails("closed") \/ Outcome = Fails("protocol")
    BY <1>3, <2>1 DEF Outcome
  <2> QED
    BY <1>3, <2>1, <2>2 DEF Went
<1>4. CASE stage # "text" /\ reply.at = "whole" /\ reply.code # "250"
  <2>1. meant.code # "250"
    BY <1>4, HandledReply
  <2>2. Outcome = Fails("refused")
    BY <1>4 DEF Outcome
  <2> QED
    BY <1>4, <2>1, <2>2 DEF Went
<1>5. CASE stage # "text" /\ reply.at = "whole" /\ reply.code = "250"
  <2>1. /\ Given /\ meant.code = "250" /\ meant \in Replies(stage)
        /\ \/ reply.lines = meant.lines
           \/ broken /\ CutWhole(meant.code, meant.lines, reply)
    BY <1>5, HandledReply DEF Given
  <2>2. Outcome = Succeeds(reply.lines)
    BY <1>5 DEF Outcome
  <2>3. meant # Refusal /\ meant # Rejection
    BY <2>1 DEF Refusal, Rejection
  <2>4. CASE stage = "PROTOCOLINFO"
    <3>1. meant = Answer(InfoLines)
      BY <1>1, <2>1, <2>3, <2>4, RepliesAre
    <3>2. PICK z \in Lasts : reply.lines = Append(InfoLines, z)
      BY <1>1, <2>1, <3>1, InfoMeant, AnswerRead
    <3>3. Outcome = Authenticate(ProtocolInfo(reply.lines))
      BY <2>2, <2>4 DEF Succeeds
    <3> QED
      BY <1>1, <2>4, <3>2, <3>3, InfoRead, AuthenticateGoes
  <2>5. CASE stage = "AUTHCHALLENGE"
    <3>1. meant = Challenge
      BY <1>1, <2>1, <2>3, <2>5, RepliesAre
    <3>2. cookie \in {TorCookie, OtherCookie}
      BY <2>5 DEF AuthInv
    <3>3. Outcome = Challenged(reply.lines)
      BY <2>2, <2>5 DEF Succeeds
    <3>4. CASE reply.lines = Challenge.lines
      BY <2>5, <3>2, <3>3, <3>4, ChallengeAnswered DEF Went
    <3>5. CASE broken /\ CutWhole(Challenge.code, Challenge.lines, reply)
      <4>1. Outcome = Fails("protocol")
        BY <3>3, <3>5, ChallengeNotAnswered
      <4> QED
        BY <2>5, <3>5, <4>1 DEF Went
    <3> QED
      BY <2>1, <3>1, <3>4, <3>5
  <2>6. CASE stage = "AUTHENTICATE"
    <3>1. authed
      BY <2>1, <2>6 DEF Given
    <3> QED
      BY <2>2, <2>6, <3>1 DEF Succeeds, Went
  <2>7. CASE stage \in {"TAKEOWNERSHIP", "RESETCONF"}
    BY <2>2, <2>7 DEF Succeeds, Went
  <2>8. CASE stage = "phase"
    BY <2>2, <2>8 DEF Succeeds, Went
  <2>9. CASE stage = "listeners"
    <3>1. meant = Answer(<<ListenersLine>>)
      BY <1>1, <2>1, <2>3, <2>9, RepliesAre DEF Before
    <3>2. <<ListenersLine>> \in Seq(Lines)
      <4>1. ListenersLine \in Lines
        <5>1. FlattenSeq(Pieces(tor.bound)) \in Text
          BY <1>1, PiecesTyped DEF TorOK, Listed
        <5>2. <<"net/listeners/socks">> \in Text
          BY TextTyped DEF Symbol, Words3
        <5> QED
          BY <5>1, <5>2, PairLineTyped DEF ListenersLine
      <4> QED
        BY <4>1
    <3>3. PICK z \in Lasts : reply.lines = Append(<<ListenersLine>>, z)
      BY <2>1, <3>1, <3>2, AnswerRead
    <3>4. SocksListeners(reply.lines) = {i \in DOMAIN tor.bound : tor.bound[i] = "tcp"}
      BY <1>1, <3>3, ListenersFound
    <3>5. Outcome = IF Cardinality(SocksListeners(reply.lines)) = 1
                    THEN [Goes("up") EXCEPT !.outcome = "ok"] ELSE Fails("listeners")
      BY <2>2, <2>9 DEF Succeeds
    <3> QED
      BY <2>9, <3>4, <3>5 DEF Went
  <2> QED
    BY <1>1, <1>5, <2>4, <2>5, <2>6, <2>7, <2>8, <2>9 DEF Commands
<1> QED
  BY <1>2, <1>3, <1>4, <1>5

-----------------------------------------------------------------------------
(* What the client knows, and how a start ends.                            *)

LEMMA InitAuth == Init => AuthInv /\ EndInv
<1> SUFFICES ASSUME Init PROVE AuthInv /\ EndInv
  OBVIOUS
<1>1. AuthInv
  BY DEF Init, AuthInv, Starting, Entered
<1>2. FailuresExplained
  BY DEF Init, FailuresExplained
<1>3. EndInv
  BY <1>2 DEF Init, EndInv, Starting, Commands
<1> QED
  BY <1>1, <1>3

\* A cookie is no hash.
LEMMA NoHash ==
  /\ Len(<<>>) = 0 /\ Len(TorCookie) = 1 /\ Len(OtherCookie) = 1
  /\ TorCookie # <<>> /\ OtherCookie # <<>> /\ TorCookie # OtherCookie
  /\ Len(Hash("client", TorCookie, ServerNonce)) = 4
<1>1. Hash("client", TorCookie, ServerNonce) = <<"client", "k", "cn", "sn">>
  BY HashIs, ChallengeNames DEF TorCookie, Name
<1>2. <<"k">> # <<"k2">>
  <2>1. <<"k">>[1] = "k" /\ <<"k2">>[1] = "k2"
    OBVIOUS
  <2> QED
    BY <2>1
<1> QED
  BY <1>1, <1>2 DEF TorCookie, OtherCookie

\* Tor lets in only who has its cookie, if it asks for that.
LEMMA AcceptedKnows ==
  ASSUME AuthInv, Accepted, tor.auth = "cookie"
  PROVE  cookie = TorCookie
<1>1. credential \in {TorCookie, Hash("client", TorCookie, ServerNonce)}
  BY DEF Accepted
<1>2. Len(credential) > 0
  BY <1>1, NoHash
<1>3. CASE credential = cookie
  <2>1. cookie \in {<<>>, TorCookie, OtherCookie}
    BY DEF AuthInv
  <2> QED
    BY <1>1, <1>3, <2>1, NoHash
<1> QED
  BY <1>2, <1>3, NoHash DEF AuthInv

LEMMA CommandAuth == BuilderInv /\ FrameInv /\ AuthInv /\ Command => AuthInv'
<1> SUFFICES ASSUME BuilderInv, FrameInv, AuthInv, Command PROVE AuthInv'
  OBVIOUS
<1>1. /\ stage \in Commands /\ stage' = stage /\ cookie' = cookie /\ credential' = credential
      /\ tor' = tor /\ jar' = jar
  BY DEF Command
<1>2. CASE authed' = authed
  BY <1>1, <1>2 DEF AuthInv
<1>3. CASE authed' # authed
  <2>1. PICK r \in Replies(stage) : authed' = (authed \/ (stage = "AUTHENTICATE" /\ r.code = "250"))
    BY <1>3 DEF Command
  <2>2. stage = "AUTHENTICATE" /\ r.code = "250" /\ authed'
    BY <1>3, <2>1 DEF FrameInv
  <2>3. Rejection.code = "515"
    BY DEF Rejection, Refusal
  <2>4. Accepted
    BY <1>1, <2>2, <2>3, RepliesAre DEF Before
  <2>5. tor.auth = "cookie" => cookie = TorCookie
    BY <2>4, AcceptedKnows
  <2>6. stage \notin Starting \cup {"AUTHCHALLENGE"} /\ stage \notin Entered
    BY <2>2 DEF Starting, Entered
  <2> QED
    BY <1>1, <2>2, <2>5, <2>6 DEF AuthInv
<1> QED
  BY <1>2, <1>3

LEMMA HandleAuth == BuilderInv /\ FrameInv /\ AuthInv /\ Handle => AuthInv'
<1> SUFFICES ASSUME BuilderInv, FrameInv, AuthInv, Handle PROVE AuthInv'
  OBVIOUS
<1>1. /\ asked /\ ~Reading /\ stage' = Outcome.to /\ cookie' = Outcome.cookie
      /\ credential' = Outcome.credential /\ tor' = tor /\ jar' = jar /\ authed' = authed
      /\ stage \in Commands
  BY DEF Handle, server, BuilderInv
<1>2. Went
  BY <1>1, HandleGoes
<1>3. \A why : /\ Fails(why).to = "failed" /\ Fails(why).cookie = cookie
               /\ Fails(why).credential = credential
  BY DEF Fails, Goes
<1>4. \A to : Goes(to).to = to /\ Goes(to).cookie = cookie /\ Goes(to).credential = credential
  BY DEF Goes
<1>5. ASSUME NEW why, Outcome = Fails(why) PROVE AuthInv'
  <2>1. stage' = "failed" /\ cookie' = cookie /\ credential' = credential
    BY <1>1, <1>3, <1>5
  <2> QED
    BY <1>1, <2>1 DEF AuthInv, Starting, Entered
<1>6. ASSUME NEW to \in Entered, Outcome = Goes(to), authed PROVE AuthInv'
  <2>1. stage' = to /\ cookie' = cookie /\ credential' = credential
    BY <1>1, <1>4, <1>6
  <2> QED
    BY <1>1, <1>6, <2>1 DEF AuthInv, Starting, Entered
<1>7. CASE stage = "PROTOCOLINFO" /\ tor.auth = "cookie" /\ jar # <<>> /\ tor.safe
           /\ Outcome = [Goes("AUTHCHALLENGE") EXCEPT !.cookie = jar]
  <2>1. stage' = "AUTHCHALLENGE" /\ cookie' = jar /\ credential' = credential
    BY <1>1, <1>7 DEF Goes
  <2> QED
    BY <1>1, <1>7, <2>1 DEF AuthInv, Starting, Entered
<1>8. CASE stage = "PROTOCOLINFO" /\ tor.auth = "cookie" /\ jar # <<>> /\ ~tor.safe
           /\ Outcome = [Goes("AUTHENTICATE") EXCEPT !.cookie = jar, !.credential = jar]
  <2>1. stage' = "AUTHENTICATE" /\ cookie' = jar /\ credential' = jar
    BY <1>1, <1>8 DEF Goes
  <2> QED
    BY <1>1, <1>8, <2>1 DEF AuthInv, Starting, Entered
<1>9. CASE stage = "PROTOCOLINFO" /\ tor.auth = "none" /\ Outcome = Goes("AUTHENTICATE")
  <2>1. stage' = "AUTHENTICATE" /\ cookie' = cookie /\ credential' = credential
    BY <1>1, <1>4, <1>9
  <2> QED
    BY <1>1, <1>9, <2>1 DEF AuthInv, Starting, Entered
<1>10. CASE stage = "AUTHCHALLENGE" /\ cookie = TorCookie
            /\ Outcome = [Goes("AUTHENTICATE") EXCEPT !.credential = Hash("client", cookie, ServerNonce)]
  <2>1. /\ stage' = "AUTHENTICATE" /\ cookie' = cookie
        /\ credential' = Hash("client", cookie, ServerNonce)
    BY <1>1, <1>10 DEF Goes
  <2> QED
    BY <1>1, <1>10, <2>1 DEF AuthInv, Starting, Entered
<1>11. CASE stage = "AUTHENTICATE" /\ authed /\ Outcome = Goes("TAKEOWNERSHIP")
  BY <1>6, <1>11 DEF Entered
<1>12. stage \in Entered => authed
  BY DEF AuthInv
<1>13. CASE stage \in Entered /\ \E to \in Entered : Outcome = Goes(to)
  BY <1>6, <1>12, <1>13
<1>14. CASE stage = "listeners" /\ Outcome = [Goes("up") EXCEPT !.outcome = "ok"]
  <2>1. stage' = "up" /\ cookie' = cookie /\ credential' = credential /\ authed
    BY <1>1, <1>12, <1>14 DEF Goes, Entered
  <2> QED
    BY <1>1, <2>1 DEF AuthInv, Starting, Entered
<1> QED
  BY <1>2, <1>5, <1>7, <1>8, <1>9, <1>10, <1>11, <1>13, <1>14 DEF Went, Entered

LEMMA StepKeepsAuth == BuilderInv /\ FrameInv /\ AuthInv /\ [Next]_vars => AuthInv'
<1> SUFFICES ASSUME BuilderInv, FrameInv, AuthInv, [Next]_vars PROVE AuthInv'
  OBVIOUS
<1>1. CASE Configure \/ AddRaw \/ StartManaged \/ Break \/ Read \/ UNCHANGED vars
  <2>1. /\ stage' = stage /\ cookie' = cookie /\ credential' = credential
        /\ tor' = tor /\ jar' = jar /\ authed' = authed
    BY <1>1 DEF Configure, AddRaw, StartManaged, Break, Read, vars, client, server
  <2> QED
    BY <2>1 DEF AuthInv
<1>2. CASE Build
  <2>1. /\ stage = "build" /\ stage' \in {"built", "failed"} /\ cookie' = cookie
        /\ credential' = credential /\ tor' = tor /\ jar' = jar /\ authed' = authed
    BY <1>2 DEF Build, server
  <2> QED
    BY <2>1 DEF AuthInv, Starting, Entered
<1>3. CASE Launch
  <2>1. /\ stage = "built" /\ stage' = "PROTOCOLINFO" /\ cookie' = cookie
        /\ credential' = credential /\ authed' = authed /\ jar' \in {TorCookie, OtherCookie, <<>>}
    BY <1>3 DEF Launch
  <2>2. cookie = <<>> /\ credential = <<>> /\ ~authed
    BY <2>1 DEF AuthInv, Starting
  <2> QED
    BY <2>1, <2>2 DEF AuthInv, Starting, Entered
<1>4. CASE Command
  BY <1>4, CommandAuth
<1>5. CASE Handle
  BY <1>5, HandleAuth
<1>6. CASE Timeout
  <2>1. /\ stage' = "failed" /\ cookie' = cookie /\ credential' = credential
        /\ tor' = tor /\ jar' = jar /\ authed' = authed
    BY <1>6 DEF Timeout, server
  <2> QED
    BY <2>1 DEF AuthInv, Starting, Entered
<1>7. CASE Ask
  <2>1. /\ stage = "up" /\ stage' = "text" /\ cookie' = cookie /\ credential' = credential
        /\ tor' = tor /\ jar' = jar /\ authed' = authed
    BY <1>7 DEF Ask, server
  <2> QED
    BY <2>1 DEF AuthInv, Starting, Entered
<1> QED
  BY <1>1, <1>2, <1>3, <1>4, <1>5, <1>6, <1>7 DEF Next

\* The client proves that it knows the cookie only to a Tor that has proved the same
\* (authenticate_safecookie), whatever its cookie file is called and whatever it holds.
THEOREM ServerIsProved == Spec => []ServerProved
<1>1. Spec => [](BuilderInv /\ TextInv /\ FrameInv /\ AuthInv)
  BY InitBuilder, StepKeepsBuilder, InitText, StepKeepsText, InitFrame, StepKeepsFrame,
     InitAuth, StepKeepsAuth, PTL DEF Spec
<1>2. AuthInv => ServerProved
  <2> SUFFICES ASSUME AuthInv, Len(credential) = HashLen PROVE cookie = TorCookie
    BY DEF ServerProved
  <2>1. cookie \in {<<>>, TorCookie, OtherCookie}
    BY DEF AuthInv
  <2> QED
    BY <2>1, NoHash DEF AuthInv, HashLen
<1> QED
  BY <1>1, <1>2, PTL

\* An end that is explained stays so, when nothing changes of what explains it.
LEMMA ExplainedSame ==
  ASSUME FailuresExplained, outcome' = outcome, broken => broken',
         tor' = tor, jar' = jar, meant' = meant
  PROVE  FailuresExplained'
  BY DEF FailuresExplained

LEMMA HandleEnd == BuilderInv /\ FrameInv /\ AuthInv /\ EndInv /\ Handle => EndInv'
<1> SUFFICES ASSUME BuilderInv, FrameInv, AuthInv, EndInv, Handle PROVE EndInv'
  OBVIOUS
<1>1. /\ asked /\ ~Reading /\ stage' = Outcome.to /\ outcome' = Outcome.outcome
      /\ tor' = tor /\ jar' = jar /\ meant' = meant /\ broken' = broken /\ stage \in Commands
  BY DEF Handle, server, BuilderInv
<1>2. Went
  BY <1>1, HandleGoes
<1>3. \A why : Fails(why).to = "failed" /\ Fails(why).outcome = why
  BY DEF Fails, Goes
<1>4. \A to : Goes(to).to = to /\ Goes(to).outcome = outcome
  BY DEF Goes
<1>5. /\ stage # "text" => outcome = "none"
      /\ stage = "text" => outcome = "ok"
  BY <1>1 DEF EndInv
<1> DEFINE tcp == {i \in DOMAIN tor.bound : tor.bound[i] = "tcp"}
<1>6. ASSUME NEW why, Outcome = Fails(why),
             \/ why \in {"closed", "protocol"} /\ broken
             \/ why = "cookie" /\ tor.auth = "cookie" /\ jar = <<>>
             \/ why = "hash" /\ jar = OtherCookie /\ tor.safe
             \/ why = "unsupported" /\ tor.auth = "hashed"
             \/ why = "refused" /\ meant.code # "250"
             \/ why = "listeners" /\ Cardinality(tcp) # 1
      PROVE  EndInv'
  <2>1. stage' = "failed" /\ outcome' = why
    BY <1>1, <1>3, <1>6
  <2>2. tcp' = tcp
    BY <1>1
  <2> HIDE DEF tcp
  <2>3. /\ outcome' \in {"closed", "protocol"} => broken'
        /\ outcome' = "cookie" => tor'.auth = "cookie" /\ jar' = <<>>
        /\ outcome' = "hash" => jar' = OtherCookie /\ tor'.safe
        /\ outcome' = "unsupported" => tor'.auth = "hashed"
        /\ outcome' = "refused" => meant'.code # "250"
        /\ outcome' = "listeners" => Cardinality(tcp') # 1
    BY <1>1, <1>6, <2>1, <2>2
  <2>4. FailuresExplained'
    BY <2>3 DEF FailuresExplained, tcp
  <2>5. outcome' \notin {"none", "ok"}
    BY <1>6, <2>1
  <2> QED
    BY <2>1, <2>4, <2>5 DEF EndInv, Starting, Commands
<1>7. ASSUME NEW to \in Starting \cup (Commands \ {"text"}), Outcome.to = to,
             Outcome.outcome = outcome, stage # "text"
      PROVE  EndInv'
  <2>1. stage' = to /\ outcome' = "none"
    BY <1>1, <1>5, <1>7
  <2>2. FailuresExplained'
    BY <2>1 DEF FailuresExplained
  <2> QED
    BY <1>7, <2>1, <2>2 DEF EndInv, Starting, Commands
<1>8. ASSUME Outcome.to = "up", Outcome.outcome = "ok" PROVE EndInv'
  <2>1. stage' = "up" /\ outcome' = "ok"
    BY <1>1, <1>8
  <2>2. FailuresExplained'
    BY <2>1 DEF FailuresExplained
  <2> QED
    BY <2>1, <2>2 DEF EndInv, Starting, Commands
<1>9. CASE stage = "text" /\ Outcome = Goes("up")
  BY <1>4, <1>5, <1>8, <1>9
<1>10. CASE stage # "text" /\ broken /\ \E why \in {"closed", "protocol"} : Outcome = Fails(why)
  BY <1>6, <1>10
<1>11. CASE meant.code # "250" /\ Outcome = Fails("refused")
  BY <1>6, <1>11
<1>12. CASE tor.auth = "cookie" /\ jar = <<>> /\ Outcome = Fails("cookie")
  BY <1>6, <1>12
<1>13. CASE stage = "PROTOCOLINFO" /\ Outcome = [Goes("AUTHCHALLENGE") EXCEPT !.cookie = jar]
  <2>1. Outcome.to = "AUTHCHALLENGE" /\ Outcome.outcome = outcome
    BY <1>13 DEF Goes
  <2> QED
    BY <1>7, <1>13, <2>1 DEF Commands
<1>14. CASE stage = "PROTOCOLINFO"
            /\ Outcome = [Goes("AUTHENTICATE") EXCEPT !.cookie = jar, !.credential = jar]
  <2>1. Outcome.to = "AUTHENTICATE" /\ Outcome.outcome = outcome
    BY <1>14 DEF Goes
  <2> QED
    BY <1>7, <1>14, <2>1 DEF Commands
<1>15. CASE tor.auth = "hashed" /\ Outcome = Fails("unsupported")
  BY <1>6, <1>15
<1>16. CASE stage = "AUTHCHALLENGE"
            /\ Outcome = [Goes("AUTHENTICATE") EXCEPT !.credential = Hash("client", cookie, ServerNonce)]
  <2>1. Outcome.to = "AUTHENTICATE" /\ Outcome.outcome = outcome
    BY <1>16 DEF Goes
  <2> QED
    BY <1>7, <1>16, <2>1 DEF Commands
<1>17. CASE stage = "AUTHCHALLENGE" /\ cookie = OtherCookie /\ Outcome = Fails("hash")
  <2>1. jar = OtherCookie /\ tor.safe
    BY <1>17, NoHash DEF AuthInv
  <2> QED
    BY <1>6, <1>17, <2>1
<1>18. CASE /\ stage \in Commands \ {"text"}
            /\ \E to \in {"AUTHENTICATE", "TAKEOWNERSHIP", "RESETCONF", "phase", "listeners"} :
                 Outcome = Goes(to)
  <2>1. PICK to \in {"AUTHENTICATE", "TAKEOWNERSHIP", "RESETCONF", "phase", "listeners"} :
          Outcome = Goes(to)
    BY <1>18
  <2>2. Outcome.to = to /\ Outcome.outcome = outcome /\ to \in Starting \cup (Commands \ {"text"})
    BY <1>4, <2>1 DEF Commands
  <2> QED
    BY <1>7, <1>18, <2>2
<1>19. CASE stage = "listeners" /\ Outcome = [Goes("up") EXCEPT !.outcome = "ok"]
  <2>1. Outcome.to = "up" /\ Outcome.outcome = "ok"
    BY <1>19 DEF Goes
  <2> QED
    BY <1>8, <2>1
<1>20. CASE Cardinality(tcp) # 1 /\ Outcome = Fails("listeners")
  BY <1>6, <1>20
<1> QED
  BY <1>2, <1>9, <1>10, <1>11, <1>12, <1>13, <1>14, <1>15, <1>16, <1>17, <1>18, <1>19, <1>20
     DEF Went, Commands

LEMMA StepKeepsEnd ==
  BuilderInv /\ FrameInv /\ AuthInv /\ EndInv /\ [Next]_vars => EndInv'
<1> SUFFICES ASSUME BuilderInv, FrameInv, AuthInv, EndInv, [Next]_vars PROVE EndInv'
  OBVIOUS
<1>1. FailuresExplained
  BY DEF EndInv
<1>2. CASE Configure \/ AddRaw \/ StartManaged \/ Break \/ Read \/ UNCHANGED vars
  <2>1. /\ stage' = stage /\ outcome' = outcome /\ tor' = tor /\ jar' = jar /\ meant' = meant
        /\ broken => broken'
    BY <1>2 DEF Configure, AddRaw, StartManaged, Break, Read, vars, client, server
  <2>2. FailuresExplained'
    BY <1>1, <2>1, ExplainedSame
  <2> QED
    BY <2>1, <2>2 DEF EndInv
<1>3. CASE Build
  <2>1. /\ stage = "build" /\ tor' = tor /\ jar' = jar /\ meant' = meant /\ broken' = broken
        /\ \/ stage' = "built" /\ outcome' = outcome
           \/ stage' = "failed" /\ outcome' = "rejected"
    BY <1>3 DEF Build, server
  <2>2. outcome = "none"
    BY <2>1 DEF EndInv, Starting
  <2>3. FailuresExplained'
    BY <2>1, <2>2 DEF FailuresExplained
  <2> QED
    BY <2>1, <2>2, <2>3 DEF EndInv, Starting, Commands
<1>4. CASE Launch
  <2>1. stage = "built" /\ stage' = "PROTOCOLINFO" /\ outcome' = outcome
    BY <1>4 DEF Launch
  <2>2. outcome = "none"
    BY <2>1 DEF EndInv, Starting
  <2>3. FailuresExplained'
    BY <2>1, <2>2 DEF FailuresExplained
  <2> QED
    BY <2>1, <2>2, <2>3 DEF EndInv, Starting, Commands
<1>5. CASE Command
  <2>1. stage \in Commands /\ stage' = stage /\ outcome' = outcome
    BY <1>5 DEF Command
  <2>2. outcome \in {"none", "ok"}
    BY <2>1 DEF EndInv
  <2>3. FailuresExplained'
    BY <2>1, <2>2 DEF FailuresExplained
  <2> QED
    BY <2>1, <2>3 DEF EndInv
<1>6. CASE Handle
  BY <1>6, HandleEnd
<1>7. CASE Timeout
  <2>1. stage' = "failed" /\ outcome' = "timeout"
    BY <1>7 DEF Timeout
  <2>2. FailuresExplained'
    BY <2>1 DEF FailuresExplained
  <2> QED
    BY <2>1, <2>2 DEF EndInv, Starting, Commands
<1>8. CASE Ask
  <2>1. stage = "up" /\ stage' = "text" /\ outcome' = outcome
    BY <1>8 DEF Ask
  <2>2. outcome = "ok"
    BY <2>1 DEF EndInv
  <2>3. FailuresExplained'
    BY <2>1, <2>2 DEF FailuresExplained
  <2> QED
    BY <2>1, <2>2, <2>3 DEF EndInv, Starting, Commands
<1> QED
  BY <1>2, <1>3, <1>4, <1>5, <1>6, <1>7, <1>8 DEF Next

\* A start fails only for a cause outside of the client (finish_startup): no path of a
\* cookie file, no text and no listener of a Tor that runs as it was configured makes it
\* fail.
THEOREM FailuresAreExplained == Spec => []FailuresExplained
<1>1. Spec => [](BuilderInv /\ TextInv /\ FrameInv /\ AuthInv /\ EndInv)
  BY InitBuilder, StepKeepsBuilder, InitText, StepKeepsText, InitFrame, StepKeepsFrame,
     InitAuth, StepKeepsAuth, StepKeepsEnd, PTL DEF Spec
<1>2. EndInv => FailuresExplained
  BY DEF EndInv
<1> QED
  BY <1>1, <1>2, PTL

-----------------------------------------------------------------------------
(* The types, and the start of a managed pool.                             *)

Stages   == {"build", "built", "up", "failed"} \cup Commands
Outcomes == {"none", "rejected", "ok", "refused", "closed", "protocol", "cookie",
             "hash", "unsupported", "timeout", "listeners"}

\* Tor was started with what the pool has made.
Started == stage \in Commands \cup {"up"} \/ (stage = "failed" /\ outcome # "rejected")
AsManaged == tor.auth = "cookie" /\ tor.bound = <<"tcp">>

StartInv ==
  /\ calls \in 0 .. MaxCalls
  /\ pool = {} \/ \E p \in Pools : pool = {p}
  /\ stage \in Stages /\ outcome \in Outcomes
  /\ asked \in BOOLEAN /\ closed \in BOOLEAN /\ broken \in BOOLEAN
  /\ pool # {} /\ Started => AsManaged

LEMMA InitStart == Init => StartInv
<1> SUFFICES ASSUME Init PROVE StartInv
  OBVIOUS
<1>1. 0 \in 0 .. MaxCalls
  BY MaxCallsAssumption
<1> QED
  BY <1>1 DEF Init, StartInv, Stages, Outcomes

\* Tor reads in the text of a managed pool its one listener and how to let it in.
LEMMA ManagedText ==
  ASSUME BuilderInv, TextInv, Managed(builder),
         NEW bound, bound = Values(Rendered(builder), "SocksPort")
  PROVE  /\ ReadAuth(Rendered(builder)) = "cookie"
         /\ [i \in DOMAIN bound |-> IF bound[i].at.addr = "unix" THEN "unix" ELSE "tcp"] = <<"tcp">>
<1>1. BuilderOK(builder)
  BY DEF BuilderInv
<1>2. ReadAuth(Rendered(builder)) = "cookie"
  <2>1. PICK c \in builder.control : c.auth = "cookie"
    BY DEF Managed, OwningControllerProcess, WritePortToFile, Authentication, AutoTcp, Tcp
  <2>2. \A o : Values(builder.raw, o) = <<>>
    BY ValuesEmpty DEF Managed
  <2>3. OneWayIn(builder, c) /\ LetIn(builder, c) = "cookie"
    BY <2>1, <2>2 DEF OneWayIn, LetIn
  <2> QED
    BY <1>1, <2>3, ControlReadBack
<1>3. builder.socks.listeners = <<IsolatedAuth(AutoPort)>>
  BY DEF Managed, Listener, NoSocks
<1> DEFINE typed == [i \in DOMAIN builder.socks.listeners |->
                       RenderedListener(builder.socks.listeners[i])]
<1>4. typed = <<RenderedListener(IsolatedAuth(AutoPort))>>
  BY <1>3
<1>5. bound = typed
  <2>1. Values(SocksLines(builder.socks), "SocksPort") = typed
    BY <1>1, SocksRead DEF BuilderOK
  <2> DEFINE name == "SocksPort"
  <2>2. name \in ControlNames \cup BridgeNames \cup {"SocksPort"} /\ name \notin ControlNames
    BY DEF ControlNames
  <2>3. bound = Values(Rendered(builder), name) /\ name = "SocksPort"
    OBVIOUS
  <2> HIDE DEF name, typed
  <2>4. Values(Rendered(builder), name)
          = Values(SocksLines(builder.socks), name) \o Values(builder.raw, name)
    BY <1>1, <2>2, <2>3, OtherInText
  <2>5. Values(builder.raw, name) = <<>>
    BY ValuesEmpty DEF Managed
  <2>6. typed \o <<>> = typed
    BY <1>4
  <2> QED
    BY <2>1, <2>3, <2>4, <2>5, <2>6
<1> HIDE DEF typed
<1>6. /\ Len(bound) = 1
      /\ bound[1].at = RenderedPort(IsolatedAuth(AutoPort).addr, IsolatedAuth(AutoPort).port)
  BY <1>4, <1>5 DEF RenderedListener
<1>7. bound[1].at.addr = "loopback"
  <2>1. IsolatedAuth(AutoPort).addr = "loopback" /\ IsolatedAuth(AutoPort).port = AutoPort
    BY DEF IsolatedAuth, Localhost
  <2>2. AutoPort # UnixSocket
    BY DEF AutoPort, UnixSocket
  <2> QED
    BY <1>6, <2>1, <2>2 DEF RenderedPort
<1> DEFINE way(i) == IF bound[i].at.addr = "unix" THEN "unix" ELSE "tcp"
<1>8. DOMAIN bound = 1 .. 1 /\ way(1) = "tcp"
  BY <1>1, <1>6, <1>7, BoundTyped
<1> HIDE DEF way
<1>9. [i \in 1 .. 1 |-> way(i)] = <<"tcp">>
  <2>1. \A i \in 1 .. 1 : way(i) = "tcp"
    BY <1>8
  <2> QED
    BY <2>1
<1> QED
  BY <1>2, <1>8, <1>9 DEF way

LEMMA LaunchStart == BuilderInv /\ TextInv /\ ManagedInv /\ StartInv /\ Launch => StartInv'
<1> SUFFICES ASSUME BuilderInv, TextInv, ManagedInv, StartInv, Launch PROVE StartInv'
  OBVIOUS
<1> DEFINE bound == Values(Rendered(builder), "SocksPort")
           ways == [i \in DOMAIN bound |-> IF bound[i].at.addr = "unix" THEN "unix" ELSE "tcp"]
<1>1. PICK path \in Paths, safe \in BOOLEAN :
        tor' = [auth |-> ReadAuth(Rendered(builder)), path |-> path, safe |-> safe, bound |-> ways]
  BY DEF Launch
<1>2. /\ stage = "built" /\ stage' = "PROTOCOLINFO" /\ calls' = 0 /\ pool' = pool
      /\ asked' = asked /\ outcome' = outcome /\ closed' = closed /\ broken' = broken
  BY DEF Launch
<1>3. pool # {} => ReadAuth(Rendered(builder)) = "cookie" /\ ways = <<"tcp">>
  <2> SUFFICES ASSUME pool # {} PROVE ReadAuth(Rendered(builder)) = "cookie" /\ ways = <<"tcp">>
    OBVIOUS
  <2>1. Managed(builder)
    BY <1>2 DEF ManagedInv
  <2> QED
    BY <2>1, ManagedText
<1> HIDE DEF ways
<1>4. pool' # {} => AsManaged'
  BY <1>1, <1>2, <1>3 DEF AsManaged
<1>5. calls' \in 0 .. MaxCalls
  BY <1>2, MaxCallsAssumption
<1> QED
  BY <1>2, <1>4, <1>5 DEF StartInv, Stages, Commands

LEMMA HandleStart ==
  BuilderInv /\ FrameInv /\ AuthInv /\ EndInv /\ StartInv /\ Handle => StartInv'
<1> SUFFICES ASSUME BuilderInv, FrameInv, AuthInv, EndInv, StartInv, Handle PROVE StartInv'
  OBVIOUS
<1>1. /\ asked /\ ~Reading /\ asked' = FALSE /\ stage' = Outcome.to /\ outcome' = Outcome.outcome
      /\ tor' = tor /\ pool' = pool /\ calls' = calls /\ closed' = closed /\ broken' = broken
      /\ stage \in Commands
  BY DEF Handle, config, server, BuilderInv
<1>2. Went
  BY <1>1, HandleGoes
<1>3. \A why : Fails(why).to = "failed" /\ Fails(why).outcome = why
  BY DEF Fails, Goes
<1>4. \A to : Goes(to).to = to /\ Goes(to).outcome = outcome
  BY DEF Goes
<1>5. /\ [Goes("AUTHCHALLENGE") EXCEPT !.cookie = jar].to = "AUTHCHALLENGE"
      /\ [Goes("AUTHCHALLENGE") EXCEPT !.cookie = jar].outcome = outcome
      /\ [Goes("AUTHENTICATE") EXCEPT !.cookie = jar, !.credential = jar].to = "AUTHENTICATE"
      /\ [Goes("AUTHENTICATE") EXCEPT !.cookie = jar, !.credential = jar].outcome = outcome
      /\ \A c : /\ [Goes("AUTHENTICATE") EXCEPT !.credential = c].to = "AUTHENTICATE"
                /\ [Goes("AUTHENTICATE") EXCEPT !.credential = c].outcome = outcome
      /\ [Goes("up") EXCEPT !.outcome = "ok"].to = "up"
      /\ [Goes("up") EXCEPT !.outcome = "ok"].outcome = "ok"
  BY DEF Goes
<1>6. Outcome.to \in Stages /\ Outcome.outcome \in Outcomes \cup {outcome}
  <2>1. {"up", "failed", "AUTHCHALLENGE", "AUTHENTICATE", "TAKEOWNERSHIP", "RESETCONF", "phase",
         "listeners"} \subseteq Stages
    BY DEF Stages, Commands
  <2>2. {"closed", "protocol", "refused", "cookie", "unsupported", "hash", "listeners", "ok"}
          \subseteq Outcomes
    BY DEF Outcomes
  <2>3. ASSUME NEW why \in {"closed", "protocol", "refused", "cookie", "unsupported", "hash", "listeners"},
               Outcome = Fails(why)
        PROVE  Outcome.to \in Stages /\ Outcome.outcome \in Outcomes
    BY <1>3, <2>1, <2>2, <2>3
  <2>4. ASSUME NEW to \in {"up", "AUTHENTICATE", "TAKEOWNERSHIP", "RESETCONF", "phase", "listeners"},
               Outcome = Goes(to)
        PROVE  Outcome.to \in Stages /\ Outcome.outcome = outcome
    BY <1>4, <2>1, <2>4
  <2>5. CASE Outcome = [Goes("AUTHCHALLENGE") EXCEPT !.cookie = jar]
    BY <1>5, <2>1, <2>5
  <2>6. CASE Outcome = [Goes("AUTHENTICATE") EXCEPT !.cookie = jar, !.credential = jar]
    BY <1>5, <2>1, <2>6
  <2>7. CASE Outcome = [Goes("AUTHENTICATE") EXCEPT !.credential = Hash("client", cookie, ServerNonce)]
    BY <1>5, <2>1, <2>7
  <2>8. CASE Outcome = [Goes("up") EXCEPT !.outcome = "ok"]
    BY <1>5, <2>1, <2>2, <2>8
  <2>9. \/ \E why \in {"closed", "protocol", "refused", "cookie", "unsupported", "hash", "listeners"} :
             Outcome = Fails(why)
        \/ \E to \in {"up", "AUTHENTICATE", "TAKEOWNERSHIP", "RESETCONF", "phase", "listeners"} :
             Outcome = Goes(to)
        \/ Outcome = [Goes("AUTHCHALLENGE") EXCEPT !.cookie = jar]
        \/ Outcome = [Goes("AUTHENTICATE") EXCEPT !.cookie = jar, !.credential = jar]
        \/ Outcome = [Goes("AUTHENTICATE") EXCEPT !.credential = Hash("client", cookie, ServerNonce)]
        \/ Outcome = [Goes("up") EXCEPT !.outcome = "ok"]
    BY <1>2 DEF Went
  <2> QED
    BY <2>3, <2>4, <2>5, <2>6, <2>7, <2>8, <2>9
<1>7. stage' \in Stages /\ outcome' \in Outcomes
  BY <1>1, <1>6 DEF StartInv
<1>8. pool # {} => AsManaged
  BY <1>1 DEF StartInv, Started
<1>9. pool' # {} => AsManaged'
  BY <1>1, <1>8 DEF AsManaged
<1> QED
  BY <1>1, <1>7, <1>9 DEF StartInv

LEMMA StepKeepsStart ==
  /\ BuilderInv /\ TextInv /\ ManagedInv /\ FrameInv /\ AuthInv /\ EndInv /\ StartInv
  /\ [Next]_vars
  => StartInv'
<1> SUFFICES ASSUME BuilderInv, TextInv, ManagedInv, FrameInv, AuthInv, EndInv, StartInv,
                    [Next]_vars
             PROVE  StartInv'
  OBVIOUS
<1>1. CASE Configure \/ AddRaw \/ StartManaged
  <2>1. /\ stage = "build" /\ stage' = stage /\ outcome' = outcome /\ asked' = asked
        /\ closed' = closed /\ broken' = broken
    BY <1>1 DEF Configure, AddRaw, StartManaged, client, server
  <2>2. calls' \in 0 .. MaxCalls
    BY <1>1, MaxCallsAssumption DEF Configure, AddRaw, StartManaged, StartInv
  <2>3. pool' = {} \/ \E p \in Pools : pool' = {p}
    BY <1>1 DEF Configure, AddRaw, StartManaged, StartInv
  <2>4. ~Started'
    BY <2>1 DEF Started, Commands
  <2> QED
    BY <2>1, <2>2, <2>3, <2>4 DEF StartInv
<1>2. CASE Build
  <2>1. /\ pool' = pool /\ calls' = calls /\ asked' = asked /\ closed' = closed /\ broken' = broken
        /\ \/ stage' = "built" /\ outcome' = outcome
           \/ stage' = "failed" /\ outcome' = "rejected"
    BY <1>2 DEF Build, config, server
  <2>2. ~Started'
    BY <2>1 DEF Started, Commands
  <2> QED
    BY <2>1, <2>2 DEF StartInv, Stages, Outcomes
<1>3. CASE Launch
  BY <1>3, LaunchStart
<1>4. CASE Command
  <2>1. /\ stage' = stage /\ outcome' = outcome /\ asked' = TRUE /\ pool' = pool /\ calls' = calls
        /\ tor' = tor /\ broken' = broken /\ closed' \in BOOLEAN
    BY <1>4 DEF Command, config, StartInv
  <2> QED
    BY <2>1 DEF StartInv, Started, AsManaged
<1>5. CASE Break \/ Read \/ UNCHANGED vars
  <2>1. /\ stage' = stage /\ outcome' = outcome /\ asked' = asked /\ pool' = pool /\ calls' = calls
        /\ tor' = tor /\ broken' \in BOOLEAN /\ closed' \in BOOLEAN
    BY <1>5 DEF Break, Read, vars, config, client, server, StartInv
  <2> QED
    BY <2>1 DEF StartInv, Started, AsManaged
<1>6. CASE Handle
  BY <1>6, HandleStart
<1>7. CASE Timeout
  <2>1. /\ stage = "phase" /\ stage' = "failed" /\ outcome' = "timeout" /\ asked' = FALSE
        /\ pool' = pool /\ calls' = calls /\ tor' = tor /\ broken' = broken /\ closed' = closed
    BY <1>7 DEF Timeout, config, server
  <2>2. pool # {} => AsManaged
    BY <2>1 DEF StartInv, Started, Commands
  <2> QED
    BY <2>1, <2>2 DEF StartInv, AsManaged, Stages, Outcomes
<1>8. CASE Ask
  <2>1. /\ stage = "up" /\ stage' = "text" /\ outcome' = outcome /\ asked' = asked
        /\ pool' = pool /\ calls' = calls /\ tor' = tor /\ broken' = broken /\ closed' = closed
    BY <1>8 DEF Ask, config, server
  <2>2. pool # {} => AsManaged
    BY <2>1 DEF StartInv, Started
  <2> QED
    BY <2>1, <2>2 DEF StartInv, AsManaged, Stages, Commands
<1> QED
  BY <1>1, <1>2, <1>3, <1>4, <1>5, <1>6, <1>7, <1>8 DEF Next

\* All of it together.
StartupInv ==
  /\ BuilderInv /\ TextInv /\ ManagedInv
  /\ FrameInv /\ AuthInv /\ EndInv /\ StartInv

LEMMA StartupAlways == Spec => []StartupInv
<1>1. Init => StartupInv
  BY InitBuilder, InitText, InitManaged, InitFrame, InitAuth, InitStart DEF StartupInv
<1>2. StartupInv /\ [Next]_vars => StartupInv'
  <2> SUFFICES ASSUME StartupInv, [Next]_vars PROVE StartupInv'
    OBVIOUS
  <2>1. BuilderInv /\ TextInv /\ ManagedInv /\ FrameInv /\ AuthInv /\ EndInv /\ StartInv
    BY DEF StartupInv
  <2>2. BuilderInv' /\ TextInv' /\ ManagedInv'
    BY <2>1, StepKeepsBuilder, StepKeepsText, StepKeepsManaged
  <2>3. FrameInv' /\ AuthInv'
    BY <2>1, StepKeepsFrame, StepKeepsAuth
  <2>4. EndInv' /\ StartInv'
    BY <2>1, StepKeepsEnd, StepKeepsStart
  <2> QED
    BY <2>2, <2>3, <2>4 DEF StartupInv
<1> QED
  BY <1>1, <1>2, PTL DEF Spec

\* A managed pool's Tor comes up, if it does, with one TCP listener and a controller that
\* is authenticated with the cookie; and its configuration is never what keeps it from
\* coming up (build_runtime_config, render_config and finish_startup together).
THEOREM ManagedPoolComesUp == Spec => []ManagedComesUp
<1>1. StartupInv => ManagedComesUp
  <2> SUFFICES ASSUME StartupInv, pool # {}
               PROVE  /\ outcome \notin {"unsupported", "listeners"}
                      /\ outcome = "ok" => authed /\ cookie = TorCookie /\ tor.bound = <<"tcp">>
    BY DEF ManagedComesUp
  <2>1. stage \in Stages /\ (Started => AsManaged) /\ EndInv /\ AuthInv
    BY DEF StartupInv, StartInv
  <2>2. outcome \in {"unsupported", "listeners"} => stage = "failed"
    BY <2>1 DEF EndInv, Stages, Starting, Commands
  <2>3. outcome \in {"unsupported", "listeners"} => AsManaged
    BY <2>1, <2>2 DEF Started
  <2>4. Cardinality({i \in DOMAIN <<"tcp">> : <<"tcp">>[i] = "tcp"}) = 1
    <3>1. {i \in DOMAIN <<"tcp">> : <<"tcp">>[i] = "tcp"} = {1}
      OBVIOUS
    <3> QED
      BY <3>1, FS_Singleton
  <2>5. outcome # "unsupported"
    BY <2>1, <2>3 DEF EndInv, FailuresExplained, AsManaged
  <2>6. outcome # "listeners"
    <3> SUFFICES ASSUME outcome = "listeners" PROVE FALSE
      OBVIOUS
    <3>1. tor.bound = <<"tcp">>
      BY <2>3 DEF AsManaged
    <3>2. Cardinality({i \in DOMAIN tor.bound : tor.bound[i] = "tcp"}) # 1
      BY <2>1 DEF EndInv, FailuresExplained
    <3> QED
      BY <2>4, <3>1, <3>2
  <2>7. ASSUME outcome = "ok" PROVE authed /\ cookie = TorCookie /\ tor.bound = <<"tcp">>
    <3>1. stage \in {"up", "text"}
      BY <2>1, <2>7 DEF EndInv, Stages, Starting, Commands
    <3>2. AsManaged /\ authed
      BY <2>1, <3>1 DEF Started, Commands, AuthInv, Entered
    <3> QED
      BY <2>1, <3>2 DEF AuthInv, AsManaged
  <2> QED
    BY <2>5, <2>6, <2>7
<1> QED
  BY <1>1, StartupAlways, PTL

\* Every part of the configuration, of the client and of Tor has its type.
THEOREM StartupTyped == Spec => []TypeOK
<1>1. StartupInv => TypeOK
  <2> SUFFICES ASSUME StartupInv PROVE TypeOK
    OBVIOUS
  <2>1. BuilderInv /\ TextInv /\ FrameInv /\ AuthInv /\ StartInv
    BY DEF StartupInv
  <2>2. calls \in 0 .. MaxCalls /\ pool \subseteq PoolConfig /\ Cardinality(pool) <= 1
    <3>1. CASE pool = {}
      BY <2>1, <3>1, FS_EmptySet DEF StartInv
    <3>2. ASSUME NEW p \in Pools, pool = {p} PROVE pool \subseteq PoolConfig /\ Cardinality(pool) <= 1
      <4>1. {p} \subseteq PoolConfig
        BY PoolsAssumption
      <4>2. Cardinality({p}) = 1
        BY FS_Singleton
      <4> QED
        BY <3>2, <4>1, <4>2
    <3> QED
      BY <2>1, <3>1, <3>2 DEF StartInv
  <2>3. builder.control \in SUBSET ControlConfig /\ Cardinality(builder.control) <= 1
    <3>1. builder.control \subseteq ControlConfig /\ \A c, d \in builder.control : c = d
      BY <2>1 DEF BuilderInv, BuilderOK, TextInv
    <3>2. CASE builder.control = {}
      BY <3>2, FS_EmptySet
    <3>3. CASE builder.control # {}
      <4>1. PICK c \in builder.control : builder.control = {c}
        BY <3>1, <3>3
      <4> QED
        BY <3>1, <4>1, FS_Singleton
    <3> QED
      BY <3>1, <3>2, <3>3
  <2>4. \A i \in DOMAIN builder.socks.listeners : builder.socks.listeners[i] \in SocksPort
    <3>1. builder.socks \in SocksConfig
      BY <2>1 DEF BuilderInv, BuilderOK
    <3>2. builder.socks.listeners \in Seq(SocksPort)
      BY <3>1 DEF SocksConfig
    <3> QED
      BY <3>2, LenProperties, ElementOfSeq
  <2>5. \A g \in DOMAIN Groups : DOMAIN builder.parts[g] = OptionsOf(g)
    BY <2>1 DEF TextInv
  <2>6. /\ stage \in {"build", "built", "up", "failed"} \cup Commands
        /\ outcome \in {"none", "rejected", "ok", "refused", "closed", "protocol", "cookie",
                        "hash", "unsupported", "timeout", "listeners"}
        /\ asked \in BOOLEAN /\ closed \in BOOLEAN /\ broken \in BOOLEAN
    BY <2>1 DEF StartInv, Stages, Outcomes
  <2>7. reply.at \in {"first", "more", "data", "whole", "failed", "none"} /\ authed \in BOOLEAN
    BY <2>1 DEF FrameInv, ReplyState
  <2>8. Len(cookie) <= 1 /\ Len(credential) \in {0, 1, HashLen}
    <3>1. cookie \in {<<>>, TorCookie, OtherCookie}
      BY <2>1 DEF AuthInv
    <3>2. credential \in {<<>>, TorCookie, OtherCookie, Hash("client", TorCookie, ServerNonce)}
      BY <2>1, <3>1 DEF AuthInv
    <3>3. Len(cookie) \in {0, 1}
      BY ONLY <3>1, NoHash
    <3>4. Len(credential) \in {0, 1, 4}
      BY ONLY <3>2, NoHash
    <3> QED
      BY <3>3, <3>4 DEF HashLen
  <2> QED
    BY <2>2, <2>3, <2>4, <2>5, <2>6, <2>7, <2>8 DEF TypeOK
<1> QED
  BY <1>1, StartupAlways, PTL
=============================================================================
