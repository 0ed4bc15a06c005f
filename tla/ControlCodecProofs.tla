-------------------------- MODULE ControlCodecProofs --------------------------
(***************************************************************************)
(* What the codec of the control protocol reads in every text, whatever    *)
(* its symbols and its length.                                             *)
(***************************************************************************)
EXTENDS ControlCodec, SequenceTheorems, WellFoundedInduction, TLAPS

-----------------------------------------------------------------------------
(* Induction, with a set for the property.                                 *)

\* Numbers have a least one.
LEMMA Least ==
  ASSUME NEW T, T \subseteq Nat, T # {}
  PROVE  \E x \in T : \A y \in T : x <= y
<1>1. PICK x \in T : \A y \in T : ~(<<y, x>> \in OpToRel(<, Nat))
  BY NatLessThanWellFounded, WFMin
<1>2. ASSUME NEW y \in T PROVE x <= y
  <2>1. y \in Nat /\ x \in Nat
    OBVIOUS
  <2>2. ~(y < x)
    BY <1>1, <2>1 DEF OpToRel
  <2> QED
    BY <2>1, <2>2
<1> QED
  BY <1>2

\* A set with 0, and with the successor of each of its numbers, has every number.
LEMMA NatBySet ==
  ASSUME NEW S, 0 \in S, \A n \in Nat : n \in S => n + 1 \in S
  PROVE  \A n \in Nat : n \in S
<1> DEFINE T == {n \in Nat : n \notin S}
<1>1. SUFFICES ASSUME T # {} PROVE FALSE
  OBVIOUS
<1>2. PICK x \in T : \A y \in T : x <= y
  <2>1. T \subseteq Nat
    OBVIOUS
  <2> HIDE DEF T
  <2> QED
    BY <1>1, <2>1, Least
<1>3. x \in Nat /\ x # 0 /\ x \notin S
  OBVIOUS
<1>4. x - 1 \in Nat /\ x - 1 < x
  BY <1>3
<1>5. x - 1 \in S
  BY <1>2, <1>4
<1> QED
  BY <1>3, <1>4, <1>5

\* A set with the empty sequence, and with every sequence of it that got another element,
\* has every sequence.
LEMMA SeqBySet ==
  ASSUME NEW X, NEW S, <<>> \in S,
         \A s \in Seq(X), x \in X : s \in S => Append(s, x) \in S
  PROVE  \A s \in Seq(X) : s \in S
<1> DEFINE N == {n \in Nat : \A s \in Seq(X) : Len(s) = n => s \in S}
<1>1. 0 \in N
  <2>1. \A s \in Seq(X) : Len(s) = 0 => s = <<>>
    BY EmptySeq
  <2> QED
    BY <2>1
<1>2. ASSUME NEW n \in Nat, n \in N, NEW s \in Seq(X), Len(s) = n + 1
      PROVE  s \in S
  <2>1. s # <<>>
    BY <1>2, EmptySeq
  <2>2. PICK t \in Seq(X), x \in X : s = Append(t, x)
    BY <2>1, SequenceEmptyOrAppend
  <2>3. Len(t) = n
    BY <1>2, <2>2, AppendProperties, LenProperties
  <2> QED
    BY <1>2, <2>2, <2>3
<1>3. \A n \in Nat : n \in N => n + 1 \in N
  BY <1>2
<1> HIDE DEF N
<1>4. \A n \in Nat : n \in N
  BY <1>1, <1>3, NatBySet
<1> QED
  BY <1>4, LenProperties DEF N

\* A sequence with another element before it.
LEMMA ConsProperties ==
  ASSUME NEW X, NEW x \in X, NEW s \in Seq(X)
  PROVE  /\ <<x>> \o s \in Seq(X) /\ Len(<<x>> \o s) = 1 + Len(s) /\ Len(s) \in Nat
         /\ (<<x>> \o s)[1] = x
         /\ \A i \in 1 .. Len(s) : (<<x>> \o s)[i + 1] = s[i]
         /\ <<x>> \o s # <<>> /\ Head(<<x>> \o s) = x /\ Tail(<<x>> \o s) = s
<1> DEFINE t == <<x>> \o s
<1>1. <<x>> \in Seq(X) /\ Len(<<x>>) = 1 /\ <<x>>[1] = x /\ Len(s) \in Nat
  BY LenProperties
<1>2. /\ t \in Seq(X) /\ Len(t) = 1 + Len(s)
      /\ \A i \in 1 .. 1 + Len(s) : t[i] = IF i <= 1 THEN <<x>>[i] ELSE s[i - 1]
  BY <1>1, ConcatProperties
<1> HIDE DEF t
<1>3. t[1] = x
  <2>1. 1 \in 1 .. 1 + Len(s)
    BY <1>1
  <2> QED
    BY <1>1, <1>2, <2>1
<1>4. \A i \in 1 .. Len(s) : t[i + 1] = s[i]
  <2>1. \A i \in 1 .. Len(s) : i + 1 \in 1 .. 1 + Len(s) /\ ~(i + 1 <= 1) /\ (i + 1) - 1 = i
    BY <1>1
  <2> QED
    BY <1>2, <2>1
<1>5. t # <<>> /\ Head(t) = x
  BY <1>1, <1>2, <1>3
<1>6. Tail(t) = s
  <2>1. Tail(t) \in Seq(X) /\ Len(Tail(t)) = Len(s)
    BY <1>1, <1>2, <1>5, HeadTailProperties
  <2>2. \A i \in 1 .. Len(s) : Tail(t)[i] = t[i + 1]
    BY <1>2, <1>5, <2>1, HeadTailProperties
  <2> QED
    BY <1>4, <2>1, <2>2, SeqEqual
<1> QED
  BY <1>1, <1>2, <1>3, <1>4, <1>5, <1>6 DEF t

-----------------------------------------------------------------------------
(* FlattenSeq: the loop of its definition exists and is what it says.      *)

Flattens(f, seqs, n) ==
  f = [i \in 1 .. n |-> IF i = 1 THEN seqs[i] ELSE f[i - 1] \o seqs[i]]

\* A function that satisfies the equation of the loop up to some place is extended by one.
LEMMA FlattensFirst ==
  ASSUME NEW seqs
  PROVE  \E f : Flattens(f, seqs, 1)
<1> DEFINE f == [i \in 1 .. 1 |-> seqs[i]]
<1>1. f = [i \in 1 .. 1 |-> IF i = 1 THEN seqs[i] ELSE f[i - 1] \o seqs[i]]
  OBVIOUS
<1> QED
  BY <1>1 DEF Flattens

LEMMA FlattensNext ==
  ASSUME NEW seqs, NEW n \in Nat \ {0}, NEW g, Flattens(g, seqs, n)
  PROVE  \E f : Flattens(f, seqs, n + 1)
<1> DEFINE f == [i \in 1 .. n + 1 |-> IF i = n + 1 THEN g[n] \o seqs[i] ELSE g[i]]
<1>1. \A i \in 1 .. n : f[i] = g[i]
  OBVIOUS
<1>2. f[n + 1] = g[n] \o seqs[n + 1]
  <2>1. n + 1 \in 1 .. n + 1
    OBVIOUS
  <2> QED
    BY <2>1
<1>3. \A i \in 1 .. n : g[i] = IF i = 1 THEN seqs[i] ELSE g[i - 1] \o seqs[i]
  BY DEF Flattens
<1>4. \A i \in 1 .. n + 1 : f[i] = IF i = 1 THEN seqs[i] ELSE f[i - 1] \o seqs[i]
  <2>1. \A i \in 1 .. n : i # 1 => i - 1 \in 1 .. n
    OBVIOUS
  <2> HIDE DEF f
  <2>2. \A i \in 1 .. n : f[i] = IF i = 1 THEN seqs[i] ELSE f[i - 1] \o seqs[i]
    BY <1>1, <1>3, <2>1
  <2>3. n + 1 # 1 /\ n \in 1 .. n /\ (n + 1) - 1 = n
    OBVIOUS
  <2>4. f[n + 1] = f[(n + 1) - 1] \o seqs[n + 1]
    BY <1>1, <1>2, <2>3
  <2>5. \A i \in 1 .. n + 1 : i \in 1 .. n \/ i = n + 1
    OBVIOUS
  <2> QED
    BY <2>2, <2>3, <2>4, <2>5
<1>5. f = [i \in 1 .. n + 1 |-> IF i = 1 THEN seqs[i] ELSE f[i - 1] \o seqs[i]]
  <2>1. f = [i \in 1 .. n + 1 |-> f[i]]
    OBVIOUS
  <2> HIDE DEF f
  <2> QED
    BY <1>4, <2>1
<1> HIDE DEF f
<1> QED
  BY <1>5 DEF Flattens

\* The value of the loop is the last one of a function that satisfies its equation.
LEMMA FlattenDef ==
  ASSUME NEW X, NEW seqs \in Seq(Seq(X)), seqs # <<>>
  PROVE  \E f : Flattens(f, seqs, Len(seqs)) /\ FlattenSeq(seqs) = f[Len(seqs)]
<1> DEFINE N == {n \in Nat : n # 0 => \E f : Flattens(f, seqs, n)}
<1>1. Len(seqs) \in Nat \ {0}
  BY EmptySeq
<1>2. 0 \in N
  OBVIOUS
<1>3. ASSUME NEW n \in Nat, n \in N
      PROVE  n + 1 \in N
  <2>1. CASE n = 0
    <3>1. n + 1 = 1
      BY <2>1
    <3>2. \E f : Flattens(f, seqs, n + 1)
      BY <3>1, FlattensFirst
    <3> QED
      BY <3>2
  <2>2. CASE n # 0
    BY <1>3, <2>2, FlattensNext
  <2> QED
    BY <2>1, <2>2
<1> HIDE DEF N
<1>4. \A n \in Nat : n \in N
  BY <1>2, <1>3, NatBySet
<1>5. \E f : Flattens(f, seqs, Len(seqs))
  BY <1>1, <1>4 DEF N
<1>6. Len(seqs) # 0
  BY <1>1
<1> QED
  BY <1>5, <1>6 DEF FlattenSeq, Flattens

\* Two functions are the same up to some place.
Agree(f, g, k) == \A i \in 1 .. k : f[i] = g[i]

\* Two functions that satisfy it, for sequences that agree so far, agree so far.
LEMMA FlattensUnique ==
  ASSUME NEW r, NEW s, NEW m \in Nat, NEW n \in Nat, NEW k \in Nat, k <= m, k <= n,
         Agree(r, s, k),
         NEW f, NEW g, Flattens(f, r, m), Flattens(g, s, n)
  PROVE  Agree(f, g, k)
<1> DEFINE N == {i \in Nat : i \in 1 .. k => f[i] = g[i]}
<1>1. 0 \in N
  OBVIOUS
<1>2. ASSUME NEW i \in Nat, i \in N, i + 1 \in 1 .. k
      PROVE  f[i + 1] = g[i + 1]
  <2>1. /\ f[i + 1] = IF i + 1 = 1 THEN r[i + 1] ELSE f[(i + 1) - 1] \o r[i + 1]
        /\ g[i + 1] = IF i + 1 = 1 THEN s[i + 1] ELSE g[(i + 1) - 1] \o s[i + 1]
    <3>1. i + 1 \in 1 .. m /\ i + 1 \in 1 .. n
      BY <1>2
    <3> QED
      BY <3>1 DEF Flattens
  <2>2. (i + 1) - 1 = i /\ (i + 1 # 1 => i \in 1 .. k)
    BY <1>2
  <2>3. i + 1 # 1 => f[i] = g[i]
    BY <1>2, <2>2
  <2> QED
    BY <1>2, <2>1, <2>2, <2>3 DEF Agree
<1>3. \A i \in Nat : i \in N => i + 1 \in N
  BY <1>2
<1> HIDE DEF N
<1>4. \A i \in Nat : i \in N
  BY <1>1, <1>3, NatBySet
<1> QED
  BY <1>4 DEF N, Agree

LEMMA AppendFirst ==
  ASSUME NEW X, NEW x \in X
  PROVE  Append(<<>>, x) = <<x>>
  OBVIOUS

\* Nothing, one more sequence, and that the result is a sequence.
LEMMA FlattenEmpty == FlattenSeq(<<>>) = <<>>
  BY DEF FlattenSeq

LEMMA FlattenAppend ==
  ASSUME NEW X, NEW s \in Seq(Seq(X)), NEW x \in Seq(X)
  PROVE  FlattenSeq(Append(s, x)) = (IF s = <<>> THEN x ELSE FlattenSeq(s) \o x)
<1> DEFINE t == Append(s, x)
           n == Len(s)
<1>1. /\ t \in Seq(Seq(X)) /\ t # <<>> /\ Len(t) = n + 1 /\ t[n + 1] = x /\ n \in Nat
      /\ \A i \in 1 .. n : t[i] = s[i]
  BY AppendProperties, LenProperties
<1> HIDE DEF t
<1>2. PICK g : Flattens(g, t, n + 1) /\ FlattenSeq(t) = g[n + 1]
  BY <1>1, FlattenDef
<1>3. g[n + 1] = IF n + 1 = 1 THEN t[n + 1] ELSE g[(n + 1) - 1] \o t[n + 1]
  <2>1. n + 1 \in 1 .. n + 1
    BY <1>1
  <2> QED
    BY <1>2, <2>1 DEF Flattens
<1>4. CASE s = <<>>
  <2>1. n + 1 = 1
    BY <1>4
  <2> QED
    BY <1>1, <1>2, <1>3, <1>4, <2>1 DEF t
<1>5. CASE s # <<>>
  <2>1. n # 0 /\ n \in 1 .. n /\ (n + 1) - 1 = n /\ n + 1 # 1
    BY <1>1, <1>5, EmptySeq
  <2>2. PICK f : Flattens(f, s, n) /\ FlattenSeq(s) = f[n]
    BY <1>5, FlattenDef
  <2>3. n + 1 \in Nat /\ n <= n + 1 /\ n <= n
    BY <1>1
  <2>4. Agree(g, f, n)
    <3>1. Agree(t, s, n) /\ n \in Nat
      BY <1>1 DEF Agree
    <3> HIDE DEF n
    <3> QED
      BY <3>1, <1>2, <2>2, <2>3, FlattensUnique
  <2> QED
    BY <1>1, <1>2, <1>3, <1>5, <2>1, <2>2, <2>4 DEF t, Agree
<1> QED
  BY <1>4, <1>5

LEMMA FlattenTyped ==
  ASSUME NEW X, NEW s \in Seq(Seq(X))
  PROVE  FlattenSeq(s) \in Seq(X)
<1> DEFINE S == {t \in Seq(Seq(X)) : FlattenSeq(t) \in Seq(X)}
<1>1. <<>> \in S
  <2>1. <<>> \in Seq(X) /\ <<>> \in Seq(Seq(X))
    OBVIOUS
  <2> QED
    BY <2>1, FlattenEmpty
<1>2. ASSUME NEW t \in Seq(Seq(X)), NEW x \in Seq(X), t \in S
      PROVE  Append(t, x) \in S
  <2>1. Append(t, x) \in Seq(Seq(X))
    BY AppendProperties
  <2>2. FlattenSeq(Append(t, x)) \in Seq(X)
    BY <1>2, FlattenAppend, ConcatProperties
  <2> QED
    BY <2>1, <2>2
<1> HIDE DEF S
<1>3. \A t \in Seq(Seq(X)) : t \in S
  BY <1>1, <1>2, SeqBySet
<1> QED
  BY <1>3 DEF S

LEMMA FlattenSnoc ==
  ASSUME NEW X, NEW s \in Seq(Seq(X)), NEW x \in Seq(X)
  PROVE  FlattenSeq(Append(s, x)) = FlattenSeq(s) \o x
  BY FlattenAppend, FlattenEmpty, ConcatEmptySeq

LEMMA FlattenConcat ==
  ASSUME NEW X, NEW s \in Seq(Seq(X)), NEW t \in Seq(Seq(X))
  PROVE  FlattenSeq(s \o t) = FlattenSeq(s) \o FlattenSeq(t)
<1> DEFINE S == {u \in Seq(Seq(X)) : FlattenSeq(s \o u) = FlattenSeq(s) \o FlattenSeq(u)}
<1>1. <<>> \in S
  <2>1. s \o <<>> = s /\ FlattenSeq(s) \o <<>> = FlattenSeq(s)
    BY FlattenTyped, ConcatEmptySeq
  <2>2. <<>> \in Seq(Seq(X))
    OBVIOUS
  <2> QED
    BY <2>1, <2>2, FlattenEmpty
<1>2. ASSUME NEW u \in Seq(Seq(X)), NEW x \in Seq(X), u \in S
      PROVE  Append(u, x) \in S
  <2>1. Append(u, x) = u \o <<x>> /\ Append(u, x) \in Seq(Seq(X))
    BY AppendIsConcat, AppendProperties
  <2>2. s \o Append(u, x) = Append(s \o u, x)
    <3>1. s \o u \in Seq(Seq(X)) /\ <<x>> \in Seq(Seq(X))
      BY ConcatProperties
    <3>2. s \o (u \o <<x>>) = (s \o u) \o <<x>>
      BY <3>1, ConcatAssociative
    <3> QED
      BY <2>1, <3>1, <3>2, AppendIsConcat
  <2>3. s \o u \in Seq(Seq(X))
    BY ConcatProperties
  <2>4. FlattenSeq(s \o Append(u, x)) = FlattenSeq(s \o u) \o x
    BY <2>2, <2>3, FlattenSnoc
  <2>5. FlattenSeq(s \o u) = FlattenSeq(s) \o FlattenSeq(u)
    BY <1>2
  <2>6. (FlattenSeq(s) \o FlattenSeq(u)) \o x = FlattenSeq(s) \o (FlattenSeq(u) \o x)
    BY FlattenTyped, ConcatAssociative
  <2>7. FlattenSeq(Append(u, x)) = FlattenSeq(u) \o x
    BY FlattenSnoc
  <2> QED
    BY <2>1, <2>4, <2>5, <2>6, <2>7
<1> HIDE DEF S
<1>3. \A u \in Seq(Seq(X)) : u \in S
  BY <1>1, <1>2, SeqBySet
<1> QED
  BY <1>3 DEF S

LEMMA FlattenCons ==
  ASSUME NEW X, NEW x \in Seq(X), NEW t \in Seq(Seq(X))
  PROVE  FlattenSeq(<<x>> \o t) = x \o FlattenSeq(t)
<1>1. <<x>> \in Seq(Seq(X)) /\ <<>> \in Seq(Seq(X)) /\ Append(<<>>, x) = <<x>>
  OBVIOUS
<1>2. FlattenSeq(<<x>>) = x
  BY <1>1, FlattenAppend
<1> QED
  BY <1>1, <1>2, FlattenConcat

-----------------------------------------------------------------------------
(* Scan: the same for the loop of control_words.                           *)

\* The strings, among them the ones that replies are made of: these are listed because
\* the provers know a literal only by the sets that name it.
Words1 == {"250", "515", "551", " ", "-", "+", "OK", "no", "tcp", "unix", "k", "k2", "cn", "sn"}
Words2 == {"PROTOCOLINFO", "1", "AUTH", "METHODS", "COOKIE", "SAFECOOKIE", "HASHEDPASSWORD",
           "NULL", "COOKIEFILE", "VERSION", "Tor", "0.4.8"}
Words3 == {"AUTHCHALLENGE", "SERVERHASH", "SERVERNONCE", "server", "client",
           "status/bootstrap-phase", "NOTICE", "BOOTSTRAP", "PROGRESS", "50", "100",
           "net/listeners/socks", "config-text"}
Symbol == STRING \cup {Blank, Equals, Quote, Backslash, Comma, Dot}
                 \cup Words1 \cup Words2 \cup Words3
Text == Seq(Symbol)
Words == [words : Seq(Text), current : Text, quoted : BOOLEAN, escaped : BOOLEAN]

\* The symbols that have a meaning are different symbols.
LEMMA Symbols ==
  /\ {Blank, Equals, Quote, Backslash, Comma, Dot} \subseteq Symbol
  /\ Blank \notin {Equals, Quote, Backslash} /\ Equals \notin {Quote, Backslash}
  /\ Quote # Backslash
<1>1. {Blank, Equals, Quote, Backslash, Comma, Dot} \subseteq Symbol
  BY DEF Symbol
<1> QED
  BY <1>1 DEF Blank, Equals, Quote, Backslash

\* The laws of texts.
LEMMA SingleTyped == \A X : <<>> \in Seq(X) /\ \A x \in X : <<x>> \in Seq(X)
  OBVIOUS

LEMMA TextTyped ==
  /\ <<>> \in Text
  /\ \A x \in Symbol : <<x>> \in Text
  /\ \A u, v \in Text : u \o v \in Text
  /\ \A u \in Text, x \in Symbol : Append(u, x) \in Text
<1>1. <<>> \in Text /\ \A x \in Symbol : <<x>> \in Text
  BY SingleTyped DEF Text
<1>2. \A u, v \in Text : u \o v \in Text
  BY ConcatProperties DEF Text
<1>3. \A u \in Text, x \in Symbol : Append(u, x) \in Text
  BY AppendProperties DEF Text
<1> QED
  BY <1>1, <1>2, <1>3

LEMMA PairOfSymbols ==
  ASSUME NEW X, NEW a \in X, NEW x \in X
  PROVE  Append(<<a>>, x) = <<a, x>>
<1>1. <<a>> \in Seq(X) /\ <<a, x>> \in Seq(X) /\ Len(<<a>>) = 1 /\ Len(<<a, x>>) = 2
  OBVIOUS
<1>2. Append(<<a>>, x) \in Seq(X) /\ Len(Append(<<a>>, x)) = 2
  BY <1>1, AppendProperties
<1>3. Append(<<a>>, x)[1] = a /\ Append(<<a>>, x)[2] = x
  BY <1>1, AppendProperties
<1>4. \A i \in 1 .. 2 : Append(<<a>>, x)[i] = <<a, x>>[i]
  <2>1. \A i \in 1 .. 2 : i = 1 \/ i = 2
    OBVIOUS
  <2> QED
    BY <1>3, <2>1
<1> QED
  BY <1>1, <1>2, <1>4, SeqEqual

LEMMA TextLaws ==
  /\ \A u \in Text : u \o <<>> = u /\ <<>> \o u = u
  /\ \A u, v, t \in Text : (u \o v) \o t = u \o (v \o t)
  /\ \A u \in Text, x \in Symbol : Append(u, x) = u \o <<x>>
<1>1. \A u \in Text : u \o <<>> = u /\ <<>> \o u = u
  BY ConcatEmptySeq DEF Text
<1>2. \A u, v, t \in Text : (u \o v) \o t = u \o (v \o t)
  BY ConcatAssociative DEF Text
<1>3. \A u \in Text, x \in Symbol : Append(u, x) = u \o <<x>>
  BY AppendIsConcat DEF Text
<1> QED
  BY <1>1, <1>2, <1>3

\* A symbol is read into a word, and no words are there at first.
LEMMA WordStepTyped ==
  ASSUME NEW w \in Words, NEW symbol \in Symbol
  PROVE  WordStep(w, symbol) \in Words
<1>1. <<>> \in Text /\ Append(w.current, symbol) \in Text /\ Append(w.words, w.current) \in Seq(Text)
  BY AppendProperties DEF Words, Text
<1> QED
  BY <1>1 DEF WordStep, Words

LEMMA NoWordsTyped == NoWords \in Words
<1>1. <<>> \in Text /\ <<>> \in Seq(Text)
  BY DEF Text
<1> QED
  BY <1>1 DEF NoWords, Words

Scans(f, w, text, n) ==
  f = [i \in 0 .. n |-> IF i = 0 THEN w ELSE WordStep(f[i - 1], text[i])]

LEMMA ScansFirst ==
  ASSUME NEW w, NEW text
  PROVE  \E f : Scans(f, w, text, 0)
<1> DEFINE f == [i \in 0 .. 0 |-> w]
<1>1. f = [i \in 0 .. 0 |-> IF i = 0 THEN w ELSE WordStep(f[i - 1], text[i])]
  OBVIOUS
<1> QED
  BY <1>1 DEF Scans

LEMMA ScansNext ==
  ASSUME NEW w, NEW text, NEW n \in Nat, NEW g, Scans(g, w, text, n)
  PROVE  \E f : Scans(f, w, text, n + 1)
<1> DEFINE f == [i \in 0 .. n + 1 |-> IF i = n + 1 THEN WordStep(g[n], text[i]) ELSE g[i]]
<1>1. \A i \in 0 .. n : f[i] = g[i]
  OBVIOUS
<1>2. f[n + 1] = WordStep(g[n], text[n + 1])
  <2>1. n + 1 \in 0 .. n + 1
    OBVIOUS
  <2> QED
    BY <2>1
<1>3. \A i \in 0 .. n : g[i] = IF i = 0 THEN w ELSE WordStep(g[i - 1], text[i])
  BY DEF Scans
<1>4. \A i \in 0 .. n + 1 : f[i] = IF i = 0 THEN w ELSE WordStep(f[i - 1], text[i])
  <2>1. \A i \in 0 .. n : i # 0 => i - 1 \in 0 .. n
    OBVIOUS
  <2> HIDE DEF f
  <2>2. \A i \in 0 .. n : f[i] = IF i = 0 THEN w ELSE WordStep(f[i - 1], text[i])
    BY <1>1, <1>3, <2>1
  <2>3. n + 1 # 0 /\ n \in 0 .. n /\ (n + 1) - 1 = n
    OBVIOUS
  <2>4. f[n + 1] = WordStep(f[(n + 1) - 1], text[n + 1])
    BY <1>1, <1>2, <2>3
  <2>5. \A i \in 0 .. n + 1 : i \in 0 .. n \/ i = n + 1
    OBVIOUS
  <2> QED
    BY <2>2, <2>3, <2>4, <2>5
<1>5. f = [i \in 0 .. n + 1 |-> IF i = 0 THEN w ELSE WordStep(f[i - 1], text[i])]
  <2>1. f = [i \in 0 .. n + 1 |-> f[i]]
    OBVIOUS
  <2> HIDE DEF f
  <2> QED
    BY <1>4, <2>1
<1> HIDE DEF f
<1> QED
  BY <1>5 DEF Scans

LEMMA ScanDef ==
  ASSUME NEW w, NEW text \in Text
  PROVE  \E f : Scans(f, w, text, Len(text)) /\ Scan(w, text) = f[Len(text)]
<1> DEFINE N == {n \in Nat : \E f : Scans(f, w, text, n)}
<1>1. 0 \in N
  BY ScansFirst
<1>2. ASSUME NEW n \in Nat, n \in N
      PROVE  n + 1 \in N
  BY <1>2, ScansNext
<1> HIDE DEF N
<1>3. \A n \in Nat : n \in N
  BY <1>1, <1>2, NatBySet
<1>4. \E f : Scans(f, w, text, Len(text))
  BY <1>3, LenProperties DEF N, Text
<1> QED
  BY <1>4 DEF Scan, Scans

LEMMA ScansUnique ==
  ASSUME NEW w, NEW r, NEW s, NEW m \in Nat, NEW n \in Nat, NEW k \in Nat, k <= m, k <= n,
         Agree(r, s, k),
         NEW f, NEW g, Scans(f, w, r, m), Scans(g, w, s, n)
  PROVE  f[k] = g[k]
<1> DEFINE N == {i \in Nat : i \in 0 .. k => f[i] = g[i]}
<1>1. 0 \in N
  <2>1. 0 \in 0 .. m /\ 0 \in 0 .. n
    OBVIOUS
  <2>2. f[0] = w /\ g[0] = w
    BY <2>1 DEF Scans
  <2> QED
    BY <2>2
<1>2. ASSUME NEW i \in Nat, i \in N, i + 1 \in 0 .. k
      PROVE  f[i + 1] = g[i + 1]
  <2>1. /\ f[i + 1] = WordStep(f[(i + 1) - 1], r[i + 1])
        /\ g[i + 1] = WordStep(g[(i + 1) - 1], s[i + 1])
    <3>1. i + 1 \in 0 .. m /\ i + 1 \in 0 .. n /\ i + 1 # 0
      BY <1>2
    <3> QED
      BY <3>1 DEF Scans
  <2>2. (i + 1) - 1 = i /\ i \in 0 .. k /\ i + 1 \in 1 .. k
    BY <1>2
  <2>3. f[i] = g[i]
    BY <1>2, <2>2
  <2> QED
    BY <1>2, <2>1, <2>2, <2>3 DEF Agree
<1>3. \A i \in Nat : i \in N => i + 1 \in N
  BY <1>2
<1> HIDE DEF N
<1>4. \A i \in Nat : i \in N
  BY <1>1, <1>3, NatBySet
<1>5. k \in 0 .. k
  OBVIOUS
<1> QED
  BY <1>4, <1>5 DEF N

\* Nothing is read of an empty text, and a symbol after a text is read after it.
LEMMA ScanEmpty == \A w : Scan(w, <<>>) = w
<1> TAKE w
<1>1. <<>> \in Text /\ Len(<<>>) = 0 /\ 0 \in 0 .. 0
  BY DEF Text
<1>2. PICK f : Scans(f, w, <<>>, 0) /\ Scan(w, <<>>) = f[0]
  BY <1>1, ScanDef
<1>3. f[0] = w
  BY <1>1, <1>2 DEF Scans
<1> QED
  BY <1>2, <1>3

LEMMA ScanAppend ==
  ASSUME NEW w, NEW u \in Text, NEW x \in Symbol
  PROVE  Scan(w, Append(u, x)) = WordStep(Scan(w, u), x)
<1> DEFINE t == Append(u, x)
           n == Len(u)
<1>1. /\ t \in Text /\ Len(t) = n + 1 /\ t[n + 1] = x /\ n \in Nat
      /\ \A i \in 1 .. n : t[i] = u[i]
  <2>1. u \in Seq(Symbol)
    BY DEF Text
  <2>2. t \in Seq(Symbol) /\ Len(t) = n + 1 /\ t[n + 1] = x /\ n \in Nat
    BY <2>1, AppendProperties, LenProperties
  <2>3. \A i \in 1 .. n : t[i] = u[i]
    BY <2>1, AppendProperties
  <2> QED
    BY <2>2, <2>3 DEF Text
<1> HIDE DEF t
<1>2. PICK g : Scans(g, w, t, n + 1) /\ Scan(w, t) = g[n + 1]
  BY <1>1, ScanDef
<1>3. PICK f : Scans(f, w, u, n) /\ Scan(w, u) = f[n]
  BY ScanDef
<1>4. g[n + 1] = WordStep(g[(n + 1) - 1], t[n + 1])
  <2>1. n + 1 \in 0 .. n + 1 /\ n + 1 # 0
    BY <1>1
  <2> QED
    BY <1>2, <2>1 DEF Scans
<1>5. (n + 1) - 1 = n /\ n + 1 \in Nat /\ n <= n + 1 /\ n <= n
  BY <1>1
<1>6. g[n] = f[n]
  <2>1. Agree(t, u, n) /\ n \in Nat
    BY <1>1 DEF Agree
  <2> HIDE DEF n
  <2> QED
    BY <2>1, <1>2, <1>3, <1>5, ScansUnique
<1> QED
  BY <1>1, <1>2, <1>3, <1>4, <1>5, <1>6 DEF t

LEMMA ScanTyped ==
  ASSUME NEW w \in Words, NEW u \in Text
  PROVE  Scan(w, u) \in Words
<1> DEFINE S == {t \in Text : Scan(w, t) \in Words}
<1>1. <<>> \in S
  <2>1. <<>> \in Text
    BY DEF Text
  <2> QED
    BY <2>1, ScanEmpty
<1>2. ASSUME NEW t \in Seq(Symbol), NEW x \in Symbol, t \in S
      PROVE  Append(t, x) \in S
  <2>1. t \in Text /\ Append(t, x) \in Text
    BY AppendProperties DEF Text
  <2>2. Scan(w, Append(t, x)) \in Words
    BY <1>2, <2>1, ScanAppend, WordStepTyped
  <2> QED
    BY <2>1, <2>2
<1> HIDE DEF S
<1>3. \A t \in Seq(Symbol) : t \in S
  BY <1>1, <1>2, SeqBySet
<1>4. u \in S
  BY <1>3 DEF Text
<1> QED
  BY <1>4 DEF S

LEMMA ScanConcat ==
  ASSUME NEW w, NEW u \in Text, NEW v \in Text
  PROVE  Scan(w, u \o v) = Scan(Scan(w, u), v)
<1> DEFINE S == {t \in Text : Scan(w, u \o t) = Scan(Scan(w, u), t)}
<1>1. <<>> \in S
  <2>1. <<>> \in Text /\ u \o <<>> = u
    BY ConcatEmptySeq DEF Text
  <2> QED
    BY <2>1, ScanEmpty
<1>2. ASSUME NEW t \in Seq(Symbol), NEW x \in Symbol, t \in S
      PROVE  Append(t, x) \in S
  <2>1. t \in Text /\ <<x>> \in Text
    BY TextTyped DEF Text
  <2>2. Append(t, x) \in Text /\ u \o t \in Text
    BY <2>1, TextTyped
  <2>3. u \o Append(t, x) = Append(u \o t, x)
    <3>1. Append(t, x) = t \o <<x>> /\ Append(u \o t, x) = (u \o t) \o <<x>>
      BY <2>1, <2>2, TextLaws
    <3>2. u \o (t \o <<x>>) = (u \o t) \o <<x>>
      BY <2>1, TextLaws
    <3> QED
      BY <3>1, <3>2
  <2>4. Scan(w, u \o Append(t, x)) = WordStep(Scan(w, u \o t), x)
    BY <2>1, <2>2, <2>3, ScanAppend
  <2>5. Scan(Scan(w, u), Append(t, x)) = WordStep(Scan(Scan(w, u), t), x)
    BY <2>1, <2>2, ScanAppend
  <2> QED
    BY <1>2, <2>2, <2>4, <2>5
<1> HIDE DEF S
<1>3. \A t \in Seq(Symbol) : t \in S
  BY <1>1, <1>2, SeqBySet
<1>4. v \in S
  BY <1>3 DEF Text
<1> QED
  BY <1>4 DEF S

LEMMA ScanSymbol ==
  ASSUME NEW w, NEW x \in Symbol
  PROVE  Scan(w, <<x>>) = WordStep(w, x)
<1>1. <<>> \in Text /\ Append(<<>>, x) = <<x>>
  BY DEF Text
<1> QED
  BY <1>1, ScanAppend, ScanEmpty

-----------------------------------------------------------------------------
(* What the loop reads, piece by piece.                                    *)

\* Outside of a quoted string and not after a backslash.
Outside(w) == w \in Words /\ ~w.quoted /\ ~w.escaped
Plain(text) == text \in Text /\ \A i \in 1 .. Len(text) : text[i] \notin {Quote, Blank}

\* A text goes on the current word.
Reads(w, text) == [w EXCEPT !.current = @ \o text]

LEMMA ReadsOutside ==
  ASSUME NEW w, Outside(w), NEW text \in Text
  PROVE  Outside(Reads(w, text))
<1>1. w.current \o text \in Text
  BY ConcatProperties DEF Outside, Words, Text
<1> QED
  BY <1>1 DEF Outside, Words, Reads

\* A text grows at its end, word by word or symbol by symbol.
LEMMA ReadsAppend ==
  ASSUME NEW w \in Words, NEW t \in Text, NEW x \in Symbol
  PROVE  Append(w.current \o t, x) = w.current \o Append(t, x)
<1>1. w.current \in Text /\ <<x>> \in Text
  BY TextTyped DEF Words
<1>2. Append(t, x) = t \o <<x>> /\ Append(w.current \o t, x) = (w.current \o t) \o <<x>>
  BY <1>1, TextTyped, TextLaws
<1>3. (w.current \o t) \o <<x>> = w.current \o (t \o <<x>>)
  BY <1>1, TextLaws
<1> QED
  BY <1>2, <1>3

\* A plain text is read as it is.
LEMMA ScanPlain ==
  ASSUME NEW w, Outside(w), NEW text, Plain(text)
  PROVE  Scan(w, text) = Reads(w, text)
<1> DEFINE S == {t \in Text : Plain(t) => Scan(w, t) = Reads(w, t)}
<1>1. <<>> \in S
  <2>1. <<>> \in Text /\ w.current \o <<>> = w.current
    BY ConcatEmptySeq DEF Text, Outside, Words
  <2>2. Reads(w, <<>>) = w
    BY <2>1 DEF Reads, Outside, Words
  <2> QED
    BY <2>1, <2>2, ScanEmpty
<1>2. ASSUME NEW t \in Seq(Symbol), NEW x \in Symbol, t \in S
      PROVE  Append(t, x) \in S
  <2>1. t \in Text /\ Append(t, x) \in Text
    BY AppendProperties DEF Text
  <2>2. ASSUME Plain(Append(t, x)) PROVE Plain(t) /\ x \notin {Quote, Blank}
    <3>1. /\ Len(Append(t, x)) = Len(t) + 1 /\ Append(t, x)[Len(t) + 1] = x /\ Len(t) \in Nat
      BY AppendProperties, LenProperties
    <3>2. \A i \in 1 .. Len(t) : Append(t, x)[i] = t[i]
      BY AppendProperties
    <3>3. Len(t) + 1 \in 1 .. Len(t) + 1 /\ \A i \in 1 .. Len(t) : i \in 1 .. Len(t) + 1
      BY <3>1
    <3> QED
      BY <2>1, <2>2, <3>1, <3>2, <3>3 DEF Plain
  <2>3. ASSUME Plain(Append(t, x)) PROVE Scan(w, Append(t, x)) = Reads(w, Append(t, x))
    <3>1. Scan(w, t) = Reads(w, t) /\ x \notin {Quote, Blank}
      BY <1>2, <2>2, <2>3
    <3>2. Scan(w, Append(t, x)) = WordStep(Reads(w, t), x)
      BY <2>1, <3>1, ScanAppend
    <3>3. w \in Words /\ ~Reads(w, t).escaped /\ ~Reads(w, t).quoted
          /\ Reads(w, t).current = w.current \o t
      BY DEF Outside, Reads, Words
    <3>4. WordStep(Reads(w, t), x) = [Reads(w, t) EXCEPT !.current = Append(w.current \o t, x)]
      BY <3>1, <3>3 DEF WordStep
    <3>5. Append(w.current \o t, x) = w.current \o Append(t, x)
      BY <2>1, <3>3, ReadsAppend
    <3> QED
      BY <3>2, <3>3, <3>4, <3>5 DEF Reads, Words
  <2> QED
    BY <2>1, <2>3
<1> HIDE DEF S
<1>3. \A t \in Seq(Symbol) : t \in S
  BY <1>1, <1>2, SeqBySet
<1>4. text \in S
  BY <1>3 DEF Text, Plain
<1> QED
  BY <1>4 DEF S

\* A symbol as it is written between quotes, and the text of such symbols.
Escaped(x) == IF x \in {Quote, Backslash} THEN <<Backslash, x>> ELSE <<x>>
Inner(text) == FlattenSeq([i \in DOMAIN text |-> Escaped(text[i])])

LEMMA EscapedTyped == \A x \in Symbol : Escaped(x) \in Text
<1> TAKE x \in Symbol
<1>1. <<Backslash>> \in Text /\ Append(<<Backslash>>, x) = <<Backslash, x>>
  BY TextTyped, Symbols, PairOfSymbols
<1>2. Append(<<Backslash>>, x) \in Text
  BY <1>1, TextTyped
<1> QED
  BY <1>1, <1>2, TextTyped DEF Escaped

LEMMA InnerPieces ==
  ASSUME NEW t \in Text
  PROVE  [i \in DOMAIN t |-> Escaped(t[i])] \in Seq(Text)
<1>1. DOMAIN t = 1 .. Len(t) /\ Len(t) \in Nat /\ \A i \in 1 .. Len(t) : t[i] \in Symbol
  BY LenProperties, ElementOfSeq DEF Text
<1>2. \A i \in 1 .. Len(t) : Escaped(t[i]) \in Text
  BY <1>1, EscapedTyped
<1> QED
  BY <1>1, <1>2

LEMMA InnerEmpty == Inner(<<>>) = <<>>
<1>1. [i \in DOMAIN <<>> |-> Escaped(<<>>[i])] = <<>>
  OBVIOUS
<1> QED
  BY <1>1, FlattenEmpty DEF Inner

LEMMA InnerAppend ==
  ASSUME NEW t \in Text, NEW x \in Symbol
  PROVE  Inner(Append(t, x)) = Inner(t) \o Escaped(x)
<1> DEFINE u == Append(t, x)
           f == [i \in DOMAIN t |-> Escaped(t[i])]
           g == [i \in DOMAIN u |-> Escaped(u[i])]
<1>1. f \in Seq(Text) /\ g \in Seq(Text) /\ Escaped(x) \in Text
  BY InnerPieces, EscapedTyped, TextTyped
<1>2. /\ Len(t) \in Nat /\ DOMAIN t = 1 .. Len(t) /\ DOMAIN u = 1 .. Len(t) + 1
      /\ u[Len(t) + 1] = x /\ \A i \in 1 .. Len(t) : u[i] = t[i]
  <2>1. t \in Seq(Symbol) /\ u \in Seq(Symbol)
    BY TextTyped DEF Text
  <2>2. Len(u) = Len(t) + 1 /\ u[Len(t) + 1] = x /\ \A i \in 1 .. Len(t) : u[i] = t[i]
    BY <2>1, AppendProperties
  <2> QED
    BY <2>1, <2>2, LenProperties
<1>3. Len(f) = Len(t) /\ Len(g) = Len(t) + 1
  BY <1>1, <1>2
<1>4. g = Append(f, Escaped(x))
  <2>1. /\ Append(f, Escaped(x)) \in Seq(Text) /\ Len(Append(f, Escaped(x))) = Len(t) + 1
        /\ Append(f, Escaped(x))[Len(t) + 1] = Escaped(x)
        /\ \A i \in 1 .. Len(t) : Append(f, Escaped(x))[i] = f[i]
    <3> HIDE DEF f
    <3>1. Append(f, Escaped(x)) \in Seq(Text) /\ Len(Append(f, Escaped(x))) = Len(f) + 1
          /\ Append(f, Escaped(x))[Len(f) + 1] = Escaped(x)
      BY <1>1, AppendProperties
    <3>2. \A i \in 1 .. Len(f) : Append(f, Escaped(x))[i] = f[i]
      BY <1>1, AppendProperties
    <3> QED
      BY <1>3, <3>1, <3>2
  <2>2. \A i \in 1 .. Len(t) : f[i] = Escaped(t[i]) /\ g[i] = Escaped(t[i])
    BY <1>2
  <2>3. g[Len(t) + 1] = Escaped(x)
    BY <1>2
  <2>4. \A i \in 1 .. Len(t) + 1 : i \in 1 .. Len(t) \/ i = Len(t) + 1
    BY <1>2
  <2> HIDE DEF f, g
  <2>5. \A i \in 1 .. Len(g) : g[i] = Append(f, Escaped(x))[i]
    BY <1>3, <2>1, <2>2, <2>3, <2>4
  <2> QED
    BY <1>1, <1>3, <2>1, <2>5, SeqEqual
<1> HIDE DEF f, g
<1>5. FlattenSeq(Append(f, Escaped(x))) = FlattenSeq(f) \o Escaped(x)
  <2>1. f \in Seq(Seq(Symbol)) /\ Escaped(x) \in Seq(Symbol)
    BY <1>1 DEF Text
  <2> QED
    BY <2>1, FlattenSnoc
<1>6. Inner(t) = FlattenSeq(f) /\ Inner(u) = FlattenSeq(g)
  BY DEF Inner, f, g
<1> QED
  BY <1>4, <1>5, <1>6

LEMMA InnerTyped == \A t \in Text : Inner(t) \in Text
<1> TAKE t \in Text
<1>1. [i \in DOMAIN t |-> Escaped(t[i])] \in Seq(Seq(Symbol))
  BY InnerPieces DEF Text
<1> QED
  BY <1>1, FlattenTyped DEF Inner, Text

\* Between quotes every symbol is read as it was before it was quoted.
LEMMA ScanEscaped ==
  ASSUME NEW w \in Words, w.quoted, ~w.escaped, NEW x \in Symbol
  PROVE  Scan(w, Escaped(x)) = [w EXCEPT !.current = Append(@, x)]
<1>1. CASE x \in {Quote, Backslash}
  <2>1. Append(<<Backslash>>, x) = <<Backslash, x>> /\ <<Backslash>> \in Text
    BY TextTyped, Symbols, PairOfSymbols
  <2>2. Scan(w, <<Backslash, x>>) = WordStep(WordStep(w, Backslash), x)
    <3>1. Scan(w, Append(<<Backslash>>, x)) = WordStep(Scan(w, <<Backslash>>), x)
      BY <2>1, ScanAppend
    <3>2. Scan(w, <<Backslash>>) = WordStep(w, Backslash)
      BY ScanSymbol, Symbols
    <3> QED
      BY <2>1, <3>1, <3>2
  <2>3. WordStep(w, Backslash) = [w EXCEPT !.escaped = TRUE]
    BY Symbols DEF WordStep
  <2>4. WordStep([w EXCEPT !.escaped = TRUE], x) = [w EXCEPT !.current = Append(@, x)]
    BY DEF WordStep, Words
  <2> QED
    BY <1>1, <2>2, <2>3, <2>4 DEF Escaped
<1>2. CASE x \notin {Quote, Backslash}
  <2>1. WordStep(w, x) = [w EXCEPT !.current = Append(@, x)]
    BY <1>2 DEF WordStep, Words
  <2> QED
    BY <1>2, <2>1, ScanSymbol DEF Escaped
<1> QED
  BY <1>1, <1>2

LEMMA ScanInner ==
  ASSUME NEW w \in Words, w.quoted, ~w.escaped, NEW text \in Text
  PROVE  Scan(w, Inner(text)) = Reads(w, text)
<1> DEFINE S == {t \in Text : Scan(w, Inner(t)) = Reads(w, t)}
<1>1. <<>> \in S
  <2>1. <<>> \in Text /\ w.current \o <<>> = w.current
    BY TextTyped, TextLaws DEF Words
  <2>2. Reads(w, <<>>) = w
    BY <2>1 DEF Reads, Words
  <2> QED
    BY <2>1, <2>2, InnerEmpty, ScanEmpty
<1>2. ASSUME NEW t \in Seq(Symbol), NEW x \in Symbol, t \in S
      PROVE  Append(t, x) \in S
  <2>1. t \in Text /\ Append(t, x) \in Text /\ Inner(t) \in Text /\ Escaped(x) \in Text
    BY TextTyped, InnerTyped, EscapedTyped DEF Text
  <2>2. Scan(w, Inner(Append(t, x))) = Scan(Scan(w, Inner(t)), Escaped(x))
    <3>1. Inner(Append(t, x)) = Inner(t) \o Escaped(x)
      BY <2>1, InnerAppend
    <3> QED
      BY <2>1, <3>1, ScanConcat
  <2>3. Scan(w, Inner(t)) = Reads(w, t)
    BY <1>2
  <2>4. Reads(w, t) \in Words /\ Reads(w, t).quoted /\ ~Reads(w, t).escaped
        /\ Reads(w, t).current = w.current \o t
    BY <2>1, TextTyped DEF Reads, Words
  <2>5. Scan(Reads(w, t), Escaped(x)) = [Reads(w, t) EXCEPT !.current = Append(w.current \o t, x)]
    BY <2>4, ScanEscaped
  <2>6. Append(w.current \o t, x) = w.current \o Append(t, x)
    BY <2>1, ReadsAppend
  <2>7. [Reads(w, t) EXCEPT !.current = w.current \o Append(t, x)] = Reads(w, Append(t, x))
    BY DEF Reads, Words
  <2> QED
    BY <2>1, <2>2, <2>3, <2>5, <2>6, <2>7
<1> HIDE DEF S
<1>3. \A t \in Seq(Symbol) : t \in S
  BY <1>1, <1>2, SeqBySet
<1>4. text \in S
  BY <1>3 DEF Text
<1> QED
  BY <1>4 DEF S

LEMMA QuotedParts ==
  ASSUME NEW text \in Text
  PROVE  Quoted(text) = (<<Quote>> \o Inner(text)) \o <<Quote>> /\ Quoted(text) \in Text
<1>1. Quoted(text) = (<<Quote>> \o Inner(text)) \o <<Quote>>
  BY DEF Quoted, Inner, Escaped
<1> QED
  <2>1. <<Quote>> \in Text /\ Inner(text) \in Text
    BY InnerTyped, TextTyped, Symbols
  <2>2. (<<Quote>> \o Inner(text)) \o <<Quote>> \in Text
    BY <2>1, TextTyped
  <2> QED
    BY <1>1, <2>2

\* What Tor quotes is read as what it was, whatever quotes, blanks and backslashes it has.
LEMMA ScanQuoted ==
  ASSUME NEW w, Outside(w), NEW text \in Text
  PROVE  Scan(w, Quoted(text)) = Reads(w, text)
<1> DEFINE q == [w EXCEPT !.quoted = TRUE]
<1>1. q \in Words /\ q.quoted /\ ~q.escaped /\ w \in Words /\ ~w.quoted /\ ~w.escaped
  BY DEF Outside, Words
<1>2. <<Quote>> \in Text /\ Inner(text) \in Text /\ Quote \in Symbol
  BY TextTyped, InnerTyped, Symbols
<1>3. Scan(w, <<Quote>>) = q
  <2>1. WordStep(w, Quote) = q
    BY <1>1 DEF WordStep, Words
  <2> QED
    BY <1>2, <2>1, ScanSymbol
<1> HIDE DEF q
<1>4. Scan(w, <<Quote>> \o Inner(text)) = Reads(q, text)
  BY <1>1, <1>2, <1>3, ScanConcat, ScanInner
<1>5. WordStep(Reads(q, text), Quote) = Reads(w, text)
  BY <1>1 DEF WordStep, Reads, q, Words
<1>6. <<Quote>> \o Inner(text) \in Text
  BY <1>2, TextTyped
<1>7. Scan(w, (<<Quote>> \o Inner(text)) \o <<Quote>>) = Scan(Reads(q, text), <<Quote>>)
  BY <1>2, <1>4, <1>6, ScanConcat
<1>8. Scan(Reads(q, text), <<Quote>>) = WordStep(Reads(q, text), Quote)
  BY <1>2, ScanSymbol
<1> QED
  BY <1>5, <1>7, <1>8, QuotedParts

-----------------------------------------------------------------------------
(* The words of a line, written out of plain texts, quoted ones and blanks.*)

\* The words so far and the current one, outside of quotes.
St(words, current) ==
  [words |-> words, current |-> current, quoted |-> FALSE, escaped |-> FALSE]

LEMMA StOutside ==
  ASSUME NEW ws \in Seq(Text), NEW c \in Text
  PROVE  Outside(St(ws, c)) /\ \A t : Reads(St(ws, c), t) = St(ws, c \o t)
<1>1. Outside(St(ws, c))
  BY DEF St, Outside, Words
<1>2. ASSUME NEW w \in Words, NEW x
      PROVE  [w EXCEPT !.current = x] = [words |-> w.words, current |-> x,
                                         quoted |-> w.quoted, escaped |-> w.escaped]
  BY DEF Words
<1>3. /\ St(ws, c).words = ws /\ St(ws, c).current = c
      /\ St(ws, c).quoted = FALSE /\ St(ws, c).escaped = FALSE /\ St(ws, c) \in Words
  BY <1>1 DEF St, Outside
<1>4. ASSUME NEW t PROVE Reads(St(ws, c), t) = St(ws, c \o t)
  <2>1. Reads(St(ws, c), t) = [St(ws, c) EXCEPT !.current = c \o t]
    BY <1>3 DEF Reads
  <2> QED
    BY <1>2, <1>3, <2>1 DEF St
<1> QED
  BY <1>1, <1>4

LEMMA NoWordsSt == NoWords = St(<<>>, <<>>) /\ <<>> \in Seq(Text) /\ <<>> \in Text
  BY TextTyped, SingleTyped DEF NoWords, St

LEMMA StPlain ==
  ASSUME NEW ws \in Seq(Text), NEW c \in Text, NEW t, Plain(t)
  PROVE  Scan(St(ws, c), t) = St(ws, c \o t) /\ c \o t \in Text
  BY StOutside, ScanPlain, TextTyped DEF Plain

LEMMA StQuoted ==
  ASSUME NEW ws \in Seq(Text), NEW c \in Text, NEW t \in Text
  PROVE  Scan(St(ws, c), Quoted(t)) = St(ws, c \o t) /\ c \o t \in Text
  BY StOutside, ScanQuoted, TextTyped

LEMMA StBlank ==
  ASSUME NEW ws \in Seq(Text), NEW c \in Text, c # <<>>
  PROVE  Scan(St(ws, c), <<Blank>>) = St(Append(ws, c), <<>>) /\ Append(ws, c) \in Seq(Text)
<1>1. WordStep(St(ws, c), Blank) = St(Append(ws, c), <<>>)
  BY Symbols DEF WordStep, St
<1>2. Append(ws, c) \in Seq(Text)
  BY AppendProperties
<1> QED
  BY <1>1, <1>2, ScanSymbol, Symbols

-----------------------------------------------------------------------------
(* The blanks around a text make no word.                                  *)

Blanks == Seq({Blank})

\* Only in a quoted string is a symbol after a backslash.
Sane(w) == w \in Words /\ (w.escaped => w.quoted)

LEMMA BlanksAreText == Blanks \subseteq Text /\ <<>> \in Blanks
<1>1. {Blank} \subseteq Symbol
  BY Symbols
<1> QED
  BY <1>1, SeqMonotonic, SingleTyped DEF Blanks, Text

\* Before the first word they are passed over.
LEMMA BlanksBefore == \A b \in Blanks : Scan(NoWords, b) = NoWords
<1> DEFINE S == {b \in Blanks : Scan(NoWords, b) = NoWords}
<1>1. <<>> \in S
  BY BlanksAreText, ScanEmpty
<1>2. ASSUME NEW b \in Seq({Blank}), NEW x \in {Blank}, b \in S
      PROVE  Append(b, x) \in S
  <2>1. b \in Text /\ Append(b, x) \in Blanks /\ x = Blank /\ Blank \in Symbol
    BY BlanksAreText, AppendProperties, Symbols DEF Blanks
  <2>2. WordStep(NoWords, Blank) = NoWords
    BY Symbols DEF WordStep, NoWords
  <2> QED
    BY <1>2, <2>1, <2>2, ScanAppend
<1> HIDE DEF S
<1>3. \A b \in Seq({Blank}) : b \in S
  BY <1>1, <1>2, SeqBySet
<1> QED
  BY <1>3 DEF S, Blanks

\* After the last one they end it, unless a string is open.
LEMMA BlankAfter ==
  ASSUME NEW w, Sane(w)
  PROVE  /\ Sane(WordStep(w, Blank)) /\ WordStep(w, Blank).quoted = w.quoted
         /\ ~w.quoted => WordsAtEnd(WordStep(w, Blank)) = WordsAtEnd(w)
<1>1. WordStep(w, Blank) \in Words
  BY WordStepTyped, Symbols DEF Sane
<1>2. WordStep(w, Blank).quoted = w.quoted /\ (WordStep(w, Blank).escaped => w.quoted)
  BY Symbols DEF WordStep, Sane, Words
<1>3. ASSUME ~w.quoted PROVE WordsAtEnd(WordStep(w, Blank)) = WordsAtEnd(w)
  <2>1. ~w.escaped
    BY <1>3 DEF Sane
  <2>2. CASE w.current = <<>>
    BY <1>3, <2>1, <2>2, Symbols DEF WordStep
  <2>3. CASE w.current # <<>>
    <3>1. WordStep(w, Blank) = [w EXCEPT !.words = Append(@, w.current), !.current = <<>>]
      BY <1>3, <2>1, <2>3, Symbols DEF WordStep
    <3>2. WordStep(w, Blank).words = Append(w.words, w.current) /\ WordStep(w, Blank).current = <<>>
      BY <3>1 DEF Sane, Words
    <3> QED
      BY <2>3, <3>2 DEF WordsAtEnd
  <2> QED
    BY <2>2, <2>3
<1> QED
  BY <1>1, <1>2, <1>3 DEF Sane

LEMMA BlanksAfter ==
  ASSUME NEW w, Sane(w), NEW b \in Blanks, ~Scan(w, b).quoted
  PROVE  WordsAtEnd(Scan(w, b)) = WordsAtEnd(w)
<1> DEFINE Good(t) == /\ Sane(Scan(w, t)) /\ Scan(w, t).quoted = w.quoted
                      /\ ~w.quoted => WordsAtEnd(Scan(w, t)) = WordsAtEnd(w)
           S == {t \in Blanks : Good(t)}
<1>1. <<>> \in S
  BY BlanksAreText, ScanEmpty
<1>2. ASSUME NEW t \in Seq({Blank}), NEW x \in {Blank}, t \in S
      PROVE  Append(t, x) \in S
  <2>1. t \in Text /\ Append(t, x) \in Blanks /\ x = Blank /\ Blank \in Symbol
    BY BlanksAreText, AppendProperties, Symbols DEF Blanks
  <2>2. Scan(w, Append(t, x)) = WordStep(Scan(w, t), Blank)
    BY <2>1, ScanAppend
  <2>3. Sane(Scan(w, t)) /\ Scan(w, t).quoted = w.quoted
        /\ (~w.quoted => WordsAtEnd(Scan(w, t)) = WordsAtEnd(w))
    BY <1>2
  <2>4. /\ Sane(WordStep(Scan(w, t), Blank))
        /\ WordStep(Scan(w, t), Blank).quoted = Scan(w, t).quoted
        /\ ~Scan(w, t).quoted =>
             WordsAtEnd(WordStep(Scan(w, t), Blank)) = WordsAtEnd(Scan(w, t))
    BY <2>3, BlankAfter
  <2>5. Good(Append(t, x))
    BY <2>2, <2>3, <2>4
  <2> QED
    BY <2>1, <2>5
<1> HIDE DEF S
<1>3. \A t \in Seq({Blank}) : t \in S
  BY <1>1, <1>2, SeqBySet
<1>4. Good(b)
  BY <1>3 DEF S, Blanks
<1> QED
  BY <1>4

LEMMA ScanSane ==
  ASSUME NEW t \in Text
  PROVE  Sane(Scan(NoWords, t))
<1> DEFINE S == {u \in Text : Sane(Scan(NoWords, u))}
<1>1. <<>> \in S
  <2>1. Sane(NoWords)
    BY NoWordsTyped DEF Sane, NoWords
  <2> QED
    BY <2>1, TextTyped, ScanEmpty
<1>2. ASSUME NEW u \in Seq(Symbol), NEW x \in Symbol, u \in S
      PROVE  Append(u, x) \in S
  <2>1. u \in Text /\ Append(u, x) \in Text
    BY TextTyped DEF Text
  <2> DEFINE w == Scan(NoWords, u)
  <2>2. Sane(w) /\ Scan(NoWords, Append(u, x)) = WordStep(w, x)
    BY <1>2, <2>1, ScanAppend
  <2> HIDE DEF w
  <2>3. WordStep(w, x) \in Words
    BY <2>2, WordStepTyped DEF Sane
  <2>4. WordStep(w, x).escaped => WordStep(w, x).quoted
    BY <2>2 DEF WordStep, Sane, Words
  <2>5. Sane(WordStep(w, x))
    BY <2>3, <2>4 DEF Sane
  <2> QED
    BY <2>1, <2>2, <2>5
<1> HIDE DEF S
<1>3. \A u \in Seq(Symbol) : u \in S
  BY <1>1, <1>2, SeqBySet
<1> QED
  BY <1>3 DEF S, Text

\* What is trimmed are blanks.
LEMMA TrimParts ==
  ASSUME NEW X, NEW text \in Seq(X)
  PROVE  /\ Trim(text) \in Seq(X)
         /\ \E b, e \in Blanks : text = (b \o Trim(text)) \o e
<1> DEFINE n == Len(text)
           solid == {i \in DOMAIN text : text[i] # Blank}
<1>1. n \in Nat /\ DOMAIN text = 1 .. n /\ \A i \in 1 .. n : text[i] \in X
  BY LenProperties, ElementOfSeq
<1>2. ASSUME NEW a \in 1 .. n + 1, NEW z \in 0 .. n, \A i \in a .. z : text[i] \in X
      PROVE  /\ SubSeq(text, a, z) \in Seq(X)
             /\ Len(SubSeq(text, a, z)) = IF a <= z THEN z - a + 1 ELSE 0
             /\ \A i \in 1 .. z - a + 1 : SubSeq(text, a, z)[i] = text[a + i - 1]
  BY <1>1, <1>2, SubSeqProperties
<1>3. CASE solid = {}
  <2>1. \A i \in 1 .. n : text[i] = Blank
    BY <1>1, <1>3
  <2>2. text \in Blanks
    BY <1>1, <2>1 DEF Blanks
  <2>3. Trim(text) = <<>>
    BY <1>3 DEF Trim
  <2>4. (text \o <<>>) \o <<>> = text /\ <<>> \in Seq(X)
    BY ConcatEmptySeq, SingleTyped
  <2> QED
    BY <2>2, <2>3, <2>4, BlanksAreText
<1>4. CASE solid # {}
  <2>1. solid \subseteq 1 .. n /\ n \in Nat
    BY <1>1
  <2> HIDE DEF solid, n
  <2>0. solid \subseteq Nat /\ solid # {}
    BY <1>4, <2>1
  <2>2. PICK a \in solid : \A y \in solid : a <= y
    BY <2>0, Least
  <2> DEFINE back == {n - i : i \in solid}
  <2>3. back \subseteq Nat /\ back # {}
    BY <2>0, <2>1
  <2>4. PICK r \in back : \A y \in back : r <= y
    <3> HIDE DEF back
    <3> QED
      BY <2>3, Least
  <2>5. PICK z \in solid : r = n - z
    BY <2>4
  <2>6. \A y \in solid : y <= z
    <3> TAKE y \in solid
    <3>1. n - y \in back /\ y \in Int /\ z \in Int /\ n \in Int
      BY <2>0, <2>1
    <3>2. n - z <= n - y
      BY <2>4, <2>5, <3>1
    <3> QED
      BY <3>1, <3>2
  <2>7. Min(solid) = a
    <3>1. Min(solid) \in solid /\ \A y \in solid : Min(solid) <= y
      BY <2>2 DEF Min
    <3>2. Min(solid) <= a /\ a <= Min(solid) /\ Min(solid) \in Nat /\ a \in Nat
      BY <2>0, <2>2, <3>1
    <3> QED
      BY <3>2
  <2>8. Max(solid) = z
    <3>1. z >= z /\ \A y \in solid : z >= y
      BY <2>0, <2>6
    <3>2. Max(solid) \in solid /\ \A y \in solid : Max(solid) >= y
      BY <3>1 DEF Max
    <3>3. Max(solid) >= z /\ z >= Max(solid) /\ Max(solid) \in Nat /\ z \in Nat
      BY <2>0, <3>1, <3>2
    <3> QED
      BY <3>3
  <2>9. a \in 1 .. n /\ z \in 1 .. n /\ a <= z /\ n \in Nat
    BY <2>1, <2>2
  <2>10. Trim(text) = SubSeq(text, a, z)
    BY <1>4, <2>7, <2>8 DEF Trim, solid
  <2> DEFINE t == SubSeq(text, a, z)
             b == SubSeq(text, 1, a - 1)
             e == SubSeq(text, z + 1, n)
  <2>11. /\ t \in Seq(X) /\ Len(t) = z - a + 1
         /\ \A i \in 1 .. z - a + 1 : t[i] = text[a + i - 1]
    <3>1. a \in 1 .. n + 1 /\ z \in 0 .. n /\ \A i \in a .. z : text[i] \in X
      BY <1>1, <2>9
    <3> QED
      BY <1>2, <2>9, <3>1
  <2>12. /\ b \in Seq({Blank}) /\ Len(b) = a - 1
         /\ \A i \in 1 .. a - 1 : b[i] = text[i]
    <3>1. \A i \in 1 .. a - 1 : text[i] \in {Blank}
      BY <1>1, <2>2, <2>9 DEF solid
    <3>2. /\ b \in Seq({Blank}) /\ Len(b) = IF 1 <= a - 1 THEN (a - 1) - 1 + 1 ELSE 0
          /\ \A i \in 1 .. (a - 1) - 1 + 1 : b[i] = text[1 + i - 1]
      BY <1>1, <2>9, <3>1, SubSeqProperties
    <3> QED
      BY <1>1, <2>9, <3>2
  <2>13. /\ e \in Seq({Blank}) /\ Len(e) = n - z
         /\ \A i \in 1 .. n - z : e[i] = text[z + i]
    <3>1. \A i \in z + 1 .. n : text[i] \in {Blank}
      BY <1>1, <2>6, <2>9 DEF solid
    <3>2. /\ e \in Seq({Blank}) /\ Len(e) = IF z + 1 <= n THEN n - (z + 1) + 1 ELSE 0
          /\ \A i \in 1 .. n - (z + 1) + 1 : e[i] = text[(z + 1) + i - 1]
      BY <1>1, <2>9, <3>1, SubSeqProperties
    <3> QED
      BY <1>1, <2>9, <3>2
  <2> DEFINE Y == X \cup {Blank}
  <2>14. b \in Seq(Y) /\ t \in Seq(Y) /\ e \in Seq(Y) /\ text \in Seq(Y)
    BY <2>11, <2>12, <2>13, SeqMonotonic
  <2> HIDE DEF t, b, e, Y
  <2> DEFINE bt == b \o t
  <2>15. /\ bt \in Seq(Y) /\ Len(bt) = z
         /\ \A i \in 1 .. z : bt[i] = text[i]
    <3>1. bt \in Seq(Y) /\ Len(bt) = Len(b) + Len(t)
      BY <2>14, ConcatProperties
    <3>2. \A i \in 1 .. Len(b) + Len(t) : bt[i] = IF i <= Len(b) THEN b[i] ELSE t[i - Len(b)]
      BY <2>14, ConcatProperties
    <3>3. Len(b) + Len(t) = z /\ Len(b) = a - 1
      BY <1>1, <2>9, <2>11, <2>12
    <3>4. ASSUME NEW i \in 1 .. z PROVE bt[i] = text[i]
      <4>1. CASE i <= a - 1
        BY <2>9, <2>12, <3>2, <3>3, <4>1
      <4>2. CASE ~(i <= a - 1)
        <5>1. i - (a - 1) \in 1 .. z - a + 1 /\ a + (i - (a - 1)) - 1 = i
          BY <2>9, <4>2
        <5> QED
          BY <2>11, <3>2, <3>3, <4>2, <5>1
      <4> QED
        BY <4>1, <4>2
    <3> QED
      BY <3>1, <3>3, <3>4
  <2> HIDE DEF bt
  <2> DEFINE all == bt \o e
  <2>16. all \in Seq(Y) /\ Len(all) = Len(bt) + Len(e)
    BY <2>14, <2>15, ConcatProperties
  <2>17. \A i \in 1 .. Len(bt) + Len(e) : all[i] = IF i <= Len(bt) THEN bt[i] ELSE e[i - Len(bt)]
    BY <2>14, <2>15, ConcatProperties
  <2>18. Len(bt) + Len(e) = n /\ Len(all) = n
    BY <1>1, <2>9, <2>13, <2>15, <2>16
  <2>19. \A i \in 1 .. n : all[i] = text[i]
    <3> TAKE i \in 1 .. n
    <3>1. CASE i <= z
      BY <2>9, <2>15, <2>17, <2>18, <3>1
    <3>2. CASE ~(i <= z)
      <4>1. i - z \in 1 .. n - z /\ z + (i - z) = i
        BY <1>1, <2>9, <3>2
      <4> QED
        BY <2>13, <2>15, <2>17, <2>18, <3>2, <4>1
    <3> QED
      BY <3>1, <3>2
  <2> HIDE DEF all
  <2>20. Len(text) = n
    BY DEF n
  <2>21. text = all
    BY <2>14, <2>16, <2>18, <2>19, <2>20, SeqEqual
  <2> QED
    BY <2>10, <2>11, <2>12, <2>13, <2>21 DEF t, b, e, bt, all, Blanks
<1> QED
  BY <1>3, <1>4

\* The words at the end of a line.
LEMMA StWords ==
  ASSUME NEW text \in Text, NEW ws, NEW c, Scan(NoWords, text) = St(ws, c)
  PROVE  ControlWords(text) = IF c = <<>> THEN ws ELSE Append(ws, c)
<1> DEFINE t == Trim(text)
<1>1. t \in Text /\ \E b, e \in Blanks : text = (b \o t) \o e
  BY TrimParts DEF Text
<1> HIDE DEF t
<1>2. PICK b, e \in Blanks : text = (b \o t) \o e
  BY <1>1
<1>3. b \in Text /\ e \in Text /\ b \o t \in Text
  BY <1>1, BlanksAreText, TextTyped
<1>4. Scan(NoWords, text) = Scan(Scan(NoWords, b \o t), e)
  BY <1>2, <1>3, ScanConcat
<1>5. Scan(NoWords, b \o t) = Scan(NoWords, t)
  BY <1>1, <1>3, ScanConcat, BlanksBefore
<1> DEFINE w == Scan(NoWords, t)
<1>6. Sane(w)
  BY <1>1, ScanSane
<1>7. ~St(ws, c).quoted /\ WordsAtEnd(St(ws, c)) = IF c = <<>> THEN ws ELSE Append(ws, c)
  BY DEF St, WordsAtEnd
<1> HIDE DEF w
<1>8. Scan(w, e) = St(ws, c)
  BY <1>4, <1>5 DEF w
<1>9. WordsAtEnd(w) = WordsAtEnd(St(ws, c))
  BY <1>6, <1>7, <1>8, BlanksAfter
<1> QED
  BY <1>7, <1>9 DEF ControlWords, w, t

\* Texts without quotes and blanks.
LEMMA PlainSymbol ==
  ASSUME NEW x \in Symbol, x \notin {Quote, Blank}
  PROVE  Plain(<<x>>)
<1>1. <<x>> \in Text /\ Len(<<x>>) = 1 /\ <<x>>[1] = x /\ \A i \in 1 .. 1 : i = 1
  BY TextTyped
<1> QED
  BY <1>1 DEF Plain

LEMMA PlainConcat ==
  ASSUME NEW u, NEW v, Plain(u), Plain(v)
  PROVE  Plain(u \o v)
<1>1. u \in Seq(Symbol) /\ v \in Seq(Symbol) /\ u \o v \in Text
  BY TextTyped DEF Plain, Text
<1>2. Len(u \o v) = Len(u) + Len(v) /\ Len(u) \in Nat /\ Len(v) \in Nat
  BY <1>1, ConcatProperties, LenProperties
<1>3. \A i \in 1 .. Len(u) + Len(v) :
        (u \o v)[i] = IF i <= Len(u) THEN u[i] ELSE v[i - Len(u)]
  BY <1>1, ConcatProperties
<1>4. ASSUME NEW i \in 1 .. Len(u) + Len(v)
      PROVE  (u \o v)[i] \notin {Quote, Blank}
  <2>1. CASE i <= Len(u)
    <3>1. i \in 1 .. Len(u) /\ (u \o v)[i] = u[i]
      BY <1>2, <1>3, <2>1
    <3> QED
      BY <3>1 DEF Plain
  <2>2. CASE ~(i <= Len(u))
    <3>1. i - Len(u) \in 1 .. Len(v) /\ (u \o v)[i] = v[i - Len(u)]
      BY <1>2, <1>3, <2>2
    <3> QED
      BY <3>1 DEF Plain
  <2> QED
    BY <2>1, <2>2
<1> QED
  BY <1>1, <1>2, <1>4 DEF Plain

\* A string that Tor has quoted is one word, or none if it is empty.
THEOREM QuotedIsRead ==
  ASSUME NEW text \in Text
  PROVE  ControlWords(Quoted(text)) = IF text = <<>> THEN <<>> ELSE <<text>>
<1>1. Scan(NoWords, Quoted(text)) = St(<<>>, <<>> \o text)
  BY NoWordsSt, StQuoted
<1>2. <<>> \o text = text /\ Append(<<>>, text) = <<text>>
  BY TextLaws
<1>3. Quoted(text) \in Text
  BY QuotedParts
<1> QED
  BY <1>1, <1>2, <1>3, StWords

-----------------------------------------------------------------------------
(* No word has a symbol that its text has not.                             *)

WordsOver(X) == [words : Seq(Seq(X)), current : Seq(X), quoted : BOOLEAN, escaped : BOOLEAN]

LEMMA WordStepOver ==
  ASSUME NEW X, NEW w \in WordsOver(X), NEW x \in X
  PROVE  WordStep(w, x) \in WordsOver(X)
<1>1. <<>> \in Seq(X) /\ Append(w.current, x) \in Seq(X)
      /\ Append(w.words, w.current) \in Seq(Seq(X))
  BY AppendProperties DEF WordsOver
<1> QED
  BY <1>1 DEF WordStep, WordsOver

LEMMA ControlWordsOver ==
  ASSUME NEW X, X \subseteq Symbol, NEW text \in Seq(X)
  PROVE  ControlWords(text) \in Seq(Seq(X))
<1> DEFINE S == {t \in Seq(X) : Scan(NoWords, t) \in WordsOver(X)}
<1>1. <<>> \in S
  <2>1. <<>> \in Seq(X) /\ <<>> \in Seq(Seq(X))
    OBVIOUS
  <2> QED
    <3>1. NoWords \in WordsOver(X)
      BY <2>1 DEF NoWords, WordsOver
    <3> QED
      BY <2>1, <3>1, ScanEmpty
<1>2. ASSUME NEW t \in Seq(X), NEW x \in X, t \in S
      PROVE  Append(t, x) \in S
  <2>1. t \in Text /\ x \in Symbol /\ Append(t, x) \in Seq(X)
    BY SeqMonotonic, AppendProperties DEF Text
  <2>2. Scan(NoWords, Append(t, x)) = WordStep(Scan(NoWords, t), x)
    BY <2>1, ScanAppend
  <2> QED
    BY <1>2, <2>1, <2>2, WordStepOver
<1> HIDE DEF S
<1>3. \A t \in Seq(X) : t \in S
  BY <1>1, <1>2, SeqBySet
<1>4. Scan(NoWords, Trim(text)) \in WordsOver(X)
  BY <1>3, TrimParts DEF S
<1> QED
  BY <1>4, AppendProperties DEF ControlWords, WordsAtEnd, WordsOver

-----------------------------------------------------------------------------
(* Parts of a text, and lines as they are written and read.                *)

\* A text falls into the part up to a place and the part after it.
LEMMA AfterPrefix ==
  ASSUME NEW X, NEW u \in Seq(X), NEW v \in Seq(X)
  PROVE  After(u \o v, Len(u)) = v /\ Upto(u \o v, Len(u)) = u
<1> DEFINE m == Len(u)
           n == Len(v)
           t == u \o v
<1>1. /\ m \in Nat /\ n \in Nat /\ t \in Seq(X) /\ Len(t) = m + n
      /\ \A i \in 1 .. m + n : t[i] \in X
      /\ \A i \in 1 .. m + n : t[i] = IF i <= m THEN u[i] ELSE v[i - m]
  BY ConcatProperties, LenProperties, ElementOfSeq
<1> HIDE DEF t
<1>2. After(t, m) = v
  <2>1. After(t, m) = SubSeq(t, m + 1, m + n)
    BY <1>1 DEF After
  <2>2. \A i \in m + 1 .. m + n : t[i] \in X
    BY <1>1
  <2>3. m + 1 \in Int /\ m + n \in Int /\ (m + n) - (m + 1) + 1 = n
    BY <1>1
  <2>4. /\ SubSeq(t, m + 1, m + n) \in Seq(X)
        /\ Len(SubSeq(t, m + 1, m + n)) = IF m + 1 <= m + n THEN n ELSE 0
        /\ \A i \in 1 .. n : SubSeq(t, m + 1, m + n)[i] = t[(m + 1) + i - 1]
    BY <2>2, <2>3, SubSeqProperties
  <2>5. \A i \in 1 .. n : t[(m + 1) + i - 1] = v[i]
    <3>1. \A i \in 1 .. n : (m + 1) + i - 1 \in 1 .. m + n /\ ~((m + 1) + i - 1 <= m)
                            /\ ((m + 1) + i - 1) - m = i
      BY <1>1
    <3> QED
      BY <1>1, <3>1
  <2>6. Len(SubSeq(t, m + 1, m + n)) = n
    BY <1>1, <2>4
  <2> QED
    BY <2>1, <2>4, <2>5, <2>6, SeqEqual
<1>3. Upto(t, m) = u
  <2>1. \A i \in 1 .. m : t[i] \in X
    BY <1>1
  <2>2. /\ SubSeq(t, 1, m) \in Seq(X) /\ Len(SubSeq(t, 1, m)) = IF 1 <= m THEN m - 1 + 1 ELSE 0
        /\ \A i \in 1 .. m - 1 + 1 : SubSeq(t, 1, m)[i] = t[1 + i - 1]
    BY <1>1, <2>1, SubSeqProperties
  <2>3. Len(SubSeq(t, 1, m)) = m /\ \A i \in 1 .. m : SubSeq(t, 1, m)[i] = t[i]
    BY <1>1, <2>2
  <2>4. \A i \in 1 .. m : t[i] = u[i]
    BY <1>1
  <2> QED
    BY <2>2, <2>3, <2>4, SeqEqual DEF Upto
<1> QED
  BY <1>2, <1>3 DEF t

LEMMA UptoProperties ==
  ASSUME NEW X, NEW t \in Seq(X), NEW n \in 0 .. Len(t)
  PROVE  /\ Upto(t, n) \in Seq(X) /\ Len(Upto(t, n)) = n
         /\ \A i \in 1 .. n : Upto(t, n)[i] = t[i]
<1>1. Len(t) \in Nat /\ n \in Nat /\ n <= Len(t)
  BY LenProperties
<1>2. \A i \in 1 .. n : t[i] \in X
  BY <1>1, ElementOfSeq
<1>3. /\ SubSeq(t, 1, n) \in Seq(X) /\ Len(SubSeq(t, 1, n)) = IF 1 <= n THEN n - 1 + 1 ELSE 0
      /\ \A i \in 1 .. n - 1 + 1 : SubSeq(t, 1, n)[i] = t[1 + i - 1]
  BY <1>1, <1>2, SubSeqProperties
<1>4. n - 1 + 1 = n /\ (~(1 <= n) => n = 0) /\ \A i \in 1 .. n : 1 + i - 1 = i
  BY <1>1
<1> QED
  BY <1>3, <1>4 DEF Upto

\* A line of a body is read as it was before it was escaped, and never ends the body.
LEMMA EscapeIsUndone ==
  ASSUME NEW line \in Text
  PROVE  Escape(line) \in Text /\ Escape(line) # <<Dot>> /\ Unescape(Escape(line)) = line
<1>1. CASE line = <<>>
  BY <1>1, TextTyped DEF Escape, Unescape
<1>2. CASE line # <<>> /\ line[1] = Dot
  <2> DEFINE e == <<Dot>> \o line
  <2>1. line \in Seq(Symbol) /\ <<Dot>> \in Seq(Symbol) /\ Len(line) \in Nat \ {0}
    BY <1>2, TextTyped, Symbols, EmptySeq DEF Text
  <2>2. /\ e \in Text /\ Len(e) = 1 + Len(line)
        /\ \A i \in 1 .. 1 + Len(line) : e[i] = IF i <= 1 THEN <<Dot>>[i] ELSE line[i - 1]
    <3>1. Len(<<Dot>>) = 1
      OBVIOUS
    <3> QED
      BY <2>1, <3>1, ConcatProperties DEF Text
  <2>3. e[1] = Dot /\ e[2] = Dot
    <3>1. 1 \in 1 .. 1 + Len(line) /\ 2 \in 1 .. 1 + Len(line) /\ <<Dot>>[1] = Dot
      BY <2>1
    <3> QED
      BY <1>2, <2>2, <3>1
  <2>4. Tail(e) = line
    <3>1. Tail(e) \in Seq(Symbol) /\ Len(Tail(e)) = Len(line)
      BY <2>1, <2>2, HeadTailProperties DEF Text
    <3>2. \A i \in 1 .. Len(line) : Tail(e)[i] = e[i + 1]
      BY <2>1, <2>2, <3>1, HeadTailProperties DEF Text
    <3>3. \A i \in 1 .. Len(line) : e[i + 1] = line[i]
      BY <2>1, <2>2
    <3> QED
      BY <2>1, <3>1, <3>2, <3>3, SeqEqual
  <2>5. Escape(line) = e
    BY <1>2 DEF Escape
  <2>6. e # <<Dot>>
    BY <2>1, <2>2
  <2> HIDE DEF e
  <2>7. Len(e) >= 2
    BY <2>1, <2>2
  <2> QED
    BY <2>2, <2>3, <2>4, <2>5, <2>6, <2>7 DEF Unescape
<1>3. CASE line # <<>> /\ line[1] # Dot
  BY <1>3 DEF Escape, Unescape
<1> QED
  BY <1>1, <1>2, <1>3

\* The key of a body is what comes before the last "=".
LEMMA DataKeyIsRead ==
  ASSUME NEW key \in Text
  PROVE  DataKey(key \o <<Equals>>) = key /\ key \o <<Equals>> \in Text
<1> DEFINE t == key \o <<Equals>>
<1>1. <<Equals>> \in Text /\ t = Append(key, Equals) /\ t \in Text
  BY TextTyped, TextLaws, Symbols
<1>2. key \in Seq(Symbol) /\ Equals \in Symbol /\ Len(key) \in Nat
  BY Symbols, LenProperties DEF Text
<1>3. t # <<>> /\ Len(t) = Len(key) + 1 /\ t[Len(key) + 1] = Equals
  BY <1>1, <1>2, AppendProperties
<1>4. Last(t) = Equals
  BY <1>3 DEF Last
<1>5. Front(t) = key
  <2>1. Front(t) = SubSeq(t, 1, Len(key))
    BY <1>2, <1>3 DEF Front
  <2>2. Upto(t, Len(key)) = key
    BY <1>1, <1>2, AfterPrefix DEF Text
  <2> QED
    BY <2>1, <2>2 DEF Upto
<1> QED
  BY <1>1, <1>3, <1>4, <1>5 DEF DataKey

\* Find is the first place of a symbol.
LEMMA FindFirst ==
  ASSUME NEW text \in Text, NEW symbol, NEW i \in 1 .. Len(text), text[i] = symbol,
         \A j \in 1 .. i - 1 : text[j] # symbol
  PROVE  Find(text, symbol) = i
<1> DEFINE P(k) == text[k] = symbol /\ \A j \in 1 .. k - 1 : text[j] # symbol
<1>1. DOMAIN text = 1 .. Len(text) /\ Len(text) \in Nat
  BY LenProperties DEF Text
<1>2. i \in DOMAIN text /\ P(i)
  BY <1>1
<1>3. \A k \in DOMAIN text : P(k) => k = i
  <2> TAKE k \in DOMAIN text
  <2>1. k \in Nat /\ i \in Nat /\ k >= 1 /\ i >= 1
    BY <1>1
  <2>2. ASSUME P(k), k < i PROVE FALSE
    BY <2>1, <2>2
  <2>3. ASSUME P(k), i < k PROVE FALSE
    BY <2>1, <2>3
  <2> QED
    BY <2>1, <2>2, <2>3
<1>4. (CHOOSE k \in DOMAIN text : P(k)) = i
  <2> HIDE DEF P
  <2>1. (CHOOSE k \in DOMAIN text : P(k)) \in DOMAIN text /\ P(CHOOSE k \in DOMAIN text : P(k))
    BY <1>2
  <2> QED
    BY <1>3, <2>1
<1>5. \E k \in DOMAIN text : text[k] = symbol
  BY <1>2
<1> QED
  BY <1>4, <1>5 DEF Find

LEMMA FindNone ==
  ASSUME NEW text \in Text, NEW symbol, \A i \in 1 .. Len(text) : text[i] # symbol
  PROVE  Find(text, symbol) = 0
  BY LenProperties DEF Find, Text

LEMMA FindSome ==
  ASSUME NEW text \in Text, NEW symbol, \E i \in 1 .. Len(text) : text[i] = symbol
  PROVE  Find(text, symbol) \in 1 .. Len(text) /\ text[Find(text, symbol)] = symbol
<1> DEFINE T == {i \in 1 .. Len(text) : text[i] = symbol}
<1>1. T \subseteq Nat /\ T # {}
  BY LenProperties DEF Text
<1>2. PICK i \in T : \A j \in T : i <= j
  <2> HIDE DEF T
  <2> QED
    BY <1>1, Least
<1>3. i \in 1 .. Len(text) /\ text[i] = symbol /\ \A j \in 1 .. i - 1 : text[j] # symbol
  <2>1. Len(text) \in Nat
    BY LenProperties DEF Text
  <2> QED
    BY <1>2, <2>1
<1>4. Find(text, symbol) = i
  BY <1>3, FindFirst
<1> QED
  BY <1>3, <1>4

\* A line without "=", or with a blank before it, is text.
LEMMA TextIsRead ==
  ASSUME NEW text \in Text,
         \/ \A i \in 1 .. Len(text) : text[i] # Equals
         \/ Len(text) >= 2 /\ text[1] # Equals /\ text[2] = Blank
  PROVE  ParsePayload(text) = TextLine(text)
<1>1. CASE \A i \in 1 .. Len(text) : text[i] # Equals
  BY <1>1, FindNone DEF ParsePayload
<1>2. CASE Len(text) >= 2 /\ text[1] # Equals /\ text[2] = Blank
  <2> DEFINE n == Find(text, Equals)
             u == Upto(text, n)
  <2>1. DOMAIN text = 1 .. Len(text) /\ Len(text) \in Nat /\ \A i \in 1 .. Len(text) : text[i] \in Symbol
    BY LenProperties, ElementOfSeq DEF Text
  <2>2. ASSUME n > 1 PROVE Find(u, Blank) # 0
    <3>1. n \in 1 .. Len(text) /\ text[n] = Equals
      <4>1. n # 0
        BY <2>2
      <4>2. \E i \in 1 .. Len(text) : text[i] = Equals
        BY <4>1, FindNone
      <4> QED
        BY <4>2, FindSome
    <3>2. n >= 2
      BY <2>2, <3>1
    <3> HIDE DEF n
    <3>3. \A i \in 1 .. n : text[i] \in Symbol
      BY <2>1, <3>1
    <3>4. /\ SubSeq(text, 1, n) \in Seq(Symbol) /\ Len(SubSeq(text, 1, n)) = n - 1 + 1
          /\ \A i \in 1 .. n - 1 + 1 : SubSeq(text, 1, n)[i] = text[1 + i - 1]
      BY <3>1, <3>2, <3>3, SubSeqProperties
    <3>5. u \in Text /\ Len(u) = n /\ u[2] = Blank
      <4>1. 2 \in 1 .. n - 1 + 1 /\ 1 + 2 - 1 = 2
        BY <3>1, <3>2
      <4> QED
        BY <1>2, <3>1, <3>4, <4>1 DEF Upto, Text
    <3>6. 2 \in 1 .. Len(u)
      BY <3>1, <3>2, <3>5
    <3> HIDE DEF u
    <3>7. Find(u, Blank) \in 1 .. Len(u)
      BY <3>5, <3>6, FindSome
    <3> QED
      BY <3>1, <3>5, <3>7
  <2> QED
    BY <2>2 DEF ParsePayload
<1> QED
  BY <1>1, <1>2

\* A key without "=" and blanks, and its value, whatever that is.
LEMMA PairIsRead ==
  ASSUME NEW key \in Text, key # <<>>, \A i \in 1 .. Len(key) : key[i] \notin {Equals, Blank},
         NEW value \in Text
  PROVE  /\ (key \o <<Equals>>) \o value \in Text
         /\ ParsePayload((key \o <<Equals>>) \o value) = PairLine(key, value)
<1> DEFINE m == Len(key)
           k == key \o <<Equals>>
           t == k \o value
<1>1. key \in Seq(Symbol) /\ value \in Seq(Symbol) /\ <<Equals>> \in Seq(Symbol) /\ Equals \in Symbol
  BY TextTyped, Symbols DEF Text
<1>2. m \in Nat /\ m >= 1 /\ Len(value) \in Nat
  BY <1>1, EmptySeq, LenProperties
<1>3. k = Append(key, Equals) /\ k \in Text
  BY <1>1, TextTyped, TextLaws DEF Text
<1>4. Len(k) = m + 1 /\ k[m + 1] = Equals /\ \A i \in 1 .. m : k[i] = key[i]
  BY <1>1, <1>3, AppendProperties
<1> HIDE DEF k
<1>5. /\ t \in Text /\ Len(t) = m + 1 + Len(value)
      /\ \A i \in 1 .. m + 1 + Len(value) : t[i] = IF i <= m + 1 THEN k[i] ELSE value[i - (m + 1)]
  <2>1. k \in Seq(Symbol)
    BY <1>3 DEF Text
  <2>2. /\ t \in Seq(Symbol) /\ Len(t) = Len(k) + Len(value)
        /\ \A i \in 1 .. Len(k) + Len(value) : t[i] = IF i <= Len(k) THEN k[i] ELSE value[i - Len(k)]
    BY <1>1, <2>1, ConcatProperties
  <2> QED
    BY <1>4, <2>2 DEF Text
<1>6. \A i \in 1 .. m + 1 : t[i] = k[i]
  BY <1>2, <1>5
<1>7. After(t, m + 1) = value /\ Upto(t, m + 1) = k
  BY <1>1, <1>3, <1>4, AfterPrefix DEF Text
<1>8. Upto(t, m) = key
  <2> HIDE DEF t
  <2>1. t \in Seq(Symbol) /\ m \in 0 .. Len(t)
    BY <1>2, <1>5 DEF Text
  <2> HIDE DEF m
  <2>2. Upto(t, m) \in Seq(Symbol) /\ Len(Upto(t, m)) = m /\ \A i \in 1 .. m : Upto(t, m)[i] = t[i]
    BY <2>1, UptoProperties
  <2>3. \A i \in 1 .. m : t[i] = key[i]
    BY <1>2, <1>4, <1>6
  <2> QED
    BY <1>1, <2>2, <2>3, SeqEqual DEF m
<1>9. Find(t, Equals) = m + 1
  <2>1. m + 1 \in 1 .. Len(t) /\ t[m + 1] = Equals
    BY <1>2, <1>4, <1>5, <1>6
  <2>2. \A j \in 1 .. (m + 1) - 1 : t[j] # Equals
    BY <1>2, <1>4, <1>6
  <2> HIDE DEF t
  <2> QED
    BY <1>5, <2>1, <2>2, FindFirst
<1>10. Find(k, Blank) = 0
  <2>1. \A i \in 1 .. m + 1 : k[i] # Blank
    <3>1. \A i \in 1 .. m + 1 : i \in 1 .. m \/ i = m + 1
      BY <1>2
    <3> QED
      BY <1>4, <3>1, Symbols
  <2> QED
    BY <1>3, <1>4, <2>1, FindNone
<1> HIDE DEF t, m
<1>11. m + 1 > 1 /\ (m + 1) - 1 = m
  BY <1>2
<1>12. ParsePayload(t) = PairLine(key, value)
  BY <1>7, <1>8, <1>9, <1>10, <1>11 DEF ParsePayload
<1> QED
  BY <1>5, <1>12 DEF t, k

-----------------------------------------------------------------------------
(* A reply as Tor writes it, line by line of the reply.                    *)

Lines == [kind : {"text", "pair", "data"}, key : Text, value : Seq(Text)]

\* What a line is read as when it is not cut.
WellMeant(l) ==
  /\ l \in Lines
  /\ l.kind = "data" => l = DataLine(l.key, l.value)
  /\ l.kind # "data" => Payload(l) \in Text /\ ParsePayload(Payload(l)) = l

\* The last line tells that it is the last.
Reply(code, lines) ==
  /\ code \in Codes /\ lines \in Seq(Lines) /\ lines # <<>>
  /\ \A i \in 1 .. Len(lines) : WellMeant(lines[i])
  /\ lines[Len(lines)].kind # "data"

Escapes(value, j) == [i \in 1 .. Len(value) - j |-> Escape(value[i + j])]
Head1(code, key) == (<<code, "+">> \o key) \o <<Equals>>
Status(code, lines, i) ==
  (<<code, IF i = Len(lines) THEN " " ELSE "-">>) \o Payload(lines[i])

Chunk(code, lines, i) ==
  IF lines[i].kind = "data"
  THEN <<Head1(code, lines[i].key)>> \o Escapes(lines[i].value, 0) \o << <<Dot>> >>
  ELSE <<Status(code, lines, i)>>

\* What Tor writes from one line on.
Enc(code, lines, k) ==
  FlattenSeq([i \in 1 .. Len(lines) - k |-> Chunk(code, lines, i + k)])

LEMMA CodePair ==
  ASSUME NEW code \in Codes, NEW sep \in Separators
  PROVE  <<code, sep>> \in Text /\ Len(<<code, sep>>) = 2
<1>1. code \in Symbol /\ sep \in Symbol
  BY DEF Symbol, Codes, Separators, Words1
<1>2. Append(<<code>>, sep) = <<code, sep>> /\ <<code>> \in Text
  BY <1>1, PairOfSymbols, TextTyped
<1> QED
  BY <1>1, <1>2, TextTyped

LEMMA EscapesTyped ==
  ASSUME NEW value \in Seq(Text), NEW j \in 0 .. Len(value)
  PROVE  Escapes(value, j) \in Seq(Text) /\ Len(Escapes(value, j)) = Len(value) - j
<1>1. Len(value) \in Nat /\ Len(value) - j \in Nat
  BY LenProperties
<1>2. \A i \in 1 .. Len(value) - j : value[i + j] \in Text
  <2>1. \A i \in 1 .. Len(value) - j : i + j \in 1 .. Len(value)
    BY <1>1
  <2> QED
    BY <2>1, ElementOfSeq
<1>3. \A i \in 1 .. Len(value) - j : Escape(value[i + j]) \in Text
  BY <1>2, EscapeIsUndone
<1> QED
  BY <1>1, <1>3 DEF Escapes

LEMMA Head1Typed ==
  ASSUME NEW code \in Codes, NEW key \in Text
  PROVE  /\ Head1(code, key) \in Text
         /\ Head1(code, key) = <<code, "+">> \o (key \o <<Equals>>)
<1>1. <<code, "+">> \in Text /\ <<Equals>> \in Text
  BY CodePair, TextTyped, Symbols DEF Separators
<1> QED
  BY <1>1, TextTyped, TextLaws DEF Head1

LEMMA StatusTyped ==
  ASSUME NEW code, NEW lines, Reply(code, lines), NEW i \in 1 .. Len(lines),
         lines[i].kind # "data"
  PROVE  Status(code, lines, i) \in Text
<1>1. WellMeant(lines[i]) /\ code \in Codes
  BY DEF Reply
<1>2. <<code, " ">> \in Text /\ <<code, "-">> \in Text /\ Payload(lines[i]) \in Text
  BY <1>1, CodePair DEF WellMeant, Separators
<1> QED
  BY <1>2, TextTyped DEF Status

LEMMA ChunkTyped ==
  ASSUME NEW code, NEW lines, Reply(code, lines), NEW i \in 1 .. Len(lines)
  PROVE  Chunk(code, lines, i) \in Seq(Text)
<1>1. WellMeant(lines[i]) /\ code \in Codes
  BY DEF Reply
<1>2. CASE lines[i].kind = "data"
  <2>1. lines[i].key \in Text /\ lines[i].value \in Seq(Text)
    BY <1>1 DEF WellMeant, Lines
  <2>2. Escapes(lines[i].value, 0) \in Seq(Text)
    <3>1. 0 \in 0 .. Len(lines[i].value)
      BY <2>1, LenProperties
    <3> QED
      BY <2>1, <3>1, EscapesTyped
  <2>3. <<Head1(code, lines[i].key)>> \in Seq(Text) /\ << <<Dot>> >> \in Seq(Text)
    BY <1>1, <2>1, Head1Typed, SingleTyped, TextTyped, Symbols
  <2>4. <<Head1(code, lines[i].key)>> \o Escapes(lines[i].value, 0) \in Seq(Text)
    BY <2>2, <2>3, ConcatProperties
  <2> QED
    BY <1>2, <2>3, <2>4, ConcatProperties DEF Chunk
<1>3. CASE lines[i].kind # "data"
  BY <1>3, StatusTyped, SingleTyped DEF Chunk
<1> QED
  BY <1>2, <1>3

\* The whole reply, what comes after a line of it, and nothing after the last one.
LEMMA EncAll ==
  ASSUME NEW code, NEW lines, Reply(code, lines)
  PROVE  Enc(code, lines, 0) = Encode(code, lines)
<1>1. DOMAIN lines = 1 .. Len(lines) /\ Len(lines) \in Nat
  BY LenProperties DEF Reply
<1>2. \A i \in 1 .. Len(lines) :
        lines[i].kind = "data" =>
          Escapes(lines[i].value, 0)
            = [k \in DOMAIN lines[i].value |-> Escape(lines[i].value[k])]
  <2> TAKE i \in 1 .. Len(lines)
  <2>1. HAVE lines[i].kind = "data"
  <2>2. lines[i].value \in Seq(Text)
    BY DEF Reply, WellMeant, Lines
  <2>3. DOMAIN lines[i].value = 1 .. Len(lines[i].value) /\ Len(lines[i].value) \in Nat
    BY <2>2, LenProperties
  <2>4. \A k \in 1 .. Len(lines[i].value) : k + 0 = k
    BY <2>3
  <2> QED
    BY <2>3, <2>4 DEF Escapes
<1>3. \A i \in 1 .. Len(lines) - 0 : i + 0 = i
  BY <1>1
<1>4. [i \in 1 .. Len(lines) - 0 |-> Chunk(code, lines, i + 0)]
        = [i \in DOMAIN lines |-> Chunk(code, lines, i)]
  BY <1>1, <1>3
<1>5. \A i \in DOMAIN lines : Chunk(code, lines, i) =
        IF lines[i].kind = "data"
        THEN <<(<<code, "+">> \o lines[i].key) \o <<Equals>>>>
             \o [k \in DOMAIN lines[i].value |-> Escape(lines[i].value[k])] \o << <<Dot>> >>
        ELSE <<(<<code, IF i = Len(lines) THEN " " ELSE "-">>) \o Payload(lines[i])>>
  BY <1>1, <1>2 DEF Chunk, Head1, Status
<1>6. [i \in DOMAIN lines |-> Chunk(code, lines, i)] = [i \in DOMAIN lines |->
        IF lines[i].kind = "data"
        THEN <<(<<code, "+">> \o lines[i].key) \o <<Equals>>>>
             \o [k \in DOMAIN lines[i].value |-> Escape(lines[i].value[k])] \o << <<Dot>> >>
        ELSE <<(<<code, IF i = Len(lines) THEN " " ELSE "-">>) \o Payload(lines[i])>>]
  BY <1>5
<1> QED
  BY <1>4, <1>6, Zenon DEF Enc, Encode

LEMMA EncNext ==
  ASSUME NEW code, NEW lines, Reply(code, lines), NEW k \in 0 .. Len(lines) - 1
  PROVE  /\ Enc(code, lines, k) = Chunk(code, lines, k + 1) \o Enc(code, lines, k + 1)
         /\ Enc(code, lines, k + 1) \in Seq(Text)
<1> DEFINE n == Len(lines)
           f(m) == [i \in 1 .. n - m |-> Chunk(code, lines, i + m)]
           c == Chunk(code, lines, k + 1)
<1>1. n \in Nat /\ k \in Nat /\ k + 1 \in 1 .. n /\ n - k \in Nat /\ n - (k + 1) \in Nat
  BY LenProperties DEF Reply
<1>2. c \in Seq(Text) /\ f(k) \in Seq(Seq(Text)) /\ f(k + 1) \in Seq(Seq(Text))
  <2>1. \A i \in 1 .. n : Chunk(code, lines, i) \in Seq(Text)
    BY ChunkTyped
  <2>2. \A i \in 1 .. n - k : i + k \in 1 .. n
    BY <1>1
  <2>3. \A i \in 1 .. n - (k + 1) : i + (k + 1) \in 1 .. n
    BY <1>1
  <2> HIDE DEF n
  <2> QED
    BY <1>1, <2>1, <2>2, <2>3
<1>3. f(k) = <<c>> \o f(k + 1)
  <2>1. Len(f(k)) = n - k /\ Len(f(k + 1)) = n - (k + 1)
    BY <1>1
  <2>2. \A i \in 1 .. n - k : f(k)[i] = Chunk(code, lines, i + k)
    OBVIOUS
  <2>3. \A i \in 1 .. n - (k + 1) : f(k + 1)[i] = Chunk(code, lines, i + (k + 1))
    OBVIOUS
  <2> DEFINE g == f(k + 1)
             h == f(k)
  <2>4. g \in Seq(Seq(Text)) /\ h \in Seq(Seq(Text))
    BY <1>2
  <2> HIDE DEF f, c, n, g, h
  <2>5. /\ <<c>> \o g \in Seq(Seq(Text)) /\ Len(<<c>> \o g) = 1 + Len(g) /\ (<<c>> \o g)[1] = c
        /\ \A i \in 1 .. Len(g) : (<<c>> \o g)[i + 1] = g[i]
    BY <1>2, <2>4, ConsProperties
  <2>6. \A i \in 1 .. n - k : h[i] = (<<c>> \o g)[i]
    <3> TAKE i \in 1 .. n - k
    <3>1. CASE i = 1
      <4>1. h[i] = c
        BY <1>1, <2>2, <3>1 DEF c, h
      <4> QED
        BY <2>5, <3>1, <4>1
    <3>2. CASE i # 1
      <4>1. i - 1 \in 1 .. n - (k + 1) /\ (i - 1) + (k + 1) = i + k /\ (i - 1) + 1 = i
        BY <1>1, <3>2
      <4>2. g[i - 1] = Chunk(code, lines, i + k)
        BY <2>3, <4>1 DEF g
      <4>3. (<<c>> \o g)[i] = g[i - 1]
        BY <2>1, <2>5, <4>1 DEF g
      <4> QED
        BY <2>2, <4>2, <4>3 DEF h
    <3> QED
      BY <3>1, <3>2
  <2>7. 1 + (n - (k + 1)) = n - k
    BY <1>1
  <2>8. Len(h) = n - k /\ Len(<<c>> \o g) = n - k
    BY <2>1, <2>5, <2>7 DEF g, h
  <2>9. h = <<c>> \o g
    BY <2>4, <2>5, <2>6, <2>8, SeqEqual
  <2> QED
    BY <2>9 DEF g, h
<1>4. Enc(code, lines, k) = FlattenSeq(f(k)) /\ Enc(code, lines, k + 1) = FlattenSeq(f(k + 1))
  BY DEF Enc
<1> HIDE DEF f, c
<1>5. FlattenSeq(<<c>> \o f(k + 1)) = c \o FlattenSeq(f(k + 1)) /\ FlattenSeq(f(k + 1)) \in Seq(Text)
  BY <1>2, FlattenCons, FlattenTyped
<1> QED
  BY <1>3, <1>4, <1>5 DEF c

LEMMA EncNone ==
  ASSUME NEW code, NEW lines, Reply(code, lines)
  PROVE  Enc(code, lines, Len(lines)) = <<>>
<1>1. Len(lines) \in Nat /\ Len(lines) - Len(lines) = 0
  BY LenProperties DEF Reply
<1>2. [i \in 1 .. 0 |-> Chunk(code, lines, i + Len(lines))] = <<>>
  OBVIOUS
<1> QED
  BY <1>1, <1>2, FlattenEmpty DEF Enc

-----------------------------------------------------------------------------
(* The reader keeps a well-formed state, whatever line comes.              *)

ReplyState ==
  [at : {"first", "more", "data", "whole", "failed", "none"}, code : Codes \cup {""},
   lines : Seq(Lines), key : Text, body : Seq(Text)]

LEMMA AfterTyped ==
  ASSUME NEW X, NEW t \in Seq(X), NEW n \in 0 .. Len(t)
  PROVE  /\ After(t, n) \in Seq(X) /\ Len(After(t, n)) = Len(t) - n
         /\ \A i \in 1 .. Len(t) - n : After(t, n)[i] = t[n + i]
<1>1. Len(t) \in Nat /\ n \in Nat /\ n <= Len(t)
  BY LenProperties
<1>2. \A i \in n + 1 .. Len(t) : t[i] \in X
  <2>1. \A i \in n + 1 .. Len(t) : i \in 1 .. Len(t)
    BY <1>1
  <2> QED
    BY <2>1, ElementOfSeq
<1>3. /\ SubSeq(t, n + 1, Len(t)) \in Seq(X)
      /\ Len(SubSeq(t, n + 1, Len(t))) = IF n + 1 <= Len(t) THEN Len(t) - (n + 1) + 1 ELSE 0
      /\ \A i \in 1 .. Len(t) - (n + 1) + 1 : SubSeq(t, n + 1, Len(t))[i] = t[(n + 1) + i - 1]
  <2>1. n + 1 \in Int /\ Len(t) \in Int
    BY <1>1
  <2> QED
    BY <1>2, <2>1, SubSeqProperties
<1>4. /\ Len(t) - (n + 1) + 1 = Len(t) - n /\ (~(n + 1 <= Len(t)) => Len(t) - n = 0)
      /\ \A i \in 1 .. Len(t) - n : (n + 1) + i - 1 = n + i
  BY <1>1
<1> QED
  BY <1>3, <1>4 DEF After

LEMMA TextLineTyped == \A t \in Text : TextLine(t) \in Lines
<1> TAKE t \in Text
<1>1. <<t>> \in Seq(Text) /\ <<>> \in Text
  BY SingleTyped, TextTyped
<1> QED
  BY <1>1 DEF TextLine, Lines

LEMMA PairLineTyped == \A k, t \in Text : PairLine(k, t) \in Lines
<1> TAKE k, t \in Text
<1>1. <<t>> \in Seq(Text)
  BY SingleTyped
<1> QED
  BY <1>1 DEF PairLine, Lines

LEMMA ParsedTyped ==
  ASSUME NEW text \in Text
  PROVE  ParsePayload(text) \in Lines
<1> DEFINE n == Find(text, Equals)
<1>1. CASE n > 1
  <2>1. n # 0
    BY <1>1
  <2>2. n \in 1 .. Len(text)
    BY <2>1, FindNone, FindSome
  <2>3. text \in Seq(Symbol) /\ Len(text) \in Nat
    BY LenProperties DEF Text
  <2>4. n \in 0 .. Len(text) /\ n - 1 \in 0 .. Len(text)
    BY <2>2, <2>3
  <2> HIDE DEF n
  <2>5. After(text, n) \in Text /\ Upto(text, n - 1) \in Text
    BY <2>3, <2>4, AfterTyped, UptoProperties DEF Text
  <2> QED
    BY <2>5, TextLineTyped, PairLineTyped DEF ParsePayload, n
<1>2. CASE ~(n > 1)
  BY <1>2, TextLineTyped DEF ParsePayload
<1> QED
  BY <1>1, <1>2

LEMMA DataKeyTyped ==
  ASSUME NEW text \in Text
  PROVE  DataKey(text) \in Text
<1>1. CASE text = <<>>
  BY <1>1 DEF DataKey
<1>2. CASE text # <<>>
  <2>1. text \in Seq(Symbol) /\ Len(text) - 1 \in 0 .. Len(text)
    BY <1>2, EmptySeq DEF Text
  <2>2. Front(text) = Upto(text, Len(text) - 1)
    BY DEF Front, Upto
  <2>3. Upto(text, Len(text) - 1) \in Text
    BY <2>1, UptoProperties DEF Text
  <2> QED
    BY <2>2, <2>3 DEF DataKey
<1> QED
  BY <1>1, <1>2

LEMMA UnescapedTyped ==
  ASSUME NEW line \in Text
  PROVE  Unescape(line) \in Text
<1>1. Len(line) >= 2 => Tail(line) \in Text
  <2>1. Len(line) >= 2 => line # <<>>
    OBVIOUS
  <2> QED
    BY <2>1, HeadTailProperties DEF Text
<1> QED
  BY <1>1 DEF Unescape

LEMMA ReadLineTyped ==
  ASSUME NEW r \in ReplyState, NEW line \in Text
  PROVE  ReadLine(r, line) \in ReplyState
<1>1. ReadData(r, line) \in ReplyState
  <2>1. DataLine(r.key, r.body) \in Lines
    BY DEF DataLine, Lines, ReplyState
  <2>2. Append(r.lines, DataLine(r.key, r.body)) \in Seq(Lines)
        /\ Append(r.body, Unescape(line)) \in Seq(Text)
    BY <2>1, UnescapedTyped, AppendProperties DEF ReplyState
  <2> QED
    BY <2>2 DEF ReadData, ReplyState
<1>2. ReadStatus(r, line) \in ReplyState
  <2>1. CASE ~IsStatus(line) \/ (r.at = "more" /\ line[1] # r.code)
    BY <2>1 DEF ReadStatus, ReplyState
  <2>2. CASE IsStatus(line) /\ ~(r.at = "more" /\ line[1] # r.code)
    <3>1. line[1] \in Codes /\ Len(line) >= 2
      BY <2>2 DEF IsStatus
    <3>2. line \in Seq(Symbol) /\ 2 \in 0 .. Len(line)
      BY <3>1, LenProperties DEF Text
    <3>3. After(line, 2) \in Text
      BY <3>2, AfterTyped DEF Text
    <3>4. DataKey(After(line, 2)) \in Text /\ ParsePayload(After(line, 2)) \in Lines
      BY <3>3, DataKeyTyped, ParsedTyped
    <3>5. Append(r.lines, ParsePayload(After(line, 2))) \in Seq(Lines) /\ <<>> \in Seq(Text)
      BY <3>4, AppendProperties, SingleTyped DEF ReplyState
    <3>6. CASE line[2] = "+"
      BY <2>2, <3>1, <3>4, <3>5, <3>6 DEF ReadStatus, ReplyState
    <3>7. CASE line[2] # "+"
      BY <2>2, <3>1, <3>4, <3>5, <3>7 DEF ReadStatus, ReplyState
    <3> QED
      BY <3>6, <3>7
  <2> QED
    BY <2>1, <2>2
<1> QED
  BY <1>1, <1>2 DEF ReadLine

LEMMA StartTyped == StartReply \in ReplyState
<1>1. <<>> \in Seq(Lines) /\ <<>> \in Text /\ <<>> \in Seq(Text)
  BY SingleTyped, TextTyped
<1> QED
  BY <1>1 DEF StartReply, ReplyState

LEMMA ReadEndTyped == \A r \in ReplyState : ReadEnd(r) \in ReplyState
  BY DEF ReadEnd, ReplyState

-----------------------------------------------------------------------------
(* The reader follows the writer.                                          *)

\* A beginning of a sequence.
Begun(s, t) == Len(s) <= Len(t) /\ \A i \in 1 .. Len(s) : s[i] = t[i]

\* The reply as far as it was read is a beginning of the one that Tor gives.
OnTrack(code, lines, r) ==
  /\ r \in ReplyState /\ Begun(r.lines, lines)
  /\ r.at \in {"first", "more", "data", "whole"}
  /\ r.at = "first" => r.lines = <<>>
  /\ r.at # "first" => r.code = code
  /\ r.at # "whole" => Len(r.lines) < Len(lines)
  /\ r.at = "whole" => r.lines = lines
  /\ r.at = "data" => LET l == lines[Len(r.lines) + 1]
                      IN  l.kind = "data" /\ r.key = l.key /\ Begun(r.body, l.value)

\* What of it is still to come.
Left(code, lines, r) ==
  IF r.at = "data"
  THEN (Escapes(lines[Len(r.lines) + 1].value, Len(r.body)) \o << <<Dot>> >>)
       \o Enc(code, lines, Len(r.lines) + 1)
  ELSE Enc(code, lines, Len(r.lines))

\* One more element of the beginning.
LEMMA BegunNext ==
  ASSUME NEW X, NEW s \in Seq(X), NEW t \in Seq(X), Begun(s, t), Len(s) < Len(t)
  PROVE  /\ Len(s) + 1 \in 1 .. Len(t) /\ t[Len(s) + 1] \in X
         /\ Append(s, t[Len(s) + 1]) \in Seq(X) /\ Begun(Append(s, t[Len(s) + 1]), t)
         /\ Len(Append(s, t[Len(s) + 1])) = Len(s) + 1
<1> DEFINE x == t[Len(s) + 1]
<1>1. Len(s) \in Nat /\ Len(t) \in Nat
  BY LenProperties
<1>2. Len(s) + 1 \in 1 .. Len(t)
  BY <1>1
<1>3. x \in X
  BY <1>2, ElementOfSeq
<1>4. /\ Append(s, x) \in Seq(X) /\ Len(Append(s, x)) = Len(s) + 1
      /\ Append(s, x)[Len(s) + 1] = x
  BY <1>3, AppendProperties
<1>5. \A i \in 1 .. Len(s) : Append(s, x)[i] = s[i]
  BY <1>3, AppendProperties
<1>6. \A i \in 1 .. Len(s) + 1 : Append(s, x)[i] = t[i]
  <2>1. \A i \in 1 .. Len(s) + 1 : i \in 1 .. Len(s) \/ i = Len(s) + 1
    BY <1>1
  <2>2. \A i \in 1 .. Len(s) : s[i] = t[i]
    BY DEF Begun
  <2> QED
    BY <1>4, <1>5, <2>1, <2>2
<1> HIDE DEF x
<1>7. Begun(Append(s, x), t)
  BY <1>1, <1>4, <1>6 DEF Begun
<1> QED
  BY <1>2, <1>3, <1>4, <1>7 DEF x

LEMMA BegunWhole ==
  ASSUME NEW X, NEW s \in Seq(X), NEW t \in Seq(X), Begun(s, t), ~(Len(s) < Len(t))
  PROVE  s = t
<1>1. Len(s) = Len(t)
  BY LenProperties DEF Begun
<1> QED
  BY <1>1, SeqEqual DEF Begun

\* A status line that Tor writes has its code and tells whether it is the last one.
LEMMA StatusIsRead ==
  ASSUME NEW code \in Codes, NEW sep \in Separators, NEW t \in Text
  PROVE  LET l == <<code, sep>> \o t
         IN  l \in Text /\ IsStatus(l) /\ l[1] = code /\ l[2] = sep /\ After(l, 2) = t
<1> DEFINE p == <<code, sep>>
           l == p \o t
<1>1. p \in Seq(Symbol) /\ Len(p) = 2 /\ p[1] = code /\ p[2] = sep
  BY CodePair DEF Text
<1>2. t \in Seq(Symbol) /\ Len(t) \in Nat
  BY LenProperties DEF Text
<1> HIDE DEF p
<1>3. /\ l \in Seq(Symbol) /\ Len(l) = 2 + Len(t)
      /\ \A i \in 1 .. 2 + Len(t) : l[i] = IF i <= 2 THEN p[i] ELSE t[i - 2]
  <2>1. /\ l \in Seq(Symbol) /\ Len(l) = Len(p) + Len(t)
        /\ \A i \in 1 .. Len(p) + Len(t) : l[i] = IF i <= Len(p) THEN p[i] ELSE t[i - Len(p)]
    BY <1>1, <1>2, ConcatProperties
  <2> QED
    BY <1>1, <2>1
<1>4. l[1] = code /\ l[2] = sep
  <2>1. 1 \in 1 .. 2 + Len(t) /\ 2 \in 1 .. 2 + Len(t)
    BY <1>2
  <2> QED
    BY <1>1, <1>3, <2>1
<1>5. After(l, 2) = t
  BY <1>1, <1>2, AfterPrefix
<1> HIDE DEF l
<1>6. IsStatus(l)
  BY <1>2, <1>3, <1>4 DEF IsStatus
<1> QED
  BY <1>3, <1>4, <1>5, <1>6 DEF Text, l, p

\* A status line is next, and then the reader is at the next line or has the whole.
LEMMA StatusStep ==
  ASSUME NEW code, NEW lines, Reply(code, lines), NEW r, OnTrack(code, lines, r),
         r.at \in {"first", "more"}, lines[Len(r.lines) + 1].kind # "data"
  PROVE  LET k == Len(r.lines)
             l == Status(code, lines, k + 1)
             q == ReadLine(r, l)
         IN  /\ l \in Text /\ Enc(code, lines, k + 1) \in Seq(Text)
             /\ Left(code, lines, r) = <<l>> \o Enc(code, lines, k + 1)
             /\ OnTrack(code, lines, q) /\ Left(code, lines, q) = Enc(code, lines, k + 1)
<1> DEFINE k == Len(r.lines)
           n == Len(lines)
           l == Status(code, lines, k + 1)
           sep == IF k + 1 = n THEN " " ELSE "-"
           q == ReadLine(r, l)
<1>1. /\ r \in ReplyState /\ r.lines \in Seq(Lines) /\ lines \in Seq(Lines) /\ code \in Codes
      /\ Begun(r.lines, lines) /\ k < n
  BY DEF OnTrack, Reply, ReplyState
<1>2. /\ k + 1 \in 1 .. n /\ Append(r.lines, lines[k + 1]) \in Seq(Lines)
      /\ Begun(Append(r.lines, lines[k + 1]), lines) /\ Len(Append(r.lines, lines[k + 1])) = k + 1
  BY <1>1, BegunNext
<1>3. k \in Nat /\ n \in Nat /\ k \in 0 .. n - 1
  BY <1>1, LenProperties
<1>4. /\ WellMeant(lines[k + 1]) /\ Payload(lines[k + 1]) \in Text
      /\ ParsePayload(Payload(lines[k + 1])) = lines[k + 1]
  BY <1>2 DEF Reply, WellMeant
<1>5. /\ l \in Text /\ IsStatus(l) /\ l[1] = code /\ l[2] = sep
      /\ After(l, 2) = Payload(lines[k + 1])
  <2>1. sep \in Separators /\ l = <<code, sep>> \o Payload(lines[k + 1])
    BY DEF Separators, Status
  <2> HIDE DEF sep, l
  <2> QED
    BY <1>1, <1>4, <2>1, StatusIsRead
<1>6. ~(r.at = "more" /\ l[1] # r.code) /\ r.at # "data"
  BY <1>5 DEF OnTrack
<1>7. q = [r EXCEPT !.at = IF sep = " " THEN "whole" ELSE "more",
                    !.code = code, !.lines = Append(r.lines, lines[k + 1])]
  <2>1. sep # "+"
    OBVIOUS
  <2> HIDE DEF sep, l, n
  <2> QED
    BY <1>4, <1>5, <1>6, <2>1 DEF ReadLine, ReadStatus
<1>8. /\ q.at = (IF k + 1 = n THEN "whole" ELSE "more") /\ q.code = code
      /\ q.lines = Append(r.lines, lines[k + 1]) /\ Len(q.lines) = k + 1
  BY <1>1, <1>2, <1>7 DEF ReplyState
<1>9. q \in ReplyState
  BY <1>1, <1>5, ReadLineTyped
<1>10. q.at = "whole" => q.lines = lines
  <2>1. k + 1 = n => ~(Len(q.lines) < n)
    BY <1>3, <1>8
  <2>2. q.lines \in Seq(Lines) /\ Begun(q.lines, lines)
    BY <1>2, <1>8
  <2> HIDE DEF q, n
  <2> QED
    BY <1>1, <1>8, <2>1, <2>2, BegunWhole DEF n
<1>11. OnTrack(code, lines, q)
  <2>1. q.at # "whole" => k + 1 < n
    BY <1>3, <1>8
  <2> HIDE DEF q, n, l, k
  <2> QED
    BY <1>2, <1>8, <1>9, <1>10, <2>1 DEF OnTrack, n
<1>12. Left(code, lines, q) = Enc(code, lines, k + 1)
  BY <1>8 DEF Left
<1>13. /\ Left(code, lines, r) = <<l>> \o Enc(code, lines, k + 1)
       /\ Enc(code, lines, k + 1) \in Seq(Text)
  <2>1. Left(code, lines, r) = Enc(code, lines, k)
    BY <1>6 DEF Left
  <2>2. Chunk(code, lines, k + 1) = <<l>>
    BY DEF Chunk
  <2> QED
    BY <1>3, <2>1, <2>2, EncNext
<1> QED
  BY <1>5, <1>11, <1>12, <1>13

\* The line that announces a body is next, and then the reader is in the body.
LEMMA AnnouncedStep ==
  ASSUME NEW code, NEW lines, Reply(code, lines), NEW r, OnTrack(code, lines, r),
         r.at \in {"first", "more"}, lines[Len(r.lines) + 1].kind = "data"
  PROVE  LET d == lines[Len(r.lines) + 1]
             l == Head1(code, d.key)
             q == ReadLine(r, l)
         IN  /\ l \in Text /\ Left(code, lines, q) \in Seq(Text)
             /\ Left(code, lines, r) = <<l>> \o Left(code, lines, q)
             /\ OnTrack(code, lines, q) /\ q.at = "data"
<1> DEFINE k == Len(r.lines)
           n == Len(lines)
           d == lines[k + 1]
           l == Head1(code, d.key)
           q == ReadLine(r, l)
           e == Enc(code, lines, k + 1)
<1>1. /\ r \in ReplyState /\ r.lines \in Seq(Lines) /\ lines \in Seq(Lines) /\ code \in Codes
      /\ Begun(r.lines, lines) /\ k < n
  BY DEF OnTrack, Reply, ReplyState
<1>2. k \in Nat /\ n \in Nat /\ k \in 0 .. n - 1 /\ k + 1 \in 1 .. n
  BY <1>1, LenProperties
<1>3. d.key \in Text /\ d.value \in Seq(Text) /\ d.kind = "data"
  BY <1>2 DEF Reply, WellMeant, Lines
<1>4. d.key \o <<Equals>> \in Text /\ DataKey(d.key \o <<Equals>>) = d.key
  BY <1>3, DataKeyIsRead
<1>5. /\ l \in Text /\ IsStatus(l) /\ l[1] = code /\ l[2] = "+"
      /\ After(l, 2) = d.key \o <<Equals>>
  <2> DEFINE t == d.key \o <<Equals>>
             sep == "+"
  <2>1. sep \in Separators /\ l = <<code, sep>> \o t
    BY <1>1, <1>3, Head1Typed DEF Separators
  <2>2. t \in Text
    BY <1>4
  <2> HIDE DEF l, d, t, sep
  <2>3. l \in Text /\ IsStatus(l) /\ l[1] = code /\ l[2] = sep /\ After(l, 2) = t
    BY <1>1, <2>1, <2>2, StatusIsRead
  <2> QED
    BY <2>3 DEF sep, t
<1>6. ~(r.at = "more" /\ l[1] # r.code) /\ r.at # "data"
  BY <1>5 DEF OnTrack
<1>7. q = [r EXCEPT !.at = "data", !.code = code, !.key = d.key, !.body = <<>>]
  <2> HIDE DEF l, d
  <2> QED
    BY <1>4, <1>5, <1>6 DEF ReadLine, ReadStatus
<1>8. /\ q.at = "data" /\ q.code = code /\ q.lines = r.lines /\ q.key = d.key /\ q.body = <<>>
  BY <1>1, <1>7 DEF ReplyState
<1>9. q \in ReplyState
  BY <1>1, <1>5, ReadLineTyped
<1>10. Begun(<<>>, d.value)
  BY <1>3, LenProperties DEF Begun
<1>11. OnTrack(code, lines, q)
  <2> HIDE DEF q, l
  <2> QED
    BY <1>1, <1>3, <1>8, <1>9, <1>10 DEF OnTrack
<1>12. /\ Left(code, lines, q) = (Escapes(d.value, 0) \o << <<Dot>> >>) \o e
       /\ Left(code, lines, r) = Enc(code, lines, k)
  BY <1>6, <1>8 DEF Left
<1>13. Enc(code, lines, k) = Chunk(code, lines, k + 1) \o e /\ e \in Seq(Text)
  BY <1>2, EncNext
<1>14. Chunk(code, lines, k + 1) = (<<l>> \o Escapes(d.value, 0)) \o << <<Dot>> >>
  BY <1>3 DEF Chunk
<1>15. <<l>> \in Seq(Text) /\ Escapes(d.value, 0) \in Seq(Text) /\ << <<Dot>> >> \in Seq(Text)
  <2>1. 0 \in 0 .. Len(d.value)
    BY <1>3, LenProperties
  <2> QED
    BY <1>3, <1>5, <2>1, EscapesTyped, SingleTyped, TextTyped, Symbols
<1> HIDE DEF l, q, e, d
<1> DEFINE v == Escapes(d.value, 0)
           z == << <<Dot>> >>
<1>16. v \in Seq(Text) /\ z \in Seq(Text) /\ v \o z \in Seq(Text) /\ (v \o z) \o e \in Seq(Text)
  BY <1>13, <1>15, ConcatProperties
<1>17. ((<<l>> \o v) \o z) \o e = <<l>> \o ((v \o z) \o e)
  <2> HIDE DEF v, z
  <2>1. (<<l>> \o v) \o z = <<l>> \o (v \o z)
    BY <1>15, <1>16, ConcatAssociative
  <2>2. (<<l>> \o (v \o z)) \o e = <<l>> \o ((v \o z) \o e)
    BY <1>13, <1>15, <1>16, ConcatAssociative
  <2> QED
    BY <2>1, <2>2
<1>18. Left(code, lines, r) = <<l>> \o Left(code, lines, q) /\ Left(code, lines, q) \in Seq(Text)
  BY <1>12, <1>13, <1>14, <1>16, <1>17
<1> QED
  BY <1>5, <1>8, <1>11, <1>18 DEF l, q, d

\* A line of a body is next, or its end.
LEMMA EscapesNext ==
  ASSUME NEW value \in Seq(Text), NEW j \in 0 .. Len(value) - 1
  PROVE  /\ Escapes(value, j) = <<Escape(value[j + 1])>> \o Escapes(value, j + 1)
         /\ Escapes(value, j + 1) \in Seq(Text) /\ value[j + 1] \in Text
<1> DEFINE n == Len(value)
           x == Escape(value[j + 1])
           g == Escapes(value, j + 1)
           h == Escapes(value, j)
<1>1. n \in Nat /\ j \in Nat /\ j + 1 \in 1 .. n /\ j \in 0 .. n /\ j + 1 \in 0 .. n
  BY LenProperties
<1>2. value[j + 1] \in Text /\ x \in Text
  BY <1>1, ElementOfSeq, EscapeIsUndone
<1>3. /\ h \in Seq(Text) /\ Len(h) = n - j /\ g \in Seq(Text) /\ Len(g) = n - (j + 1)
      /\ \A i \in 1 .. n - j : h[i] = Escape(value[i + j])
      /\ \A i \in 1 .. n - (j + 1) : g[i] = Escape(value[i + (j + 1)])
  <2>1. h \in Seq(Text) /\ Len(h) = n - j /\ g \in Seq(Text) /\ Len(g) = n - (j + 1)
    BY <1>1, EscapesTyped
  <2> QED
    BY <2>1 DEF Escapes
<1> HIDE DEF g, h, n
<1>4. /\ <<x>> \o g \in Seq(Text) /\ Len(<<x>> \o g) = 1 + Len(g) /\ (<<x>> \o g)[1] = x
      /\ \A i \in 1 .. Len(g) : (<<x>> \o g)[i + 1] = g[i]
  <2> HIDE DEF x
  <2> QED
    BY <1>2, <1>3, ConsProperties
<1>5. \A i \in 1 .. n - j : h[i] = (<<x>> \o g)[i]
  <2> TAKE i \in 1 .. n - j
  <2>1. CASE i = 1
    <3>1. i + j = j + 1 /\ h[i] = Escape(value[i + j])
      BY <1>1, <1>3, <2>1
    <3> QED
      BY <1>4, <2>1, <3>1
  <2>2. CASE i # 1
    <3>1. i - 1 \in 1 .. n - (j + 1) /\ (i - 1) + (j + 1) = i + j /\ (i - 1) + 1 = i
      BY <1>1, <2>2
    <3>2. g[i - 1] = Escape(value[i + j]) /\ (<<x>> \o g)[i] = g[i - 1]
      BY <1>3, <1>4, <3>1
    <3> QED
      BY <1>3, <3>2
  <2> QED
    BY <2>1, <2>2
<1>6. Len(<<x>> \o g) = n - j
  BY <1>1, <1>3, <1>4
<1>7. h = <<x>> \o g
  BY <1>3, <1>4, <1>5, <1>6, SeqEqual
<1> QED
  BY <1>2, <1>3, <1>7 DEF g, h

LEMMA BodyStep ==
  ASSUME NEW code, NEW lines, Reply(code, lines), NEW r, OnTrack(code, lines, r), r.at = "data"
  PROVE  \E l \in Text :
           LET q == ReadLine(r, l)
           IN  /\ Left(code, lines, q) \in Seq(Text)
               /\ Left(code, lines, r) = <<l>> \o Left(code, lines, q)
               /\ OnTrack(code, lines, q) /\ q.at \in {"data", "more"}
<1> DEFINE k == Len(r.lines)
           n == Len(lines)
           d == lines[k + 1]
           v == d.value
           j == Len(r.body)
           e == Enc(code, lines, k + 1)
           z == << <<Dot>> >>
<1>1. /\ r \in ReplyState /\ r.lines \in Seq(Lines) /\ lines \in Seq(Lines) /\ code \in Codes
      /\ Begun(r.lines, lines) /\ k < n /\ r.code = code /\ r.body \in Seq(Text)
      /\ d.kind = "data" /\ r.key = d.key /\ Begun(r.body, v)
  BY DEF OnTrack, Reply, ReplyState
<1>2. k \in Nat /\ n \in Nat /\ k \in 0 .. n - 1 /\ k + 1 \in 1 .. n
  BY <1>1, LenProperties
<1>3. d.key \in Text /\ v \in Seq(Text) /\ d = DataLine(d.key, v)
  BY <1>1, <1>2 DEF Reply, WellMeant, Lines
<1>4. e \in Seq(Text) /\ z \in Seq(Text) /\ <<Dot>> \in Text
  BY <1>2, EncNext, SingleTyped, TextTyped, Symbols
<1>5. Left(code, lines, r) = (Escapes(v, j) \o z) \o e
  BY DEF Left
<1>6. j \in Nat /\ Len(v) \in Nat
  BY <1>1, <1>3, LenProperties
<1> HIDE DEF e, z, v, d
<1>7. CASE j < Len(v)
  <2> DEFINE l == Escape(v[j + 1])
             q == ReadLine(r, l)
             y == Escapes(v, j + 1)
  <2>1. /\ Escapes(v, j) = <<l>> \o y /\ y \in Seq(Text) /\ v[j + 1] \in Text
    <3>1. j \in 0 .. Len(v) - 1
      BY <1>6, <1>7
    <3> HIDE DEF j
    <3> QED
      BY <1>3, <3>1, EscapesNext
  <2>2. l \in Text /\ l # <<Dot>> /\ Unescape(l) = v[j + 1]
    BY <2>1, EscapeIsUndone
  <2> HIDE DEF l, y
  <2>3. q = [r EXCEPT !.body = Append(r.body, v[j + 1])]
    BY <2>2 DEF ReadLine, ReadData
  <2>4. /\ q.at = "data" /\ q.code = code /\ q.lines = r.lines /\ q.key = d.key
        /\ q.body = Append(r.body, v[j + 1])
    BY <1>1, <2>3 DEF ReplyState
  <2>5. q \in ReplyState
    BY <1>1, <2>2, ReadLineTyped
  <2>6. Begun(q.body, v) /\ Len(q.body) = j + 1
    BY <1>1, <1>3, <1>7, <2>4, BegunNext
  <2> HIDE DEF q
  <2>7. OnTrack(code, lines, q)
    BY <1>1, <2>4, <2>5, <2>6 DEF OnTrack, v, d
  <2>8. Left(code, lines, q) = (y \o z) \o e
    BY <2>4, <2>6 DEF Left, v, d, e, z, y
  <2>9. /\ y \o z \in Seq(Text) /\ (y \o z) \o e \in Seq(Text) /\ <<l>> \in Seq(Text)
    BY <1>4, <2>1, <2>2, ConcatProperties, SingleTyped
  <2>10. ((<<l>> \o y) \o z) \o e = <<l>> \o ((y \o z) \o e)
    <3>1. (<<l>> \o y) \o z = <<l>> \o (y \o z)
      BY <1>4, <2>1, <2>9, ConcatAssociative
    <3>2. (<<l>> \o (y \o z)) \o e = <<l>> \o ((y \o z) \o e)
      BY <1>4, <2>9, ConcatAssociative
    <3> QED
      BY <3>1, <3>2
  <2>11. Left(code, lines, r) = <<l>> \o Left(code, lines, q) /\ Left(code, lines, q) \in Seq(Text)
    BY <1>5, <2>1, <2>8, <2>9, <2>10
  <2> QED
    BY <2>2, <2>4, <2>7, <2>11 DEF q
<1>8. CASE ~(j < Len(v))
  <2> DEFINE l == <<Dot>>
             q == ReadLine(r, l)
  <2>1. r.body = v
    BY <1>1, <1>3, <1>8, BegunWhole
  <2>2. Escapes(v, j) = <<>>
    <3>1. Len(v) - j = 0
      BY <2>1, <1>6
    <3>2. [i \in 1 .. 0 |-> Escape(v[i + j])] = <<>>
      OBVIOUS
    <3> QED
      BY <3>1, <3>2 DEF Escapes
  <2>3. q = [r EXCEPT !.at = "more", !.lines = Append(r.lines, d)]
    <3>1. DataLine(r.key, r.body) = d
      BY <1>1, <1>3, <2>1
    <3> HIDE DEF k
    <3> QED
      BY <3>1 DEF ReadLine, ReadData
  <2>4. q.at = "more" /\ q.code = code /\ q.lines = Append(r.lines, d)
    BY <1>1, <2>3 DEF ReplyState
  <2>5. q \in ReplyState
    BY <1>1, <1>4, ReadLineTyped
  <2>6. Begun(q.lines, lines) /\ Len(q.lines) = k + 1
    <3>1. Begun(Append(r.lines, lines[k + 1]), lines) /\ Len(Append(r.lines, lines[k + 1])) = k + 1
      BY <1>1, BegunNext
    <3> QED
      BY <2>4, <3>1 DEF d
  <2>7. k + 1 < n
    <3>1. lines[n].kind # "data"
      BY DEF Reply
    <3>2. k + 1 # n
      BY <1>1, <3>1 DEF d
    <3> QED
      BY <1>2, <3>2
  <2> HIDE DEF q
  <2>8. OnTrack(code, lines, q)
    BY <2>4, <2>5, <2>6, <2>7 DEF OnTrack
  <2>9. Left(code, lines, q) = e
    BY <2>4, <2>6 DEF Left, e
  <2>10. Left(code, lines, r) = <<l>> \o e
    BY <1>4, <1>5, <2>2, ConcatEmptySeq DEF z
  <2> QED
    BY <1>4, <2>4, <2>8, <2>9, <2>10 DEF q
<1> QED
  BY <1>7, <1>8

\* At the end of the reply nothing is left.
LEMMA WholeStep ==
  ASSUME NEW code, NEW lines, Reply(code, lines), NEW r, OnTrack(code, lines, r), r.at = "whole"
  PROVE  Left(code, lines, r) = <<>>
  BY EncNone DEF OnTrack, Left

-----------------------------------------------------------------------------
(* The reader of a stream that is cut.                                     *)

\* What is delivered of some lines: all of it, nothing, a part of the first line, or that
\* line and what is delivered of the others.
LEMMA CutsSelf == \A w \in Seq(Text) : w \in Cuts(w)
<1> TAKE w \in Seq(Text)
<1>1. Len(w) \in 0 .. Len(w)
  BY LenProperties
<1>2. Upto(w, Len(w)) = w
  BY SubSeqFull DEF Upto
<1> QED
  BY <1>1, <1>2 DEF Cuts

LEMMA CutsEmpty == Cuts(<<>>) = {<<>>}
<1>1. \A n \in 0 .. Len(<<>>) : Upto(<<>>, n) = <<>>
  <2>1. \A n \in 0 .. Len(<<>>) : n = 0
    OBVIOUS
  <2>2. Upto(<<>>, 0) = <<>>
    BY SubSeqEmpty DEF Upto
  <2> QED
    BY <2>1, <2>2
<1>2. 0 \in 0 .. Len(<<>>) /\ DOMAIN <<>> = {}
  OBVIOUS
<1>3. UNION {{Append(Upto(<<>>, n - 1), Upto(<<>>[n], k)) : k \in 1 .. Len(<<>>[n]) - 1}
               : n \in DOMAIN <<>>} = {}
  BY <1>2
<1>4. {Upto(<<>>, n) : n \in 0 .. Len(<<>>)} = {<<>>}
  BY <1>1, <1>2
<1> QED
  BY <1>3, <1>4 DEF Cuts

\* A beginning of a sequence with another element before it.
LEMMA UptoCons ==
  ASSUME NEW X, NEW x \in X, NEW s \in Seq(X), NEW n \in 1 .. Len(s) + 1
  PROVE  /\ Upto(<<x>> \o s, n) = <<x>> \o Upto(s, n - 1)
         /\ Upto(s, n - 1) \in Seq(X)
<1> DEFINE t == <<x>> \o s
           u == Upto(s, n - 1)
<1>1. Len(s) \in Nat /\ n \in Nat /\ n >= 1 /\ n - 1 \in 0 .. Len(s) /\ n \in 0 .. 1 + Len(s)
  BY LenProperties
<1>2. /\ t \in Seq(X) /\ Len(t) = 1 + Len(s) /\ t[1] = x
      /\ \A i \in 1 .. Len(s) : t[i + 1] = s[i]
  BY ConsProperties
<1> HIDE DEF t
<1>3. u \in Seq(X) /\ Len(u) = n - 1 /\ \A i \in 1 .. n - 1 : u[i] = s[i]
  BY <1>1, UptoProperties
<1>4. Upto(t, n) \in Seq(X) /\ Len(Upto(t, n)) = n /\ \A i \in 1 .. n : Upto(t, n)[i] = t[i]
  BY <1>1, <1>2, UptoProperties
<1> HIDE DEF u
<1>5. /\ <<x>> \o u \in Seq(X) /\ Len(<<x>> \o u) = 1 + Len(u) /\ (<<x>> \o u)[1] = x
      /\ \A i \in 1 .. Len(u) : (<<x>> \o u)[i + 1] = u[i]
  BY <1>3, ConsProperties
<1>6. \A i \in 1 .. n : Upto(t, n)[i] = (<<x>> \o u)[i]
  <2> TAKE i \in 1 .. n
  <2>1. CASE i = 1
    BY <1>2, <1>4, <1>5, <2>1
  <2>2. CASE i # 1
    <3>1. i - 1 \in 1 .. n - 1 /\ i - 1 \in 1 .. Len(s) /\ (i - 1) + 1 = i
      BY <1>1, <2>2
    <3>2. t[i] = s[i - 1] /\ (<<x>> \o u)[i] = u[i - 1] /\ u[i - 1] = s[i - 1]
      BY <1>2, <1>3, <1>5, <3>1
    <3> QED
      BY <1>4, <3>2
  <2> QED
    BY <2>1, <2>2
<1>7. Len(<<x>> \o u) = n
  BY <1>1, <1>3, <1>5
<1>8. Upto(t, n) = <<x>> \o u
  BY <1>4, <1>5, <1>6, <1>7, SeqEqual
<1> QED
  BY <1>3, <1>8 DEF t, u

LEMMA CutsCons ==
  ASSUME NEW l \in Text, NEW s \in Seq(Text), NEW w \in Cuts(<<l>> \o s)
  PROVE  \/ w = <<>>
         \/ \E k \in 1 .. Len(l) - 1 : w = <<Upto(l, k)>>
         \/ \E u \in Cuts(s) : w = <<l>> \o u
<1> DEFINE t == <<l>> \o s
<1>1. /\ t \in Seq(Text) /\ Len(t) = 1 + Len(s) /\ Len(s) \in Nat /\ t[1] = l
      /\ \A i \in 1 .. Len(s) : t[i + 1] = s[i]
  BY ConsProperties
<1>2. DOMAIN t = 1 .. 1 + Len(s) /\ DOMAIN s = 1 .. Len(s)
  BY <1>1, LenProperties
<1>3. \A n \in 1 .. Len(s) + 1 : Upto(t, n) = <<l>> \o Upto(s, n - 1) /\ Upto(s, n - 1) \in Seq(Text)
  BY UptoCons
<1>4. Upto(t, 0) = <<>>
  BY SubSeqEmpty DEF Upto
<1> HIDE DEF t
<1>5. ASSUME NEW n \in 0 .. Len(t), w = Upto(t, n)
      PROVE  w = <<>> \/ \E u \in Cuts(s) : w = <<l>> \o u
  <2>1. CASE n = 0
    BY <1>4, <1>5, <2>1
  <2>2. CASE n # 0
    <3>1. n \in 1 .. Len(s) + 1 /\ n - 1 \in 0 .. Len(s)
      BY <1>1, <2>2
    <3>2. Upto(s, n - 1) \in Cuts(s)
      BY <3>1 DEF Cuts
    <3> QED
      BY <1>3, <1>5, <3>1, <3>2
  <2> QED
    BY <2>1, <2>2
<1>6. ASSUME NEW n \in DOMAIN t, NEW k \in 1 .. Len(t[n]) - 1, w = Append(Upto(t, n - 1), Upto(t[n], k))
      PROVE  \/ \E m \in 1 .. Len(l) - 1 : w = <<Upto(l, m)>>
             \/ \E u \in Cuts(s) : w = <<l>> \o u
  <2>1. CASE n = 1
    <3>1. w = Append(Upto(t, 0), Upto(l, k)) /\ k \in 1 .. Len(l) - 1
      BY <1>1, <1>6, <2>1
    <3>2. w = <<Upto(l, k)>>
      <4>1. Upto(l, k) \in Text
        <5>1. l \in Seq(Symbol) /\ k \in 0 .. Len(l)
          BY <3>1, LenProperties DEF Text
        <5> QED
          BY <5>1, UptoProperties DEF Text
      <4>2. w = Append(<<>>, Upto(l, k))
        BY <1>4, <3>1
      <4> QED
        BY <4>1, <4>2, AppendFirst
    <3> QED
      BY <3>1, <3>2
  <2>2. CASE n # 1
    <3> DEFINE m == n - 1
               x == Upto(s[m], k)
               u == Upto(s, m - 1)
    <3>1. m \in 1 .. Len(s) /\ m \in 1 .. Len(s) + 1 /\ m + 1 = n /\ m \in DOMAIN s
      BY <1>1, <1>2, <2>2
    <3>2. t[n] = s[m]
      BY <1>1, <3>1
    <3>3. k \in 1 .. Len(s[m]) - 1 /\ s[m] \in Text /\ k \in 0 .. Len(s[m])
      <4>1. s[m] \in Text
        BY <3>1, ElementOfSeq
      <4>2. k \in 1 .. Len(s[m]) - 1
        BY <3>2
      <4>3. Len(s[m]) \in Nat
        BY <4>1, LenProperties DEF Text
      <4> QED
        BY <4>1, <4>2, <4>3
    <3>4. x \in Text
      BY <3>3, UptoProperties DEF Text
    <3>5. Upto(t, m) = <<l>> \o u /\ u \in Seq(Text)
      BY <1>3, <3>1
    <3>6. w = Append(<<l>> \o u, x)
      BY <1>6, <3>2, <3>5
    <3>7. Append(u, x) \in Cuts(s)
      BY <3>1, <3>3 DEF Cuts
    <3> HIDE DEF u, x
    <3>8. Append(<<l>> \o u, x) = <<l>> \o Append(u, x)
      <4>1. <<l>> \in Seq(Text) /\ <<x>> \in Seq(Text) /\ <<l>> \o u \in Seq(Text)
        BY <3>4, <3>5, SingleTyped, ConcatProperties
      <4>2. Append(u, x) = u \o <<x>> /\ Append(<<l>> \o u, x) = (<<l>> \o u) \o <<x>>
        BY <3>4, <3>5, <4>1, AppendIsConcat
      <4> QED
        BY <3>5, <4>1, <4>2, ConcatAssociative
    <3> QED
      BY <3>6, <3>7, <3>8
  <2> QED
    BY <2>1, <2>2
<1>7. \/ \E n \in 0 .. Len(t) : w = Upto(t, n)
      \/ \E n \in DOMAIN t : \E k \in 1 .. Len(t[n]) - 1 : w = Append(Upto(t, n - 1), Upto(t[n], k))
  BY DEF Cuts, t
<1> QED
  BY <1>5, <1>6, <1>7

\* A part of a status line that is still one has lost some of its payload.
LEMMA CutStatus ==
  ASSUME NEW code \in Codes, NEW sep \in Separators, NEW t \in Text,
         NEW k \in 1 .. Len(<<code, sep>> \o t) - 1
  PROVE  LET u == Upto(<<code, sep>> \o t, k)
         IN  /\ u \in Text
             /\ IsStatus(u) =>
                  u[2] = sep /\ u[1] = code /\ k - 2 \in 0 .. Len(t) - 1 /\ After(u, 2) = Upto(t, k - 2)
<1> DEFINE l == <<code, sep>> \o t
           u == Upto(l, k)
<1>1. l \in Text /\ l[1] = code /\ l[2] = sep /\ After(l, 2) = t
  BY StatusIsRead
<1>2. l \in Seq(Symbol) /\ Len(l) = 2 + Len(t) /\ Len(t) \in Nat /\ t \in Seq(Symbol)
  <2>1. <<code, sep>> \in Seq(Symbol) /\ Len(<<code, sep>>) = 2 /\ t \in Seq(Symbol)
    BY CodePair DEF Text
  <2>2. l \in Seq(Symbol) /\ Len(l) = Len(<<code, sep>>) + Len(t)
    BY <2>1, ConcatProperties
  <2> QED
    BY <2>1, <2>2, LenProperties
<1>3. k \in Nat /\ k \in 0 .. Len(l) /\ k < 2 + Len(t)
  BY <1>2
<1> HIDE DEF l
<1>4. u \in Seq(Symbol) /\ Len(u) = k /\ \A i \in 1 .. k : u[i] = l[i]
  BY <1>2, <1>3, UptoProperties
<1> HIDE DEF u
<1>5. ASSUME IsStatus(u)
      PROVE  u[2] = sep /\ u[1] = code /\ k - 2 \in 0 .. Len(t) - 1 /\ After(u, 2) = Upto(t, k - 2)
  <2>1. k >= 2
    BY <1>4, <1>5 DEF IsStatus
  <2>2. u[1] = code /\ u[2] = sep
    <3>1. 1 \in 1 .. k /\ 2 \in 1 .. k
      BY <1>3, <2>1
    <3> QED
      BY <1>1, <1>4, <3>1
  <2>3. k - 2 \in 0 .. Len(t) - 1 /\ k - 2 \in 0 .. Len(t) /\ 2 \in 0 .. Len(u) /\ 2 \in 0 .. Len(l)
    BY <1>2, <1>3, <1>4, <2>1
  <2>4. /\ After(u, 2) \in Seq(Symbol) /\ Len(After(u, 2)) = Len(u) - 2
        /\ \A i \in 1 .. Len(u) - 2 : After(u, 2)[i] = u[2 + i]
    BY <1>4, <2>3, AfterTyped
  <2>5. \A i \in 1 .. Len(l) - 2 : After(l, 2)[i] = l[2 + i]
    BY <1>2, <2>3, AfterTyped
  <2>6. /\ Upto(t, k - 2) \in Seq(Symbol) /\ Len(Upto(t, k - 2)) = k - 2
        /\ \A i \in 1 .. k - 2 : Upto(t, k - 2)[i] = t[i]
    BY <1>2, <2>3, UptoProperties
  <2>7. \A i \in 1 .. k - 2 : After(u, 2)[i] = Upto(t, k - 2)[i]
    <3> TAKE i \in 1 .. k - 2
    <3>1. i \in 1 .. Len(u) - 2 /\ i \in 1 .. Len(l) - 2 /\ 2 + i \in 1 .. k
      BY <1>2, <1>3, <1>4, <2>1
    <3>2. After(u, 2)[i] = l[2 + i]
      BY <1>4, <2>4, <3>1
    <3>3. Upto(t, k - 2)[i] = l[2 + i]
      BY <1>1, <2>5, <2>6, <3>1
    <3> QED
      BY <3>2, <3>3
  <2>8. Len(After(u, 2)) = k - 2
    BY <1>4, <2>4
  <2>9. After(u, 2) = Upto(t, k - 2)
    BY <2>4, <2>6, <2>7, <2>8, SeqEqual
  <2> QED
    BY <2>2, <2>3, <2>9
<1> QED
  BY <1>4, <1>5 DEF u, l, Text

\* A reply that was read to its end, but for a part of its last line.
CutWhole(code, lines, c) ==
  LET t == Payload(lines[Len(lines)])
  IN  /\ c.code = code
      /\ \E m \in 0 .. Len(t) - 1 : c.lines = Append(Front(lines), ParsePayload(Upto(t, m)))

LEMMA FrontOfBegun ==
  ASSUME NEW X, NEW s \in Seq(X), NEW t \in Seq(X), Begun(s, t), Len(s) + 1 = Len(t)
  PROVE  s = Front(t)
<1>1. Len(s) \in Nat /\ Len(t) \in Nat /\ Len(t) - 1 = Len(s) /\ Len(s) \in 0 .. Len(t)
  BY LenProperties
<1>2. Front(t) = Upto(t, Len(s))
  BY <1>1 DEF Front, Upto
<1>3. /\ Upto(t, Len(s)) \in Seq(X) /\ Len(Upto(t, Len(s))) = Len(s)
      /\ \A i \in 1 .. Len(s) : Upto(t, Len(s))[i] = t[i]
  BY <1>1, UptoProperties
<1>4. \A i \in 1 .. Len(s) : s[i] = Upto(t, Len(s))[i]
  BY <1>3 DEF Begun
<1> QED
  BY <1>2, <1>3, <1>4, SeqEqual

\* The next line brings the reader to the next place of the reply; of a part of that line
\* it makes a whole reply only at the end, and then it has all the other lines.
LEMMA ReadStep ==
  ASSUME NEW code, NEW lines, Reply(code, lines), NEW r, OnTrack(code, lines, r), r.at # "whole"
  PROVE  \E l \in Text :
           LET q == ReadLine(r, l)
           IN  /\ Left(code, lines, q) \in Seq(Text)
               /\ Left(code, lines, r) = <<l>> \o Left(code, lines, q)
               /\ OnTrack(code, lines, q)
               /\ \A k \in 1 .. Len(l) - 1 :
                    LET c == ReadLine(r, Upto(l, k))
                    IN  c \in ReplyState /\ (c.at = "whole" => CutWhole(code, lines, c))
<1>1. /\ r \in ReplyState /\ code \in Codes /\ Begun(r.lines, lines) /\ Len(r.lines) < Len(lines)
      /\ r.lines \in Seq(Lines) /\ lines \in Seq(Lines)
  BY DEF OnTrack, Reply, ReplyState
<1>2. ASSUME NEW l \in Text, NEW k \in 1 .. Len(l) - 1
      PROVE  ReadLine(r, Upto(l, k)) \in ReplyState
  <2>1. l \in Seq(Symbol) /\ k \in 0 .. Len(l)
    BY LenProperties DEF Text
  <2>2. Upto(l, k) \in Text
    BY <2>1, UptoProperties DEF Text
  <2> QED
    BY <1>1, <2>2, ReadLineTyped
<1>3. CASE r.at = "data"
  <2>1. \A l : ReadLine(r, l).at # "whole"
    BY <1>1, <1>3 DEF ReadLine, ReadData, ReplyState
  <2> QED
    BY <1>2, <1>3, <2>1, BodyStep
<1>4. CASE r.at \in {"first", "more"} /\ lines[Len(r.lines) + 1].kind = "data"
  <2> DEFINE d == lines[Len(r.lines) + 1]
             l == Head1(code, d.key)
             t == d.key \o <<Equals>>
             sep == "+"
  <2>1. d.key \in Text
    <3>1. Len(r.lines) + 1 \in 1 .. Len(lines)
      BY <1>1, BegunNext
    <3> QED
      BY <3>1 DEF Reply, WellMeant, Lines
  <2>2. l = <<code, sep>> \o t /\ sep \in Separators /\ t \in Text
    BY <1>1, <2>1, Head1Typed, DataKeyIsRead DEF Separators
  <2>3. ASSUME NEW k \in 1 .. Len(l) - 1
        PROVE  ReadLine(r, Upto(l, k)).at # "whole"
    <3>1. IsStatus(Upto(l, k)) => Upto(l, k)[2] = "+"
      <4> HIDE DEF l, t, sep
      <4>1. IsStatus(Upto(l, k)) => Upto(l, k)[2] = sep
        BY <1>1, <2>2, CutStatus
      <4> QED
        BY <4>1 DEF sep
    <3> HIDE DEF l
    <3> QED
      BY <1>1, <1>4, <3>1 DEF ReadLine, ReadStatus, ReplyState
  <2>4. /\ l \in Text /\ Left(code, lines, ReadLine(r, l)) \in Seq(Text)
        /\ Left(code, lines, r) = <<l>> \o Left(code, lines, ReadLine(r, l))
        /\ OnTrack(code, lines, ReadLine(r, l))
    BY <1>4, AnnouncedStep
  <2> HIDE DEF l
  <2> QED
    BY <1>2, <2>3, <2>4
<1>5. CASE r.at \in {"first", "more"} /\ lines[Len(r.lines) + 1].kind # "data"
  <2> DEFINE i == Len(r.lines) + 1
             n == Len(lines)
             l == Status(code, lines, i)
             t == Payload(lines[i])
             sep == IF i = n THEN " " ELSE "-"
  <2>1. i \in 1 .. n
    BY <1>1, BegunNext
  <2>2. l = <<code, sep>> \o t /\ sep \in Separators /\ t \in Text
    BY <1>5, <2>1 DEF Status, Separators, Reply, WellMeant
  <2>3. ASSUME NEW k \in 1 .. Len(l) - 1, ReadLine(r, Upto(l, k)).at = "whole"
        PROVE  CutWhole(code, lines, ReadLine(r, Upto(l, k)))
    <3> DEFINE u == Upto(l, k)
               c == ReadLine(r, u)
    <3>1. IsStatus(u) =>
            u[2] = sep /\ u[1] = code /\ k - 2 \in 0 .. Len(t) - 1 /\ After(u, 2) = Upto(t, k - 2)
      <4> HIDE DEF l, t, sep
      <4> QED
        BY <1>1, <2>2, CutStatus
    <3> HIDE DEF l, u, t
    <3>2. IsStatus(u) /\ u[2] = " "
          /\ c = [r EXCEPT !.at = "whole", !.code = u[1],
                           !.lines = Append(@, ParsePayload(After(u, 2)))]
      <4>1. c = ReadStatus(r, u) /\ c.at = "whole" /\ r \in ReplyState
        BY <1>1, <1>5, <2>3 DEF ReadLine, u
      <4>2. ~(~IsStatus(u) \/ (r.at = "more" /\ u[1] # r.code))
        BY <1>1, <4>1 DEF ReadStatus, ReplyState
      <4>3. u[2] # "+"
        BY <1>1, <4>1, <4>2 DEF ReadStatus, ReplyState
      <4>4. c = [r EXCEPT !.at = IF u[2] = " " THEN "whole" ELSE "more", !.code = u[1],
                          !.lines = Append(@, ParsePayload(After(u, 2)))]
        BY <4>1, <4>2, <4>3 DEF ReadStatus
      <4>5. u[2] = " "
        BY <1>1, <4>1, <4>4 DEF ReplyState
      <4> QED
        BY <4>2, <4>4, <4>5
    <3>3. i = n /\ c.code = code /\ c.lines = Append(r.lines, ParsePayload(Upto(t, k - 2)))
      BY <1>1, <3>1, <3>2 DEF ReplyState
    <3>4. r.lines = Front(lines)
      BY <1>1, <3>3, FrontOfBegun
    <3> QED
      BY <3>1, <3>2, <3>3, <3>4 DEF CutWhole, u, t
  <2>4. /\ l \in Text /\ Left(code, lines, ReadLine(r, l)) \in Seq(Text)
        /\ Left(code, lines, r) = <<l>> \o Left(code, lines, ReadLine(r, l))
        /\ OnTrack(code, lines, ReadLine(r, l))
    BY <1>5, StatusStep
  <2> HIDE DEF l
  <2> QED
    BY <1>2, <2>3, <2>4
<1> QED
  BY <1>3, <1>4, <1>5 DEF OnTrack
=============================================================================
