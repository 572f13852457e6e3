----------------------------- MODULE InputProofs ------------------------------
(***************************************************************************)
(* Proofs about Input: type correctness, that a command is the line that   *)
(* was typed, and that a telnet client is understood however the network   *)
(* cuts what it says.                                                      *)
(***************************************************************************)
EXTENDS Input, CommandLineProofs

-----------------------------------------------------------------------------
(* The peer.                                                               *)

LEMMA ByteFacts ==
    /\ NUL \in Byte /\ IAC \in Byte /\ SB \in Byte /\ SE \in Byte
    /\ NAWS \in Byte /\ TERM \in Byte /\ Space \in Byte
    /\ Byte \subseteq Nat
  BY DEF Byte, NUL, IAC, SB, SE, NAWS, TERM, Space

\* Numbers of two bytes.
LEMMA WordFacts ==
    /\ \A n \in Word : n \div 256 \in Byte /\ n % 256 \in Byte
    /\ \A b, c \in Byte : b * 256 + c \in Word
    /\ 80 \in Word /\ 25 \in Word
  <1>1. \A n : n \in Word <=> n \in Int /\ 0 <= n /\ n <= 65535
    <2> DEFINE b == 65535
    <2>1. Word = 0..b /\ b \in Int
      BY DEF Word
    <2>2. \A n \in Int : n <= b <=> n <= 65535
      OBVIOUS
    <2> HIDE DEF b
    <2>3. \A n : n \in 0..b <=> n \in Int /\ 0 <= n /\ n <= b
      BY <2>1
    <2> QED
      BY <2>1, <2>2, <2>3
  <1>2. \A n \in Int : 0 <= n /\ n <= 65535 => n \in Word
    BY <1>1
  <1>3. \A n : n \in Byte <=> n \in Int /\ 0 <= n /\ n <= 255
    BY DEF Byte
  <1>4. \A n \in Int : 0 <= n /\ n <= 65535 =>
            /\ n \div 256 \in Int /\ 0 <= n \div 256 /\ n \div 256 <= 255
            /\ n % 256 \in Int /\ 0 <= n % 256 /\ n % 256 <= 255
    OBVIOUS
  <1>5. \A b, c \in Int :
            0 <= b /\ b <= 255 /\ 0 <= c /\ c <= 255 =>
                /\ b * 256 + c \in Int
                /\ 0 <= b * 256 + c /\ b * 256 + c <= 65535
    OBVIOUS
  <1> QED
    BY <1>1, <1>2, <1>3, <1>4, <1>5

LEMMA EncodedType ==
    ASSUME NEW t \in Tokens
    PROVE  Encoded(t) \in Seq(Byte)
  <1>1. \A b \in Byte : Escaped(b) \in Seq(Byte)
    <2> TAKE b \in Byte
    <2>1. <<IAC, IAC>> \in Seq(Byte) /\ <<b>> \in Seq(Byte)
      BY ByteFacts
    <2> QED
      BY <2>1, Zenon DEF Escaped
  <1>2. CASE t \in [kind : {"text", "command"}, byte : Byte]
    <2>1. t.kind \in {"text", "command"} /\ t.byte \in Byte
      BY <1>2
    <2>2. Encoded(t) = <<t.byte>> \/ Encoded(t) = <<IAC, t.byte>>
      BY <2>1 DEF Encoded
    <2>3. <<t.byte>> \in Seq(Byte) /\ <<IAC, t.byte>> \in Seq(Byte)
      BY <2>1, ByteFacts
    <2> QED
      BY <2>2, <2>3
  <1>3. CASE t \in [kind : {"option"}, verb : Byte, option : Byte]
    <2>1. t.kind = "option" /\ t.verb \in Byte /\ t.option \in Byte
      BY <1>3
    <2>2. Encoded(t) = <<IAC, t.verb, t.option>>
      BY <2>1 DEF Encoded
    <2> QED
      BY <2>1, <2>2, ByteFacts
  <1>4. CASE t \in [kind : {"size"}, cols : Word, rows : Word,
                    tail : Seq(Byte)]
    <2>1. /\ t.cols \in Word /\ t.rows \in Word /\ t.tail \in Seq(Byte)
          /\ t.kind = "size"
      BY <1>4
    <2>2. \A n \in Word : n \div 256 \in Byte /\ n % 256 \in Byte
      BY WordFacts
    <2>3. <<IAC, SB, NAWS>> \in Seq(Byte)
      BY ByteFacts
    <2> DEFINE c1 == Escaped(t.cols \div 256)
               c2 == Escaped(t.cols % 256)
               r1 == Escaped(t.rows \div 256)
               r2 == Escaped(t.rows % 256)
    <2>4. c1 \in Seq(Byte) /\ c2 \in Seq(Byte) /\ r1 \in Seq(Byte) /\ r2 \in Seq(Byte)
      BY <1>1, <2>1, <2>2
    <2>5. Encoded(t) = <<IAC, SB, NAWS>> \o c1 \o c2 \o r1 \o r2 \o t.tail
      BY <2>1 DEF Encoded
    <2> HIDE DEF c1, c2, r1, r2
    <2> QED
      BY <2>1, <2>3, <2>4, <2>5
  <1>5. CASE t \in [kind : {"type"}, is : Byte, name : Seq(Byte)]
    <2>1. t.kind = "type" /\ t.is \in Byte /\ t.name \in Seq(Byte)
      BY <1>5
    <2>2. <<IAC, SB, TERM, t.is>> \in Seq(Byte) /\ <<IAC, SE>> \in Seq(Byte)
      BY <2>1, ByteFacts
    <2>3. Encoded(t) = <<IAC, SB, TERM, t.is>> \o t.name \o <<IAC, SE>>
      BY <2>1 DEF Encoded
    <2> QED
      BY <2>1, <2>2, <2>3
  <1>6. CASE t \in [kind : {"sub"}, option : Byte]
    <2>1. t.kind = "sub" /\ t.option \in Byte
      BY <1>6
    <2>2. Encoded(t) = <<IAC, SB, t.option, IAC, SE>>
      BY <2>1 DEF Encoded
    <2> QED
      BY <2>1, <2>2, ByteFacts
  <1> QED
    BY <1>2, <1>3, <1>4, <1>5, <1>6, Zenon DEF Tokens

\* The bytes of the first tokens.
LEMMA BytesUptoFacts ==
    ASSUME NEW s \in Seq(Tokens)
    PROVE  /\ BytesUpto(s)[0] = <<>>
           /\ \A j \in 0..Len(s) : BytesUpto(s)[j] \in Seq(Byte)
           /\ \A j \in 1..Len(s) :
                BytesUpto(s)[j] = BytesUpto(s)[j - 1] \o Encoded(s[j])
  <1> DEFINE n == Len(s)
             V == Seq(Byte)
             next(i, a) == a \o Encoded(s[i])
             Step == [i \in 1..n |-> [a \in V |-> next(i, a)]]
             Eq(f) == f = [i \in 0..n |->
                            IF i = 0 THEN <<>> ELSE next(i, f[i - 1])]
  <1>1. n \in Nat /\ <<>> \in V
    OBVIOUS
  <1>2. \A i \in 1..n, a \in V : next(i, a) \in V
    <2> TAKE i \in 1..n, a \in V
    <2> DEFINE e == Encoded(s[i])
    <2>1. e \in Seq(Byte) /\ a \in Seq(Byte)
      BY EncodedType
    <2> HIDE DEF e
    <2>2. a \o e \in Seq(Byte)
      BY <2>1, ConcatProperties
    <2> QED
      BY <2>2 DEF e
  <1>3. Step \in [1..n -> [V -> V]]
    <2> HIDE DEF next, n, V
    <2> QED
      BY <1>2
  <1>4. PICK f : Follows(f, n, V, <<>>, Step)
    <2> HIDE DEF n, Step, V
    <2> QED
      BY <1>1, <1>3, Recursion
  <1>5. Eq(f)
    <2> HIDE DEF next, n, V
    <2>1. \A i \in 1..n : f[i - 1] \in V
      BY <1>1, <1>4 DEF Follows
    <2>2. ASSUME NEW i \in 0..n
          PROVE  f[i] = IF i = 0 THEN <<>> ELSE next(i, f[i - 1])
      <3>1. CASE i = 0
        BY <1>4, <3>1 DEF Follows
      <3>2. CASE i # 0
        <4>1. i \in 1..n
          BY <1>1, <3>2
        <4> QED
          BY <1>4, <2>1, <3>2, <4>1 DEF Follows
      <3> QED
        BY <3>1, <3>2
    <2> QED
      BY <1>4, <2>2 DEF Follows
  <1> DEFINE F == CHOOSE g : Eq(g)
  <1>6. BytesUpto(s) = F
    BY Zenon DEF BytesUpto
  <1>7. Eq(F)
    <2> HIDE DEF Eq
    <2> QED
      BY <1>5, Zenon
  <1> HIDE DEF F
  <1>8. F[0] = <<>> /\ \A i \in 1..n : F[i] = next(i, F[i - 1])
    <2> HIDE DEF next, n
    <2> QED
      BY <1>1, <1>7
  <1>9. \A i \in 0..n : F[i] \in V
    <2> HIDE DEF next, n, V
    <2> QED
      BY <1>1, <1>2, <1>8, StaysIn
  <1> QED
    BY <1>6, <1>8, <1>9

LEMMA BytesType ==
    ASSUME NEW s \in Seq(Tokens)
    PROVE  Bytes(s) \in Seq(Byte)
  <1>1. Len(s) \in 0..Len(s)
    OBVIOUS
  <1> QED
    BY <1>1, BytesUptoFacts DEF Bytes

-----------------------------------------------------------------------------
(* Type correctness.                                                       *)

\* Bytes but for a line feed, which the editor drops.
Plain == Byte \ {LF}

Flags == AllOptions \cup {"GOT_TELOPT_INFO", "ANSI_TERM"}

Telnets ==
    [buff : Seq(Byte), bpos : Nat,
     flags : SUBSET Flags,
     cols : Word, rows : Word, type : Seq(Byte)]

Coms == [line : Seq(Plain), word : Seq(Seq(Nat)), wordPtr : Seq(Nat)]

\* The type invariant, with what the steps need of tel, com and the texts.
ReaderInv ==
    /\ wire \in Seq(Byte) /\ input \in Seq(Byte) /\ careful \in BOOLEAN
    /\ pc \in {"idle", "loop", "telopt", "undefined", "terminated"}
    /\ len \in Nat /\ tel \in Telnets

EditorInv ==
    /\ text \in [{0, 1} -> Seq(Plain)] /\ buffnum \in {0, 1}
    /\ tbpos \in 0..Len(text[buffnum])
    /\ level \in {"LOGIN", "NOVICE"}
    /\ stage \in {"LOGIN_ID", "LOGIN_PROMPT", "CMD_LINE"}
    /\ parsed \in Seq(Plain) /\ com \in Coms

TypeInv == ReaderInv /\ EditorInv

\* com is what the last command line gives, behind the positions of the lines
\* before it; and what others got is the text of "say".
ComIs(c, l, said) ==
    LET words == GetWords(l)
        starts == [k \in DOMAIN words |-> words[k].start]
    IN  IF l = <<>> THEN c.word = <<>> /\ said = <<>>
        ELSE /\ c.line = l
             /\ c.word = [k \in DOMAIN words |-> words[k].text]
             /\ \E n \in 0..Len(c.wordPtr) :
                    SubSeq(c.wordPtr, n + 1, Len(c.wordPtr)) = starts
             /\ said # <<>> => IsSay(c.word) /\ said = SayText(c)

ComInv == ComIs(com, Clean(parsed), told)

LEMMA TelnetFields ==
    ASSUME NEW t \in Telnets
    PROVE  /\ t.buff \in Seq(Byte) /\ t.bpos \in Nat /\ t.flags \subseteq Flags
           /\ t.cols \in Word /\ t.rows \in Word /\ t.type \in Seq(Byte)
  BY DEF Telnets

\* The updates of the telnet fields.
LEMMA WithFlagType ==
    ASSUME NEW t \in Telnets, NEW f \in Flags
    PROVE  WithFlag(t, f) \in Telnets /\ WithFlag(t, f).bpos = t.bpos
  <1> DEFINE s == t.flags \cup {f}
  <1>1. s \in SUBSET Flags
    BY TelnetFields
  <1>2. WithFlag(t, f) = [t EXCEPT !.flags = s]
    BY DEF WithFlag
  <1> HIDE DEF s
  <1> QED
    BY <1>1, <1>2 DEF Telnets

LEMMA WithTypeType ==
    ASSUME NEW t \in Telnets, NEW n \in Seq(Byte)
    PROVE  [t EXCEPT !.type = n] \in Telnets /\ [t EXCEPT !.type = n].bpos = t.bpos
  BY DEF Telnets

LEMMA WithSizeType ==
    ASSUME NEW t \in Telnets, NEW c \in Word, NEW r \in Word
    PROVE  LET s == [t EXCEPT !.cols = c, !.rows = r] IN
           s \in Telnets /\ s.bpos = t.bpos
  BY DEF Telnets

LEMMA WithBuffType ==
    ASSUME NEW t \in Telnets, NEW b \in Seq(Byte), NEW p \in Nat
    PROVE  [t EXCEPT !.buff = b, !.bpos = p] \in Telnets
  BY DEF Telnets

LEMMA WithFlagsType ==
    ASSUME NEW t \in Telnets, NEW p \in Nat, NEW f \in SUBSET Flags
    PROVE  [t EXCEPT !.bpos = p, !.flags = f] \in Telnets
  BY DEF Telnets

LEMMA AtType ==
    ASSUME NEW s \in Seq(Byte), NEW k \in Nat
    PROVE  k >= 1 => At(s, k) \in Byte
  BY ByteFacts DEF At

\* A part of a sequence.
LEMMA SubSeqType ==
    ASSUME NEW A, NEW s \in Seq(A), NEW m \in Nat, NEW n \in Nat,
           m >= 1, n <= Len(s)
    PROVE  /\ SubSeq(s, m, n) \in Seq(A)
           /\ Len(SubSeq(s, m, n)) = IF m <= n THEN n - m + 1 ELSE 0
           /\ \A i \in 1..n - m + 1 : SubSeq(s, m, n)[i] = s[m + i - 1]
  <1>1. m \in Int /\ n \in Int /\ \A i \in m..n : s[i] \in A
    OBVIOUS
  <1> QED
    BY <1>1, SubSeqProperties

\* An option takes bytes that are there.
OptionType(o, t) ==
    /\ o.t \in Telnets /\ o.shift \in Nat /\ o.complete \in BOOLEAN
    /\ o.t.bpos = t.bpos /\ o.shift <= t.bpos

LEMMA OptionTypes ==
    ASSUME NEW t \in Telnets, NEW u \in Telnets, u.bpos = t.bpos, NEW k \in Nat
    PROVE  /\ k <= t.bpos => OptionType(Option(u, k), t)
           /\ OptionType(Incomplete(u), t)
  <1>1. t.bpos \in Nat
    BY TelnetFields
  <1>2. /\ Option(u, k).t = u /\ Option(u, k).shift = k
        /\ Option(u, k).complete = TRUE
        /\ Incomplete(u).t = u /\ Incomplete(u).shift = 0
        /\ Incomplete(u).complete = FALSE
    BY DEF Option, Incomplete
  <1> HIDE DEF Option, Incomplete
  <1>3. k <= t.bpos => OptionType(Option(u, k), t)
    BY <1>2, Zenon DEF OptionType
  <1>4. 0 \in Nat /\ 0 <= t.bpos
    BY <1>1
  <1>5. OptionType(Incomplete(u), t)
    BY <1>2, <1>4, Zenon DEF OptionType
  <1> QED
    BY <1>3, <1>5

LEMMA FlagFacts ==
    /\ "TERMSIZE" \in Flags /\ "TERMTYPE" \in Flags /\ "SGA" \in Flags
    /\ "ECHO" \in Flags /\ "ANSI_TERM" \in Flags /\ "GOT_TELOPT_INFO" \in Flags
  BY DEF Flags, AllOptions

LEMMA UnresolvedType == Unresolved \in Seq(Byte)
  BY DEF Unresolved, Byte

LEMMA NegotiateType ==
    ASSUME NEW t \in Telnets
    PROVE  OptionType(Negotiate(t), t)
  <1>1. t.bpos \in Nat /\ 3 \in Nat
    BY TelnetFields
  <1>2. CASE t.bpos < 3
    BY <1>1, <1>2, OptionTypes DEF Negotiate
  <1>3. CASE ~(t.bpos < 3)
    <2> DEFINE typed == [t EXCEPT !.type = Unresolved]
    <2>1. /\ WithFlag(t, "TERMSIZE") \in Telnets
          /\ WithFlag(t, "TERMSIZE").bpos = t.bpos
      BY FlagFacts, WithFlagType
    <2>2. WithFlag(t, "SGA") \in Telnets /\ WithFlag(t, "SGA").bpos = t.bpos
      BY FlagFacts, WithFlagType
    <2>3. WithFlag(t, "ECHO") \in Telnets /\ WithFlag(t, "ECHO").bpos = t.bpos
      BY FlagFacts, WithFlagType
    <2>4. typed \in Telnets /\ typed.bpos = t.bpos
      BY UnresolvedType, WithTypeType
    <2>5. /\ WithFlag(typed, "TERMTYPE") \in Telnets
          /\ WithFlag(typed, "TERMTYPE").bpos = t.bpos
      <3> HIDE DEF typed
      <3> QED
        BY <2>4, FlagFacts, WithFlagType
    <2> DEFINE verb == At(t.buff, 2)
               option == At(t.buff, 3)
               c1 == verb = WONT /\ option = NAWS
               c2 == verb = WONT /\ option = TERM
               c3 == verb \in {DO, DONT} /\ option = SGA
               c4 == verb \in {DO, DONT} /\ option = ECHO
               u == CASE c1 -> WithFlag(t, "TERMSIZE")
                      [] c2 -> WithFlag(typed, "TERMTYPE")
                      [] c3 -> WithFlag(t, "SGA")
                      [] c4 -> WithFlag(t, "ECHO")
                      [] OTHER -> t
    <2>6. /\ Negotiate(t) = Option(u, 3)
          /\ u \in {WithFlag(t, "TERMSIZE"), WithFlag(t, "SGA"),
                    WithFlag(t, "ECHO"), WithFlag(typed, "TERMTYPE"), t}
      <3>1. Negotiate(t) = Option(u, 3)
        BY <1>3, Zenon DEF Negotiate
      <3> HIDE DEF verb, option, typed, c1, c2, c3, c4
      <3>2. \/ u = WithFlag(t, "TERMSIZE") \/ u = WithFlag(t, "SGA")
            \/ u = WithFlag(t, "ECHO") \/ u = WithFlag(typed, "TERMTYPE")
            \/ u = t
        OBVIOUS
      <3> HIDE DEF u
      <3> QED
        BY <3>1, <3>2
    <2> HIDE DEF typed, u
    <2>7. u \in Telnets /\ u.bpos = t.bpos
      BY <2>1, <2>2, <2>3, <2>5, <2>6
    <2>8. 3 <= t.bpos
      BY <1>1, <1>3
    <2> QED
      BY <1>1, <2>6, <2>7, <2>8, OptionTypes
  <1> QED
    BY <1>2, <1>3

LEMMA SizeAtType ==
    ASSUME NEW t \in Telnets
    PROVE  /\ SizeAt(t).c1 \in Nat /\ SizeAt(t).c2 \in Nat
           /\ SizeAt(t).r1 \in Nat /\ SizeAt(t).r2 \in Nat
           /\ SizeAt(t).c1 >= 1 /\ SizeAt(t).c2 >= 1
           /\ SizeAt(t).r1 >= 1 /\ SizeAt(t).r2 >= 1
  <1> DEFINE Skip(p) == IF At(t.buff, p) = IAC THEN p + 1 ELSE p
             c1 == Skip(4)
             c2 == Skip(c1 + 1)
             r1 == Skip(c2 + 1)
             r2 == Skip(r1 + 1)
  <1>1. SizeAt(t) = [c1 |-> c1, c2 |-> c2, r1 |-> r1, r2 |-> r2]
    BY Zenon DEF SizeAt
  <1>2. \A p \in Nat : Skip(p) \in Nat /\ Skip(p) >= p
    OBVIOUS
  <1> HIDE DEF Skip
  <1>3. c1 \in Nat /\ c1 >= 1
    BY <1>2
  <1> HIDE DEF c1
  <1>4. c2 \in Nat /\ c2 >= 1
    BY <1>2, <1>3
  <1> HIDE DEF c2
  <1>5. r1 \in Nat /\ r1 >= 1
    BY <1>2, <1>4
  <1> HIDE DEF r1
  <1>6. r2 \in Nat /\ r2 >= 1
    BY <1>2, <1>5
  <1> HIDE DEF r2
  <1> QED
    BY <1>1, <1>3, <1>4, <1>5, <1>6

LEMMA GetTermsizeType ==
    ASSUME NEW t \in Telnets
    PROVE  OptionType(GetTermsize(t), t)
  <1> DEFINE p == SizeAt(t)
             cols == At(t.buff, p.c1) * 256 + At(t.buff, p.c2)
             rows == At(t.buff, p.r1) * 256 + At(t.buff, p.r2)
             whole == At(t.buff, p.r2 + 1) = IAC /\ At(t.buff, p.r2 + 2) = SE
             c == IF whole /\ cols # 0 THEN cols ELSE t.cols
             r == IF whole /\ rows # 0 THEN rows ELSE t.rows
             sized == [t EXCEPT !.cols = c, !.rows = r]
             cut == [t EXCEPT !.cols = cols, !.rows = rows]
             u == IF level = "LOGIN" THEN WithFlag(sized, "TERMSIZE") ELSE sized
             n == p.r2 + 2
  <1>1. /\ p.c1 \in Nat /\ p.c2 \in Nat /\ p.r1 \in Nat /\ p.r2 \in Nat
        /\ p.c1 >= 1 /\ p.c2 >= 1 /\ p.r1 >= 1 /\ p.r2 >= 1
    BY SizeAtType
  <1> HIDE DEF p
  <1>2. GetTermsize(t) =
          IF t.bpos < 9 THEN Incomplete(t)
          ELSE IF n > t.bpos THEN Incomplete(cut) ELSE Option(u, n)
    BY Zenon DEF GetTermsize, p
  <1>3. t.bpos \in Nat /\ t.buff \in Seq(Byte) /\ t.cols \in Word /\ t.rows \in Word
    BY TelnetFields
  <1>4. cols \in Word /\ rows \in Word
    <2>1. /\ At(t.buff, p.c1) \in Byte /\ At(t.buff, p.c2) \in Byte
          /\ At(t.buff, p.r1) \in Byte /\ At(t.buff, p.r2) \in Byte
      BY <1>1, <1>3, AtType
    <2> QED
      BY <2>1, WordFacts
  <1> HIDE DEF cols, rows, whole
  <1>5. cut \in Telnets /\ cut.bpos = t.bpos
    BY <1>4, WithSizeType
  <1>6. sized \in Telnets /\ sized.bpos = t.bpos
    <2>1. c \in Word /\ r \in Word
      BY <1>3, <1>4
    <2> HIDE DEF c, r
    <2> QED
      BY <2>1, WithSizeType
  <1> HIDE DEF cut, sized
  <1>7. u \in Telnets /\ u.bpos = t.bpos
    <2>1. /\ WithFlag(sized, "TERMSIZE") \in Telnets
          /\ WithFlag(sized, "TERMSIZE").bpos = sized.bpos
      BY <1>6, FlagFacts, WithFlagType
    <2> QED
      BY <1>6, <2>1
  <1>8. n \in Nat
    BY <1>1
  <1> HIDE DEF u, n
  <1>9. CASE t.bpos < 9
    <2>1. OptionType(Incomplete(t), t)
      BY <1>8, OptionTypes
    <2> QED
      BY <1>2, <1>9, <2>1
  <1>10. CASE ~(t.bpos < 9) /\ n > t.bpos
    <2>1. OptionType(Incomplete(cut), t)
      BY <1>5, <1>8, OptionTypes
    <2> QED
      BY <1>2, <1>10, <2>1
  <1>11. CASE ~(t.bpos < 9) /\ ~(n > t.bpos)
    <2>1. n <= t.bpos
      BY <1>3, <1>8, <1>11
    <2>2. OptionType(Option(u, n), t)
      BY <1>7, <1>8, <2>1, OptionTypes
    <2> QED
      BY <1>2, <1>11, <2>2
  <1> QED
    BY <1>9, <1>10, <1>11

LEMMA GetTermtypeType ==
    ASSUME NEW t \in Telnets
    PROVE  OptionType(GetTermtype(t), t)
  <1> DEFINE e == Min(NameEnds(t))
             name == IF e = 5 THEN Unresolved ELSE SubSeq(t.buff, 5, e - 1)
             rest == IF e = 5 THEN t.buff ELSE SubSeq(t.buff, 1, e - 1)
             flags(n) == (t.flags \ {"ANSI_TERM"}) \cup {"TERMTYPE"} \cup
                            (IF n \in AnsiTerms THEN {"ANSI_TERM"} ELSE {})
             typed(n, b) == [t EXCEPT !.type = n, !.buff = b, !.flags = flags(n)]
             n == e + 1
  <1>1. GetTermtype(t) =
          IF t.bpos < 6 THEN Incomplete(t)
          ELSE IF At(t.buff, 4) # IS THEN Option(typed(Unresolved, t.buff), 4)
          ELSE IF NameEnds(t) = {} THEN Incomplete(t)
          ELSE Option(typed(name, rest), n)
    BY Zenon DEF GetTermtype
  <1>2. t.bpos \in Nat /\ t.buff \in Seq(Byte) /\ t.flags \subseteq Flags
    BY TelnetFields
  <1>3. \A x : flags(x) \in SUBSET Flags
    BY <1>2, FlagFacts
  <1> HIDE DEF flags
  <1>4. \A x \in Seq(Byte), b \in Seq(Byte) :
            typed(x, b) \in Telnets /\ typed(x, b).bpos = t.bpos
    <2> TAKE x \in Seq(Byte), b \in Seq(Byte)
    <2> DEFINE f == flags(x)
    <2>1. f \in SUBSET Flags
      BY <1>3
    <2> HIDE DEF f
    <2>2. LET s == [t EXCEPT !.type = x, !.buff = b, !.flags = f] IN
          s \in Telnets /\ s.bpos = t.bpos
      BY <2>1 DEF Telnets
    <2> QED
      BY <2>2 DEF f
  <1> HIDE DEF typed, n, name, rest
  <1>5. CASE t.bpos < 6
    <2>1. OptionType(Incomplete(t), t)
      <3>1. 0 \in Nat
        OBVIOUS
      <3> QED
        BY <3>1, OptionTypes
    <2> QED
      BY <1>1, <1>5, <2>1
  <1>6. CASE ~(t.bpos < 6) /\ At(t.buff, 4) # IS
    <2> DEFINE u == typed(Unresolved, t.buff)
    <2>1. u \in Telnets /\ u.bpos = t.bpos
      BY <1>2, <1>4, UnresolvedType
    <2>2. 4 \in Nat /\ 4 <= t.bpos
      BY <1>2, <1>6
    <2> HIDE DEF u
    <2>3. OptionType(Option(u, 4), t)
      BY <2>1, <2>2, OptionTypes
    <2> QED
      BY <1>1, <1>6, <2>3 DEF u
  <1>7. CASE ~(t.bpos < 6) /\ At(t.buff, 4) = IS /\ NameEnds(t) = {}
    <2>1. OptionType(Incomplete(t), t)
      <3>1. 0 \in Nat
        OBVIOUS
      <3> QED
        BY <3>1, OptionTypes
    <2> QED
      BY <1>1, <1>7, <2>1
  <1>8. CASE ~(t.bpos < 6) /\ At(t.buff, 4) = IS /\ NameEnds(t) # {}
    <2>1. e \in NameEnds(t)
      <3>1. NameEnds(t) \in SUBSET Nat
        BY <1>2 DEF NameEnds
      <3> QED
        BY <1>8, <3>1, MinFacts
    <2> HIDE DEF e
    <2>2. e \in 5..t.bpos - 1 /\ At(t.buff, e) = IAC
      BY <2>1 DEF NameEnds
    <2>3. e <= Len(t.buff) /\ Len(t.buff) \in Nat
      BY <1>2, <2>2 DEF At, IAC, NUL
    <2>4. n \in Nat /\ n <= t.bpos
      BY <1>2, <2>2 DEF n
    <2>5. name \in Seq(Byte) /\ rest \in Seq(Byte)
      <3> DEFINE b == t.buff
                 m == e - 1
      <3>1. b \in Seq(Byte) /\ m \in Nat /\ m <= Len(b)
        BY <1>2, <2>2, <2>3
      <3> HIDE DEF b, m
      <3>2. SubSeq(b, 5, m) \in Seq(Byte) /\ SubSeq(b, 1, m) \in Seq(Byte)
        BY <3>1, SubSeqType
      <3> QED
        BY <1>2, <3>2, UnresolvedType DEF b, m, name, rest
    <2> DEFINE u == typed(name, rest)
    <2>6. u \in Telnets /\ u.bpos = t.bpos
      BY <1>4, <2>5
    <2> HIDE DEF u
    <2>7. OptionType(Option(u, n), t)
      BY <2>4, <2>6, OptionTypes
    <2> QED
      BY <1>1, <1>8, <2>7 DEF u
  <1> QED
    BY <1>5, <1>6, <1>7, <1>8

\* An option is one that bpos counts, and leaves the fields as they should be.
LEMMA TeloptType ==
    ASSUME NEW t \in Telnets
    PROVE  OptionType(Telopt(t), t)
  <1> DEFINE verb == At(t.buff, 2)
             option == At(t.buff, 3)
             none == Option(t, 0)
             two == Option(t, 2)
             size == GetTermsize(t)
             type == GetTermtype(t)
             deal == Negotiate(t)
             cut == Incomplete(t)
             isCut == t.bpos < 2
             isDeal == t.bpos >= 2 /\ verb \in {WILL, WONT, DO, DONT}
             isSub == t.bpos >= 2 /\ verb = SB
             isSize == option = NAWS
             isType == option = TERM
             sub == CASE isSize -> size [] isType -> type [] OTHER -> none
  <1>1. Telopt(t) = CASE isCut -> cut [] isDeal -> deal [] isSub -> sub [] OTHER -> two
    BY Zenon DEF Telopt
  <1>2. t.bpos \in Nat
    BY TelnetFields
  <1>3. /\ OptionType(none, t) /\ OptionType(cut, t)
        /\ 2 <= t.bpos => OptionType(two, t)
    <2>1. 0 \in Nat /\ 2 \in Nat /\ 0 <= t.bpos
      BY <1>2
    <2> QED
      BY <2>1, OptionTypes
  <1>4. OptionType(size, t) /\ OptionType(type, t) /\ OptionType(deal, t)
    BY GetTermsizeType, GetTermtypeType, NegotiateType
  <1>5. ~isCut => 2 <= t.bpos
    BY <1>2
  <1> HIDE DEF none, two, size, type, deal, cut, isCut, isDeal, isSub, isSize, isType
  <1>6. sub = size \/ sub = type \/ sub = none
    OBVIOUS
  <1> HIDE DEF sub
  <1>7. OptionType(sub, t)
    BY <1>3, <1>4, <1>6, Zenon
  <1>8. \/ Telopt(t) = cut \/ Telopt(t) = deal \/ Telopt(t) = sub
        \/ ~isCut /\ Telopt(t) = two
    BY <1>1
  <1> QED
    BY <1>3, <1>4, <1>5, <1>7, <1>8, Zenon

LEMMA InitType == Init => TypeInv
  <1> SUFFICES ASSUME Init PROVE TypeInv
    OBVIOUS
  <1>1. PICK s \in Sessions : script = s.script /\ level = s.level
    BY DEF Init
  <1>2. s.level \in {"LOGIN", "NOVICE"} /\ s.script \in Seq(Tokens)
    BY InputAssumption
  <1>3. wire \in Seq(Byte)
    BY <1>1, <1>2, BytesType DEF Init
  <1>4. tel \in Telnets
    <2>1. /\ <<>> \in Seq(Byte) /\ 0 \in Nat /\ {} \in SUBSET Flags
          /\ 80 \in Word /\ 25 \in Word
      BY WordFacts
    <2>2. NewTelnet \in Telnets
      BY <2>1 DEF NewTelnet, Telnets
    <2> QED
      BY <2>2 DEF Init
  <1>5. ReaderInv
    BY <1>3, <1>4 DEF Init, ReaderInv
  <1>6. text \in [{0, 1} -> Seq(Plain)] /\ tbpos \in 0..Len(text[buffnum])
    BY DEF Init
  <1>7. stage \in {"LOGIN_ID", "LOGIN_PROMPT", "CMD_LINE"}
    BY DEF Init
  <1>8. com \in Coms
    BY DEF Init, Coms
  <1>9. EditorInv
    BY <1>1, <1>2, <1>6, <1>7, <1>8 DEF Init, EditorInv
  <1> QED
    BY <1>5, <1>9 DEF TypeInv

\* The editor's part of the state.
LEMMA EditorRests ==
    ASSUME EditorInv, UNCHANGED <<editor, level, stage>>
    PROVE  EditorInv'
  BY DEF EditorInv, editor

LEMMA HeadFacts ==
    ASSUME NEW A, NEW s \in Seq(A), s # <<>>
    PROVE  Head(s) \in A /\ Tail(s) \in Seq(A) /\ Front(s) \in Seq(A)
  <1>1. Head(s) \in A /\ Tail(s) \in Seq(A)
    BY HeadTailProperties
  <1>2. Front(s) \in Seq(A)
    <2> DEFINE n == Len(s) - 1
    <2>1. n \in Nat /\ n <= Len(s) /\ 1 \in Nat /\ 1 >= 1
      BY EmptySeq
    <2>2. Front(s) = SubSeq(s, 1, n)
      BY DEF Front
    <2> HIDE DEF n
    <2> QED
      BY <2>1, <2>2, SubSeqType
  <1> QED
    BY <1>1, <1>2

LEMMA PacketType ==
    ASSUME TypeInv, NEW k \in 1..Len(wire), Packet(k)
    PROVE  TypeInv'
  <1>1. wire \in Seq(Byte) /\ Len(wire) \in Nat /\ k \in Nat /\ k <= Len(wire)
    BY DEF TypeInv, ReaderInv
  <1>2. SubSeq(wire, 1, k) \in Seq(Byte)
    BY <1>1, SubSeqType
  <1>3. SubSeq(wire, k + 1, Len(wire)) \in Seq(Byte)
    <2> DEFINE m == k + 1
               n == Len(wire)
    <2>1. m \in Nat /\ m >= 1 /\ n \in Nat /\ n <= Len(wire)
      BY <1>1
    <2> HIDE DEF m, n
    <2>2. SubSeq(wire, m, n) \in Seq(Byte)
      BY <1>1, <2>1, SubSeqType
    <2> QED
      BY <2>2 DEF m, n
  <1>4. input' \in Seq(Byte)
    <2> DEFINE s == IF k >= MaxSize THEN <<>> ELSE SubSeq(wire, 1, k)
    <2>1. s \in Seq(Byte) /\ NUL \in Byte
      BY <1>2, ByteFacts
    <2>2. input' = Append(s, NUL)
      BY DEF Packet
    <2> HIDE DEF s
    <2> QED
      BY <2>1, <2>2
  <1>5. careful' \in BOOLEAN
    BY Zenon DEF Packet
  <1>6. ReaderInv'
    BY <1>1, <1>3, <1>4, <1>5 DEF Packet, TypeInv, ReaderInv
  <1>7. EditorInv'
    BY EditorRests DEF Packet, TypeInv
  <1> QED
    BY <1>6, <1>7 DEF TypeInv

LEMMA StashType ==
    ASSUME TypeInv, Stash
    PROVE  TypeInv'
  <1>1. /\ input \in Seq(Byte) /\ input # <<>> /\ len \in Nat /\ tel \in Telnets
        /\ tel.buff \in Seq(Byte) /\ tel.bpos \in Nat
    BY TelnetFields DEF Stash, TypeInv, ReaderInv
  <1>2. CASE tel.bpos > Len(tel.buff)
    BY <1>2 DEF Stash, TypeInv, ReaderInv, EditorInv, editor
  <1>3. CASE ~(tel.bpos > Len(tel.buff))
    <2> DEFINE b == tel.buff
               n == Len(b)
               p == tel.bpos
               m == p + len + 1
               q == p + len
               s == SubSeq(b, 1, p) \o Front(input) \o SubSeq(b, m, n)
    <2>1. /\ b \in Seq(Byte) /\ n \in Nat /\ n <= Len(b) /\ p \in Nat
          /\ p <= Len(b) /\ m \in Nat /\ m >= 1 /\ q \in Nat
      BY <1>1, <1>3
    <2>2. s \in Seq(Byte)
      <3> HIDE DEF b, n, p, m
      <3>1. SubSeq(b, 1, p) \in Seq(Byte) /\ SubSeq(b, m, n) \in Seq(Byte)
        BY <2>1, SubSeqType
      <3>2. Front(input) \in Seq(Byte)
        BY <1>1, HeadFacts
      <3> QED
        BY <3>1, <3>2
    <2>3. tel' = [tel EXCEPT !.buff = s, !.bpos = q]
      BY <1>3 DEF Stash
    <2> HIDE DEF s, q
    <2>4. tel' \in Telnets
      BY <1>1, <2>1, <2>2, <2>3, WithBuffType
    <2>5. ReaderInv'
      BY <1>3, <2>4 DEF Stash, TypeInv, ReaderInv
    <2>6. EditorInv'
      BY EditorRests DEF Stash, TypeInv
    <2> QED
      BY <2>5, <2>6 DEF TypeInv
  <1> QED
    BY <1>2, <1>3

LEMMA OptionsType ==
    ASSUME TypeInv, OneOption \/ CutOption \/ OptionPastEnd
    PROVE  TypeInv'
  <1> DEFINE o == Telopt(tel)
  <1>1. tel \in Telnets /\ OptionType(o, tel)
    BY TeloptType DEF TypeInv, ReaderInv
  <1> HIDE DEF o
  <1>2. CASE OneOption
    <2> DEFINE b == o.t.buff
               n == Len(b)
               m == o.shift + 1
               s == SubSeq(b, m, n)
               p == o.t.bpos - o.shift
    <2>1. /\ o.t \in Telnets /\ b \in Seq(Byte) /\ o.shift \in Nat
          /\ o.t.bpos \in Nat /\ o.shift <= o.t.bpos
      BY <1>1, TelnetFields DEF OptionType
    <2>2. p \in Nat /\ n \in Nat /\ n <= Len(b) /\ m \in Nat /\ m >= 1
      BY <2>1
    <2>3. s \in Seq(Byte)
      <3> HIDE DEF b, n, m
      <3> QED
        BY <2>1, <2>2, SubSeqType
    <2>4. tel' = [o.t EXCEPT !.buff = s, !.bpos = p]
      BY <1>2 DEF OneOption, o, Telnets
    <2> DEFINE u == o.t
    <2> HIDE DEF s, p, u
    <2>5. tel' \in Telnets
      <3>1. u \in Telnets /\ tel' = [u EXCEPT !.buff = s, !.bpos = p]
        BY <2>1, <2>4 DEF u
      <3> QED
        BY <2>2, <2>3, <3>1, WithBuffType
    <2>6. ReaderInv'
      BY <1>2, <2>5 DEF OneOption, TypeInv, ReaderInv, reading
    <2>7. EditorInv'
      BY <1>2, EditorRests DEF OneOption, TypeInv
    <2> QED
      BY <2>6, <2>7 DEF TypeInv
  <1>3. CASE CutOption
    <2>1. tel' \in Telnets
      BY <1>1, <1>3 DEF CutOption, OptionType, o
    <2>2. ReaderInv'
      BY <1>3, <2>1 DEF CutOption, TypeInv, ReaderInv
    <2>3. EditorInv'
      BY <1>3, EditorRests DEF CutOption, TypeInv
    <2> QED
      BY <2>2, <2>3 DEF TypeInv
  <1>4. CASE OptionPastEnd
    BY <1>4 DEF OptionPastEnd, TypeInv, ReaderInv, EditorInv, editor
  <1> QED
    BY <1>2, <1>3, <1>4

LEMMA OptionsDoneType ==
    ASSUME TypeInv, OptionsDone
    PROVE  TypeInv'
  <1> DEFINE b == tel.buff
             p == tel.bpos
             n == Min({p, Len(b)})
             all == "GOT_TELOPT_INFO" \notin tel.flags /\ AllOptions \subseteq tel.flags
             f == IF all THEN tel.flags \cup {"GOT_TELOPT_INFO"} ELSE tel.flags
  <1>1. /\ tel \in Telnets /\ b \in Seq(Byte) /\ p \in Nat /\ Len(b) \in Nat
        /\ tel.flags \subseteq Flags
    BY TelnetFields DEF TypeInv, ReaderInv
  <1>2. n \in Nat /\ n <= Len(b)
    <2> DEFINE S == {p, Len(b)}
    <2>1. S \in SUBSET Nat /\ S # {} /\ Len(b) \in S
      BY <1>1
    <2> HIDE DEF S
    <2>2. Min(S) \in S /\ \A x \in S : Min(S) <= x
      BY <2>1, MinFacts
    <2>3. Min(S) \in Nat /\ Min(S) <= Len(b)
      BY <2>1, <2>2
    <2> QED
      BY <2>3 DEF S
  <1>3. tel' \in Telnets
    <2>1. f \in SUBSET Flags /\ 0 \in Nat
      BY <1>1, FlagFacts
    <2>2. tel' = [tel EXCEPT !.bpos = 0, !.flags = f]
      BY <1>1, Zenon DEF OptionsDone, Telnets
    <2> HIDE DEF f
    <2> QED
      BY <1>1, <2>1, <2>2, WithFlagsType
  <1>4. input' \in Seq(Byte)
    <2> DEFINE s == SubSeq(b, 1, n)
    <2>1. s \in Seq(Byte) /\ NUL \in Byte
      <3> HIDE DEF n, b
      <3> QED
        BY <1>1, <1>2, SubSeqType, ByteFacts
    <2>2. input' = IF p = 0 THEN <<>> ELSE Append(s, NUL)
      BY DEF OptionsDone
    <2> HIDE DEF s
    <2> QED
      BY <2>1, <2>2
  <1>5. /\ len' \in Nat /\ pc' \in {"idle", "loop"}
        /\ stage' \in {"LOGIN_ID", "LOGIN_PROMPT", "CMD_LINE"}
        /\ wire' = wire /\ careful' = careful
    <2>1. len' = p /\ wire' = wire /\ careful' = careful
      BY DEF OptionsDone
    <2>2. pc' = "idle" \/ pc' = "loop"
      BY DEF OptionsDone
    <2>3. stage' = "LOGIN_ID" \/ stage' = stage
      BY DEF OptionsDone
    <2> QED
      BY <1>1, <2>1, <2>2, <2>3 DEF TypeInv, EditorInv
  <1>6. ReaderInv'
    BY <1>3, <1>4, <1>5 DEF TypeInv, ReaderInv
  <1>7. EditorInv'
    <2>1. UNCHANGED <<editor, level>>
      BY DEF OptionsDone
    <2> QED
      BY <1>5, <2>1 DEF TypeInv, EditorInv, editor
  <1> QED
    BY <1>6, <1>7 DEF TypeInv

-----------------------------------------------------------------------------
(* The editor.                                                             *)

LEMMA SeqWider ==
    ASSUME NEW A, NEW B, A \subseteq B, NEW s \in Seq(A)
    PROVE  s \in Seq(B)
  <1>1. Len(s) \in Nat /\ \A i \in 1..Len(s) : s[i] \in B
    OBVIOUS
  <1>2. s = [i \in 1..Len(s) |-> s[i]]
    OBVIOUS
  <1> QED
    BY <1>1, <1>2

LEMMA PlainFacts ==
    /\ Plain \subseteq Byte /\ Plain \subseteq Nat /\ Space \in Plain
    /\ \A s \in Seq(Plain) : s \in Seq(Byte) /\ s \in Seq(Nat)
  <1>1. Plain \subseteq Byte /\ Plain \subseteq Nat /\ Space \in Plain
    BY ByteFacts DEF Plain, Space, LF
  <1> QED
    BY <1>1, SeqWider

\* A byte is read from the text.
LEMMA NextByteType ==
    ASSUME TypeInv, NEW c, ByteRead(c), NextByte,
           pc' \in {pc, "terminated"}
    PROVE  ReaderInv' /\ c \in Byte
  <1>1. /\ input \in Seq(Byte) /\ input # <<>> /\ len \in Nat /\ len > 0
        /\ c = Head(input) /\ pc = "loop"
    BY DEF ByteRead, TypeInv, ReaderInv
  <1>2. c \in Byte /\ Tail(input) \in Seq(Byte)
    BY <1>1, HeadFacts
  <1>3. len - 1 \in Nat
    BY <1>1
  <1> QED
    BY <1>1, <1>2, <1>3 DEF NextByte, TypeInv, ReaderInv

\* What is typed is at the front of the buffer.
LEMMA LineFacts ==
    ASSUME TypeInv
    PROVE  /\ Line \in Seq(Plain) /\ Len(Line) = tbpos
           /\ tbpos \in Nat /\ tbpos <= Len(text[buffnum])
           /\ text[buffnum] \in Seq(Plain) /\ buffnum \in {0, 1}
           /\ text \in [{0, 1} -> Seq(Plain)]
  <1> DEFINE s == text[buffnum]
  <1>1. /\ s \in Seq(Plain) /\ tbpos \in Nat /\ tbpos <= Len(s)
        /\ buffnum \in {0, 1} /\ text \in [{0, 1} -> Seq(Plain)]
    BY DEF TypeInv, EditorInv
  <1> HIDE DEF s
  <1>2. SubSeq(s, 1, tbpos) \in Seq(Plain) /\ Len(SubSeq(s, 1, tbpos)) = tbpos
    BY <1>1, SubSeqType
  <1> QED
    BY <1>1, <1>2 DEF s, Line

\* A buffer is replaced.
LEMMA TextType ==
    ASSUME NEW s \in Seq(Plain), NEW f \in [{0, 1} -> Seq(Plain)],
           NEW b \in {0, 1}
    PROVE  /\ [f EXCEPT ![b] = s] \in [{0, 1} -> Seq(Plain)]
           /\ [f EXCEPT ![b] = s][b] = s
  OBVIOUS

LEMMA IgnoreType ==
    ASSUME TypeInv, Ignore
    PROVE  TypeInv'
  <1>1. ReaderInv'
    BY NextByteType DEF Ignore
  <1>2. EditorInv'
    BY EditorRests DEF Ignore, TypeInv
  <1> QED
    BY <1>1, <1>2 DEF TypeInv

LEMMA RuboutType ==
    ASSUME TypeInv, Rubout
    PROVE  TypeInv'
  <1>1. ReaderInv'
    BY NextByteType DEF Rubout
  <1>2. text' \in [{0, 1} -> Seq(Plain)] /\ tbpos' \in 0..Len(text'[buffnum])
    <2> DEFINE s == text[buffnum]
               n == tbpos - 1
               r == SubSeq(s, 1, n)
    <2>1. /\ s \in Seq(Plain) /\ tbpos \in Nat /\ tbpos <= Len(s)
          /\ buffnum \in {0, 1} /\ text \in [{0, 1} -> Seq(Plain)]
      BY LineFacts
    <2>2. CASE tbpos > 0
      <3>1. n \in Nat /\ n <= Len(s)
        BY <2>1, <2>2
      <3>2. r \in Seq(Plain) /\ Len(r) = n
        <4> HIDE DEF s, n
        <4> QED
          BY <2>1, <3>1, SubSeqType
      <3>3. text' = [text EXCEPT ![buffnum] = r] /\ tbpos' = n
        BY <2>2 DEF Rubout
      <3> HIDE DEF r, s, n
      <3>4. text' \in [{0, 1} -> Seq(Plain)] /\ text'[buffnum] = r
        BY <2>1, <3>2, <3>3, TextType
      <3> QED
        BY <3>1, <3>2, <3>3, <3>4
    <2>3. CASE ~(tbpos > 0)
      <3>1. text' = text /\ tbpos' = 0
        BY <2>3 DEF Rubout
      <3> QED
        BY <2>1, <3>1
    <2> QED
      BY <2>2, <2>3
  <1>3. EditorInv'
    BY <1>2 DEF Rubout, TypeInv, EditorInv
  <1> QED
    BY <1>1, <1>3 DEF TypeInv

LEMMA CharType ==
    ASSUME TypeInv, Char
    PROVE  TypeInv'
  <1>1. PICK c \in Range(input) \ {NUL, LF, CR, BS, DEL} :
            /\ ByteRead(c)
            /\ text' = [text EXCEPT ![buffnum] =
                   SubSeq(@, 1, tbpos) \o <<c>> \o SubSeq(@, tbpos + 2, Len(@))]
    BY DEF Char
  <1>2. ReaderInv' /\ c \in Plain
    <2>1. ReaderInv' /\ c \in Byte
      BY <1>1, NextByteType DEF Char
    <2>2. c # LF
      BY <1>1
    <2> QED
      BY <2>1, <2>2 DEF Plain
  <1>3. text' \in [{0, 1} -> Seq(Plain)] /\ tbpos' \in 0..Len(text'[buffnum])
    <2> DEFINE s == text[buffnum]
               m == tbpos + 2
               n == Len(s)
               x == SubSeq(s, 1, tbpos)
               y == SubSeq(s, m, n)
               r == x \o <<c>> \o y
    <2>1. /\ s \in Seq(Plain) /\ tbpos \in Nat /\ tbpos <= Len(s)
          /\ buffnum \in {0, 1} /\ text \in [{0, 1} -> Seq(Plain)]
      BY LineFacts
    <2>2. m \in Nat /\ m >= 1 /\ n \in Nat /\ n <= Len(s)
      BY <2>1
    <2>3. text' = [text EXCEPT ![buffnum] = r]
      BY <1>1, <2>1
    <2>4. x \in Seq(Plain) /\ Len(x) = tbpos /\ y \in Seq(Plain)
      <3> HIDE DEF s, m, n
      <3> QED
        BY <2>1, <2>2, SubSeqType
    <2>5. r \in Seq(Plain) /\ Len(r) >= tbpos + 1 /\ Len(r) \in Nat
      <3> HIDE DEF x, y
      <3>1. <<c>> \in Seq(Plain) /\ Len(<<c>>) = 1
        BY <1>2
      <3>2. x \o <<c>> \in Seq(Plain) /\ Len(x \o <<c>>) = tbpos + 1
        BY <2>1, <2>4, <3>1, ConcatProperties
      <3> QED
        BY <2>1, <2>4, <3>2, ConcatProperties
    <2> HIDE DEF r
    <2>6. text' \in [{0, 1} -> Seq(Plain)] /\ text'[buffnum] = r
      BY <2>1, <2>3, <2>5, TextType
    <2>7. tbpos' = tbpos + 1
      BY DEF Char
    <2> QED
      BY <2>1, <2>5, <2>6, <2>7
  <1>4. EditorInv'
    BY <1>3 DEF Char, TypeInv, EditorInv
  <1> QED
    BY <1>2, <1>4 DEF TypeInv

LEMMA LoginLineType ==
    ASSUME TypeInv, LoginLine
    PROVE  TypeInv'
  <1>1. ReaderInv'
    BY NextByteType DEF LoginLine
  <1>2. text' \in [{0, 1} -> Seq(Plain)] /\ tbpos' \in 0..Len(text'[buffnum])
    <2>1. text' = [text EXCEPT ![buffnum] = Line] /\ tbpos' = 0
      BY DEF LoginLine
    <2> DEFINE s == Line
    <2>2. s \in Seq(Plain) /\ buffnum \in {0, 1} /\ text \in [{0, 1} -> Seq(Plain)]
      BY LineFacts
    <2>3. text' = [text EXCEPT ![buffnum] = s]
      BY <2>1
    <2> HIDE DEF s
    <2>4. text' \in [{0, 1} -> Seq(Plain)] /\ text'[buffnum] = s
      BY <2>2, <2>3, TextType
    <2> QED
      BY <2>1, <2>2, <2>4
  <1>3. /\ level' \in {"LOGIN", "NOVICE"}
        /\ stage' \in {"LOGIN_ID", "LOGIN_PROMPT", "CMD_LINE"}
        /\ UNCHANGED <<buffnum, com, parsed>>
    BY DEF LoginLine, TypeInv, EditorInv
  <1>4. EditorInv'
    BY <1>2, <1>3 DEF TypeInv, EditorInv
  <1> QED
    BY <1>1, <1>4 DEF TypeInv

\* cleanString keeps a line without line feeds.
LEMMA CleanPlain ==
    ASSUME NEW s \in Seq(Plain)
    PROVE  /\ s \in Seq(Nat)
           /\ Clean(s) \in Seq(Plain) /\ Clean(s) \in Seq(Nat)
           /\ Len(Clean(s)) = Len(s)
  <1>1. s \in Seq(Nat) /\ \A i \in 1..Len(s) : s[i] \in Plain
    <2>1. s \in Seq(Nat)
      BY PlainFacts
    <2> QED
      BY <2>1
  <1>2. /\ Clean(s) \in Seq(Nat) /\ Len(Clean(s)) = Len(s)
        /\ \A i \in 1..Len(s) : Clean(s)[i] \in {s[i], Space}
    BY <1>1, CleanFacts
  <1> DEFINE c == Clean(s)
  <1> HIDE DEF c
  <1>3. c \in Seq(Nat) /\ Len(c) = Len(s) /\ \A i \in 1..Len(c) : c[i] \in Plain
    BY <1>1, <1>2, PlainFacts DEF c
  <1>4. c \in Seq(Plain)
    BY <1>3
  <1> QED
    BY <1>1, <1>2, <1>4 DEF c

\* The fields of com after a line.
LEMMA ParseFacts ==
    ASSUME NEW c \in Coms, NEW l \in Seq(Plain)
    PROVE  LET words == GetWords(l)
               starts == [k \in DOMAIN words |-> words[k].start]
           IN  /\ Parse(c, l) \in Coms
               /\ l = <<>> => Parse(c, l).word = <<>>
               /\ l # <<>> =>
                    /\ Parse(c, l).line = l
                    /\ Parse(c, l).word = [k \in DOMAIN words |-> words[k].text]
                    /\ Parse(c, l).wordPtr = c.wordPtr \o starts
                    /\ starts \in Seq(1..Len(l)) /\ starts \in Seq(Nat)
                    /\ c.wordPtr \in Seq(Nat)
  <1> DEFINE words == GetWords(l)
             starts == [k \in DOMAIN words |-> words[k].start]
             texts == [k \in DOMAIN words |-> words[k].text]
  <1>1. l \in Seq(Nat) /\ Len(l) \in Nat
    <2>1. l \in Seq(Nat)
      BY PlainFacts
    <2> QED
      BY <2>1
  <1>2. texts \in Seq(Seq(Nat)) /\ starts \in Seq(1..Len(l))
    BY <1>1, GetWordsType
  <1>3. /\ l = <<>> => Parse(c, l) = [c EXCEPT !.word = <<>>]
        /\ l # <<>> => Parse(c, l) = [line |-> l, word |-> texts,
                                      wordPtr |-> c.wordPtr \o starts]
    BY DEF Parse
  <1> HIDE DEF starts, texts
  <1>4. starts \in Seq(Nat)
    BY <1>1, <1>2
  <1>5. c.wordPtr \in Seq(Nat)
    BY DEF Coms
  <1> DEFINE w == c.wordPtr \o starts
  <1>6. w \in Seq(Nat)
    BY <1>4, <1>5
  <1> HIDE DEF w
  <1>7. CASE l = <<>>
    <2>1. [c EXCEPT !.word = <<>>] \in Coms /\ [c EXCEPT !.word = <<>>].word = <<>>
      <3> DEFINE e == <<>>
      <3>1. e \in Seq(Seq(Nat))
        OBVIOUS
      <3> HIDE DEF e
      <3>2. [c EXCEPT !.word = e] \in Coms /\ [c EXCEPT !.word = e].word = e
        BY <3>1 DEF Coms
      <3> QED
        BY <3>2 DEF e
    <2> QED
      BY <1>3, <1>7, <2>1
  <1>8. CASE l # <<>>
    <2>1. Parse(c, l) = [line |-> l, word |-> texts, wordPtr |-> w]
      BY <1>3, <1>8 DEF w
    <2>2. Parse(c, l) \in Coms
      BY <1>2, <1>6, <2>1 DEF Coms
    <2>3. /\ Parse(c, l).line = l /\ Parse(c, l).word = texts
          /\ Parse(c, l).wordPtr = w
      BY <2>1
    <2> QED
      BY <1>2, <1>4, <1>5, <1>8, <2>2, <2>3 DEF w, starts, texts
  <1> QED
    BY <1>7, <1>8

LEMMA CommandLineReadType ==
    ASSUME TypeInv, CommandLineRead
    PROVE  TypeInv'
  <1> DEFINE l == Clean(Line)
  <1>1. /\ Line \in Seq(Plain) /\ buffnum \in {0, 1}
        /\ text \in [{0, 1} -> Seq(Plain)] /\ com \in Coms
    BY LineFacts DEF TypeInv, EditorInv
  <1>2. l \in Seq(Plain)
    BY <1>1, CleanPlain
  <1>3. /\ text' = [text EXCEPT ![buffnum] = l] /\ com' = Parse(com, l)
        /\ pc' \in {pc, "terminated"}
    BY DEF CommandLineRead
  <1> HIDE DEF l
  <1>4. text' \in [{0, 1} -> Seq(Plain)]
    BY <1>1, <1>2, <1>3, TextType
  <1>5. Parse(com, l) \in Coms
    BY <1>1, <1>2, ParseFacts
  <1>6. ReaderInv'
    BY <1>3, NextByteType DEF CommandLineRead
  <1>7. /\ parsed' \in Seq(Plain) /\ tbpos' = 0 /\ buffnum' \in {0, 1}
        /\ stage' = "CMD_LINE" /\ level' = level
    BY <1>1 DEF CommandLineRead
  <1>8. tbpos' \in 0..Len(text'[buffnum'])
    BY <1>4, <1>7
  <1>9. EditorInv'
    BY <1>3, <1>4, <1>5, <1>7, <1>8 DEF TypeInv, EditorInv
  <1> QED
    BY <1>6, <1>9 DEF TypeInv

LEMMA TypeStep == TypeInv /\ [Next]_vars => TypeInv'
  <1> SUFFICES ASSUME TypeInv, [Next]_vars PROVE TypeInv'
    OBVIOUS
  <1>1. CASE \E k \in 1..Len(wire) : Packet(k)
    BY <1>1, PacketType
  <1>2. CASE EndPacket
    BY <1>2 DEF EndPacket, TypeInv, ReaderInv, EditorInv, editor
  <1>3. CASE ReadPastEnd
    BY <1>3 DEF ReadPastEnd, TypeInv, ReaderInv, EditorInv, editor
  <1>4. CASE UNCHANGED vars
    BY <1>4 DEF vars, TypeInv, ReaderInv, EditorInv
  <1> QED
    BY <1>1, <1>2, <1>3, <1>4, StashType, OptionsType, OptionsDoneType,
       IgnoreType, RuboutType, CharType, LoginLineType, CommandLineReadType
       DEF Next, Handle

\* Every state is well typed: whatever the peers say and however the network
\* cuts it, an option that is parsed takes only bytes that buff counts, and
\* the line editor never leaves its buffer (uRead, parseTelopt, getTermsize,
\* getTermtype, parseLine).
THEOREM TypeCorrect == Spec => []TypeOK
  <1>1. TypeInv => TypeOK
    <2> SUFFICES ASSUME TypeInv PROVE TypeOK
      OBVIOUS
    <2>1. /\ tel.buff \in Seq(Byte) /\ tel.bpos \in Nat /\ tel.flags \subseteq Flags
          /\ tel.cols \in Word /\ tel.rows \in Word
      BY TelnetFields DEF TypeInv, ReaderInv
    <2>2. text \in [{0, 1} -> Seq(Byte)]
      <3>1. text \in [{0, 1} -> Seq(Plain)]
        BY DEF TypeInv, EditorInv
      <3>2. \A s \in Seq(Plain) : s \in Seq(Byte)
        BY PlainFacts
      <3> QED
        BY <3>1, <3>2
    <2> QED
      BY <2>1, <2>2 DEF TypeInv, ReaderInv, EditorInv, TypeOK, Flags
  <1> QED
    BY <1>1, InitType, TypeStep, PTL DEF Spec

-----------------------------------------------------------------------------
(* A command is the line.                                                  *)

LEMMA BehindFirst ==
    ASSUME NEW p \in Seq(Nat), NEW s \in Seq(Nat)
    PROVE  \E n \in 0..Len(p \o s) :
                SubSeq(p \o s, n + 1, Len(p \o s)) = s
  <1> DEFINE w == p \o s
             n == Len(p)
             a == n + 1
             b == Len(w)
             t == SubSeq(w, a, b)
  <1>1. /\ w \in Seq(Nat) /\ n \in Nat /\ Len(s) \in Nat
        /\ b = n + Len(s) /\ a = n + 1 /\ b = Len(w)
        /\ \A i \in 1..Len(s) : w[n + i] = s[i]
    BY ConcatProperties
  <1> HIDE DEF w, n, a, b
  <1>2. /\ t \in Seq(Nat) /\ Len(t) = Len(s)
        /\ \A i \in 1..Len(s) : t[i] = w[n + i]
    <2>1. \A i \in a..b : w[i] \in Nat
      BY <1>1
    <2>2. /\ t \in Seq(Nat)
          /\ Len(t) = IF a <= b THEN b - a + 1 ELSE 0
          /\ \A i \in 1..b - a + 1 : t[i] = w[a + i - 1]
      BY <1>1, <2>1, SubSeqProperties
    <2> HIDE DEF t
    <2> QED
      BY <1>1, <2>2
  <1> HIDE DEF t
  <1>3. t = s
    <2>1. \A i \in 1..Len(t) : t[i] = s[i]
      BY <1>1, <1>2
    <2> QED
      BY <1>2, <2>1, SeqEqual
  <1>4. n \in 0..b
    BY <1>1
  <1>5. SubSeq(w, n + 1, b) = s
    BY <1>1, <1>3 DEF t
  <1>6. \E k \in 0..b : SubSeq(w, k + 1, b) = s
    BY <1>4, <1>5
  <1> QED
    BY <1>6 DEF w, b

LEMMA EmptyClean == Clean(<<>>) = <<>>
  <1> DEFINE e == <<>>
  <1>1. e \in Seq(Nat) /\ Len(e) = 0
    OBVIOUS
  <1> HIDE DEF e
  <1>2. Clean(e) \in Seq(Nat) /\ Len(Clean(e)) = 0
    BY <1>1, CleanFacts
  <1>3. Clean(e) = <<>>
    BY <1>2
  <1> QED
    BY <1>3 DEF e

LEMMA ComInit == Init => ComInv
  <1> SUFFICES ASSUME Init PROVE ComInv
    OBVIOUS
  <1>1. parsed = <<>> /\ told = <<>> /\ com.word = <<>>
    BY DEF Init
  <1>2. Clean(parsed) = <<>>
    BY <1>1, EmptyClean
  <1> QED
    BY <1>1, <1>2 DEF ComInv, ComIs

LEMMA CommandLineReadCom ==
    ASSUME TypeInv, CommandLineRead
    PROVE  ComInv'
  <1> DEFINE l == Clean(Line)
             c == Parse(com, l)
             words == GetWords(l)
             starts == [k \in DOMAIN words |-> words[k].start]
             texts == [k \in DOMAIN words |-> words[k].text]
  <1>1. l \in Seq(Plain) /\ com \in Coms
    BY LineFacts, CleanPlain DEF TypeInv, EditorInv
  <1>2. /\ parsed' = Line /\ com' = c
        /\ told' = <<>> \/ (IsSay(c.word) /\ told' = SayText(c))
    BY DEF CommandLineRead
  <1>3. Clean(parsed') = l
    BY <1>2
  <1>4. /\ l = <<>> => c.word = <<>>
        /\ l # <<>> => /\ c.line = l /\ c.word = texts
                       /\ c.wordPtr = com.wordPtr \o starts
                       /\ starts \in Seq(Nat) /\ com.wordPtr \in Seq(Nat)
    BY <1>1, ParseFacts
  <1>5. ComIs(c, l, told')
    <2>1. CASE l = <<>>
      <3>1. c.word = <<>>
        BY <1>4, <2>1
      <3>2. ~IsSay(c.word)
        BY <3>1 DEF IsSay
      <3> QED
        BY <1>2, <2>1, <3>1, <3>2 DEF ComIs
    <2>2. CASE l # <<>>
      <3> HIDE DEF c, starts, texts
      <3>1. \E n \in 0..Len(c.wordPtr) :
                SubSeq(c.wordPtr, n + 1, Len(c.wordPtr)) = starts
        BY <1>4, <2>2, BehindFirst
      <3> QED
        BY <1>2, <1>4, <2>2, <3>1 DEF ComIs, starts, texts
    <2> QED
      BY <2>1, <2>2
  <1> QED
    BY <1>2, <1>3, <1>5 DEF ComInv

LEMMA ComStep == TypeInv /\ ComInv /\ [Next]_vars => ComInv'
  <1> SUFFICES ASSUME TypeInv, ComInv, [Next]_vars, ~CommandLineRead
               PROVE  ComInv'
    BY CommandLineReadCom
  <1>1. com' = com /\ parsed' = parsed /\ told' = told
    BY DEF Next, Handle, vars, editor, Packet, EndPacket, ReadPastEnd, Stash,
           OneOption, CutOption, OptionPastEnd, OptionsDone, Ignore, Rubout,
           Char, LoginLine
  <1> QED
    BY <1>1 DEF ComInv

LEMMA WithZero ==
    ASSUME NEW x \in Seq(Nat)
    PROVE  Append(x \o <<CR, LF>>, NUL) = x \o <<CR, LF, NUL>>
  <1> DEFINE a == <<CR, LF>>
             b == <<CR, LF, NUL>>
             y == x \o a
             s == Append(y, NUL)
             t == x \o b
             n == Len(x)
  <1>1. /\ a \in Seq(Nat) /\ Len(a) = 2 /\ a[1] = CR /\ a[2] = LF
        /\ b \in Seq(Nat) /\ Len(b) = 3 /\ b[1] = CR /\ b[2] = LF /\ b[3] = NUL
        /\ n \in Nat /\ NUL \in Nat
    BY DEF CR, LF, NUL
  <1> HIDE DEF a, b
  <1>2. /\ y \in Seq(Nat) /\ Len(y) = n + 2
        /\ \A i \in 1..n + 2 : y[i] = IF i <= n THEN x[i] ELSE a[i - n]
    <2>1. /\ y \in Seq(Nat) /\ Len(y) = Len(x) + Len(a)
          /\ \A i \in 1..Len(x) + Len(a) :
                y[i] = IF i <= Len(x) THEN x[i] ELSE a[i - Len(x)]
      BY <1>1, ConcatProperties
    <2> HIDE DEF y
    <2> QED
      BY <1>1, <2>1
  <1>3. /\ t \in Seq(Nat) /\ Len(t) = n + 3
        /\ \A i \in 1..n + 3 : t[i] = IF i <= n THEN x[i] ELSE b[i - n]
    <2>1. /\ t \in Seq(Nat) /\ Len(t) = Len(x) + Len(b)
          /\ \A i \in 1..Len(x) + Len(b) :
                t[i] = IF i <= Len(x) THEN x[i] ELSE b[i - Len(x)]
      BY <1>1, ConcatProperties
    <2> HIDE DEF t
    <2> QED
      BY <1>1, <2>1
  <1> HIDE DEF y, n, t
  <1>4. /\ s \in Seq(Nat) /\ Len(s) = n + 3 /\ s[n + 3] = NUL
        /\ \A i \in 1..n + 2 : s[i] = y[i]
    BY <1>1, <1>2
  <1> HIDE DEF s
  <1>5. ASSUME NEW i \in 1..n + 3 PROVE s[i] = t[i]
    <2> DEFINE k == i - n
    <2>1. /\ n \in Nat /\ i \in Int /\ k \in Int /\ i = n + k
          /\ i <= n \/ k = 1 \/ k = 2 \/ k = 3
      BY <1>1
    <2>2. k # 3 => s[i] = y[i] /\ y[i] = IF i <= n THEN x[i] ELSE a[k]
      BY <1>2, <1>4, <2>1
    <2>3. t[i] = IF i <= n THEN x[i] ELSE b[k]
      BY <1>3
    <2>4. k = 3 => s[i] = NUL /\ ~(i <= n)
      BY <1>4, <2>1
    <2> HIDE DEF k
    <2>5. CASE i <= n
      BY <2>2, <2>3, <2>4, <2>5
    <2>6. CASE ~(i <= n)
      BY <1>1, <2>1, <2>2, <2>3, <2>4, <2>6
    <2> QED
      BY <2>5, <2>6
  <1>6. s = t
    BY <1>3, <1>4, <1>5, SeqEqual
  <1> QED
    BY <1>6 DEF s, t, a, b, y

LEMMA FullSubSeq ==
    ASSUME NEW p \in Seq(Nat), NEW n \in 0..Len(p),
           Len(SubSeq(p, n + 1, Len(p))) = Len(p)
    PROVE  SubSeq(p, n + 1, Len(p)) = p
  <1> DEFINE b == Len(p)
             a == n + 1
  <1>1. b \in Nat /\ a \in Nat /\ a >= 1 /\ n \in Nat /\ n <= b /\ a = n + 1
    OBVIOUS
  <1>2. \A i \in a..b : p[i] \in Nat
    OBVIOUS
  <1> HIDE DEF a, b
  <1>3. Len(SubSeq(p, a, b)) = IF a <= b THEN b - a + 1 ELSE 0
    BY <1>1, <1>2, SubSeqProperties
  <1>4. Len(SubSeq(p, a, b)) = b
    BY DEF a, b
  <1>5. n = 0 /\ a = 1
    BY <1>1, <1>3, <1>4
  <1>6. SubSeq(p, 1, Len(p)) = p
    BY SubSeqFull
  <1> QED
    BY <1>5, <1>6 DEF a, b

\* What is sent for a part of a line, if anything is.
LEMMA PartSent ==
    ASSUME NEW l \in Seq(Plain), NEW k \in 1..Len(l)
    PROVE  LET part == SubSeq(l, k, Len(l))
               sent == AddString(Printed(Heading \o part \o <<LF>>))
           IN  sent # <<>> => sent = Heading \o part \o <<CR, LF, NUL>>
  <1> DEFINE part == SubSeq(l, k, Len(l))
             x == Heading \o part
             y == Printed(x \o <<LF>>)
  <1>1. part \in Seq(Plain)
    BY SubSeqType
  <1>2. Heading \in Seq(Plain)
    BY DEF Heading, Plain, Byte, LF
  <1> HIDE DEF part
  <1>3. x \in Seq(Plain)
    BY <1>1, <1>2
  <1> HIDE DEF x
  <1>4. x \in Seq(Nat)
    BY <1>3, PlainFacts
  <1>5. \A i \in 1..Len(x) : x[i] # LF
    BY <1>3 DEF Plain
  <1>6. y = x \o <<CR, LF>>
    BY <1>4, <1>5, PrintedLine
  <1> HIDE DEF y
  <1>7. AddString(y) # <<>> => AddString(y) = Append(y, NUL)
    BY DEF AddString
  <1>8. AddString(y) # <<>> => AddString(y) = x \o <<CR, LF, NUL>>
    BY <1>4, <1>6, <1>7, WithZero
  <1> QED
    BY <1>8 DEF y, x, part

LEMMA ComIsLine ==
    ASSUME NEW l \in Seq(Plain), ~OpenQuote(l), NEW c \in Coms, NEW said,
           ComIs(c, l, said)
    PROVE  /\ c.word = WordsReference(l)
           /\ said # <<>> /\ Len(c.wordPtr) = Len(c.word) =>
                said = Heading \o FromWord(l, 2) \o <<CR, LF, NUL>>
  <1>1. l \in Seq(Nat) /\ Len(l) \in Nat
    <2>1. l \in Seq(Nat)
      BY PlainFacts
    <2> QED
      BY <2>1
  <1>2. CASE l = <<>>
    <2>1. ReadUpto(l)[Len(l)] = Reading
      <3>1. Len(l) = 0
        BY <1>2
      <3> QED
        BY <1>1, <3>1, ReadUptoFacts
    <2>2. WordsReference(l) = <<>>
      BY <2>1 DEF WordsReference, ReadLine, Closed, Reading
    <2> QED
      BY <1>2, <2>2 DEF ComIs
  <1>3. CASE l # <<>>
    <2> DEFINE words == GetWords(l)
               texts == [k \in DOMAIN words |-> words[k].text]
               starts == [k \in DOMAIN words |-> words[k].start]
    <2>1. /\ WordsReference(l) = texts /\ ReadLine(l).starts = starts
          /\ starts \in Seq(1..Len(l)) /\ texts \in Seq(Seq(Nat))
          /\ DOMAIN starts = DOMAIN texts
      BY <1>1, WordsRead, GetWordsType
    <2>2. /\ c.line = l /\ c.word = texts
          /\ \E n \in 0..Len(c.wordPtr) :
                SubSeq(c.wordPtr, n + 1, Len(c.wordPtr)) = starts
          /\ said # <<>> => IsSay(c.word) /\ said = SayText(c)
      BY <1>3 DEF ComIs
    <2>3. c.wordPtr \in Seq(Nat)
      BY DEF Coms
    <2> HIDE DEF starts, texts
    <2>4. Len(starts) = Len(texts)
      BY <2>1
    <2>5. ASSUME said # <<>>, Len(c.wordPtr) = Len(c.word)
          PROVE  said = Heading \o FromWord(l, 2) \o <<CR, LF, NUL>>
      <3>1. PICK n \in 0..Len(c.wordPtr) :
                SubSeq(c.wordPtr, n + 1, Len(c.wordPtr)) = starts
        BY <2>2
      <3>2. c.wordPtr = starts
        BY <2>2, <2>3, <2>4, <2>5, <3>1, FullSubSeq
      <3>3. 2 \in 1..Len(starts)
        BY <2>1, <2>2, <2>4, <2>5 DEF IsSay
      <3>4. starts[2] \in 1..Len(l)
        <4> DEFINE S == 1..Len(l)
        <4>1. starts \in Seq(S)
          BY <2>1
        <4> HIDE DEF S
        <4>2. starts[2] \in S
          BY <3>3, <4>1
        <4> QED
          BY <4>2 DEF S
      <3> DEFINE k == starts[2]
      <3>5. said = AddString(Printed(Heading \o SubSeq(l, k, Len(l)) \o <<LF>>))
        BY <2>2, <2>5, <3>2 DEF SayText
      <3>6. FromWord(l, 2) = SubSeq(l, k, Len(l))
        BY <2>1 DEF FromWord
      <3>7. k \in 1..Len(l)
        BY <3>4
      <3> HIDE DEF k
      <3> QED
        BY <2>5, <3>5, <3>6, <3>7, PartSent
    <2> QED
      BY <2>1, <2>2, <2>5
  <1> QED
    BY <1>2, <1>3

\* The words of every command are those of its line, read character by
\* character with quotes and escapes, whatever lines came before; a line with an
\* open quote is left out.  Of the text of a "say" much less can be proved: it is
\* its line from the second word on, whole or not at all, as long as no line of
\* the session before it had a word (Strings/misc cleanString,
\* Splitline::parse, Say::execute, uPrintf).
THEOREM CommandCorrect == Spec => []CommandIsLine
  <1>1. TypeInv /\ ComInv => CommandIsLine
    <2> SUFFICES ASSUME TypeInv, ComInv, ~OpenQuote(CleanReference(parsed))
                 PROVE  LET l == CleanReference(parsed) IN
                        /\ com.word = WordsReference(l)
                        /\ told # <<>> /\ Len(com.wordPtr) = Len(com.word) =>
                             told = Heading \o FromWord(l, 2) \o <<CR, LF, NUL>>
      BY Zenon DEF CommandIsLine, FirstWords, Heard
    <2>1. parsed \in Seq(Plain) /\ com \in Coms
      BY DEF TypeInv, EditorInv
    <2>2. parsed \in Seq(Nat) /\ Clean(parsed) \in Seq(Plain)
      BY <2>1, CleanPlain
    <2>3. CleanReference(parsed) = Clean(parsed)
      BY <2>2, CleanIsReference
    <2> DEFINE l == Clean(parsed)
    <2>4. l \in Seq(Plain) /\ ~OpenQuote(l) /\ ComIs(com, l, told)
      BY <2>2, <2>3 DEF ComInv
    <2> HIDE DEF l
    <2>5. /\ com.word = WordsReference(l)
          /\ told # <<>> /\ Len(com.wordPtr) = Len(com.word) =>
               told = Heading \o FromWord(l, 2) \o <<CR, LF, NUL>>
      BY <2>1, <2>4, ComIsLine
    <2> QED
      BY <2>3, <2>5 DEF l
  <1>2. TypeInv /\ ComInv /\ [Next]_vars => (TypeInv /\ ComInv)'
    BY TypeStep, ComStep
  <1> QED
    BY <1>1, <1>2, InitType, ComInit, PTL DEF Spec

-----------------------------------------------------------------------------
(* The bytes of what the peer says.                                        *)

\* The place behind the first i tokens.
Place(s, i) == Len(BytesUpto(s)[i])

\* The bytes of the first tokens are the first of all the bytes.
LEMMA BytesPrefix ==
    ASSUME NEW s \in Seq(Tokens), NEW i \in 0..Len(s), NEW j \in i..Len(s)
    PROVE  /\ Place(s, i) <= Place(s, j)
           /\ \A k \in 1..Place(s, i) : BytesUpto(s)[j][k] = BytesUpto(s)[i][k]
  <1> DEFINE n == Len(s)
             B == BytesUpto(s)
             m == Len(B[i])
             S == {l \in i..n : /\ m <= Len(B[l])
                                /\ \A k \in 1..m : B[l][k] = B[i][k]}
  <1>1. n \in Nat /\ i \in 0..n /\ j \in i..n /\ i \in Nat
    OBVIOUS
  <1>2. /\ \A l \in 0..n : B[l] \in Seq(Byte)
        /\ \A l \in 1..n : B[l] = B[l - 1] \o Encoded(s[l])
        /\ \A l \in 1..n : Encoded(s[l]) \in Seq(Byte)
    <2>1. \A l \in 1..n : s[l] \in Tokens
      OBVIOUS
    <2> QED
      BY <2>1, BytesUptoFacts, EncodedType
  <1> HIDE DEF n, B
  <1>3. m \in Nat
    BY <1>1, <1>2
  <1> HIDE DEF m
  <1>4. i \in S
    BY <1>1, <1>3 DEF m
  <1>5. ASSUME NEW l \in i..n, l \in S, l < n PROVE l + 1 \in S
    <2> DEFINE a == B[l]
               e == Encoded(s[l + 1])
               c == B[l + 1]
    <2>1. l + 1 \in 1..n /\ (l + 1) - 1 = l /\ l \in 0..n /\ l + 1 \in i..n
      BY <1>1, <1>5
    <2>2. a \in Seq(Byte) /\ e \in Seq(Byte) /\ c = a \o e
      BY <1>2, <2>1
    <2>3. m <= Len(a) /\ \A k \in 1..m : a[k] = B[i][k]
      BY <1>5
    <2> HIDE DEF a, e, c
    <2>4. /\ Len(c) = Len(a) + Len(e) /\ Len(a) \in Nat /\ Len(e) \in Nat
          /\ \A k \in 1..Len(a) + Len(e) :
                c[k] = IF k <= Len(a) THEN a[k] ELSE e[k - Len(a)]
      BY <2>2, ConcatProperties
    <2>5. m <= Len(c) /\ \A k \in 1..m : c[k] = B[i][k]
      BY <1>3, <2>3, <2>4
    <2> QED
      BY <2>1, <2>5 DEF c
  <1> HIDE DEF S
  <1>6. i..n \subseteq S
    BY <1>1, <1>4, <1>5, IntervalInduction
  <1>7. j \in S
    BY <1>1, <1>6
  <1> QED
    BY <1>7 DEF S, m, B, Place

\* Where the tokens are in the bytes.
LEMMA PlaceFacts ==
    ASSUME NEW s \in Seq(Tokens)
    PROVE  /\ Len(s) \in Nat /\ Bytes(s) \in Seq(Byte) /\ Len(Bytes(s)) \in Nat
           /\ Place(s, 0) = 0 /\ Place(s, Len(s)) = Len(Bytes(s))
           /\ \A i \in 0..Len(s) : Place(s, i) \in Nat
           /\ \A i, j \in 0..Len(s) : i <= j => Place(s, i) <= Place(s, j)
           /\ \A i \in 1..Len(s) :
                /\ Encoded(s[i]) \in Seq(Byte)
                /\ Place(s, i) = Place(s, i - 1) + Len(Encoded(s[i]))
                /\ \A k \in 1..Len(Encoded(s[i])) :
                        Bytes(s)[Place(s, i - 1) + k] = Encoded(s[i])[k]
  <1> DEFINE n == Len(s)
             B == BytesUpto(s)
             P(i) == Place(s, i)
  <1>1. n \in Nat /\ Bytes(s) = B[n] /\ B[0] = <<>> /\ P(n) = Len(Bytes(s))
    <2>1. B[0] = <<>>
      BY BytesUptoFacts
    <2> QED
      BY <2>1 DEF Bytes, Place
  <1>2. /\ \A l \in 0..n : B[l] \in Seq(Byte) /\ P(l) = Len(B[l])
        /\ \A l \in 1..n : B[l] = B[l - 1] \o Encoded(s[l])
        /\ \A l \in 1..n : Encoded(s[l]) \in Seq(Byte)
    <2>1. \A l \in 1..n : s[l] \in Tokens
      OBVIOUS
    <2> QED
      BY <2>1, BytesUptoFacts, EncodedType DEF Place
  <1>3. \A i \in 0..n, j \in 0..n : i <= j =>
            /\ P(i) <= P(j)
            /\ \A k \in 1..P(i) : B[j][k] = B[i][k]
    <2> TAKE i \in 0..n, j \in 0..n
    <2> HAVE i <= j
    <2>1. j \in i..Len(s)
      BY <1>1
    <2> QED
      BY <2>1, BytesPrefix
  <1> HIDE DEF n, B, P
  <1>4. \A l \in 0..n : P(l) \in Nat
    <2> TAKE l \in 0..n
    <2> DEFINE a == B[l]
    <2>1. a \in Seq(Byte) /\ P(l) = Len(a)
      BY <1>2
    <2> HIDE DEF a
    <2> QED
      BY <2>1
  <1>5. P(0) = 0
    BY <1>1, <1>2
  <1>6. ASSUME NEW i \in 1..n
        PROVE  /\ P(i) = P(i - 1) + Len(Encoded(s[i]))
               /\ \A k \in 1..Len(Encoded(s[i])) :
                        Bytes(s)[P(i - 1) + k] = Encoded(s[i])[k]
    <2> DEFINE a == B[i - 1]
               e == Encoded(s[i])
               c == B[i]
               d == B[n]
    <2>1. i - 1 \in 0..n /\ i \in 0..n /\ n \in 0..n /\ i <= n
      BY <1>1
    <2>2. /\ a \in Seq(Byte) /\ e \in Seq(Byte) /\ c = a \o e
          /\ P(i) = Len(c) /\ P(i - 1) = Len(a)
          /\ \A k \in 1..Len(c) : d[k] = c[k]
      BY <1>2, <1>3, <2>1
    <2> HIDE DEF a, e, c, d
    <2>3. /\ Len(c) = Len(a) + Len(e) /\ Len(a) \in Nat /\ Len(e) \in Nat
          /\ \A k \in 1..Len(a) + Len(e) :
                c[k] = IF k <= Len(a) THEN a[k] ELSE e[k - Len(a)]
      BY <2>2, ConcatProperties
    <2>4. ASSUME NEW k \in 1..Len(e) PROVE d[Len(a) + k] = e[k]
      <3> DEFINE x == Len(a) + k
      <3>1. x \in 1..Len(a) + Len(e) /\ ~(x <= Len(a)) /\ x - Len(a) = k
        BY <2>3
      <3> HIDE DEF x
      <3>2. c[x] = e[k] /\ d[x] = c[x]
        BY <2>2, <2>3, <3>1
      <3> QED
        BY <3>2 DEF x
    <2> QED
      BY <1>1, <2>2, <2>3, <2>4 DEF e, d
  <1> QED
    BY <1>1, <1>2, <1>3, <1>4, <1>5, <1>6, BytesType DEF n, P

-----------------------------------------------------------------------------
(* The bytes of a token.                                                   *)

Kinds == {"text", "command", "option", "size", "type", "sub"}

LEMMA TokenFields ==
    ASSUME NEW t \in Tokens
    PROVE  /\ t.kind \in Kinds
           /\ t.kind \in {"text", "command"} => t.byte \in Byte
           /\ t.kind = "option" => t.verb \in Byte /\ t.option \in Byte
           /\ t.kind = "size" => /\ t.cols \in Word /\ t.rows \in Word
                                 /\ t.tail \in Seq(Byte)
           /\ t.kind = "type" => t.is \in Byte /\ t.name \in Seq(Byte)
           /\ t.kind = "sub" => t.option \in Byte
  <1>1. CASE t \in [kind : {"text", "command"}, byte : Byte]
    BY <1>1 DEF Kinds
  <1>2. CASE t \in [kind : {"option"}, verb : Byte, option : Byte]
    BY <1>2 DEF Kinds
  <1>3. CASE t \in [kind : {"size"}, cols : Word, rows : Word,
                    tail : Seq(Byte)]
    BY <1>3 DEF Kinds
  <1>4. CASE t \in [kind : {"type"}, is : Byte, name : Seq(Byte)]
    BY <1>4 DEF Kinds
  <1>5. CASE t \in [kind : {"sub"}, option : Byte]
    BY <1>5 DEF Kinds
  <1> QED
    BY <1>1, <1>2, <1>3, <1>4, <1>5, Zenon DEF Tokens

\* z is x with y behind it.
IsJoined(z, x, y) ==
    /\ Len(z) = Len(x) + Len(y) /\ Len(x) \in Nat /\ Len(y) \in Nat
    /\ \A k \in 1..Len(x) : z[k] = x[k]
    /\ \A k \in 1..Len(y) : z[Len(x) + k] = y[k]

LEMMA Joined ==
    ASSUME NEW V, NEW x \in Seq(V), NEW y \in Seq(V)
    PROVE  x \o y \in Seq(V) /\ IsJoined(x \o y, x, y)
  <1> DEFINE z == x \o y
  <1>1. /\ z \in Seq(V) /\ Len(z) = Len(x) + Len(y)
        /\ \A k \in 1..Len(x) + Len(y) :
                z[k] = IF k <= Len(x) THEN x[k] ELSE y[k - Len(x)]
    BY ConcatProperties
  <1>2. Len(x) \in Nat /\ Len(y) \in Nat
    OBVIOUS
  <1> HIDE DEF z
  <1>3. \A k \in 1..Len(x) : z[k] = x[k]
    BY <1>1, <1>2
  <1>4. ASSUME NEW k \in 1..Len(y) PROVE z[Len(x) + k] = y[k]
    <2> DEFINE i == Len(x) + k
    <2>1. i \in 1..Len(x) + Len(y) /\ ~(i <= Len(x)) /\ i - Len(x) = k
      BY <1>2
    <2> HIDE DEF i
    <2>2. z[i] = y[k]
      BY <1>1, <2>1
    <2> QED
      BY <2>2 DEF i
  <1> QED
    BY <1>1, <1>2, <1>3, <1>4 DEF z, IsJoined

\* The short ones.
LEMMA EncodedShort ==
    ASSUME NEW t \in Tokens
    PROVE  LET e == Encoded(t) IN
           /\ t.kind = "text" => e = <<t.byte>>
           /\ t.kind = "command" => e = <<IAC, t.byte>>
           /\ t.kind = "option" => e = <<IAC, t.verb, t.option>>
           /\ t.kind = "sub" => e = <<IAC, SB, t.option, IAC, SE>>
  BY DEF Encoded

LEMMA EncodedName ==
    ASSUME NEW t \in Tokens, t.kind = "type"
    PROVE  LET e == Encoded(t)
               n == Len(t.name)
           IN  /\ n \in Nat /\ Len(e) = n + 6
               /\ e[1] = IAC /\ e[2] = SB /\ e[3] = TERM /\ e[4] = t.is
               /\ \A k \in 1..n : e[4 + k] = t.name[k]
               /\ e[n + 5] = IAC /\ e[n + 6] = SE
  <1> DEFINE a == <<IAC, SB, TERM, t.is>>
             c == <<IAC, SE>>
             n == Len(t.name)
             x == a \o t.name
             e == x \o c
  <1>1. /\ t.is \in Byte /\ t.name \in Seq(Byte)
        /\ IAC \in Byte /\ SB \in Byte /\ TERM \in Byte /\ SE \in Byte
    BY TokenFields, ByteFacts
  <1>2. /\ a \in Seq(Byte) /\ Len(a) = 4
        /\ a[1] = IAC /\ a[2] = SB /\ a[3] = TERM /\ a[4] = t.is
        /\ c \in Seq(Byte) /\ Len(c) = 2 /\ c[1] = IAC /\ c[2] = SE
    BY <1>1
  <1>3. Encoded(t) = e
    BY DEF Encoded
  <1> HIDE DEF a, c
  <1>4. /\ x \in Seq(Byte) /\ Len(x) = 4 + n /\ n \in Nat
        /\ \A k \in 1..4 : x[k] = a[k]
        /\ \A k \in 1..n : x[4 + k] = t.name[k]
    <2> DEFINE y == t.name
    <2>1. x \in Seq(Byte) /\ IsJoined(x, a, y)
      BY <1>1, <1>2, Joined, Zenon
    <2>2. Len(y) = n
      OBVIOUS
    <2> HIDE DEF x, y, n
    <2>3. /\ Len(x) = 4 + n /\ n \in Nat
          /\ \A k \in 1..4 : x[k] = a[k]
          /\ \A k \in 1..n : x[4 + k] = y[k]
      BY <1>2, <2>1, <2>2 DEF IsJoined
    <2> QED
      BY <2>1, <2>3 DEF y
  <1> HIDE DEF x, n
  <1>5. /\ Len(e) = Len(x) + Len(c)
        /\ \A k \in 1..Len(x) : e[k] = x[k]
        /\ \A k \in 1..Len(c) : e[Len(x) + k] = c[k]
    <2>1. IsJoined(e, x, c)
      BY <1>2, <1>4, Joined, Zenon
    <2> QED
      BY <2>1 DEF IsJoined
  <1> HIDE DEF e
  <1>6. \A k \in 1..4 : k \in 1..Len(x) /\ e[k] = a[k]
    BY <1>4, <1>5
  <1>7. \A k \in 1..n : e[4 + k] = t.name[k]
    <2> TAKE k \in 1..n
    <2> DEFINE i == 4 + k
    <2>1. i \in 1..Len(x)
      BY <1>4
    <2>2. x[i] = t.name[k]
      BY <1>4
    <2> HIDE DEF i
    <2>3. e[i] = t.name[k]
      BY <1>5, <2>1, <2>2
    <2> QED
      BY <2>3 DEF i
  <1>8. e[n + 5] = IAC /\ e[n + 6] = SE
    <2>1. Len(x) + 1 = n + 5 /\ Len(x) + 2 = n + 6 /\ 1 \in 1..2 /\ 2 \in 1..2
      BY <1>4
    <2>2. e[Len(x) + 1] = c[1] /\ e[Len(x) + 2] = c[2]
      BY <1>2, <1>5, <2>1
    <2> QED
      BY <1>2, <2>1, <2>2
  <1>9. Len(e) = n + 6
    BY <1>2, <1>4, <1>5
  <1>10. e[1] = IAC /\ e[2] = SB /\ e[3] = TERM /\ e[4] = t.is
    BY <1>2, <1>6
  <1> QED
    BY <1>3, <1>4, <1>7, <1>8, <1>9, <1>10 DEF n, e

\* y begins with x.
Extends(y, x) == Len(x) <= Len(y) /\ \A k \in 1..Len(x) : y[k] = x[k]

\* The place of a byte that is doubled if it is an IAC.
SkipIn(e, p) == IF e[p] = IAC THEN p + 1 ELSE p

\* In y, which is x with an escaped b behind it.
EscapedIn(y, x, b) ==
    /\ Len(x) \in Nat /\ Len(y) \in Nat /\ Extends(y, x)
    /\ Len(y) = SkipIn(y, Len(x) + 1)
    /\ Len(y) \in {Len(x) + 1, Len(x) + 2}
    /\ y[Len(y)] = b

LEMMA EscapedBehind ==
    ASSUME NEW x \in Seq(Byte), NEW b \in Byte
    PROVE  x \o Escaped(b) \in Seq(Byte) /\ EscapedIn(x \o Escaped(b), x, b)
  <1> DEFINE a == Escaped(b)
             y == x \o a
  <1>1. /\ a \in Seq(Byte) /\ a[1] = b /\ a[Len(a)] = b
        /\ Len(a) = IF b = IAC THEN 2 ELSE 1
    <2>1. CASE b = IAC
      <3>1. a = <<b, b>>
        BY <2>1 DEF Escaped
      <3> QED
        BY <2>1, <3>1
    <2>2. CASE b # IAC
      <3>1. a = <<b>>
        BY <2>2 DEF Escaped
      <3> QED
        BY <2>2, <3>1
    <2> QED
      BY <2>1, <2>2
  <1> HIDE DEF a
  <1>2. y \in Seq(Byte) /\ IsJoined(y, x, a)
    BY <1>1, Joined, Zenon
  <1>3. Len(y) \in Nat
    BY <1>2
  <1> HIDE DEF y
  <1>4. /\ Len(y) = Len(x) + Len(a) /\ Len(x) \in Nat
        /\ Len(a) \in {1, 2} /\ 1 \in 1..Len(a) /\ Len(a) \in 1..Len(a)
        /\ \A k \in 1..Len(a) : y[Len(x) + k] = a[k]
    BY <1>1, <1>2 DEF IsJoined
  <1>5. y[Len(x) + 1] = b /\ y[Len(y)] = b
    BY <1>1, <1>4
  <1>6. Len(y) = SkipIn(y, Len(x) + 1)
    <2>1. CASE b = IAC
      BY <1>1, <1>4, <1>5, <2>1 DEF SkipIn
    <2>2. CASE b # IAC
      BY <1>1, <1>4, <1>5, <2>2 DEF SkipIn
    <2> QED
      BY <2>1, <2>2
  <1>7. Extends(y, x)
    BY <1>2, <1>4 DEF IsJoined, Extends
  <1> QED
    BY <1>2, <1>3, <1>4, <1>5, <1>6, <1>7 DEF EscapedIn, y, a

\* Where the bytes of a size are.
IsSize(e, t, c1, c2, r1, r2) ==
    /\ e[1] = IAC /\ e[2] = SB /\ e[3] = NAWS
    /\ c1 = SkipIn(e, 4) /\ c2 = SkipIn(e, c1 + 1)
    /\ r1 = SkipIn(e, c2 + 1) /\ r2 = SkipIn(e, r1 + 1)
    /\ e[c1] = t.cols \div 256 /\ e[c2] = t.cols % 256
    /\ e[r1] = t.rows \div 256 /\ e[r2] = t.rows % 256
    /\ Len(e) = r2 + Len(t.tail)
    /\ \A k \in 1..Len(t.tail) : e[r2 + k] = t.tail[k]

\* A sequence that goes on does not change what it has.
LEMMA SkipExtends ==
    ASSUME NEW x \in Seq(Byte), NEW y \in Seq(Byte), NEW z \in Seq(Byte), NEW b,
           EscapedIn(y, x, b), Extends(z, y)
    PROVE  /\ Len(y) = SkipIn(z, Len(x) + 1) /\ z[Len(y)] = b
           /\ Extends(z, x)
  <1>1. /\ Len(x) \in Nat /\ Len(y) \in Nat /\ Len(z) \in Nat
        /\ Len(x) + 1 <= Len(y)
    BY DEF EscapedIn
  <1>2. z[Len(x) + 1] = y[Len(x) + 1] /\ z[Len(y)] = y[Len(y)]
    BY <1>1 DEF Extends
  <1>3. SkipIn(z, Len(x) + 1) = SkipIn(y, Len(x) + 1)
    BY <1>2 DEF SkipIn
  <1>4. Extends(z, x)
    BY <1>1 DEF Extends, EscapedIn
  <1> QED
    BY <1>2, <1>3, <1>4 DEF EscapedIn

LEMMA EncodedSize ==
    ASSUME NEW t \in Tokens, t.kind = "size"
    PROVE  \E c1, c2, r1, r2 \in Nat : IsSize(Encoded(t), t, c1, c2, r1, r2)
  <1> DEFINE b1 == t.cols \div 256
             b2 == t.cols % 256
             b3 == t.rows \div 256
             b4 == t.rows % 256
             y0 == <<IAC, SB, NAWS>>
             y1 == y0 \o Escaped(b1)
             y2 == y1 \o Escaped(b2)
             y3 == y2 \o Escaped(b3)
             y4 == y3 \o Escaped(b4)
             w == t.tail
             e == y4 \o w
  <1>1. /\ w \in Seq(Byte)
        /\ b1 \in Byte /\ b2 \in Byte /\ b3 \in Byte /\ b4 \in Byte
    <2>1. t.cols \in Word /\ t.rows \in Word /\ t.tail \in Seq(Byte)
      BY TokenFields
    <2>2. \A n \in Word : n \div 256 \in Byte /\ n % 256 \in Byte
      BY WordFacts
    <2> QED
      BY <2>1, <2>2, Zenon
  <1>2. /\ y0 \in Seq(Byte) /\ Len(y0) = 3
        /\ y0[1] = IAC /\ y0[2] = SB /\ y0[3] = NAWS
    BY ByteFacts
  <1>3. Encoded(t) = e
    BY DEF Encoded
  <1> HIDE DEF b1, b2, b3, b4, y0, w
  <1>4. y1 \in Seq(Byte) /\ EscapedIn(y1, y0, b1)
    BY <1>1, <1>2, EscapedBehind, Zenon
  <1> HIDE DEF y1
  <1>5. y2 \in Seq(Byte) /\ EscapedIn(y2, y1, b2)
    BY <1>1, <1>4, EscapedBehind, Zenon
  <1> HIDE DEF y2
  <1>6. y3 \in Seq(Byte) /\ EscapedIn(y3, y2, b3)
    BY <1>1, <1>5, EscapedBehind, Zenon
  <1> HIDE DEF y3
  <1>7. y4 \in Seq(Byte) /\ EscapedIn(y4, y3, b4)
    BY <1>1, <1>6, EscapedBehind, Zenon
  <1> HIDE DEF y4
  <1>8. e \in Seq(Byte) /\ IsJoined(e, y4, w)
    BY <1>1, <1>7, Joined, Zenon
  <1> HIDE DEF e
  <1>9. Extends(e, y4) /\ Len(e) = Len(y4) + Len(w) /\ Len(y4) \in Nat
        /\ \A k \in 1..Len(w) : e[Len(y4) + k] = w[k]
    BY <1>8 DEF IsJoined, Extends
  <1>10. Len(y4) = SkipIn(e, Len(y3) + 1) /\ e[Len(y4)] = b4 /\ Extends(e, y3)
    BY <1>6, <1>7, <1>8, <1>9, SkipExtends, Zenon
  <1>11. Len(y3) = SkipIn(e, Len(y2) + 1) /\ e[Len(y3)] = b3 /\ Extends(e, y2)
    BY <1>5, <1>6, <1>8, <1>10, SkipExtends, Zenon
  <1>12. Len(y2) = SkipIn(e, Len(y1) + 1) /\ e[Len(y2)] = b2 /\ Extends(e, y1)
    BY <1>4, <1>5, <1>8, <1>11, SkipExtends, Zenon
  <1>13. Len(y1) = SkipIn(e, Len(y0) + 1) /\ e[Len(y1)] = b1 /\ Extends(e, y0)
    BY <1>2, <1>4, <1>8, <1>12, SkipExtends, Zenon
  <1>14. e[1] = IAC /\ e[2] = SB /\ e[3] = NAWS
    <2>1. \A k \in 1..3 : e[k] = y0[k]
      BY <1>2, <1>13 DEF Extends
    <2> QED
      BY <1>2, <2>1
  <1>15. Len(y1) = SkipIn(e, 4)
    <2>1. Len(y0) + 1 = 4
      BY <1>2
    <2> QED
      BY <1>13, <2>1
  <1>16. Len(y1) \in Nat /\ Len(y2) \in Nat /\ Len(y3) \in Nat
    BY <1>5, <1>6, <1>7 DEF EscapedIn
  <1>17. IsSize(e, t, Len(y1), Len(y2), Len(y3), Len(y4))
    BY <1>9, <1>10, <1>11, <1>12, <1>13, <1>14, <1>15, Zenon
       DEF IsSize, b1, b2, b3, b4, w
  <1> HIDE DEF IsSize
  <1> QED
    BY <1>3, <1>9, <1>16, <1>17, Zenon

-----------------------------------------------------------------------------
(* Reading an option.                                                      *)

\* A terminal that does not say its type: getTermtype takes only the first
\* four bytes of that option.
Lame(t) == t.kind = "type" /\ t.is # IS

\* What is in buff begins as e does, or is its beginning.
Begins(t, e) ==
    /\ t.bpos > 0 /\ t.bpos <= Len(t.buff)
    /\ \A k \in 1..Len(e) : k <= t.bpos => t.buff[k] = e[k]

\* The option of a careful client is in buff, or its first bytes are.
CanRead(t, tok) ==
    /\ Telnet(tok) /\ tok.kind \notin {"text", "sub"}
    /\ Begins(t, Encoded(tok))
    /\ tok.kind \in {"size", "type"} => t.bpos # 2
    /\ tok.kind = "size" /\ ~SetsSize(tok) =>
            t.bpos \notin 9..Len(Encoded(tok)) - 1
    /\ tok.kind = "type" /\ tok.name # <<>> /\ tok.is = IS =>
            t.bpos <= Len(Encoded(tok))

\* The telnet fields but buff and bpos.
SameFields(t, u) ==
    t.flags = u.flags /\ t.type = u.type /\ t.cols = u.cols /\ t.rows = u.rows

\* The option is not all there.
CutRight(o, t, tok) ==
    /\ ~o.complete
    /\ o.t.buff = t.buff /\ o.t.bpos = t.bpos
    /\ o.t.flags = t.flags /\ o.t.type = t.type
    /\ (tok.kind = "size" /\ SetsSize(tok))
            \/ (o.t.cols = t.cols /\ o.t.rows = t.rows)

\* It is, and it is taken.
TakenRight(o, t, tok) ==
    /\ o.complete
    /\ o.shift = IF Lame(tok) THEN 4 ELSE Len(Encoded(tok))
    /\ o.t.bpos = t.bpos /\ (o.t.buff = t.buff \/ o.shift = t.bpos)
    /\ SameFields(o.t, SaidOption(t, tok, level))

\* The option is read as it was said.
ReadRight(t, tok) ==
    /\ ~ReadsOn(t)
    /\ t.bpos >= 2 /\ At(t.buff, 2) = SB => At(t.buff, 3) \in {NAWS, TERM}
    /\ t.bpos < Len(Encoded(tok)) => CutRight(Telopt(t), t, tok)
    /\ t.bpos >= Len(Encoded(tok)) => TakenRight(Telopt(t), t, tok)

\* What parseTelopt goes by.
LEMMA TeloptCases ==
    ASSUME NEW t \in Telnets
    PROVE  /\ t.bpos < 2 => Telopt(t) = Incomplete(t)
           /\ t.bpos >= 2 /\ At(t.buff, 2) \in {WILL, WONT, DO, DONT} =>
                Telopt(t) = Negotiate(t)
           /\ t.bpos >= 2 /\ At(t.buff, 2) = SB /\ At(t.buff, 3) = NAWS =>
                Telopt(t) = GetTermsize(t)
           /\ t.bpos >= 2 /\ At(t.buff, 2) = SB /\ At(t.buff, 3) = TERM =>
                Telopt(t) = GetTermtype(t)
           /\ t.bpos >= 2 /\ At(t.buff, 2) \notin {WILL, WONT, DO, DONT, SB} =>
                Telopt(t) = Option(t, 2)
  <1> DEFINE verb == At(t.buff, 2)
             option == At(t.buff, 3)
             none == Option(t, 0)
             two == Option(t, 2)
             size == GetTermsize(t)
             type == GetTermtype(t)
             deal == Negotiate(t)
             cut == Incomplete(t)
             isCut == t.bpos < 2
             long == t.bpos >= 2
             isDeal == long /\ verb \in {WILL, WONT, DO, DONT}
             isSub == long /\ verb = SB
             isSize == option = NAWS
             isType == option = TERM
             sub == CASE isSize -> size [] isType -> type [] OTHER -> none
  <1>1. Telopt(t) = CASE isCut -> cut [] isDeal -> deal [] isSub -> sub [] OTHER -> two
    BY Zenon DEF Telopt
  <1>2. t.bpos \in Nat
    BY TelnetFields
  <1>3. long <=> ~isCut
    BY <1>2
  <1>4. ~(isSize /\ isType) /\ ~(isDeal /\ isSub)
    BY DEF NAWS, TERM, WILL, WONT, DO, DONT, SB
  <1>5. verb \notin {WILL, WONT, DO, DONT, SB} => ~isDeal /\ ~isSub
    OBVIOUS
  <1>6. /\ long /\ verb \in {WILL, WONT, DO, DONT} => isDeal
        /\ long /\ verb = SB => isSub
        /\ isDeal \/ isSub => long
    OBVIOUS
  <1> HIDE DEF none, two, size, type, deal, cut, isCut, isDeal, isSub,
               isSize, isType, verb, long
  <1>7. (isSize => sub = size) /\ (isType => sub = type)
    BY <1>4
  <1> HIDE DEF sub
  <1>8. /\ isCut => Telopt(t) = cut
        /\ isDeal => Telopt(t) = deal
        /\ isSub => Telopt(t) = sub
        /\ long /\ ~isDeal /\ ~isSub => Telopt(t) = two
    BY <1>1, <1>3, <1>4, <1>6
  <1>9. /\ isCut => Telopt(t) = cut
        /\ long /\ verb \in {WILL, WONT, DO, DONT} => Telopt(t) = deal
        /\ long /\ verb = SB /\ isSize => Telopt(t) = size
        /\ long /\ verb = SB /\ isType => Telopt(t) = type
        /\ long /\ verb \notin {WILL, WONT, DO, DONT, SB} => Telopt(t) = two
    BY <1>5, <1>6, <1>7, <1>8, Zenon
  <1> QED
    BY <1>9 DEF two, size, type, deal, cut, isCut, isSize, isType, verb, long

\* The bytes in buff.
LEMMA BeginsAt ==
    ASSUME NEW t \in Telnets, NEW e \in Seq(Byte), Begins(t, e)
    PROVE  /\ t.bpos \in Nat /\ t.bpos > 0 /\ Len(t.buff) \in Nat
           /\ t.bpos <= Len(t.buff) /\ Len(e) \in Nat
           /\ \A k \in 1..Len(e) : k <= t.bpos => At(t.buff, k) = e[k]
  <1>1. t.bpos \in Nat /\ t.buff \in Seq(Byte)
    BY TelnetFields
  <1> QED
    BY <1>1 DEF Begins, At

\* An option that does nothing else.
LEMMA OptionParts ==
    ASSUME NEW u, NEW n
    PROVE  /\ Option(u, n).t = u /\ Option(u, n).shift = n
           /\ Option(u, n).complete = TRUE
           /\ Incomplete(u).t = u /\ Incomplete(u).complete = FALSE
  BY DEF Option, Incomplete

LEMMA TakesIt ==
    ASSUME NEW t, NEW tok, NEW u, NEW n, Telopt(t) = Option(u, n),
           n = IF Lame(tok) THEN 4 ELSE Len(Encoded(tok)),
           u.bpos = t.bpos, u.buff = t.buff \/ n = t.bpos,
           SameFields(u, SaidOption(t, tok, level))
    PROVE  TakenRight(Telopt(t), t, tok)
  <1> DEFINE o == Telopt(t)
             m == IF Lame(tok) THEN 4 ELSE Len(Encoded(tok))
             v == SaidOption(t, tok, level)
  <1>1. o.t = u /\ o.shift = n /\ o.complete = TRUE
    <2> DEFINE p == Option(u, n)
    <2>1. p.t = u /\ p.shift = n /\ p.complete = TRUE
      BY DEF Option
    <2>2. o = p
      OBVIOUS
    <2> HIDE DEF o, p
    <2> QED
      BY <2>1, <2>2, Zenon
  <1>2. n = m /\ SameFields(u, v)
    OBVIOUS
  <1> HIDE DEF o, m, v
  <1>3. /\ o.complete /\ o.shift = m /\ o.t.bpos = t.bpos
        /\ o.t.buff = t.buff \/ o.shift = t.bpos
        /\ SameFields(o.t, v)
    BY <1>1, <1>2
  <1> QED
    BY <1>3, Zenon DEF TakenRight, o, m, v

LEMMA CutsIt ==
    ASSUME NEW t, NEW tok, NEW u, Telopt(t) = Incomplete(u),
           u.buff = t.buff, u.bpos = t.bpos, u.flags = t.flags, u.type = t.type,
           \/ tok.kind = "size" /\ SetsSize(tok)
           \/ u.cols = t.cols /\ u.rows = t.rows
    PROVE  CutRight(Telopt(t), t, tok)
  <1> DEFINE o == Telopt(t)
             sized == tok.kind = "size" /\ SetsSize(tok)
  <1>1. o.t = u /\ o.complete = FALSE
    <2> DEFINE p == Incomplete(u)
    <2>1. p.t = u /\ p.complete = FALSE
      BY DEF Incomplete
    <2>2. o = p
      OBVIOUS
    <2> HIDE DEF o, p
    <2> QED
      BY <2>1, <2>2, Zenon
  <1> HIDE DEF o, sized
  <1>2. /\ ~o.complete
        /\ o.t.buff = t.buff /\ o.t.bpos = t.bpos
        /\ o.t.flags = t.flags /\ o.t.type = t.type
        /\ sized \/ (o.t.cols = t.cols /\ o.t.rows = t.rows)
    <2>1. sized \/ (u.cols = t.cols /\ u.rows = t.rows)
      BY DEF sized
    <2> QED
      BY <1>1, <2>1
  <1> QED
    BY <1>2, Zenon DEF CutRight, o, sized

LEMMA CommandRead ==
    ASSUME NEW t \in Telnets, NEW tok \in Tokens, CanRead(t, tok),
           tok.kind = "command"
    PROVE  ReadRight(t, tok)
  <1> DEFINE e == Encoded(tok)
             b == tok.byte
  <1>1. e \in Seq(Byte) /\ e = <<IAC, b>> /\ Begins(t, e)
    BY EncodedType, EncodedShort DEF CanRead
  <1>2. Len(e) = 2 /\ e[2] = b
    BY <1>1
  <1>3. b \notin {WILL, WONT, DO, DONT, SB}
    BY DEF CanRead, Telnet
  <1> HIDE DEF b
  <1>4. /\ t.bpos \in Nat /\ t.bpos > 0
        /\ \A k \in 1..Len(e) : k <= t.bpos => At(t.buff, k) = e[k]
    <2> HIDE DEF e
    <2> QED
      BY <1>1, BeginsAt
  <1> HIDE DEF e
  <1>5. t.bpos >= 2 => At(t.buff, 2) = b
    BY <1>2, <1>4
  <1>6. ~ReadsOn(t) /\ (t.bpos >= 2 => At(t.buff, 2) # SB)
    BY <1>3, <1>5 DEF ReadsOn
  <1>7. ASSUME t.bpos < Len(e) PROVE CutRight(Telopt(t), t, tok)
    <2>1. Telopt(t) = Incomplete(t)
      BY <1>2, <1>7, TeloptCases
    <2> QED
      BY <2>1, OptionParts, Zenon DEF CutRight
  <1>8. ASSUME t.bpos >= Len(e) PROVE TakenRight(Telopt(t), t, tok)
    <2>1. Telopt(t) = Option(t, 2)
      BY <1>2, <1>3, <1>5, <1>8, TeloptCases
    <2>2. SaidOption(t, tok, level) = t /\ ~Lame(tok)
      BY DEF SaidOption, Lame
    <2>3. SameFields(t, t)
      BY DEF SameFields
    <2>4. 2 = IF Lame(tok) THEN 4 ELSE Len(Encoded(tok))
      BY <1>2, <2>2 DEF e
    <2> QED
      BY <2>1, <2>2, <2>3, <2>4, TakesIt, Zenon
  <1> QED
    BY <1>6, <1>7, <1>8, Zenon DEF ReadRight, e

LEMMA NegotiationRead ==
    ASSUME NEW t \in Telnets, NEW tok \in Tokens, CanRead(t, tok),
           tok.kind = "option"
    PROVE  ReadRight(t, tok)
  <1> DEFINE e == Encoded(tok)
             verb == tok.verb
             option == tok.option
  <1>1. e \in Seq(Byte) /\ e = <<IAC, verb, option>> /\ Begins(t, e)
    BY EncodedType, EncodedShort DEF CanRead
  <1>2. Len(e) = 3 /\ e[2] = verb /\ e[3] = option
    BY <1>1
  <1>3. verb \in {WILL, WONT, DO, DONT} /\ verb # SB
    BY DEF CanRead, Telnet, WILL, WONT, DO, DONT, SB
  <1> HIDE DEF verb, option
  <1>4. /\ t.bpos \in Nat /\ t.bpos > 0
        /\ \A k \in 1..Len(e) : k <= t.bpos => At(t.buff, k) = e[k]
    <2> HIDE DEF e
    <2> QED
      BY <1>1, BeginsAt
  <1> HIDE DEF e
  <1>5. /\ t.bpos >= 2 => At(t.buff, 2) = verb
        /\ t.bpos >= 3 => At(t.buff, 3) = option
    BY <1>2, <1>4
  <1>6. ~ReadsOn(t) /\ (t.bpos >= 2 => At(t.buff, 2) # SB)
    BY <1>3, <1>5 DEF ReadsOn
  <1>7. ASSUME t.bpos < Len(e) PROVE CutRight(Telopt(t), t, tok)
    <2>1. Telopt(t) = Incomplete(t)
      <3>1. CASE t.bpos < 2
        BY <3>1, TeloptCases
      <3>2. CASE ~(t.bpos < 2)
        <4>1. t.bpos >= 2 /\ t.bpos < 3
          BY <1>2, <1>4, <1>7, <3>2
        <4>2. Telopt(t) = Negotiate(t)
          BY <1>3, <1>5, <4>1, TeloptCases
        <4>3. Negotiate(t) = Incomplete(t)
          BY <4>1 DEF Negotiate
        <4> QED
          BY <4>2, <4>3
      <3> QED
        BY <3>1, <3>2
    <2> QED
      BY <2>1, CutsIt, Zenon
  <1>8. ASSUME t.bpos >= Len(e) PROVE TakenRight(Telopt(t), t, tok)
    <2> DEFINE typed == WithFlag([t EXCEPT !.type = Unresolved], "TERMTYPE")
               sized == WithFlag(t, "TERMSIZE")
               sga == WithFlag(t, "SGA")
               echo == WithFlag(t, "ECHO")
               c1 == verb = WONT /\ option = NAWS
               c2 == verb = WONT /\ option = TERM
               c3 == verb \in {DO, DONT} /\ option = SGA
               c4 == verb \in {DO, DONT} /\ option = ECHO
               u == CASE c1 -> sized [] c2 -> typed [] c3 -> sga [] c4 -> echo
                      [] OTHER -> t
    <2>1. t.bpos >= 2 /\ t.bpos >= 3 /\ ~(t.bpos < 3)
      BY <1>2, <1>4, <1>8
    <2>2. At(t.buff, 2) = verb /\ At(t.buff, 3) = option
      BY <1>5, <2>1
    <2>3. Telopt(t) = Negotiate(t)
      BY <1>3, <2>1, <2>2, TeloptCases
    <2>4. Negotiate(t) = Option(u, 3)
      BY <2>1, <2>2, Zenon DEF Negotiate
    <2>5. /\ u.bpos = t.bpos /\ u.buff = t.buff
          /\ u = SaidOption(t, tok, level)
      <3> DEFINE says(verbs, o) ==
                    tok.kind = "option" /\ verb \in verbs /\ option = o
                 s1 == says({WONT}, NAWS)
                 s2 == says({WONT}, TERM)
                 s3 == says({DO, DONT}, SGA)
                 s4 == says({DO, DONT}, ECHO)
                 s5 == tok.kind = "size"
                 s6 == tok.kind = "type"
                 x5 == SaidSize(t, tok, level)
                 x6 == SaidType(t, tok)
                 v == CASE s4 -> echo [] s3 -> sga [] s1 -> sized [] s2 -> typed
                        [] s5 -> x5 [] s6 -> x6 [] OTHER -> t
      <3>1. SaidOption(t, tok, level) = v
        BY Zenon DEF SaidOption, verb, option
      <3>2. (s1 <=> c1) /\ (s2 <=> c2) /\ (s3 <=> c3) /\ (s4 <=> c4) /\ ~s5 /\ ~s6
        OBVIOUS
      <3>3. /\ ~(c1 /\ c2) /\ ~(c1 /\ c3) /\ ~(c1 /\ c4) /\ ~(c2 /\ c3)
            /\ ~(c2 /\ c4) /\ ~(c3 /\ c4)
        BY DEF WONT, DO, DONT, SGA, ECHO, NAWS, TERM
      <3>4. /\ \A w \in {sized, sga, echo} : w.bpos = t.bpos /\ w.buff = t.buff
            /\ typed.bpos = t.bpos /\ typed.buff = t.buff
        BY DEF WithFlag, Telnets
      <3> HIDE DEF s1, s2, s3, s4, s5, s6, c1, c2, c3, c4, x5, x6, sized, sga,
                   echo, typed
      <3>5. v = u
        BY <3>2, <3>3
      <3>6. u \in {sized, sga, echo} \/ u = typed \/ u = t
        OBVIOUS
      <3> HIDE DEF u, v
      <3> QED
        BY <3>1, <3>4, <3>5, <3>6
    <2> HIDE DEF u
    <2>6. SameFields(u, SaidOption(t, tok, level))
      BY <2>5 DEF SameFields
    <2>7. 3 = IF Lame(tok) THEN 4 ELSE Len(Encoded(tok))
      BY <1>2 DEF e, Lame
    <2>8. Telopt(t) = Option(u, 3)
      BY <2>3, <2>4
    <2> QED
      BY <2>5, <2>6, <2>7, <2>8, TakesIt, Zenon
  <1> QED
    BY <1>6, <1>7, <1>8, Zenon DEF ReadRight, e

\* The places of a size's bytes.
SizePlaces(e, c1, c2, r1, r2) ==
    /\ 4 <= c1 /\ c1 <= 5 /\ c1 + 1 <= c2 /\ c2 <= c1 + 2
    /\ c2 + 1 <= r1 /\ r1 <= c2 + 2 /\ r1 + 1 <= r2 /\ r2 <= r1 + 2
    /\ Len(e) = r2 + 2

LEMMA SizePlacesHold ==
    ASSUME NEW tok \in Tokens, tok.kind = "size", Telnet(tok),
           NEW c1 \in Nat, NEW c2 \in Nat, NEW r1 \in Nat, NEW r2 \in Nat,
           NEW e, IsSize(e, tok, c1, c2, r1, r2)
    PROVE  SizePlaces(e, c1, c2, r1, r2)
  <1>1. \A p \in Nat : SkipIn(e, p) = p \/ SkipIn(e, p) = p + 1
    BY DEF SkipIn
  <1>2. Len(tok.tail) = 2
    BY DEF Telnet
  <1>3. /\ c1 = SkipIn(e, 4) /\ c2 = SkipIn(e, c1 + 1)
        /\ r1 = SkipIn(e, c2 + 1) /\ r2 = SkipIn(e, r1 + 1)
        /\ Len(e) = r2 + 2
    BY <1>2 DEF IsSize
  <1>4. /\ 4 \in Nat /\ c1 + 1 \in Nat /\ c2 + 1 \in Nat /\ r1 + 1 \in Nat
        /\ Len(e) = r2 + 2
    BY <1>3
  <1>5. /\ c1 = 4 \/ c1 = 4 + 1
        /\ c2 = c1 + 1 \/ c2 = (c1 + 1) + 1
        /\ r1 = c2 + 1 \/ r1 = (c2 + 1) + 1
        /\ r2 = r1 + 1 \/ r2 = (r1 + 1) + 1
    <2>1. c1 = 4 \/ c1 = 4 + 1
      BY <1>1, <1>3, <1>4, Zenon
    <2>2. c2 = c1 + 1 \/ c2 = (c1 + 1) + 1
      BY <1>1, <1>3, <1>4, Zenon
    <2>3. r1 = c2 + 1 \/ r1 = (c2 + 1) + 1
      BY <1>1, <1>3, <1>4, Zenon
    <2>4. r2 = r1 + 1 \/ r2 = (r1 + 1) + 1
      BY <1>1, <1>3, <1>4, Zenon
    <2> QED
      BY <2>1, <2>2, <2>3, <2>4
  <1> QED
    BY <1>4, <1>5 DEF SizePlaces

\* getTermsize finds them there.
LEMMA SizeFound ==
    ASSUME NEW t \in Telnets, NEW e \in Seq(Byte), NEW tok, Begins(t, e),
           NEW c1 \in Nat, NEW c2 \in Nat, NEW r1 \in Nat, NEW r2 \in Nat,
           IsSize(e, tok, c1, c2, r1, r2), SizePlaces(e, c1, c2, r1, r2),
           t.bpos >= 9
    PROVE  LET p == SizeAt(t) IN
           /\ p.c1 = c1 /\ p.c2 = c2 /\ p.r1 = r1
           /\ r1 + 1 <= t.bpos => p.r2 = r2
           /\ p.r2 \in Nat /\ p.r2 >= r1 + 1 /\ p.r2 <= Len(t.buff) + 1
  <1> DEFINE Skip(q) == IF At(t.buff, q) = IAC THEN q + 1 ELSE q
             p == SizeAt(t)
             s == Skip(r1 + 1)
  <1>1. /\ t.bpos \in Nat /\ t.bpos <= Len(t.buff) /\ Len(e) \in Nat
        /\ Len(t.buff) \in Nat
        /\ \A k \in 1..Len(e) : k <= t.bpos => At(t.buff, k) = e[k]
    BY BeginsAt
  <1>2. /\ 4 <= c1 /\ c1 <= 5 /\ c1 + 1 <= c2 /\ c2 <= c1 + 2
        /\ c2 + 1 <= r1 /\ r1 <= c2 + 2 /\ r1 + 1 <= r2 /\ r2 <= r1 + 2
        /\ Len(e) = r2 + 2
    BY DEF SizePlaces
  <1>3. /\ c1 = SkipIn(e, 4) /\ c2 = SkipIn(e, c1 + 1)
        /\ r1 = SkipIn(e, c2 + 1) /\ r2 = SkipIn(e, r1 + 1)
    BY DEF IsSize
  <1>4. /\ p.c1 = Skip(4) /\ p.c2 = Skip(Skip(4) + 1)
        /\ p.r1 = Skip(Skip(Skip(4) + 1) + 1)
        /\ p.r2 = Skip(Skip(Skip(Skip(4) + 1) + 1) + 1)
    <2> DEFINE a == Skip(4)
               b == Skip(a + 1)
               c == Skip(b + 1)
               d == Skip(c + 1)
    <2>1. p = [c1 |-> a, c2 |-> b, r1 |-> c, r2 |-> d]
      BY Zenon DEF SizeAt
    <2> HIDE DEF p, Skip
    <2> QED
      BY <2>1
  <1>5. \A q \in 1..Len(e) : q <= t.bpos => Skip(q) = SkipIn(e, q)
    BY <1>1 DEF SkipIn
  <1>6. \A q \in Nat : At(t.buff, q) = IAC => q <= Len(t.buff)
    BY <1>1 DEF At, IAC, NUL
  <1>7. /\ 4 \in 1..Len(e) /\ 4 <= t.bpos
        /\ c1 + 1 \in 1..Len(e) /\ c1 + 1 <= t.bpos
        /\ c2 + 1 \in 1..Len(e) /\ c2 + 1 <= t.bpos
        /\ r1 + 1 \in 1..Len(e) /\ r1 + 1 \in Nat /\ r1 <= 9
    <2> DEFINE n == Len(e)
               x == t.bpos
    <2>1. n \in Nat /\ x \in Nat /\ x >= 9 /\ n = r2 + 2
      BY <1>1, <1>2
    <2> HIDE DEF n, x
    <2>2. /\ 4 \in 1..n /\ 4 <= x /\ c1 + 1 \in 1..n /\ c1 + 1 <= x
          /\ c2 + 1 \in 1..n /\ c2 + 1 <= x
          /\ r1 + 1 \in 1..n /\ r1 + 1 \in Nat /\ r1 <= 9
      BY <1>2, <2>1
    <2> QED
      BY <2>2 DEF n, x
  <1>8. s \in Nat /\ s >= r1 + 1 /\ s <= Len(t.buff) + 1
    <2> DEFINE m == Len(t.buff)
               x == t.bpos
               q == r1 + 1
               found == At(t.buff, q) = IAC
    <2>1. m \in Nat /\ x \in Nat /\ x >= 9 /\ x <= m /\ q = r1 + 1 /\ r1 <= 9
      BY <1>1, <1>7
    <2>2. found => q <= m
      BY <1>6, <1>7
    <2>3. s = IF found THEN q + 1 ELSE q
      OBVIOUS
    <2> HIDE DEF m, x, q, found, s
    <2>4. s \in Nat /\ s >= q /\ s <= m + 1
      BY <2>1, <2>2, <2>3
    <2> QED
      BY <2>4 DEF m, q
  <1> HIDE DEF Skip, p, s
  <1>9. Skip(4) = c1 /\ Skip(c1 + 1) = c2 /\ Skip(c2 + 1) = r1
    BY <1>3, <1>5, <1>7
  <1>10. p.c1 = c1 /\ p.c2 = c2 /\ p.r1 = r1 /\ p.r2 = s
    BY <1>4, <1>9 DEF s
  <1>11. r1 + 1 <= t.bpos => s = r2
    BY <1>3, <1>5, <1>7 DEF s
  <1> QED
    BY <1>8, <1>10, <1>11 DEF p

\* Both bytes of a number.
LEMMA WordParts ==
    \A n \in Word : (n \div 256) * 256 + (n % 256) = n
  <1>1. \A n \in Word : n \in Int /\ 0 <= n
    BY DEF Word
  <1>2. \A n \in Int : 0 <= n => (n \div 256) * 256 + (n % 256) = n
    OBVIOUS
  <1> QED
    BY <1>1, <1>2

LEMMA SizeRead ==
    ASSUME NEW t \in Telnets, NEW tok \in Tokens, CanRead(t, tok),
           tok.kind = "size"
    PROVE  ReadRight(t, tok)
  <1> DEFINE e == Encoded(tok)
             x == t.bpos
  <1>1. e \in Seq(Byte) /\ Begins(t, e) /\ x # 2
    BY EncodedType DEF CanRead
  <1>2. PICK c1, c2, r1, r2 \in Nat : IsSize(e, tok, c1, c2, r1, r2)
    BY EncodedSize, Zenon
  <1>3. /\ e[1] = IAC /\ e[2] = SB /\ e[3] = NAWS
        /\ e[c1] = tok.cols \div 256 /\ e[c2] = tok.cols % 256
        /\ e[r1] = tok.rows \div 256 /\ e[r2] = tok.rows % 256
        /\ Len(e) = r2 + 2 /\ Len(tok.tail) = 2
        /\ e[r2 + 1] = tok.tail[1] /\ e[r2 + 2] = tok.tail[2]
    <2>1. Len(tok.tail) = 2
      BY DEF CanRead, Telnet
    <2>2. 1 \in 1..2 /\ 2 \in 1..2
      OBVIOUS
    <2> QED
      BY <1>2, <2>1, <2>2 DEF IsSize
  <1>4. tok.cols \in Word /\ tok.rows \in Word /\ tok.tail \in Seq(Byte)
    BY TokenFields
  <1>5. SizePlaces(e, c1, c2, r1, r2)
    BY <1>2, SizePlacesHold, Zenon DEF CanRead
  <1>6. ~SetsSize(tok) => x \notin 9..Len(e) - 1
    BY DEF CanRead
  <1> HIDE DEF e
  <1>7. /\ x \in Nat /\ x > 0 /\ Len(t.buff) \in Nat /\ x <= Len(t.buff)
        /\ Len(e) \in Nat
        /\ \A k \in 1..Len(e) : k <= x => At(t.buff, k) = e[k]
    BY <1>1, BeginsAt
  <1> DEFINE p == SizeAt(t)
             m == Len(t.buff)
  <1>8. x >= 9 =>
          /\ p.c1 = c1 /\ p.c2 = c2 /\ p.r1 = r1
          /\ r1 + 1 <= x => p.r2 = r2
          /\ p.r2 \in Nat /\ p.r2 >= r1 + 1 /\ p.r2 <= m + 1
    BY <1>1, <1>2, <1>5, SizeFound, Zenon
  <1> HIDE DEF x, p, m
  <1>9. /\ 4 <= c1 /\ c1 <= 5 /\ c1 + 1 <= c2 /\ c2 <= c1 + 2
        /\ c2 + 1 <= r1 /\ r1 <= c2 + 2 /\ r1 + 1 <= r2 /\ r2 <= r1 + 2
        /\ Len(e) = r2 + 2
    BY <1>5 DEF SizePlaces
  <1>10. x >= 2 => x >= 3 /\ At(t.buff, 2) = SB /\ At(t.buff, 3) = NAWS
    <2>1. x >= 2 => x >= 3
      BY <1>1, <1>7
    <2>2. 2 \in 1..Len(e) /\ 3 \in 1..Len(e)
      BY <1>7, <1>9
    <2>3. x >= 3 => At(t.buff, 2) = e[2] /\ At(t.buff, 3) = e[3]
      BY <1>7, <2>2
    <2> QED
      BY <1>3, <2>1, <2>3
  <1>11. ~ReadsOn(t)
    <2> SUFFICES ASSUME ReadsOn(t) PROVE FALSE
      OBVIOUS
    <2>1. x >= 2
      BY DEF ReadsOn, x
    <2>2. At(t.buff, 3) # TERM
      BY <1>10, <2>1 DEF NAWS, TERM
    <2>3. x >= 9 /\ (p.r2 > m + 1 \/ (p.r2 > m /\ p.r2 + 2 <= x))
      BY <2>2, Zenon DEF ReadsOn, x, p, m
    <2>4. p.r2 \in Nat /\ p.r2 <= m + 1 /\ x <= m /\ m \in Nat
      BY <1>7, <1>8, <2>3 DEF x, m
    <2> QED
      BY <1>7, <2>3, <2>4
  <1> DEFINE cols == At(t.buff, p.c1) * 256 + At(t.buff, p.c2)
             rows == At(t.buff, p.r1) * 256 + At(t.buff, p.r2)
             whole == At(t.buff, p.r2 + 1) = IAC /\ At(t.buff, p.r2 + 2) = SE
             c == IF whole /\ cols # 0 THEN cols ELSE t.cols
             r == IF whole /\ rows # 0 THEN rows ELSE t.rows
             sized == [t EXCEPT !.cols = c, !.rows = r]
             cut == [t EXCEPT !.cols = cols, !.rows = rows]
             u == IF level = "LOGIN" THEN WithFlag(sized, "TERMSIZE") ELSE sized
             n == p.r2 + 2
  <1>12. x >= 2 => Telopt(t) = IF x < 9 THEN Incomplete(t)
                               ELSE IF n > x THEN Incomplete(cut) ELSE Option(u, n)
    <2>1. GetTermsize(t) = IF x < 9 THEN Incomplete(t)
                           ELSE IF n > x THEN Incomplete(cut) ELSE Option(u, n)
      BY Zenon DEF GetTermsize, p, x
    <2>2. x >= 2 => Telopt(t) = GetTermsize(t)
      <3>1. x >= 2 => At(t.buff, 2) = SB /\ At(t.buff, 3) = NAWS
        BY <1>10
      <3> QED
        BY <3>1, TeloptCases, Zenon DEF x
    <2> HIDE DEF cut, u, n
    <2> QED
      BY <2>1, <2>2
  <1>13. ASSUME x < Len(e) PROVE CutRight(Telopt(t), t, tok)
    <2>1. CASE x < 9
      <3>1. Telopt(t) = Incomplete(t)
        <4>1. CASE x < 2
          BY <4>1, TeloptCases DEF x
        <4>2. CASE ~(x < 2)
          <5>1. x >= 2
            BY <1>7, <4>2
          <5> HIDE DEF cut, u, n
          <5> QED
            BY <1>12, <2>1, <5>1
        <4> QED
          BY <4>1, <4>2
      <3> QED
        BY <3>1, CutsIt, Zenon
    <2>2. CASE ~(x < 9)
      <3>1. x >= 9 /\ x >= 2 /\ x \in 9..Len(e) - 1
        BY <1>7, <1>13, <2>2
      <3>2. n > x
        BY <1>7, <1>8, <1>9, <1>13, <3>1
      <3>3. Telopt(t) = Incomplete(cut)
        <4> HIDE DEF cut, u, n
        <4> QED
          BY <1>12, <2>2, <3>1, <3>2
      <3>4. SetsSize(tok)
        BY <1>6, <3>1
      <3>5. cut.buff = t.buff /\ cut.bpos = t.bpos /\ cut.flags = t.flags
            /\ cut.type = t.type
        <4> HIDE DEF cols, rows
        <4> QED
          BY DEF Telnets
      <3> HIDE DEF cut
      <3> QED
        BY <3>3, <3>4, <3>5, CutsIt, Zenon
    <2> QED
      BY <2>1, <2>2
  <1>14. ASSUME x >= Len(e) PROVE TakenRight(Telopt(t), t, tok)
    <2>1. /\ x >= 9 /\ x >= 2 /\ ~(x < 9) /\ r1 + 1 <= x
          /\ c1 \in 1..Len(e) /\ c2 \in 1..Len(e) /\ r1 \in 1..Len(e)
          /\ r2 \in 1..Len(e) /\ r2 + 1 \in 1..Len(e) /\ r2 + 2 \in 1..Len(e)
          /\ \A k \in 1..Len(e) : k <= x
      BY <1>7, <1>9, <1>14
    <2>2. p.c1 = c1 /\ p.c2 = c2 /\ p.r1 = r1 /\ p.r2 = r2
      BY <1>8, <2>1
    <2>3. /\ At(t.buff, c1) = tok.cols \div 256 /\ At(t.buff, c2) = tok.cols % 256
          /\ At(t.buff, r1) = tok.rows \div 256 /\ At(t.buff, r2) = tok.rows % 256
          /\ At(t.buff, r2 + 1) = tok.tail[1] /\ At(t.buff, r2 + 2) = tok.tail[2]
      <3>1. \A k \in 1..Len(e) : At(t.buff, k) = e[k]
        BY <1>7, <2>1
      <3> QED
        BY <1>3, <2>1, <3>1
    <2>4. cols = tok.cols /\ rows = tok.rows
      BY <1>4, <2>2, <2>3, WordParts
    <2>5. whole <=> tok.tail = <<IAC, SE>>
      <3> DEFINE w == tok.tail
      <3>1. w \in Seq(Byte) /\ Len(w) = 2
        BY <1>3, <1>4
      <3> HIDE DEF w
      <3>2. w = <<IAC, SE>> <=> w[1] = IAC /\ w[2] = SE
        BY <3>1
      <3> QED
        BY <2>2, <2>3, <3>2 DEF w
    <2>6. n = Len(e) /\ ~(n > x)
      BY <1>7, <1>9, <1>14, <2>2
    <2> HIDE DEF n, cut
    <2>7. Telopt(t) = Option(u, n)
      <3> HIDE DEF u
      <3> QED
        BY <1>12, <2>1, <2>6
    <2>8. u.bpos = t.bpos /\ u.buff = t.buff
      <3> HIDE DEF c, r
      <3>1. sized.bpos = t.bpos /\ sized.buff = t.buff
        BY DEF Telnets
      <3>2. /\ WithFlag(sized, "TERMSIZE").bpos = t.bpos
            /\ WithFlag(sized, "TERMSIZE").buff = t.buff
        BY DEF WithFlag, Telnets
      <3> HIDE DEF sized
      <3> QED
        BY <3>1, <3>2
    <2>9. u = SaidOption(t, tok, level)
      <3> DEFINE kept(k, d) == IF k = 0 \/ tok.tail # <<IAC, SE>> THEN d ELSE k
                 cc == kept(tok.cols, t.cols)
                 rr == kept(tok.rows, t.rows)
                 said == [t EXCEPT !.cols = cc, !.rows = rr]
      <3>1. SaidOption(t, tok, level) = SaidSize(t, tok, level)
        BY DEF SaidOption
      <3>2. SaidSize(t, tok, level) =
                IF level = "LOGIN" THEN WithFlag(said, "TERMSIZE") ELSE said
        BY Zenon DEF SaidSize
      <3>3. c = cc /\ r = rr
        <4> HIDE DEF whole, cols, rows
        <4> QED
          BY <2>4, <2>5
      <3> HIDE DEF c, r, cc, rr
      <3>4. sized = said
        BY <3>3
      <3> HIDE DEF sized, said
      <3> QED
        BY <3>1, <3>2, <3>4
    <2> HIDE DEF u
    <2>10. SameFields(u, SaidOption(t, tok, level))
      BY <2>9 DEF SameFields
    <2>11. n = IF Lame(tok) THEN 4 ELSE Len(Encoded(tok))
      BY <2>6 DEF e, Lame
    <2> QED
      BY <2>7, <2>8, <2>10, <2>11, TakesIt, Zenon
  <1>15. x >= 2 /\ At(t.buff, 2) = SB => At(t.buff, 3) \in {NAWS, TERM}
    BY <1>10
  <1> QED
    BY <1>11, <1>13, <1>14, <1>15, Zenon DEF ReadRight, e, x

\* Where the name of a terminal ends.
LEMMA NameEndsRight ==
    ASSUME NEW t \in Telnets, NEW tok \in Tokens, tok.kind = "type",
           Telnet(tok), Begins(t, Encoded(tok))
    PROVE  LET n == Len(tok.name) IN
           /\ t.bpos < n + 6 => NameEnds(t) = {}
           /\ t.bpos >= n + 6 => /\ n + 5 \in NameEnds(t)
                                 /\ \A p \in NameEnds(t) : p >= n + 5
  <1> DEFINE e == Encoded(tok)
             n == Len(tok.name)
             x == t.bpos
  <1>1. /\ e \in Seq(Byte) /\ n \in Nat /\ Len(e) = n + 6
        /\ \A k \in 1..n : e[4 + k] = tok.name[k]
        /\ e[n + 5] = IAC /\ e[n + 6] = SE
    BY EncodedType, EncodedName
  <1>2. \A k \in 1..n - 1 : ~(tok.name[k] = IAC /\ tok.name[k + 1] = SE)
    BY DEF Telnet
  <1> HIDE DEF e, n
  <1>3. /\ x \in Nat
        /\ \A k \in 1..Len(e) : k <= x => At(t.buff, k) = e[k]
    <2>1. Begins(t, e)
      BY DEF e
    <2> QED
      BY <1>1, <2>1, BeginsAt
  <1>4. NameEnds(t) =
            {p \in 5..x - 1 : At(t.buff, p) = IAC /\ At(t.buff, p + 1) = SE}
    BY DEF NameEnds
  <1> HIDE DEF x
  <1>5. ASSUME NEW p \in NameEnds(t), p < n + 5 PROVE FALSE
    <2>1. p \in Nat /\ 5 <= p /\ p <= x - 1
      BY <1>3, <1>4
    <2> DEFINE k == p - 4
    <2>2. /\ p \in 1..Len(e) /\ p <= x /\ p + 1 \in 1..Len(e) /\ p + 1 <= x
          /\ k \in 1..n /\ p = 4 + k
      BY <1>1, <1>3, <1>5, <2>1
    <2>3. e[p] = IAC /\ e[p + 1] = SE
      BY <1>3, <1>4, <2>2
    <2>4. CASE k = n
      <3>1. p + 1 = n + 5
        BY <2>2, <2>4
      <3> QED
        BY <1>1, <2>3, <3>1 DEF IAC, SE
    <2>5. CASE k # n
      <3>1. k \in 1..n - 1 /\ k + 1 \in 1..n /\ p = 4 + k /\ p + 1 = 4 + (k + 1)
        BY <1>1, <2>2, <2>5
      <3> HIDE DEF k
      <3>2. e[p] = tok.name[k] /\ e[p + 1] = tok.name[k + 1]
        BY <1>1, <2>2, <3>1
      <3> QED
        BY <1>2, <2>3, <3>1, <3>2
    <2> QED
      BY <2>4, <2>5
  <1>6. \A p \in NameEnds(t) : p \in Nat /\ p >= n + 5
    <2> TAKE p \in NameEnds(t)
    <2>1. p \in Nat
      BY <1>3, <1>4
    <2> QED
      BY <1>1, <1>5, <2>1
  <1>7. ASSUME x < n + 6 PROVE NameEnds(t) = {}
    <2>1. \A p \in NameEnds(t) : p \in Nat /\ p <= x - 1
      BY <1>3, <1>4
    <2> SUFFICES ASSUME NEW p \in NameEnds(t) PROVE FALSE
      OBVIOUS
    <2>2. p \in Nat /\ p <= x - 1 /\ p >= n + 5
      BY <1>6, <2>1
    <2> QED
      BY <1>1, <1>3, <1>7, <2>2
  <1>8. ASSUME x >= n + 6 PROVE n + 5 \in NameEnds(t)
    <2> DEFINE p == n + 5
    <2>1. /\ p \in 1..Len(e) /\ p <= x /\ p + 1 \in 1..Len(e) /\ p + 1 <= x
          /\ p + 1 = n + 6 /\ p \in 5..x - 1
      BY <1>1, <1>3, <1>8
    <2>2. e[p] = IAC /\ e[p + 1] = SE
      BY <1>1, <2>1
    <2> HIDE DEF p
    <2>3. At(t.buff, p) = IAC /\ At(t.buff, p + 1) = SE
      BY <1>3, <2>1, <2>2
    <2> QED
      BY <1>4, <2>1, <2>3 DEF p
  <1> QED
    BY <1>6, <1>7, <1>8 DEF n, x

LEMMA TypeRead ==
    ASSUME NEW t \in Telnets, NEW tok \in Tokens, CanRead(t, tok),
           tok.kind = "type"
    PROVE  ReadRight(t, tok)
  <1> DEFINE e == Encoded(tok)
             n == Len(tok.name)
             x == t.bpos
             m == Min(NameEnds(t))
  <1>1. e \in Seq(Byte) /\ Begins(t, e) /\ x # 2 /\ Telnet(tok)
    BY EncodedType DEF CanRead
  <1>2. /\ n \in Nat /\ Len(e) = n + 6
        /\ e[1] = IAC /\ e[2] = SB /\ e[3] = TERM /\ e[4] = tok.is
        /\ \A k \in 1..n : e[4 + k] = tok.name[k]
    BY EncodedName
  <1>3. tok.is \in Byte /\ tok.name \in Seq(Byte) /\ t.buff \in Seq(Byte)
    BY TokenFields, TelnetFields
  <1>4. tok.name # <<>> /\ tok.is = IS => x <= Len(e)
    BY DEF CanRead
  <1>5. tok.is # IS => n = 0
    BY <1>1 DEF Telnet
  <1>6. /\ x < n + 6 => NameEnds(t) = {}
        /\ x >= n + 6 => n + 5 \in NameEnds(t) /\ \A p \in NameEnds(t) : p >= n + 5
    BY <1>1, NameEndsRight
  <1> HIDE DEF e
  <1>7. /\ x \in Nat /\ x > 0 /\ Len(t.buff) \in Nat /\ x <= Len(t.buff)
        /\ \A k \in 1..Len(e) : k <= x => At(t.buff, k) = e[k]
        /\ \A k \in 1..Len(e) : k <= x => t.buff[k] = e[k]
    BY <1>1, BeginsAt DEF Begins
  <1>8. NameEnds(t) \in SUBSET Nat
    BY <1>7 DEF NameEnds
  <1> HIDE DEF x, n
  <1>9. x >= 2 => x >= 3 /\ At(t.buff, 2) = SB /\ At(t.buff, 3) = TERM
    <2>1. x >= 2 => x >= 3
      BY <1>1, <1>7
    <2>2. 2 \in 1..Len(e) /\ 3 \in 1..Len(e)
      BY <1>2
    <2>3. x >= 3 => At(t.buff, 2) = e[2] /\ At(t.buff, 3) = e[3]
      BY <1>7, <2>2
    <2> QED
      BY <1>2, <2>1, <2>3
  <1>10. x >= 6 => At(t.buff, 4) = tok.is
    <2>1. 4 \in 1..Len(e) /\ (x >= 6 => 4 <= x)
      BY <1>2, <1>7
    <2> QED
      BY <1>2, <1>7, <2>1
  <1>11. ~ReadsOn(t)
    <2> SUFFICES ASSUME ReadsOn(t) PROVE FALSE
      OBVIOUS
    <2>1. x >= 2
      BY DEF ReadsOn, x
    <2>2. At(t.buff, 3) # NAWS
      BY <1>9, <2>1 DEF NAWS, TERM
    <2>3. x > Len(t.buff) + 1
      BY <2>2, Zenon DEF ReadsOn, x
    <2> QED
      BY <1>7, <2>3
  <1>12. x >= 2 /\ At(t.buff, 2) = SB => At(t.buff, 3) \in {NAWS, TERM}
    BY <1>9
  <1> DEFINE name == IF m = 5 THEN Unresolved ELSE SubSeq(t.buff, 5, m - 1)
             rest == IF m = 5 THEN t.buff ELSE SubSeq(t.buff, 1, m - 1)
             flags(y) == (t.flags \ {"ANSI_TERM"}) \cup {"TERMTYPE"} \cup
                            (IF y \in AnsiTerms THEN {"ANSI_TERM"} ELSE {})
             typed(y, b) == [t EXCEPT !.type = y, !.buff = b, !.flags = flags(y)]
             lame == typed(Unresolved, t.buff)
             named == typed(name, rest)
  <1>13. GetTermtype(t) =
          IF x < 6 THEN Incomplete(t)
          ELSE IF At(t.buff, 4) # IS THEN Option(lame, 4)
          ELSE IF NameEnds(t) = {} THEN Incomplete(t)
          ELSE Option(named, m + 1)
    BY Zenon DEF GetTermtype, x
  <1>14. x >= 2 => Telopt(t) = GetTermtype(t)
    <2>1. x >= 2 => At(t.buff, 2) = SB /\ At(t.buff, 3) = TERM
      BY <1>9
    <2> QED
      BY <2>1, TeloptCases, Zenon DEF x
  <1> DEFINE y0 == IF tok.is # IS \/ tok.name = <<>> THEN Unresolved ELSE tok.name
  <1>15. SaidOption(t, tok, level) = [t EXCEPT !.type = y0, !.flags = flags(y0)]
    <2>1. SaidOption(t, tok, level) = SaidType(t, tok)
      BY DEF SaidOption
    <2>2. SaidType(t, tok) = [t EXCEPT !.type = y0, !.flags = flags(y0)]
      BY Zenon DEF SaidType
    <2> QED
      BY <2>1, <2>2
  <1>16. \A b : /\ SameFields(typed(y0, b), SaidOption(t, tok, level))
                /\ typed(y0, b).bpos = t.bpos /\ typed(y0, b).buff = b
    <2> DEFINE f == flags(y0)
    <2> HIDE DEF y0, f
    <2>1. \A b : LET z == [t EXCEPT !.type = y0, !.buff = b, !.flags = f]
                     s == [t EXCEPT !.type = y0, !.flags = f]
                 IN  /\ z.flags = s.flags /\ z.type = s.type
                     /\ z.cols = s.cols /\ z.rows = s.rows
                     /\ z.bpos = t.bpos /\ z.buff = b
      BY DEF Telnets
    <2> QED
      BY <1>15, <2>1 DEF SameFields, f
  <1> HIDE DEF typed, m, flags
  <1>17. ASSUME x < Len(e) PROVE CutRight(Telopt(t), t, tok)
    <2>1. Telopt(t) = Incomplete(t)
      <3>1. CASE x < 2
        BY <3>1, TeloptCases DEF x
      <3>2. CASE ~(x < 2)
        <4>1. x >= 2 /\ x < n + 6
          BY <1>2, <1>7, <1>17, <3>2
        <4>2. NameEnds(t) = {} /\ Telopt(t) = GetTermtype(t)
          BY <1>6, <1>14, <4>1
        <4>3. x < 6 \/ At(t.buff, 4) = IS
          BY <1>2, <1>5, <1>7, <1>10, <4>1
        <4> HIDE DEF lame, named
        <4> QED
          BY <1>13, <4>2, <4>3
      <3> QED
        BY <3>1, <3>2
    <2> QED
      BY <2>1, CutsIt, Zenon
  <1>18. ASSUME x >= Len(e) PROVE TakenRight(Telopt(t), t, tok)
    <2>1. x >= 6 /\ x >= 2 /\ ~(x < 6) /\ x >= n + 6
      BY <1>2, <1>7, <1>18
    <2>2. Telopt(t) = GetTermtype(t) /\ At(t.buff, 4) = tok.is
      BY <1>10, <1>14, <2>1
    <2>3. CASE tok.is # IS
      <3>1. Telopt(t) = Option(lame, 4)
        <4> HIDE DEF lame, named
        <4> QED
          BY <1>13, <2>1, <2>2, <2>3
      <3>2. lame = typed(y0, t.buff)
        BY <2>3
      <3>3. 4 = IF Lame(tok) THEN 4 ELSE Len(Encoded(tok))
        BY <2>3 DEF Lame
      <3>4. /\ lame.bpos = t.bpos /\ lame.buff = t.buff
            /\ SameFields(lame, SaidOption(t, tok, level))
        <4> HIDE DEF lame, y0
        <4> QED
          BY <1>16, <3>2
      <3> HIDE DEF lame
      <3> QED
        BY <3>1, <3>3, <3>4, TakesIt, Zenon
    <2>4. CASE tok.is = IS
      <3>1. m = n + 5 /\ NameEnds(t) # {}
        <4>1. n + 5 \in NameEnds(t) /\ \A p \in NameEnds(t) : p >= n + 5
          BY <1>6, <2>1
        <4>2. m \in NameEnds(t) /\ \A p \in NameEnds(t) : m <= p
          BY <1>8, <4>1, MinFacts DEF m
        <4>3. m \in Nat /\ m >= n + 5 /\ m <= n + 5
          BY <1>8, <4>1, <4>2
        <4> QED
          BY <1>2, <4>1, <4>3
      <3>2. Telopt(t) = Option(named, m + 1)
        <4> HIDE DEF lame, named
        <4> QED
          BY <1>13, <2>1, <2>2, <2>4, <3>1
      <3>3. m + 1 = IF Lame(tok) THEN 4 ELSE Len(Encoded(tok))
        <4>1. m + 1 = Len(e)
          BY <1>2, <3>1
        <4> QED
          BY <2>4, <4>1 DEF Lame, e
      <3>4. name = y0 /\ (rest = t.buff \/ m + 1 = t.bpos)
        <4>1. CASE n = 0
          <5>1. tok.name = <<>>
            BY <1>3, <4>1, EmptySeq DEF n
          <5>2. m = 5
            BY <3>1, <4>1
          <5> QED
            BY <5>1, <5>2
        <4>2. CASE n # 0
          <5>1. tok.name # <<>>
            BY <4>2 DEF n
          <5>2. m # 5 /\ n + 6 = x /\ m - 1 = n + 4
            BY <1>2, <1>4, <1>7, <2>1, <2>4, <3>1, <4>2, <5>1
          <5> DEFINE b == t.buff
                     q == n + 4
                     w == SubSeq(b, 5, q)
          <5>3. b \in Seq(Byte) /\ q \in Nat /\ q <= Len(b) /\ 5 \in Nat /\ 5 >= 1
                /\ q - 5 + 1 = n /\ 5 <= q
            BY <1>2, <1>3, <1>7, <4>2, <5>2
          <5> HIDE DEF b, q
          <5>4. /\ w \in Seq(Byte) /\ Len(w) = q - 5 + 1
                /\ \A i \in 1..q - 5 + 1 : w[i] = b[5 + i - 1]
            BY <5>3, SubSeqType
          <5>5. ASSUME NEW i \in 1..n PROVE w[i] = tok.name[i]
            <6> DEFINE j == 4 + i
            <6>1. 5 + i - 1 = j /\ j \in 1..Len(e) /\ j <= x /\ i \in 1..q - 5 + 1
              BY <1>2, <5>2, <5>3
            <6>2. w[i] = b[j]
              BY <5>4, <6>1
            <6>3. e[j] = tok.name[i]
              BY <1>2
            <6> HIDE DEF j, w
            <6>4. b[j] = e[j]
              BY <1>7, <6>1 DEF b
            <6> QED
              BY <6>2, <6>3, <6>4
          <5>6. Len(w) = n
            BY <5>3, <5>4
          <5> HIDE DEF w
          <5>7. w = tok.name
            BY <1>3, <5>4, <5>5, <5>6, SeqEqual DEF n
          <5>8. name = SubSeq(b, 5, q)
            BY <5>2 DEF b, q
          <5>9. y0 = tok.name
            BY <2>4, <5>1
          <5>10. m + 1 = t.bpos
            BY <1>2, <3>1, <5>2 DEF x
          <5> QED
            BY <5>7, <5>8, <5>9, <5>10 DEF w
        <4> QED
          BY <4>1, <4>2
      <3> HIDE DEF name, rest, y0
      <3>5. named = typed(y0, rest)
        BY <3>4
      <3>6. /\ named.bpos = t.bpos /\ named.buff = rest
            /\ SameFields(named, SaidOption(t, tok, level))
        <4> HIDE DEF named
        <4> QED
          BY <1>16, <3>5
      <3> HIDE DEF named
      <3>7. named.buff = t.buff \/ m + 1 = t.bpos
        BY <3>4, <3>6
      <3> DEFINE k == m + 1
      <3> HIDE DEF k
      <3>8. k = IF Lame(tok) THEN 4 ELSE Len(Encoded(tok))
        BY <3>3 DEF k
      <3> QED
        BY <3>2, <3>6, <3>7, <3>8, TakesIt, Zenon DEF k
    <2> QED
      BY <2>3, <2>4
  <1> QED
    BY <1>11, <1>12, <1>17, <1>18, Zenon DEF ReadRight, e, x

LEMMA OptionRead ==
    ASSUME NEW t \in Telnets, NEW tok \in Tokens, CanRead(t, tok)
    PROVE  ReadRight(t, tok)
  <1>1. tok.kind \in {"command", "option", "size", "type"}
    BY TokenFields DEF CanRead, Kinds
  <1> QED
    BY <1>1, CommandRead, NegotiationRead, SizeRead, TypeRead

-----------------------------------------------------------------------------
(* What the tokens mean.                                                   *)

Meanings == [t : Telnets, typed : Seq(Byte), lines : Seq(Seq(Byte))]

LEMMA SaidOptionType ==
    ASSUME NEW t \in Telnets, NEW tok \in Tokens, NEW lvl
    PROVE  SaidOption(t, tok, lvl) \in Telnets
  <1> DEFINE says(verbs, o) ==
                tok.kind = "option" /\ tok.verb \in verbs /\ tok.option = o
             s1 == says({WONT}, NAWS)
             s2 == says({WONT}, TERM)
             s3 == says({DO, DONT}, SGA)
             s4 == says({DO, DONT}, ECHO)
             s5 == tok.kind = "size"
             s6 == tok.kind = "type"
             untyped == [t EXCEPT !.type = Unresolved]
             typed == WithFlag(untyped, "TERMTYPE")
             sized == WithFlag(t, "TERMSIZE")
             sga == WithFlag(t, "SGA")
             echo == WithFlag(t, "ECHO")
             x5 == SaidSize(t, tok, lvl)
             x6 == SaidType(t, tok)
             v == CASE s4 -> echo [] s3 -> sga [] s1 -> sized [] s2 -> typed
                    [] s5 -> x5 [] s6 -> x6 [] OTHER -> t
  <1>1. SaidOption(t, tok, lvl) = v
    BY Zenon DEF SaidOption
  <1>2. sized \in Telnets /\ sga \in Telnets /\ echo \in Telnets
    BY FlagFacts, WithFlagType
  <1>3. typed \in Telnets
    <2>1. untyped \in Telnets
      BY UnresolvedType, WithTypeType
    <2> HIDE DEF untyped
    <2> QED
      BY <2>1, FlagFacts, WithFlagType
  <1>4. s5 => x5 \in Telnets
    <2> SUFFICES ASSUME s5 PROVE x5 \in Telnets
      OBVIOUS
    <2> DEFINE kept(n, d) == IF n = 0 \/ tok.tail # <<IAC, SE>> THEN d ELSE n
               c == kept(tok.cols, t.cols)
               r == kept(tok.rows, t.rows)
               w == [t EXCEPT !.cols = c, !.rows = r]
    <2>1. x5 = IF lvl = "LOGIN" THEN WithFlag(w, "TERMSIZE") ELSE w
      BY Zenon DEF SaidSize
    <2>2. c \in Word /\ r \in Word
      <3>1. tok.cols \in Word /\ tok.rows \in Word /\ t.cols \in Word /\ t.rows \in Word
        BY TokenFields, TelnetFields
      <3> QED
        BY <3>1
    <2> HIDE DEF c, r, x5
    <2>3. w \in Telnets
      BY <2>2 DEF Telnets
    <2> HIDE DEF w
    <2>4. WithFlag(w, "TERMSIZE") \in Telnets
      BY <2>3, FlagFacts, WithFlagType
    <2> QED
      BY <2>1, <2>3, <2>4
  <1>5. s6 => x6 \in Telnets
    <2> SUFFICES ASSUME s6 PROVE x6 \in Telnets
      OBVIOUS
    <2> DEFINE n == IF tok.is # IS \/ tok.name = <<>> THEN Unresolved ELSE tok.name
               ansi == IF n \in AnsiTerms THEN {"ANSI_TERM"} ELSE {}
               f == (t.flags \ {"ANSI_TERM"}) \cup {"TERMTYPE"} \cup ansi
    <2>1. x6 = [t EXCEPT !.type = n, !.flags = f]
      BY Zenon DEF SaidType
    <2>2. n \in Seq(Byte)
      BY TokenFields, UnresolvedType
    <2>3. f \in SUBSET Flags
      <3>1. t.flags \subseteq Flags /\ ansi \subseteq {"ANSI_TERM"}
        BY TelnetFields
      <3> HIDE DEF ansi
      <3> QED
        BY <3>1, FlagFacts
    <2> HIDE DEF n, f, x6
    <2> QED
      BY <2>1, <2>2, <2>3 DEF Telnets
  <1> HIDE DEF s1, s2, s3, s4, s5, s6, sized, sga, echo, typed, x5, x6
  <1>6. v \in Telnets
    BY <1>2, <1>3, <1>4, <1>5
  <1> QED
    BY <1>1, <1>6

LEMMA SaidByteType ==
    ASSUME NEW m \in Meanings, NEW b \in Byte
    PROVE  SaidByte(m, b) \in Meanings
  <1> DEFINE c1 == b = CR
             c2 == b \in {BS, DEL}
             c3 == b \in {NUL, LF}
             l == Append(m.lines, m.typed)
             f == IF m.typed = <<>> THEN m.typed ELSE Front(m.typed)
             a == Append(m.typed, b)
             x1 == [m EXCEPT !.lines = l, !.typed = <<>>]
             x2 == [m EXCEPT !.typed = f]
             x4 == [m EXCEPT !.typed = a]
             v == CASE c1 -> x1 [] c2 -> x2 [] c3 -> m [] OTHER -> x4
  <1>1. SaidByte(m, b) = v
    BY Zenon DEF SaidByte
  <1>2. m.t \in Telnets /\ m.typed \in Seq(Byte) /\ m.lines \in Seq(Seq(Byte))
    BY DEF Meanings
  <1>3. l \in Seq(Seq(Byte)) /\ f \in Seq(Byte) /\ a \in Seq(Byte)
        /\ <<>> \in Seq(Byte)
    <2>1. m.typed # <<>> => Front(m.typed) \in Seq(Byte)
      BY <1>2, HeadFacts
    <2> QED
      BY <1>2, <2>1
  <1> HIDE DEF l, f, a
  <1>4. x1 \in Meanings /\ x2 \in Meanings /\ x4 \in Meanings
    BY <1>3 DEF Meanings
  <1> HIDE DEF x1, x2, x4, c1, c2, c3
  <1>5. v \in Meanings
    BY <1>4
  <1> QED
    BY <1>1, <1>5

LEMMA SaidTypes ==
    ASSUME NEW m \in Meanings, NEW tok \in Tokens, NEW lvl
    PROVE  Said(m, tok, lvl) \in Meanings
  <1>1. CASE tok.kind = "text"
    BY <1>1, TokenFields, SaidByteType DEF Said
  <1>2. CASE tok.kind # "text"
    <2> DEFINE u == SaidOption(m.t, tok, lvl)
    <2>1. m.t \in Telnets
      BY DEF Meanings
    <2>2. u \in Telnets
      BY <2>1, SaidOptionType
    <2>3. Said(m, tok, lvl) = [m EXCEPT !.t = u]
      BY <1>2 DEF Said
    <2> HIDE DEF u
    <2> QED
      BY <2>2, <2>3 DEF Meanings
  <1> QED
    BY <1>1, <1>2

LEMMA MeaningUptoFacts ==
    ASSUME NEW s \in Seq(Tokens), NEW lvl
    PROVE  /\ MeaningUpto(s, lvl)[0] = NothingSaid
           /\ \A j \in 0..Len(s) : MeaningUpto(s, lvl)[j] \in Meanings
           /\ \A j \in 1..Len(s) :
                MeaningUpto(s, lvl)[j] = Said(MeaningUpto(s, lvl)[j - 1], s[j], lvl)
  <1> DEFINE n == Len(s)
             V == Meanings
             next(i, a) == Said(a, s[i], lvl)
             Step == [i \in 1..n |-> [a \in V |-> next(i, a)]]
             Eq(f) == f = [i \in 0..n |->
                            IF i = 0 THEN NothingSaid ELSE next(i, f[i - 1])]
  <1>1. n \in Nat /\ NothingSaid \in V
    <2>1. NewTelnet \in Telnets
      <3>1. /\ <<>> \in Seq(Byte) /\ 0 \in Nat /\ {} \in SUBSET Flags
            /\ 80 \in Word /\ 25 \in Word
        BY WordFacts
      <3> QED
        BY <3>1 DEF NewTelnet, Telnets
    <2>2. <<>> \in Seq(Byte) /\ <<>> \in Seq(Seq(Byte))
      OBVIOUS
    <2> QED
      BY <2>1, <2>2 DEF NothingSaid, Meanings
  <1>2. \A i \in 1..n, a \in V : next(i, a) \in V
    <2> TAKE i \in 1..n, a \in V
    <2>1. s[i] \in Tokens
      OBVIOUS
    <2> QED
      BY <2>1, SaidTypes
  <1>3. Step \in [1..n -> [V -> V]]
    <2> HIDE DEF next, n, V
    <2> QED
      BY <1>2
  <1>4. PICK f : Follows(f, n, V, NothingSaid, Step)
    <2> HIDE DEF n, Step, V
    <2> QED
      BY <1>1, <1>3, Recursion
  <1>5. Eq(f)
    <2> HIDE DEF next, n, V
    <2>1. \A i \in 1..n : f[i - 1] \in V
      BY <1>1, <1>4 DEF Follows
    <2>2. ASSUME NEW i \in 0..n
          PROVE  f[i] = IF i = 0 THEN NothingSaid ELSE next(i, f[i - 1])
      <3>1. CASE i = 0
        BY <1>4, <3>1 DEF Follows
      <3>2. CASE i # 0
        <4>1. i \in 1..n
          BY <1>1, <3>2
        <4> QED
          BY <1>4, <2>1, <3>2, <4>1 DEF Follows
      <3> QED
        BY <3>1, <3>2
    <2> QED
      BY <1>4, <2>2 DEF Follows
  <1> DEFINE F == CHOOSE g : Eq(g)
  <1>6. MeaningUpto(s, lvl) = F
    BY Zenon DEF MeaningUpto
  <1>7. Eq(F)
    <2> HIDE DEF Eq
    <2> QED
      BY <1>5, Zenon
  <1> HIDE DEF F
  <1>8. F[0] = NothingSaid /\ \A i \in 1..n : F[i] = next(i, F[i - 1])
    <2> HIDE DEF next, n
    <2> QED
      BY <1>1, <1>7
  <1>9. \A i \in 0..n : F[i] \in V
    <2> HIDE DEF next, n, V
    <2> QED
      BY <1>1, <1>2, <1>8, StaysIn
  <1> QED
    BY <1>6, <1>8, <1>9

-----------------------------------------------------------------------------
(* The invariant: how far the parser is in what the peer says.             *)

ScriptInv ==
    /\ script \in Seq(Tokens)
    /\ \A j \in 1..Len(script) : Telnet(script[j])

\* The bytes that have arrived.
Arrived == Len(Bytes(script)) - Len(wire)

\* The parser is at place p, and what arrived behind it is in buff and input.
Pending(p) ==
    LET b == Bytes(script) IN
    /\ wire = SubSeq(b, Arrived + 1, Len(b))
    /\ p + tel.bpos + len = Arrived
    /\ tel.bpos <= Len(tel.buff)
    /\ \A k \in 1..tel.bpos : tel.buff[k] = b[p + k]
    /\ pc # "loop" => len = 0
    /\ pc = "loop" =>
        /\ Len(input) = len + 1
        /\ \A k \in 1..len : input[k] = b[p + tel.bpos + k]
        /\ tel.bpos > 0 => len > 0

\* The last packet ended where the code can handle it.
CarefulEnd(x) ==
    \A j \in 1..Len(script) :
        LET t == script[j]
            from == Place(script, j - 1)
            to == Place(script, j)
        IN  /\ t.kind \in {"size", "type", "sub"} => x # from + 2
            /\ t.kind = "sub" => x <= from
            /\ t.kind = "size" /\ ~SetsSize(t) => x \notin from + 9..to - 1

\* A terminal's name that is not yet read ends its packet.
NamesLast(i) ==
    \A j \in i + 1..Len(script) :
        LET t == script[j] IN
        t.kind = "type" /\ t.name # <<>> /\ t.is = IS
            /\ Place(script, j) <= Arrived => Place(script, j) = Arrived

\* The option that comes next gives the size, whatever it is now.
SizeNext(i, r) ==
    /\ r = 0 /\ i < Len(script)
    /\ script[i + 1].kind = "size" /\ SetsSize(script[i + 1])

\* The flags f are those of the meaning g for the level lvl, at the level l.
\* The server also sets TERMSIZE for a user who logged in later, and
\* GOT_TELOPT_INFO.
FlagsAre(f, g, lvl, l) ==
    /\ lvl = "NOVICE" \/ l = "LOGIN" =>
        /\ g \subseteq f
        /\ f \ g \subseteq {"TERMSIZE", "GOT_TELOPT_INFO"}
    /\ lvl = "LOGIN" /\ l = "LOGIN" /\ "TERMSIZE" \in f => "TERMSIZE" \in g

\* The user is what the first i tokens say.
MeantFor(i, r, lvl) ==
    LET m == MeaningUpto(script, lvl)[i] IN
    /\ lines = m.lines /\ Line = m.typed /\ tel.type = m.t.type
    /\ SizeNext(i, r) \/ (tel.cols = m.t.cols /\ tel.rows = m.t.rows)
    /\ FlagsAre(tel.flags, m.t.flags, lvl, level)

Meant(i, r) == \A lvl \in {"LOGIN", "NOVICE"} : MeantFor(i, r, lvl)

\* The parser is behind the first i tokens, but for the last r bytes of the
\* i-th.
ParsedUpto(i, r) ==
    /\ \/ r = 0
       \/ /\ r = 2 /\ i >= 1 /\ Lame(script[i])
          /\ pc = "telopt" /\ tel.bpos >= 2
    /\ Pending(Place(script, i) - r)
    /\ pc = "idle" /\ i < Len(script) => Place(script, i + 1) > Arrived
    /\ pc # "idle" => NamesLast(i)
    /\ Meant(i, r)

\* The server has all options when it says so, and says so when it has them,
\* but while it reads options.
GotAll ==
    /\ "GOT_TELOPT_INFO" \in tel.flags => AllOptions \subseteq tel.flags
    /\ pc # "telopt" /\ tel.bpos = 0 /\ AllOptions \subseteq tel.flags =>
            "GOT_TELOPT_INFO" \in tel.flags

ParsedInv ==
    /\ CarefulEnd(Arrived) /\ GotAll
    /\ \E i \in 0..Len(script), r \in {0, 2} : ParsedUpto(i, r)

UnderstandInv ==
    careful =>
        /\ pc # "undefined"
        /\ pc \in {"idle", "loop", "telopt"} => ParsedInv

-----------------------------------------------------------------------------
(* What an option does to a meaning.                                       *)

\* A flag that both get.
LEMMA FlagsWith ==
    ASSUME NEW f, NEW g, NEW lvl, NEW l, FlagsAre(f, g, lvl, l),
           NEW x, NEW y, y \subseteq {"ANSI_TERM"}
    PROVE  /\ FlagsAre(f \cup {x}, g \cup {x}, lvl, l)
           /\ FlagsAre((f \ {"ANSI_TERM"}) \cup {x} \cup y,
                       (g \ {"ANSI_TERM"}) \cup {x} \cup y, lvl, l)
           /\ lvl = "NOVICE" => FlagsAre(f \cup {"TERMSIZE"}, g, lvl, l)
           /\ FlagsAre(f \cup {"TERMSIZE"}, g \cup {"TERMSIZE"}, lvl, l)
  BY DEF FlagsAre

\* The options that a record of flags has.
SameOptions(f, g) ==
    /\ "GOT_TELOPT_INFO" \in g <=> "GOT_TELOPT_INFO" \in f
    /\ f \cap AllOptions \subseteq g

\* The telnet fields t of the user and u of a meaning.
FieldsAre(t, u, lvl, l) ==
    /\ FlagsAre(t.flags, u.flags, lvl, l) /\ t.type = u.type
    /\ t.cols = u.cols /\ t.rows = u.rows

LEMMA SaidWith ==
    ASSUME NEW t \in Telnets, NEW f
    PROVE  /\ WithFlag(t, f).flags = t.flags \cup {f}
           /\ WithFlag(t, f).type = t.type
           /\ WithFlag(t, f).cols = t.cols /\ WithFlag(t, f).rows = t.rows
  BY DEF WithFlag, Telnets

IsSized(s, t, tok, lvl) ==
    /\ s.flags = IF lvl = "LOGIN" THEN t.flags \cup {"TERMSIZE"} ELSE t.flags
    /\ s.type = t.type
    /\ s.cols = IF tok.cols = 0 \/ tok.tail # <<IAC, SE>> THEN t.cols ELSE tok.cols
    /\ s.rows = IF tok.rows = 0 \/ tok.tail # <<IAC, SE>> THEN t.rows ELSE tok.rows

LEMMA SaidSizeParts ==
    ASSUME NEW t \in Telnets, NEW tok, NEW lvl
    PROVE  IsSized(SaidSize(t, tok, lvl), t, tok, lvl)
  <1> DEFINE kept(n, d) == IF n = 0 \/ tok.tail # <<IAC, SE>> THEN d ELSE n
             c == kept(tok.cols, t.cols)
             r == kept(tok.rows, t.rows)
             w == [t EXCEPT !.cols = c, !.rows = r]
             x == WithFlag(w, "TERMSIZE")
             s == SaidSize(t, tok, lvl)
  <1>1. s = IF lvl = "LOGIN" THEN x ELSE w
    BY Zenon DEF SaidSize
  <1> HIDE DEF c, r, s
  <1>2. w.flags = t.flags /\ w.type = t.type /\ w.cols = c /\ w.rows = r
    BY DEF Telnets
  <1>3. /\ x.flags = t.flags \cup {"TERMSIZE"} /\ x.type = t.type
        /\ x.cols = c /\ x.rows = r
    BY DEF Telnets, WithFlag
  <1> HIDE DEF w, x
  <1>4. /\ s.flags = IF lvl = "LOGIN" THEN t.flags \cup {"TERMSIZE"} ELSE t.flags
        /\ s.type = t.type /\ s.cols = c /\ s.rows = r
    BY <1>1, <1>2, <1>3
  <1> QED
    BY <1>4 DEF IsSized, s, c, r

LEMMA SaidSizeFields ==
    ASSUME NEW t \in Telnets, NEW u \in Telnets, NEW tok,
           NEW lvl \in {"LOGIN", "NOVICE"}, NEW l \in {"LOGIN", "NOVICE"},
           FlagsAre(t.flags, u.flags, lvl, l), t.type = u.type,
           SetsSize(tok) \/ (t.cols = u.cols /\ t.rows = u.rows)
    PROVE  /\ FieldsAre(SaidSize(t, tok, l), SaidSize(u, tok, lvl), lvl, l)
           /\ SameOptions(t.flags, SaidSize(t, tok, l).flags)
  <1> DEFINE a == SaidSize(t, tok, l)
             b == SaidSize(u, tok, lvl)
             f == t.flags
             g == u.flags
  <1>0. IsSized(a, t, tok, l) /\ IsSized(b, u, tok, lvl)
    BY SaidSizeParts, Zenon
  <1> HIDE DEF a, b
  <1>1. /\ a.flags = IF l = "LOGIN" THEN f \cup {"TERMSIZE"} ELSE f
        /\ b.flags = IF lvl = "LOGIN" THEN g \cup {"TERMSIZE"} ELSE g
        /\ a.type = t.type /\ b.type = u.type
    BY <1>0 DEF IsSized
  <1>2. a.cols = b.cols /\ a.rows = b.rows
    BY <1>0 DEF IsSized, SetsSize
  <1> HIDE DEF f, g
  <1>3. FlagsAre(a.flags, b.flags, lvl, l)
    <2>1. FlagsAre(f, g, lvl, l)
      BY DEF f, g
    <2>2. CASE l = "LOGIN" /\ lvl = "LOGIN"
      <3>1. a.flags = f \cup {"TERMSIZE"} /\ b.flags = g \cup {"TERMSIZE"}
        BY <1>1, <2>2
      <3> QED
        BY <2>1, <3>1 DEF FlagsAre
    <2>3. CASE l = "LOGIN" /\ lvl = "NOVICE"
      <3>1. a.flags = f \cup {"TERMSIZE"} /\ b.flags = g
        BY <1>1, <2>3
      <3> QED
        BY <2>1, <2>3, <3>1 DEF FlagsAre
    <2>4. CASE l = "NOVICE" /\ lvl = "NOVICE"
      <3>1. a.flags = f /\ b.flags = g
        BY <1>1, <2>4
      <3> QED
        BY <2>1, <3>1
    <2>5. CASE l = "NOVICE" /\ lvl = "LOGIN"
      BY <2>5 DEF FlagsAre
    <2> QED
      BY <2>2, <2>3, <2>4, <2>5
  <1>4. SameOptions(f, a.flags)
    BY <1>1 DEF SameOptions
  <1> QED
    BY <1>1, <1>2, <1>3, <1>4 DEF FieldsAre, a, b, f

LEMMA SaidTypeFields ==
    ASSUME NEW t \in Telnets, NEW u \in Telnets, NEW tok,
           NEW lvl, NEW l, FieldsAre(t, u, lvl, l)
    PROVE  /\ FieldsAre(SaidType(t, tok), SaidType(u, tok), lvl, l)
           /\ SameOptions(t.flags, SaidType(t, tok).flags)
  <1> DEFINE n == IF tok.is # IS \/ tok.name = <<>> THEN Unresolved ELSE tok.name
             ansi == IF n \in AnsiTerms THEN {"ANSI_TERM"} ELSE {}
             F(x) == (x \ {"ANSI_TERM"}) \cup {"TERMTYPE"} \cup ansi
             a == SaidType(t, tok)
             b == SaidType(u, tok)
             f == t.flags
             g == u.flags
             ff == F(f)
             gg == F(g)
  <1>1. /\ a = [t EXCEPT !.type = n, !.flags = ff]
        /\ b = [u EXCEPT !.type = n, !.flags = gg]
    BY Zenon DEF SaidType
  <1>2. FlagsAre(ff, gg, lvl, l)
    <2>1. FlagsAre(f, g, lvl, l) /\ ansi \subseteq {"ANSI_TERM"}
      BY DEF FieldsAre
    <2> HIDE DEF f, g, ansi
    <2> QED
      BY <2>1, FlagsWith
  <1>3. SameOptions(f, ff)
    <2>1. ansi \subseteq {"ANSI_TERM"}
      OBVIOUS
    <2> HIDE DEF f, ansi
    <2> QED
      BY <2>1 DEF SameOptions, AllOptions
  <1> HIDE DEF ff, gg, n, a, b
  <1>4. /\ a.flags = ff /\ a.type = n /\ a.cols = t.cols /\ a.rows = t.rows
        /\ b.flags = gg /\ b.type = n /\ b.cols = u.cols /\ b.rows = u.rows
    BY <1>1 DEF Telnets
  <1>5. t.cols = u.cols /\ t.rows = u.rows
    BY DEF FieldsAre
  <1>6. FieldsAre(a, b, lvl, l)
    BY <1>2, <1>4, <1>5 DEF FieldsAre
  <1> QED
    BY <1>3, <1>4, <1>6 DEF a, b, f

LEMMA SaidFields ==
    ASSUME NEW t \in Telnets, NEW u \in Telnets, NEW tok,
           NEW lvl \in {"LOGIN", "NOVICE"}, NEW l \in {"LOGIN", "NOVICE"},
           FlagsAre(t.flags, u.flags, lvl, l), t.type = u.type,
           \/ tok.kind = "size" /\ SetsSize(tok)
           \/ t.cols = u.cols /\ t.rows = u.rows
    PROVE  /\ FieldsAre(SaidOption(t, tok, l), SaidOption(u, tok, lvl), lvl, l)
           /\ SameOptions(t.flags, SaidOption(t, tok, l).flags)
  <1> DEFINE says(verbs, o) ==
                tok.kind = "option" /\ tok.verb \in verbs /\ tok.option = o
             s1 == says({WONT}, NAWS)
             s2 == says({WONT}, TERM)
             s3 == says({DO, DONT}, SGA)
             s4 == says({DO, DONT}, ECHO)
             s5 == tok.kind = "size"
             s6 == tok.kind = "type"
             typed(x) == WithFlag([x EXCEPT !.type = Unresolved], "TERMTYPE")
             sized(x) == WithFlag(x, "TERMSIZE")
             sga(x) == WithFlag(x, "SGA")
             echo(x) == WithFlag(x, "ECHO")
             v(x, k) == CASE s4 -> echo(x) [] s3 -> sga(x) [] s1 -> sized(x)
                          [] s2 -> typed(x) [] s5 -> SaidSize(x, tok, k)
                          [] s6 -> SaidType(x, tok) [] OTHER -> x
             Right(a, b) == FieldsAre(a, b, lvl, l) /\ SameOptions(t.flags, a.flags)
  <1>1. \A x, k : SaidOption(x, tok, k) = v(x, k)
    BY Zenon DEF SaidOption
  <1>2. s5 => Right(SaidSize(t, tok, l), SaidSize(u, tok, lvl))
    <2> SUFFICES ASSUME s5 PROVE Right(SaidSize(t, tok, l), SaidSize(u, tok, lvl))
      OBVIOUS
    <2>1. SetsSize(tok) \/ (t.cols = u.cols /\ t.rows = u.rows)
      OBVIOUS
    <2> QED
      BY <2>1, SaidSizeFields
  <1>3. ~s5 => FieldsAre(t, u, lvl, l)
    BY DEF FieldsAre
  <1>4. ~s5 => Right(SaidType(t, tok), SaidType(u, tok))
    BY <1>3, SaidTypeFields
  <1>5. ~s5 => Right(t, u)
    BY <1>3 DEF SameOptions
  <1>6. ASSUME ~s5, NEW f \in {"ECHO", "SGA", "TERMSIZE"}
        PROVE  Right(WithFlag(t, f), WithFlag(u, f))
    <2>1. /\ WithFlag(t, f).flags = t.flags \cup {f}
          /\ WithFlag(t, f).type = t.type
          /\ WithFlag(t, f).cols = t.cols /\ WithFlag(t, f).rows = t.rows
          /\ WithFlag(u, f).flags = u.flags \cup {f}
          /\ WithFlag(u, f).type = u.type
          /\ WithFlag(u, f).cols = u.cols /\ WithFlag(u, f).rows = u.rows
      BY SaidWith
    <2>2. FlagsAre(t.flags \cup {f}, u.flags \cup {f}, lvl, l)
      <3>1. {} \subseteq {"ANSI_TERM"}
        OBVIOUS
      <3> QED
        BY <3>1, FlagsWith, Zenon
    <2>3. SameOptions(t.flags, t.flags \cup {f})
      BY DEF SameOptions, AllOptions
    <2>4. t.cols = u.cols /\ t.rows = u.rows
      BY <1>6
    <2> HIDE DEF v
    <2>5. FieldsAre(WithFlag(t, f), WithFlag(u, f), lvl, l)
      BY <2>1, <2>2, <2>4 DEF FieldsAre
    <2> QED
      BY <2>1, <2>3, <2>5
  <1>7. ~s5 => Right(typed(t), typed(u))
    <2> SUFFICES ASSUME ~s5 PROVE Right(typed(t), typed(u))
      OBVIOUS
    <2>1. \A x \in Telnets : /\ typed(x).flags = x.flags \cup {"TERMTYPE"}
                             /\ typed(x).type = Unresolved
                             /\ typed(x).cols = x.cols /\ typed(x).rows = x.rows
      BY DEF WithFlag, Telnets
    <2>2. FlagsAre(t.flags \cup {"TERMTYPE"}, u.flags \cup {"TERMTYPE"}, lvl, l)
      <3>1. {} \subseteq {"ANSI_TERM"}
        OBVIOUS
      <3> QED
        BY <3>1, FlagsWith, Zenon
    <2>3. SameOptions(t.flags, t.flags \cup {"TERMTYPE"})
      BY DEF SameOptions, AllOptions
    <2>4. t.cols = u.cols /\ t.rows = u.rows
      OBVIOUS
    <2> HIDE DEF v, typed
    <2>5. FieldsAre(typed(t), typed(u), lvl, l)
      BY <2>1, <2>2, <2>4 DEF FieldsAre
    <2> QED
      BY <2>1, <2>3, <2>5
  <1>8. /\ s1 \/ s2 \/ s3 \/ s4 => ~s5 /\ ~s6
        /\ ~(s5 /\ s6) /\ ~(s1 /\ s2) /\ ~(s3 /\ s4)
        /\ s1 \/ s2 => ~s3 /\ ~s4
    BY DEF WONT, DO, DONT, SGA, ECHO, NAWS, TERM
  <1> HIDE DEF s1, s2, s3, s4, s5, s6, typed, Right
  <1>9. Right(v(t, l), v(u, lvl))
    <2>1. ~s5 => /\ Right(echo(t), echo(u)) /\ Right(sga(t), sga(u))
                 /\ Right(sized(t), sized(u))
      BY <1>6
    <2> HIDE DEF echo, sga, sized
    <2>2. CASE s4
      <3>1. v(t, l) = echo(t) /\ v(u, lvl) = echo(u)
        BY <1>8, <2>2
      <3>2. Right(echo(t), echo(u))
        BY <1>8, <2>1, <2>2
      <3> HIDE DEF v
      <3> QED
        BY <3>1, <3>2
    <2>3. CASE ~s4 /\ s3
      <3>1. v(t, l) = sga(t) /\ v(u, lvl) = sga(u)
        BY <1>8, <2>3
      <3>2. Right(sga(t), sga(u))
        BY <1>8, <2>1, <2>3
      <3> HIDE DEF v
      <3> QED
        BY <3>1, <3>2
    <2>4. CASE ~s4 /\ ~s3 /\ s1
      <3>1. v(t, l) = sized(t) /\ v(u, lvl) = sized(u)
        BY <1>8, <2>4
      <3>2. Right(sized(t), sized(u))
        BY <1>8, <2>1, <2>4
      <3> HIDE DEF v
      <3> QED
        BY <3>1, <3>2
    <2>5. CASE ~s4 /\ ~s3 /\ ~s1 /\ s2
      <3>1. v(t, l) = typed(t) /\ v(u, lvl) = typed(u)
        BY <1>8, <2>5
      <3>2. Right(typed(t), typed(u))
        BY <1>7, <1>8, <2>5
      <3> HIDE DEF v
      <3> QED
        BY <3>1, <3>2
    <2>6. CASE ~s4 /\ ~s3 /\ ~s1 /\ ~s2 /\ s5
      <3>1. v(t, l) = SaidSize(t, tok, l) /\ v(u, lvl) = SaidSize(u, tok, lvl)
        BY <1>8, <2>6
      <3>2. Right(SaidSize(t, tok, l), SaidSize(u, tok, lvl))
        BY <1>2, <2>6
      <3> HIDE DEF v
      <3> QED
        BY <3>1, <3>2
    <2>7. CASE ~s4 /\ ~s3 /\ ~s1 /\ ~s2 /\ ~s5 /\ s6
      <3>1. v(t, l) = SaidType(t, tok) /\ v(u, lvl) = SaidType(u, tok)
        BY <1>8, <2>7
      <3>2. Right(SaidType(t, tok), SaidType(u, tok))
        BY <1>4, <2>7
      <3> HIDE DEF v
      <3> QED
        BY <3>1, <3>2
    <2>8. CASE ~s4 /\ ~s3 /\ ~s1 /\ ~s2 /\ ~s5 /\ ~s6
      <3>1. v(t, l) = t /\ v(u, lvl) = u
        BY <2>8
      <3>2. Right(t, u)
        BY <1>5, <2>8
      <3> HIDE DEF v
      <3> QED
        BY <3>1, <3>2
    <2> QED
      BY <2>2, <2>3, <2>4, <2>5, <2>6, <2>7, <2>8
  <1> HIDE DEF v
  <1>10. Right(SaidOption(t, tok, l), SaidOption(u, tok, lvl))
    BY <1>1, <1>9
  <1> QED
    BY <1>10 DEF Right

-----------------------------------------------------------------------------
(* Where the parser is.                                                    *)

LEMMA EncodedHead ==
    ASSUME NEW tok \in Tokens
    PROVE  LET e == Encoded(tok) IN
           /\ e \in Seq(Byte) /\ Len(e) \in Nat /\ Len(e) >= 1
           /\ tok.kind = "text" => Len(e) = 1 /\ e[1] = tok.byte
           /\ tok.kind # "text" => e[1] = IAC
  <1> DEFINE e == Encoded(tok)
  <1>1. e \in Seq(Byte) /\ Len(e) \in Nat
    BY EncodedType
  <1>2. CASE tok.kind = "text"
    <2>1. e = <<tok.byte>>
      BY <1>2, EncodedShort
    <2> QED
      BY <1>1, <1>2, <2>1
  <1>3. CASE tok.kind \in {"command", "option", "sub"}
    <2>1. \/ e = <<IAC, tok.byte>> \/ e = <<IAC, tok.verb, tok.option>>
          \/ e = <<IAC, SB, tok.option, IAC, SE>>
      BY <1>3, EncodedShort
    <2> HIDE DEF e
    <2>2. Len(e) >= 1 /\ e[1] = IAC
      BY <2>1
    <2> QED
      BY <1>1, <1>3, <2>2 DEF e
  <1>4. CASE tok.kind = "type"
    <2>1. Len(tok.name) \in Nat /\ Len(e) = Len(tok.name) + 6 /\ e[1] = IAC
      BY <1>4, EncodedName
    <2> HIDE DEF e
    <2>2. Len(e) >= 1
      BY <2>1
    <2> QED
      BY <1>1, <1>4, <2>1, <2>2 DEF e
  <1>5. CASE tok.kind = "size"
    <2>1. PICK c1, c2, r1, r2 \in Nat : IsSize(e, tok, c1, c2, r1, r2)
      BY <1>5, EncodedSize, Zenon
    <2>2. tok.tail \in Seq(Byte)
      BY <1>5, TokenFields
    <2> HIDE DEF e
    <2>3. e[1] = IAC /\ Len(e) = r2 + Len(tok.tail) /\ r2 = SkipIn(e, r1 + 1)
      BY <2>1 DEF IsSize
    <2>4. Len(e) >= 1
      <3>1. r2 = r1 + 1 \/ r2 = r1 + 1 + 1
        BY <2>3 DEF SkipIn
      <3>2. Len(tok.tail) \in Nat
        BY <2>2
      <3> QED
        BY <2>3, <3>1, <3>2
    <2> QED
      BY <1>1, <1>5, <2>3, <2>4 DEF e
  <1> QED
    BY <1>2, <1>3, <1>4, <1>5, TokenFields DEF Kinds

\* The token at a place that is not the end.
LEMMA NextToken ==
    ASSUME ScriptInv, NEW i \in 0..Len(script),
           Place(script, i) < Len(Bytes(script))
    PROVE  LET tok == script[i + 1]
               e == Encoded(tok)
           IN  /\ i < Len(script) /\ i + 1 \in 1..Len(script)
               /\ tok \in Tokens /\ Telnet(tok)
               /\ e \in Seq(Byte) /\ Len(e) \in Nat /\ Len(e) >= 1
               /\ Place(script, i) \in Nat
               /\ Place(script, i + 1) = Place(script, i) + Len(e)
               /\ \A k \in 1..Len(e) :
                        Bytes(script)[Place(script, i) + k] = e[k]
  <1> DEFINE n == Len(script)
             tok == script[i + 1]
             e == Encoded(tok)
             P(j) == Place(script, j)
             b == Bytes(script)
  <1>1. script \in Seq(Tokens) /\ n \in Nat /\ \A j \in 1..n : Telnet(script[j])
    BY DEF ScriptInv
  <1>2. P(n) = Len(b) /\ \A j \in 0..n : P(j) \in Nat
    BY <1>1, PlaceFacts
  <1>3. i # n
    BY <1>2
  <1>4. i < n /\ i + 1 \in 1..n /\ (i + 1) - 1 = i
    BY <1>1, <1>3
  <1>5. tok \in Tokens /\ Telnet(tok)
    BY <1>1, <1>4
  <1>6. /\ P(i + 1) = P((i + 1) - 1) + Len(e)
        /\ \A k \in 1..Len(e) : b[P((i + 1) - 1) + k] = e[k]
    BY <1>1, <1>4, PlaceFacts
  <1>7. e \in Seq(Byte) /\ Len(e) \in Nat /\ Len(e) >= 1
    BY <1>5, EncodedHead
  <1> HIDE DEF n, tok, e, P, b
  <1>8. P(i + 1) = P(i) + Len(e) /\ \A k \in 1..Len(e) : b[P(i) + k] = e[k]
    BY <1>4, <1>6
  <1> QED
    BY <1>2, <1>4, <1>5, <1>7, <1>8 DEF n, tok, e, P, b

\* What is left of a number after a part of it.
LEMMA RestOfSum ==
    \A p, x, y, m, w \in Nat : \A a :
        a = m - w /\ a = p + x + y => m - w \in Nat /\ m - w <= m
  <1> SUFFICES ASSUME NEW p \in Nat, NEW x \in Nat, NEW y \in Nat,
                      NEW m \in Nat, NEW w \in Nat, m - w = p + x + y
               PROVE  m - w \in Nat /\ m - w <= m
    BY Zenon
  <1> QED
    OBVIOUS

LEMMA ParsedFacts ==
    ASSUME TypeInv, ScriptInv, NEW i \in 0..Len(script), NEW r \in {0, 2},
           ParsedUpto(i, r)
    PROVE  LET p == Place(script, i) - r
               b == Bytes(script)
           IN  /\ Place(script, i) \in Nat /\ p \in Nat /\ b \in Seq(Byte)
               /\ Len(b) \in Nat /\ Arrived \in Nat /\ Arrived <= Len(b)
               /\ tel.bpos \in Nat /\ len \in Nat /\ Len(tel.buff) \in Nat
               /\ Arrived = p + tel.bpos + len
               /\ tel.bpos <= Len(tel.buff) /\ tel \in Telnets
               /\ \A k \in 1..tel.bpos : tel.buff[k] = b[p + k]
               /\ r = 2 => /\ pc = "telopt" /\ tel.bpos >= 2
                           /\ tel.buff[1] = IAC /\ tel.buff[2] = SE
  <1> DEFINE p == Place(script, i) - r
             b == Bytes(script)
             n == Len(script)
  <1>1. script \in Seq(Tokens) /\ Pending(p)
    BY DEF ScriptInv, ParsedUpto
  <1>2. /\ n \in Nat /\ b \in Seq(Byte) /\ Len(b) \in Nat
        /\ Place(script, i) \in Nat
    BY <1>1, PlaceFacts
  <1>3. /\ tel \in Telnets /\ tel.bpos \in Nat /\ len \in Nat
        /\ Len(tel.buff) \in Nat /\ Len(wire) \in Nat
    BY TelnetFields DEF TypeInv, ReaderInv
  <1>4. /\ p + tel.bpos + len = Arrived /\ tel.bpos <= Len(tel.buff)
        /\ \A k \in 1..tel.bpos : tel.buff[k] = b[p + k]
    BY <1>1 DEF Pending
  <1>5. Arrived = Len(b) - Len(wire)
    BY DEF Arrived
  <1>6. r # 0 => /\ r = 2 /\ i >= 1 /\ Lame(script[i])
                 /\ pc = "telopt" /\ tel.bpos >= 2
    BY DEF ParsedUpto
  <1> HIDE DEF p, b
  <1>9. p \in Nat =>
            Arrived \in Nat /\ Arrived <= Len(b) /\ Arrived = p + tel.bpos + len
    <2> SUFFICES ASSUME p \in Nat
                 PROVE  /\ Arrived \in Nat /\ Arrived <= Len(b)
                        /\ Arrived = p + tel.bpos + len
      OBVIOUS
    <2>1. /\ Len(b) \in Nat /\ Len(wire) \in Nat /\ tel.bpos \in Nat
          /\ len \in Nat /\ Arrived = Len(b) - Len(wire)
          /\ Arrived = p + tel.bpos + len
      BY <1>2, <1>3, <1>4, <1>5, Zenon
    <2>2. Len(b) - Len(wire) \in Nat /\ Len(b) - Len(wire) <= Len(b)
      BY <2>1, RestOfSum, Zenon
    <2> QED
      BY <2>1, <2>2, Zenon
  <1>7. CASE r = 0
    <2>1. p \in Nat
      BY <1>2, <1>7 DEF p
    <2>2. Arrived \in Nat /\ Arrived <= Len(b) /\ Arrived = p + tel.bpos + len
      BY <1>9, <2>1, Zenon
    <2> QED
      BY <1>2, <1>3, <1>4, <1>7, <2>1, <2>2 DEF p, b
  <1>8. CASE r = 2
    <2> DEFINE tok == script[i]
               e == Encoded(tok)
               q == Place(script, i - 1)
    <2>1. i \in 1..n /\ i - 1 \in 0..n /\ Lame(tok) /\ tel.bpos >= 2
          /\ pc = "telopt"
      BY <1>2, <1>6, <1>8
    <2>2. tok \in Tokens /\ Telnet(tok) /\ tok.kind = "type" /\ tok.is # IS
      BY <1>1, <2>1 DEF ScriptInv, Lame
    <2>3. tok.name = <<>>
      BY <2>2 DEF Telnet
    <2>4. Len(e) = 6 /\ e[5] = IAC /\ e[6] = SE
      <3>1. LET m == Len(tok.name) IN
            m = 0 /\ Len(e) = m + 6 /\ e[m + 5] = IAC /\ e[m + 6] = SE
        BY <2>2, <2>3, EncodedName
      <3> QED
        BY <3>1
    <2>5. /\ q \in Nat /\ Place(script, i) = q + Len(e)
          /\ \A k \in 1..Len(e) : b[q + k] = e[k]
      BY <1>1, <2>1, PlaceFacts DEF b
    <2> HIDE DEF tok, e, q
    <2>6. p \in Nat /\ p + 1 = q + 5 /\ p + 2 = q + 6 /\ 5 \in 1..Len(e) /\ 6 \in 1..Len(e)
      BY <1>8, <2>4, <2>5 DEF p
    <2>7. b[p + 1] = IAC /\ b[p + 2] = SE
      BY <2>4, <2>5, <2>6
    <2>8. tel.buff[1] = IAC /\ tel.buff[2] = SE
      <3>1. 1 \in 1..tel.bpos /\ 2 \in 1..tel.bpos
        BY <1>3, <2>1
      <3> QED
        BY <1>4, <2>7, <3>1
    <2>9. Arrived \in Nat /\ Arrived <= Len(b) /\ Arrived = p + tel.bpos + len
      <3>1. p \in Nat
        BY <2>6
      <3> QED
        BY <1>9, <3>1, Zenon
    <2> QED
      BY <1>2, <1>3, <1>4, <2>1, <2>6, <2>8, <2>9 DEF p, b
  <1> QED
    BY <1>7, <1>8

\* An option at the front of buff is the next one that was said.
LEMMA NextOption ==
    ASSUME TypeInv, ScriptInv, CarefulEnd(Arrived),
           NEW i \in 0..Len(script), ParsedUpto(i, 0),
           pc = "telopt", tel.bpos > 0, At(tel.buff, 1) = IAC
    PROVE  /\ Place(script, i) < Len(Bytes(script))
           /\ CanRead(tel, script[i + 1])
  <1> DEFINE p == Place(script, i)
             b == Bytes(script)
             tok == script[i + 1]
             e == Encoded(tok)
             x == tel.bpos
  <1>1. /\ p \in Nat /\ Len(b) \in Nat /\ Arrived <= Len(b)
        /\ x \in Nat /\ Len(tel.buff) \in Nat /\ x <= Len(tel.buff)
        /\ Arrived = p + x + len
        /\ \A k \in 1..x : tel.buff[k] = b[p + k]
    <2> DEFINE q == p - 0
    <2>1. /\ p \in Nat /\ Len(b) \in Nat /\ Arrived <= Len(b)
          /\ x \in Nat /\ Len(tel.buff) \in Nat /\ x <= Len(tel.buff)
          /\ Arrived = q + x + len
          /\ \A k \in 1..x : tel.buff[k] = b[q + k]
      BY ParsedFacts
    <2>2. q = p
      BY <2>1
    <2> QED
      BY <2>1, <2>2
  <1>2. len = 0
    BY DEF ParsedUpto, Pending
  <1>3. p < Len(b) /\ Arrived = p + x /\ Arrived \in Nat
    BY <1>1, <1>2
  <1>4. /\ i < Len(script) /\ i + 1 \in 1..Len(script) /\ (i + 1) - 1 = i
        /\ tok \in Tokens /\ Telnet(tok)
        /\ e \in Seq(Byte) /\ Len(e) \in Nat /\ Len(e) >= 1
        /\ Place(script, i + 1) = p + Len(e)
        /\ \A k \in 1..Len(e) : b[p + k] = e[k]
    BY <1>3, NextToken
  <1> DEFINE j == i + 1
  <1>5. /\ tok.kind \in {"size", "type", "sub"} => Arrived # p + 2
        /\ tok.kind = "sub" => Arrived <= p
        /\ tok.kind = "size" /\ ~SetsSize(tok) =>
                Arrived \notin p + 9..(p + Len(e)) - 1
    <2>1. j \in 1..Len(script)
      BY <1>4
    <2>2. Place(script, j - 1) = p /\ Place(script, j) = p + Len(e)
      BY <1>4
    <2> QED
      BY <2>1, <2>2 DEF CarefulEnd
  <1>6. tok.kind = "type" /\ tok.name # <<>> /\ tok.is = IS
            /\ p + Len(e) <= Arrived => p + Len(e) = Arrived
    <2>1. NamesLast(i)
      BY DEF ParsedUpto
    <2>2. j \in i + 1..Len(script) /\ Place(script, j) = p + Len(e)
      BY <1>4
    <2> QED
      BY <2>1, <2>2 DEF NamesLast
  <1>7. e[1] = IAC /\ \A k \in 1..Len(e) : k <= x => tel.buff[k] = e[k]
    <2>1. \A k \in 1..Len(e) : k <= x => tel.buff[k] = e[k]
      <3> TAKE k \in 1..Len(e)
      <3> HAVE k <= x
      <3>1. k \in 1..x
        BY <1>1, <1>4
      <3> QED
        BY <1>1, <1>4, <3>1
    <2>2. 1 \in 1..Len(e) /\ 1 <= x
      BY <1>1, <1>4
    <2>3. tel.buff[1] = IAC
      BY <1>1 DEF At
    <2> QED
      BY <2>1, <2>2, <2>3
  <1>8. tok.kind # "text"
    <2>1. tok.kind = "text" => e[1] = tok.byte /\ tok.byte # IAC
      BY <1>4, EncodedHead DEF Telnet
    <2> QED
      BY <1>7, <2>1
  <1> HIDE DEF p, b, tok, e, x
  <1>9. tok.kind # "sub" /\ (tok.kind \in {"size", "type"} => x # 2)
    BY <1>1, <1>3, <1>5 DEF x
  <1>10. tok.kind = "size" /\ ~SetsSize(tok) => x \notin 9..Len(e) - 1
    <2> SUFFICES ASSUME tok.kind = "size", ~SetsSize(tok), x \in 9..Len(e) - 1
                 PROVE  FALSE
      OBVIOUS
    <2>1. Arrived \in p + 9..(p + Len(e)) - 1
      BY <1>1, <1>3, <1>4
    <2> QED
      BY <1>5, <2>1
  <1>11. tok.kind = "type" /\ tok.name # <<>> /\ tok.is = IS => x <= Len(e)
    <2>1. ~(p + Len(e) <= Arrived) => x <= Len(e)
      BY <1>1, <1>3, <1>4
    <2>2. p + Len(e) = Arrived => x <= Len(e)
      BY <1>1, <1>3, <1>4
    <2> QED
      BY <1>6, <2>1, <2>2
  <1>12. Begins(tel, e)
    BY <1>1, <1>7 DEF Begins, x
  <1>13. CanRead(tel, tok)
    BY <1>4, <1>8, <1>9, <1>10, <1>11, <1>12, Zenon DEF CanRead, e, x
  <1> QED
    BY <1>3, <1>13 DEF p, b, tok

-----------------------------------------------------------------------------
(* The invariant holds at first.                                           *)

LEMMA InitScript == SpeaksTelnet /\ Init => ScriptInv
  <1> SUFFICES ASSUME SpeaksTelnet, Init PROVE ScriptInv
    OBVIOUS
  <1>1. PICK s \in Sessions : script = s.script
    BY DEF Init
  <1>2. s.script \in Seq(Tokens)
    BY InputAssumption
  <1>3. \A j \in 1..Len(script) : Telnet(script[j])
    <2> TAKE j \in 1..Len(script)
    <2>1. j \in DOMAIN s.script
      BY <1>1, <1>2
    <2> QED
      BY <1>1, <2>1 DEF SpeaksTelnet
  <1> QED
    BY <1>1, <1>2, <1>3 DEF ScriptInv

LEMMA InitParsed ==
    ASSUME Init, TypeInv, ScriptInv
    PROVE  ParsedInv
  <1> DEFINE b == Bytes(script)
             n == Len(script)
  <1>1. /\ script \in Seq(Tokens) /\ n \in Nat
        /\ b \in Seq(Byte) /\ Len(b) \in Nat
        /\ Place(script, 0) = 0 /\ Place(script, n) = Len(b)
        /\ \A j \in 0..n : Place(script, j) \in Nat
    <2>1. script \in Seq(Tokens)
      BY DEF ScriptInv
    <2> QED
      BY <2>1, PlaceFacts
  <1>2. /\ wire = b /\ pc = "idle" /\ len = 0 /\ tel = NewTelnet
        /\ text[buffnum] = <<>> /\ tbpos = 0 /\ lines = <<>>
    BY DEF Init
  <1>3. Arrived = 0
    BY <1>1, <1>2 DEF Arrived
  <1>4. CarefulEnd(0)
    <2> SUFFICES ASSUME NEW j \in 1..n
                 PROVE  LET t == script[j]
                            from == Place(script, j - 1)
                            to == Place(script, j)
                        IN  /\ t.kind \in {"size", "type", "sub"} => 0 # from + 2
                            /\ t.kind = "sub" => 0 <= from
                            /\ t.kind = "size" /\ ~SetsSize(t) =>
                                    0 \notin from + 9..to - 1
      BY Zenon DEF CarefulEnd
    <2> DEFINE from == Place(script, j - 1)
               to == Place(script, j)
    <2>1. from \in Nat /\ to \in Nat
      BY <1>1
    <2> HIDE DEF from, to
    <2>2. 0 # from + 2 /\ 0 <= from /\ 0 \notin from + 9..to - 1
      BY <2>1
    <2> QED
      BY <2>2 DEF from, to
  <1>5. /\ tel.flags = {} /\ tel.bpos = 0 /\ tel.type = <<>> /\ tel.buff = <<>>
        /\ tel.cols = NewTelnet.cols /\ tel.rows = NewTelnet.rows
    BY <1>2 DEF NewTelnet
  <1>6. GotAll
    BY <1>5 DEF GotAll, AllOptions
  <1>7. Pending(0)
    <2>1. b = SubSeq(b, 1, Len(b))
      BY <1>1, SubSeqFull
    <2>2. wire = SubSeq(b, Arrived + 1, Len(b))
      <3>1. Arrived + 1 = 1
        BY <1>3
      <3> HIDE DEF b
      <3> QED
        BY <1>2, <2>1, <3>1
    <2>3. 0 + tel.bpos + len = Arrived /\ tel.bpos <= Len(tel.buff)
          /\ \A k \in 1..tel.bpos : tel.buff[k] = b[0 + k]
      BY <1>2, <1>3, <1>5
    <2> QED
      BY <1>2, <2>2, <2>3 DEF Pending
  <1>8. 0 < n => Place(script, 1) > Arrived
    <2> SUFFICES ASSUME 0 < n PROVE Place(script, 1) > Arrived
      OBVIOUS
    <2>1. 1 \in 1..n /\ 1 - 1 = 0
      BY <1>1
    <2>2. script[1] \in Tokens
      BY <1>1, <2>1
    <2>3. Place(script, 1) = Place(script, 1 - 1) + Len(Encoded(script[1]))
      BY <1>1, <2>1, PlaceFacts
    <2>4. Len(Encoded(script[1])) \in Nat /\ Len(Encoded(script[1])) >= 1
      BY <2>2, EncodedHead
    <2> QED
      BY <1>1, <1>3, <2>1, <2>3, <2>4
  <1>9. Meant(0, 0)
    <2> SUFFICES ASSUME NEW lvl \in {"LOGIN", "NOVICE"}
                 PROVE  MeantFor(0, 0, lvl)
      BY DEF Meant
    <2> DEFINE m == MeaningUpto(script, lvl)[0]
    <2>1. m = NothingSaid
      BY <1>1, MeaningUptoFacts
    <2>2. /\ m.lines = <<>> /\ m.typed = <<>> /\ m.t = NewTelnet
      BY <2>1 DEF NothingSaid
    <2>3. Line = <<>>
      BY <1>2 DEF Line
    <2>4. FlagsAre(tel.flags, m.t.flags, lvl, level)
      BY <1>5, <2>2 DEF NewTelnet, FlagsAre
    <2>5. tel.type = m.t.type /\ tel.cols = m.t.cols /\ tel.rows = m.t.rows
      BY <1>2, <2>2
    <2> QED
      BY <1>2, <2>2, <2>3, <2>4, <2>5 DEF MeantFor
  <1>10. ParsedUpto(0, 0)
    <2>1. Pending(Place(script, 0) - 0)
      BY <1>1, <1>7
    <2>2. pc = "idle" /\ 0 < Len(script) => Place(script, 0 + 1) > Arrived
      BY <1>8
    <2> QED
      BY <1>2, <1>9, <2>1, <2>2 DEF ParsedUpto
  <1>11. 0 \in 0..Len(script) /\ 0 \in {0, 2}
    BY <1>1
  <1> QED
    BY <1>3, <1>4, <1>6, <1>10, <1>11, Zenon DEF ParsedInv

-----------------------------------------------------------------------------
(* A packet.                                                               *)

\* What is left of a sequence behind its first k elements.
LEMMA RestOf ==
    ASSUME NEW w \in Seq(Byte), NEW k \in Nat, k <= Len(w)
    PROVE  /\ SubSeq(w, k + 1, Len(w)) \in Seq(Byte)
           /\ Len(SubSeq(w, k + 1, Len(w))) = Len(w) - k
           /\ \A j \in 1..Len(w) - k : SubSeq(w, k + 1, Len(w))[j] = w[k + j]
  <1> DEFINE m == Len(w)
             x == k + 1
             u == SubSeq(w, x, m)
  <1>1. m \in Nat /\ m <= Len(w) /\ x \in Nat /\ x = k + 1 /\ x >= 1 /\ k <= m
    OBVIOUS
  <1> HIDE DEF m, x
  <1>2. /\ u \in Seq(Byte) /\ Len(u) = IF x <= m THEN m - x + 1 ELSE 0
        /\ \A j \in 1..m - x + 1 : u[j] = w[x + j - 1]
    BY <1>1, SubSeqType
  <1> HIDE DEF u
  <1>3. Len(u) = m - k
    BY <1>1, <1>2
  <1>4. ASSUME NEW j \in 1..m - k PROVE u[j] = w[k + j]
    <2>1. j \in 1..m - x + 1 /\ x + j - 1 = k + j
      BY <1>1
    <2>2. u[j] = w[x + j - 1]
      BY <1>2, <2>1
    <2> QED
      BY <2>1, <2>2
  <1> QED
    BY <1>2, <1>3, <1>4 DEF u, m, x

\* The last part of a last part.
LEMMA PartOfPart ==
    ASSUME NEW b \in Seq(Byte), NEW a \in Nat, a <= Len(b), NEW k \in Nat,
           k <= Len(b) - a
    PROVE  LET w == SubSeq(b, a + 1, Len(b)) IN
           /\ SubSeq(w, k + 1, Len(w)) = SubSeq(b, a + k + 1, Len(b))
           /\ Len(w) = Len(b) - a
           /\ Len(SubSeq(w, k + 1, Len(w))) = Len(w) - k
           /\ \A j \in 1..Len(w) : w[j] = b[a + j]
  <1> DEFINE n == Len(b)
             w == SubSeq(b, a + 1, n)
             m == Len(w)
             c == a + k
             u == SubSeq(w, k + 1, m)
             v == SubSeq(b, c + 1, n)
  <1>1. n \in Nat /\ a <= n /\ k <= n - a /\ c \in Nat /\ c = a + k /\ c <= n
    OBVIOUS
  <1> HIDE DEF c
  <1>2. w \in Seq(Byte) /\ m = n - a /\ \A j \in 1..n - a : w[j] = b[a + j]
    BY RestOf
  <1>3. v \in Seq(Byte) /\ Len(v) = n - c /\ \A j \in 1..n - c : v[j] = b[c + j]
    BY <1>1, RestOf
  <1> HIDE DEF n, w, v
  <1>4. m \in Nat /\ k <= m
    BY <1>1, <1>2
  <1>5. u \in Seq(Byte) /\ Len(u) = m - k /\ \A j \in 1..m - k : u[j] = w[k + j]
    BY <1>2, <1>4, RestOf
  <1> HIDE DEF u, m
  <1>6. m - k = n - c
    BY <1>1, <1>2
  <1>7. ASSUME NEW j \in 1..Len(u) PROVE u[j] = v[j]
    <2> DEFINE i == k + j
    <2>1. /\ j \in 1..m - k /\ j \in 1..n - c /\ i \in 1..n - a /\ a + i = c + j
      BY <1>1, <1>2, <1>4, <1>5, <1>6
    <2>2. u[j] = w[i] /\ v[j] = b[c + j]
      BY <1>3, <1>5, <2>1
    <2> HIDE DEF i
    <2>3. w[i] = b[a + i]
      BY <1>2, <2>1
    <2> QED
      BY <2>1, <2>2, <2>3
  <1>8. u = v
    BY <1>3, <1>5, <1>6, <1>7, SeqEqual
  <1>9. /\ u = v /\ m = n - a /\ Len(u) = m - k
        /\ \A j \in 1..m : w[j] = b[a + j]
    BY <1>2, <1>5, <1>8
  <1> QED
    BY <1>1, <1>9, Zenon DEF u, v, w, n, m, c

\* The parts of the invariant that no step but Packet changes.
LEMMA ArrivedStays ==
    ASSUME UNCHANGED <<script, wire>>
    PROVE  /\ Arrived' = Arrived
           /\ CarefulEnd(Arrived) => CarefulEnd(Arrived)'
           /\ \A i : NamesLast(i) => NamesLast(i)'
           /\ ScriptInv => ScriptInv'
  BY DEF Arrived, CarefulEnd, NamesLast, ScriptInv

\* The meaning is of the options and the lines.
LEMMA MeantStays ==
    ASSUME UNCHANGED <<script, text, buffnum, tbpos, lines, level>>,
           tel'.type = tel.type, tel'.flags = tel.flags,
           tel'.cols = tel.cols, tel'.rows = tel.rows
    PROVE  \A i, r : Meant(i, r) => Meant(i, r)'
  BY DEF Meant, MeantFor, SizeNext, Line

LEMMA PacketParsed ==
    ASSUME TypeInv, ScriptInv, ParsedInv, NEW k \in 1..Len(wire), Packet(k),
           careful'
    PROVE  ParsedInv' /\ pc' = "loop"
  <1>1. PICK i \in 0..Len(script), r \in {0, 2} : ParsedUpto(i, r)
    BY DEF ParsedInv
  <1>2. r = 0 /\ pc = "idle"
    BY <1>1 DEF ParsedUpto, Packet
  <1> DEFINE p == Place(script, i)
             b == Bytes(script)
             n == Len(script)
             x == tel.bpos
             a == Arrived
             w == wire
  <1>3. /\ p \in Nat /\ b \in Seq(Byte) /\ Len(b) \in Nat
        /\ a \in Nat /\ a <= Len(b) /\ x \in Nat /\ x <= Len(tel.buff)
        /\ len \in Nat /\ Arrived = p - 0 + x + len
        /\ \A j \in 1..x : tel.buff[j] = b[p - 0 + j]
    BY <1>1, <1>2, ParsedFacts
  <1>4. len = 0 /\ w = SubSeq(b, a + 1, Len(b))
    BY <1>1, <1>2 DEF ParsedUpto, Pending
  <1>5. a = p + x /\ \A j \in 1..x : tel.buff[j] = b[p + j]
    <2> HIDE DEF p, b, n, x, a, w
    <2>1. p - 0 = p
      <3>1. p \in Nat
        BY <1>3
      <3> QED
        BY <3>1
    <2>2. a = p - 0 + x + 0
      BY <1>3, <1>4 DEF a
    <2>3. a = p + x
      <3>1. x \in Nat /\ p \in Nat
        BY <1>3
      <3> QED
        BY <2>1, <2>2, <3>1
    <2> QED
      BY <1>3, <2>1, <2>3
  <1>6. /\ w \in Seq(Byte) /\ Len(w) \in Nat /\ k \in Nat /\ k <= Len(w)
        /\ Len(w) = Len(b) - a
    BY <1>3 DEF Arrived, TypeInv, ReaderInv
  <1>7. UNCHANGED <<script, tel, text, buffnum, tbpos, lines, level>>
    BY DEF Packet, editor
  <1> DEFINE ww == wire'
             aa == Arrived'
             in == input'
             s == SubSeq(w, 1, k)
  <1>8. /\ ww = SubSeq(w, k + 1, Len(w)) /\ len' = k /\ pc' = "loop"
        /\ CarefulPacket(Len(b) - Len(ww), k)
        /\ in = Append(IF k >= MaxSize THEN <<>> ELSE s, NUL)
    BY DEF Packet
  <1>9. aa = Len(b) - Len(ww)
    BY <1>7 DEF Arrived
  <1>10. MaxSize \in Nat
    BY InputAssumption
  <1> HIDE DEF p, b, n, x, a, w, ww, aa, in
  <1>11. /\ ww = SubSeq(b, a + k + 1, Len(b)) /\ Len(ww) = Len(w) - k
         /\ \A j \in 1..Len(w) : w[j] = b[a + j]
    <2>1. b \in Seq(Byte) /\ a \in Nat /\ k \in Nat /\ a <= Len(b)
      BY <1>3, <1>6
    <2>2. k <= Len(b) - a
      <3>1. k <= Len(w) /\ Len(w) = Len(b) - a
        BY <1>6
      <3> QED
        BY <3>1
    <2>3. LET v == SubSeq(b, a + 1, Len(b)) IN
          /\ SubSeq(v, k + 1, Len(v)) = SubSeq(b, a + k + 1, Len(b))
          /\ Len(SubSeq(v, k + 1, Len(v))) = Len(v) - k
          /\ \A j \in 1..Len(v) : v[j] = b[a + j]
      BY <2>1, <2>2, PartOfPart, Zenon
    <2> QED
      BY <1>4, <1>8, <2>3, Zenon
  <1>12. aa = a + k
    <2>1. /\ aa = Len(b) - Len(ww) /\ Len(ww) = Len(w) - k
          /\ Len(w) = Len(b) - a
      BY <1>6, <1>9, <1>11
    <2>2. Len(b) \in Nat /\ Len(w) \in Nat /\ a \in Nat /\ k \in Nat
      BY <1>3, <1>6
    <2> HIDE DEF s
    <2> QED
      BY <2>1, <2>2
  <1>13. /\ s \in Seq(Byte) /\ Len(s) = k /\ \A j \in 1..k : s[j] = b[a + j]
    <2>1. /\ s \in Seq(Byte)
          /\ Len(s) = IF 1 <= k THEN k - 1 + 1 ELSE 0
          /\ \A j \in 1..k - 1 + 1 : s[j] = w[1 + j - 1]
      <3>1. 1 \in Nat /\ 1 >= 1
        OBVIOUS
      <3> QED
        BY <1>6, <3>1, SubSeqType
    <2> HIDE DEF s
    <2>2. ASSUME NEW j \in 1..k PROVE s[j] = b[a + j]
      <3>1. j \in 1..k - 1 + 1 /\ 1 + j - 1 = j /\ j \in 1..Len(w)
        BY <1>6
      <3>2. s[j] = w[1 + j - 1]
        BY <2>1, <3>1
      <3> QED
        BY <1>11, <3>1, <3>2
    <2>3. Len(s) = k
      BY <1>6, <2>1
    <2> QED
      BY <2>1, <2>2, <2>3
  <1> HIDE DEF s
  <1>14. k < MaxSize
    BY <1>8 DEF CarefulPacket
  <1>15. Len(in) = k + 1 /\ \A j \in 1..k : in[j] = b[a + j]
    <2>1. in = Append(s, NUL)
      <3>1. ~(k >= MaxSize)
        BY <1>6, <1>10, <1>14
      <3> QED
        BY <1>8, <3>1, Zenon DEF s
    <2>2. Len(in) = k + 1 /\ \A j \in 1..k : in[j] = s[j]
      BY <1>6, <1>13, <2>1
    <2> QED
      BY <1>13, <2>2
  <1>16. Pending(p - 0)'
    <2>1. (p - 0)' = p
      BY <1>3, <1>7 DEF p
    <2>2. /\ wire' = SubSeq(b, Arrived' + 1, Len(b))
          /\ p + x + k = Arrived'
      <3>1. /\ ww = SubSeq(b, aa + 1, Len(b)) /\ p + x + k = aa
        BY <1>3, <1>5, <1>6, <1>11, <1>12
      <3> QED
        BY <3>1 DEF ww, aa
    <2>3. Len(input') = k + 1 /\ \A j \in 1..k : input'[j] = b[p + x + j]
      BY <1>5, <1>15 DEF in
    <2>4. b' = b /\ tel' = tel /\ len' = k /\ pc' = "loop"
      BY <1>7, <1>8 DEF b
    <2>5. k > 0
      BY <1>6
    <2> QED
      BY <1>3, <1>5, <2>1, <2>2, <2>3, <2>4, <2>5 DEF Pending, b, x
  <1>17. NamesLast(i)'
    <2> SUFFICES ASSUME NEW j \in i + 1..n
                 PROVE  LET t == script[j] IN
                        t.kind = "type" /\ t.name # <<>> /\ t.is = IS
                            /\ Place(script, j) <= aa => Place(script, j) = aa
      BY <1>7, Zenon DEF NamesLast, n, aa
    <2> DEFINE t == script[j]
               from == Place(script, j - 1)
               to == Place(script, j)
               named == t.kind = "type" /\ t.name # <<>> /\ t.is = IS
    <2>1. /\ n \in Nat /\ i \in 0..n /\ i + 1 \in 1..n /\ j \in 1..n
          /\ i + 1 \in 0..n /\ j \in 0..n /\ i < n /\ i + 1 <= j
      <3>1. n \in Nat /\ i \in 0..n
        BY DEF n, ScriptInv
      <3> QED
        BY <3>1
    <2>2. /\ Place(script, i + 1) \in Nat /\ to \in Nat
          /\ Place(script, i + 1) <= to
      <3>1. script \in Seq(Tokens)
        BY DEF ScriptInv
      <3> QED
        BY <2>1, <3>1, PlaceFacts DEF n
    <2>3. Place(script, i + 1) > a
      BY <1>1, <1>2, <2>1 DEF ParsedUpto, n, a
    <2>4. named => ~(aa - k < to /\ to < aa)
      <3>1. j \in DOMAIN script
        BY <2>1 DEF n, ScriptInv
      <3>2. CarefulPacket(aa, k)
        BY <1>8, <1>9
      <3> QED
        BY <3>1, <3>2 DEF CarefulPacket, Place
    <2> HIDE DEF to, named
    <2>5. named /\ to <= aa => to = aa
      <3>1. /\ a \in Nat /\ k \in Nat /\ aa = a + k
            /\ to \in Nat /\ Place(script, i + 1) \in Nat
        BY <1>3, <1>6, <1>12, <2>2
      <3>2. to > aa - k
        BY <2>2, <2>3, <3>1
      <3> QED
        BY <2>4, <3>1, <3>2
    <2> QED
      BY <2>5, Zenon DEF named, to
  <1>18. CarefulEnd(Arrived)'
    <2>1. CarefulPacket(aa, k) /\ script \in Seq(Tokens)
      BY <1>8, <1>9 DEF ScriptInv
    <2>2. CarefulEnd(aa)
      <3> SUFFICES ASSUME NEW j \in 1..Len(script)
                   PROVE  LET t == script[j]
                              from == Place(script, j - 1)
                              to == Place(script, j)
                          IN  /\ t.kind \in {"size", "type", "sub"} =>
                                    aa # from + 2
                              /\ t.kind = "sub" => aa <= from
                              /\ t.kind = "size" /\ ~SetsSize(t) =>
                                    aa \notin from + 9..to - 1
        BY Zenon DEF CarefulEnd
      <3>1. j \in DOMAIN script
        BY <2>1
      <3> QED
        BY <2>1, <3>1, Zenon DEF CarefulPacket, Place
    <2> QED
      BY <1>7, <2>2, Zenon DEF CarefulEnd, aa
  <1>19. GotAll'
    <2>1. GotAll
      BY DEF ParsedInv
    <2> QED
      BY <1>2, <1>7, <1>8, <2>1 DEF GotAll
  <1>20. Meant(i, 0)'
    <2>1. Meant(i, 0)
      BY <1>1, <1>2 DEF ParsedUpto
    <2> QED
      BY <1>7, <2>1, MeantStays
  <1>21. ParsedUpto(i, 0)'
    <2>1. Pending(Place(script, i) - 0)'
      BY <1>16 DEF p
    <2> QED
      BY <1>8, <1>17, <1>20, <2>1 DEF ParsedUpto
  <1> QED
    BY <1>7, <1>8, <1>18, <1>19, <1>21 DEF ParsedInv

-----------------------------------------------------------------------------
(* The steps that read no token.                                           *)

\* A token has bytes.
LEMMA NextPlace ==
    ASSUME ScriptInv, NEW i \in 0..Len(script), i < Len(script)
    PROVE  /\ i + 1 \in 0..Len(script) /\ script[i + 1] \in Tokens
           /\ Place(script, i) \in Nat
           /\ Place(script, i + 1) \in Nat
           /\ Place(script, i + 1) > Place(script, i)
  <1> DEFINE j == i + 1
             e == Encoded(script[j])
  <1>1. script \in Seq(Tokens) /\ Len(script) \in Nat
    BY DEF ScriptInv
  <1>2. j \in 1..Len(script) /\ j \in 0..Len(script) /\ j - 1 = i
    BY <1>1
  <1>3. script[j] \in Tokens
    BY <1>1, <1>2
  <1>4. Len(e) \in Nat /\ Len(e) >= 1
    BY <1>3, EncodedHead
  <1> HIDE DEF j, e
  <1>5. /\ Place(script, i) \in Nat /\ Place(script, j) \in Nat
        /\ Place(script, j) = Place(script, j - 1) + Len(e)
    BY <1>1, <1>2, PlaceFacts DEF e
  <1>6. Place(script, j) > Place(script, i)
    BY <1>2, <1>4, <1>5
  <1> QED
    BY <1>2, <1>3, <1>5, <1>6 DEF j

\* While no packet comes, the invariant is about the parser.
LEMMA ParsedStays ==
    ASSUME ParsedInv, UNCHANGED <<script, wire>>, GotAll',
           NEW i \in 0..Len(script), NEW r \in {0, 2}, ParsedUpto(i, r)'
    PROVE  ParsedInv'
  <1>1. CarefulEnd(Arrived)'
    BY ArrivedStays DEF ParsedInv
  <1>2. i \in 0..Len(script')
    OBVIOUS
  <1> QED
    BY <1>1, <1>2 DEF ParsedInv

\* At the loop all of the tokens read is read, and buff has something only
\* when input has.
LEMMA AtLoop ==
    ASSUME TypeInv, ScriptInv, ParsedInv, pc = "loop"
    PROVE  \E i \in 0..Len(script) :
              /\ ParsedUpto(i, 0) /\ NamesLast(i) /\ Meant(i, 0)
              /\ Pending(Place(script, i))
  <1>1. PICK i \in 0..Len(script), r \in {0, 2} : ParsedUpto(i, r)
    BY DEF ParsedInv
  <1>2. r = 0
    BY <1>1 DEF ParsedUpto
  <1>3. Place(script, i) \in Nat
    BY <1>1, ParsedFacts
  <1>4. Place(script, i) - 0 = Place(script, i)
    BY <1>3
  <1>5. NamesLast(i) /\ Meant(i, 0) /\ Pending(Place(script, i) - 0)
    BY <1>1, <1>2 DEF ParsedUpto
  <1> QED
    BY <1>1, <1>2, <1>4, <1>5

\* It is enough to have the place.
LEMMA ParsedThere ==
    ASSUME ScriptInv, UNCHANGED <<script, wire>>,
           NEW i \in 0..Len(script), Pending(Place(script, i))',
           NamesLast(i), Meant(i, 0)',
           pc' = "idle" /\ i < Len(script) => Place(script, i + 1) > Arrived
    PROVE  ParsedUpto(i, 0)'
  <1>1. script \in Seq(Tokens)
    BY DEF ScriptInv
  <1>2. Place(script, i) \in Nat
    BY <1>1, PlaceFacts
  <1>3. Place(script', i) - 0 = Place(script', i)
    BY <1>2
  <1>4. Pending(Place(script, i) - 0)'
    BY <1>3
  <1>5. NamesLast(i)'
    BY ArrivedStays
  <1>6. (pc = "idle" /\ i < Len(script) => Place(script, i + 1) > Arrived)'
    BY ArrivedStays
  <1> QED
    BY <1>4, <1>5, <1>6 DEF ParsedUpto

LEMMA EndPacketParsed ==
    ASSUME TypeInv, ScriptInv, ParsedInv, EndPacket
    PROVE  ParsedInv'
  <1>1. PICK i \in 0..Len(script) :
            /\ ParsedUpto(i, 0) /\ NamesLast(i) /\ Meant(i, 0)
            /\ Pending(Place(script, i))
    BY AtLoop DEF EndPacket
  <1>2. /\ UNCHANGED <<script, wire, len, tel, text, buffnum, tbpos, lines, level>>
        /\ len = 0 /\ pc = "loop" /\ pc' = "idle"
    BY DEF EndPacket, editor
  <1>3. tel.bpos = 0 /\ tel.bpos \in Nat
    <2>1. tel.bpos \in Nat
      BY <1>1, ParsedFacts
    <2>2. ~(tel.bpos > 0)
      BY <1>1, <1>2 DEF Pending
    <2> QED
      BY <2>1, <2>2
  <1>4. Pending(Place(script, i))'
    BY <1>1, <1>2, <1>3, ArrivedStays DEF Pending
  <1>5. Meant(i, 0)'
    BY <1>1, <1>2, MeantStays
  <1>6. i < Len(script) => Place(script, i + 1) > Arrived
    <2>1. Place(script, i) + 0 + 0 = Arrived
      BY <1>1, <1>2, <1>3 DEF Pending
    <2>2. Place(script, i) \in Nat
      BY <1>1, ParsedFacts
    <2>3. Place(script, i) = Arrived
      BY <2>1, <2>2
    <2> QED
      BY <2>3, NextPlace
  <1>7. ParsedUpto(i, 0)'
    BY <1>1, <1>2, <1>4, <1>5, <1>6, ParsedThere
  <1>8. GotAll'
    BY <1>2, <1>3 DEF ParsedInv, GotAll
  <1> QED
    BY <1>2, <1>7, <1>8, ParsedStays

\* What buff is after Stash: the n bytes in front of the zero of w stand
\* behind the first x of u.
IsStashed(s, u, w, x, n) ==
    /\ s \in Seq(Byte) /\ Len(s) \in Nat /\ Len(s) >= x + n
    /\ \A k \in 1..x : s[k] = u[k]
    /\ \A k \in 1..n : s[x + k] = w[k]

LEMMA StashedBytes ==
    ASSUME NEW u \in Seq(Byte), NEW w \in Seq(Byte), NEW x \in Nat,
           NEW n \in Nat, x <= Len(u), Len(w) = n + 1
    PROVE  IsStashed(
                SubSeq(u, 1, x) \o Front(w) \o SubSeq(u, x + n + 1, Len(u)),
                u, w, x, n)
  <1> DEFINE a == SubSeq(u, 1, x)
             f == Front(w)
             m == x + n + 1
             l == Len(u)
             z == SubSeq(u, m, l)
             s == a \o f \o z
  <1>1. /\ l \in Nat /\ l <= Len(u) /\ m \in Nat /\ m >= 1 /\ 1 \in Nat /\ 1 >= 1
        /\ n <= Len(w)
    OBVIOUS
  <1>2. a \in Seq(Byte) /\ Len(a) = x /\ \A k \in 1..x : a[k] = u[k]
    <2>1. /\ a \in Seq(Byte) /\ Len(a) = IF 1 <= x THEN x - 1 + 1 ELSE 0
          /\ \A k \in 1..x - 1 + 1 : a[k] = u[1 + k - 1]
      BY <1>1, SubSeqType
    <2> HIDE DEF a
    <2>2. x - 1 + 1 = x /\ \A k \in 1..x : 1 + k - 1 = k
      OBVIOUS
    <2> QED
      BY <2>1, <2>2
  <1>3. f \in Seq(Byte) /\ Len(f) = n /\ \A k \in 1..n : f[k] = w[k]
    <2>1. f = SubSeq(w, 1, n)
      <3>1. Len(w) - 1 = n
        OBVIOUS
      <3> QED
        BY <3>1 DEF Front
    <2>2. /\ SubSeq(w, 1, n) \in Seq(Byte)
          /\ Len(SubSeq(w, 1, n)) = IF 1 <= n THEN n - 1 + 1 ELSE 0
          /\ \A k \in 1..n - 1 + 1 : SubSeq(w, 1, n)[k] = w[1 + k - 1]
      BY <1>1, SubSeqType
    <2> HIDE DEF f
    <2>3. n - 1 + 1 = n /\ \A k \in 1..n : 1 + k - 1 = k
      OBVIOUS
    <2> QED
      BY <2>1, <2>2, <2>3
  <1> HIDE DEF m, l
  <1>4. z \in Seq(Byte)
    BY <1>1, SubSeqType
  <1> HIDE DEF a, f, z
  <1> DEFINE y == a \o f
  <1>5. y \in Seq(Byte) /\ IsJoined(y, a, f)
    BY <1>2, <1>3, Joined
  <1> HIDE DEF y
  <1>6. Len(y) = x + n /\ \A k \in 1..x : y[k] = a[k]
    BY <1>2, <1>3, <1>5 DEF IsJoined
  <1>7. \A k \in 1..n : y[x + k] = f[k]
    BY <1>2, <1>3, <1>5 DEF IsJoined
  <1> DEFINE v == y \o z
  <1>8. s = v
    BY DEF y
  <1>9. v \in Seq(Byte) /\ IsJoined(v, y, z)
    BY <1>4, <1>5, Joined
  <1> HIDE DEF s, v
  <1>10. /\ s \in Seq(Byte) /\ Len(s) = Len(y) + Len(z)
        /\ \A k \in 1..Len(y) : s[k] = y[k]
    BY <1>8, <1>9, Zenon DEF IsJoined
  <1>11. Len(s) \in Nat /\ Len(s) >= x + n
    BY <1>4, <1>6, <1>10
  <1>12. \A k \in 1..x : s[k] = u[k]
    <2> TAKE k \in 1..x
    <2>1. k \in 1..Len(y)
      BY <1>6
    <2> QED
      BY <1>2, <1>6, <1>10, <2>1
  <1>13. \A k \in 1..n : s[x + k] = w[k]
    <2> TAKE k \in 1..n
    <2>1. x + k \in 1..Len(y)
      BY <1>6
    <2>2. s[x + k] = y[x + k]
      BY <1>10, <2>1
    <2> QED
      BY <1>3, <1>7, <2>2
  <1>14. IsStashed(s, u, w, x, n)
    BY <1>10, <1>11, <1>12, <1>13, Zenon DEF IsStashed
  <1> QED
    BY <1>14 DEF s, a, f, z, m, l

LEMMA StashParsed ==
    ASSUME TypeInv, ScriptInv, ParsedInv, Stash
    PROVE  ParsedInv' /\ pc' = "telopt"
  <1>1. PICK i \in 0..Len(script) :
            /\ ParsedUpto(i, 0) /\ NamesLast(i) /\ Meant(i, 0)
            /\ Pending(Place(script, i))
    BY AtLoop DEF Stash
  <1> DEFINE p == Place(script, i)
             b == Bytes(script)
             x == tel.bpos
             u == tel.buff
             n == len
             s == SubSeq(u, 1, x) \o Front(input) \o SubSeq(u, x + n + 1, Len(u))
             q == x + n
  <1>2. /\ p \in Nat /\ x \in Nat /\ n \in Nat /\ Len(u) \in Nat
        /\ x <= Len(u) /\ tel \in Telnets
    BY <1>1, ParsedFacts
  <1>3. /\ pc = "loop" /\ n > 0
        /\ UNCHANGED <<script, wire, text, buffnum, tbpos, lines, level>>
    BY DEF Stash, editor
  <1>4. /\ tel' = [tel EXCEPT !.buff = s, !.bpos = q]
        /\ pc' = "telopt" /\ len' = 0
    <2>1. ~(x > Len(u))
      BY <1>2
    <2> QED
      BY <2>1 DEF Stash
  <1>5. /\ wire = SubSeq(b, Arrived + 1, Len(b)) /\ p + x + n = Arrived
        /\ \A k \in 1..x : u[k] = b[p + k]
        /\ Len(input) = n + 1 /\ \A k \in 1..n : input[k] = b[p + x + k]
    BY <1>1, <1>3 DEF Pending
  <1>6. u \in Seq(Byte) /\ input \in Seq(Byte)
    BY <1>2, TelnetFields DEF TypeInv, ReaderInv
  <1>7. /\ Len(s) \in Nat /\ Len(s) >= q
        /\ \A k \in 1..x : s[k] = u[k]
        /\ \A k \in 1..n : s[x + k] = input[k]
    <2>1. Len(input) = n + 1
      BY <1>5
    <2> HIDE DEF x, u, n
    <2>2. /\ u \in Seq(Byte) /\ input \in Seq(Byte) /\ x \in Nat /\ n \in Nat
          /\ x <= Len(u) /\ Len(input) = n + 1
      BY <1>2, <1>6, <2>1
    <2>3. IsStashed(s, u, input, x, n)
      BY <2>2, StashedBytes, Zenon
    <2> QED
      BY <2>3, Zenon DEF IsStashed
  <1>8. /\ tel'.buff = s /\ tel'.bpos = q /\ tel'.flags = tel.flags
        /\ tel'.type = tel.type /\ tel'.cols = tel.cols /\ tel'.rows = tel.rows
    <2> HIDE DEF s, q
    <2> QED
      BY <1>2, <1>4 DEF Telnets
  <1> HIDE DEF s
  <1>9. \A k \in 1..q : s[k] = b[p + k]
    <2> HIDE DEF p, b, x, u, n
    <2> TAKE k \in 1..q
    <2>1. CASE k <= x
      <3>1. k \in 1..x
        BY <1>2, <2>1
      <3> QED
        BY <1>5, <1>7, <3>1
    <2>2. CASE k > x
      <3> DEFINE j == k - x
      <3>1. j \in 1..n /\ x + j = k /\ p + x + j = p + k
        BY <1>2, <2>2
      <3> HIDE DEF j
      <3>2. s[x + j] = input[j] /\ input[j] = b[p + x + j]
        BY <1>5, <1>7, <3>1
      <3> QED
        BY <3>1, <3>2
    <2> QED
      BY <1>2, <2>1, <2>2
  <1>10. p + q + 0 = Arrived
    BY <1>2, <1>5
  <1>11. Pending(Place(script, i))'
    <2>1. Bytes(script)' = b /\ Place(script, i)' = p /\ Arrived' = Arrived
      BY <1>3, ArrivedStays
    <2> HIDE DEF p, b, q
    <2> QED
      BY <1>3, <1>4, <1>5, <1>7, <1>8, <1>9, <1>10, <2>1 DEF Pending
  <1>12. Meant(i, 0)'
    BY <1>1, <1>3, <1>8, MeantStays
  <1>13. ParsedUpto(i, 0)'
    <2>1. pc' # "idle"
      BY <1>4
    <2> QED
      BY <1>1, <1>3, <1>11, <1>12, <2>1, ParsedThere
  <1>14. GotAll'
    BY <1>4, <1>8 DEF ParsedInv, GotAll
  <1> QED
    BY <1>3, <1>4, <1>13, <1>14, ParsedStays

-----------------------------------------------------------------------------
(* An option that is read.                                                 *)

\* The bytes of an option leave buff.
LEMMA PendingShift ==
    ASSUME TypeInv, TypeInv', UNCHANGED <<script, wire>>,
           NEW p \in Nat, NEW k \in Nat, k <= tel.bpos,
           Pending(p), pc = "telopt", pc' = "telopt", len' = len,
           tel'.bpos = tel.bpos - k,
           tel'.buff = SubSeq(tel.buff, k + 1, Len(tel.buff)) \/ k = tel.bpos
    PROVE  Pending(p + k)'
  <1> DEFINE b == Bytes(script)
             x == tel.bpos
             u == tel.buff
             v == tel'.buff
             q == p + k
             y == x - k
  <1>1. /\ u \in Seq(Byte) /\ x \in Nat /\ Len(u) \in Nat
        /\ v \in Seq(Byte) /\ Len(v) \in Nat
    <2>1. tel \in Telnets /\ tel' \in Telnets
      BY DEF TypeInv, ReaderInv
    <2>2. u \in Seq(Byte) /\ x \in Nat /\ v \in Seq(Byte)
      BY <2>1, TelnetFields
    <2> HIDE DEF u, v
    <2> QED
      BY <2>2
  <1>2. /\ wire = SubSeq(b, Arrived + 1, Len(b)) /\ p + x + len = Arrived
        /\ len = 0 /\ x <= Len(u) /\ \A j \in 1..x : u[j] = b[p + j]
    BY DEF Pending
  <1>3. q \in Nat /\ y \in Nat /\ q + y + len = Arrived
    <2>1. p + x + len = Arrived /\ len = 0 /\ x \in Nat /\ k <= x
      BY <1>1, <1>2
    <2> HIDE DEF x
    <2> QED
      BY <2>1
  <1>4. y <= Len(v) /\ \A j \in 1..y : v[j] = b[q + j]
    <2> HIDE DEF b, x, u, v
    <2>1. CASE k = x
      <3>1. y = 0
        BY <1>1, <2>1
      <3> HIDE DEF y
      <3> QED
        BY <1>1, <3>1
    <2>2. CASE v = SubSeq(u, k + 1, Len(u))
      <3>1. k <= Len(u)
        BY <1>1, <1>2 DEF x
      <3>2. Len(v) = Len(u) - k /\ \A j \in 1..Len(u) - k : v[j] = u[k + j]
        BY <1>1, <2>2, <3>1, RestOf
      <3>3. y <= Len(v)
        BY <1>1, <1>2, <3>2
      <3>4. ASSUME NEW j \in 1..y PROVE v[j] = b[q + j]
        <4> DEFINE i == k + j
        <4>1. j \in 1..Len(u) - k /\ i \in 1..x /\ q + j = p + i
          BY <1>1, <1>2
        <4>2. v[j] = u[i]
          BY <3>2, <4>1
        <4> HIDE DEF i
        <4>3. u[i] = b[p + i]
          BY <1>2, <4>1
        <4> QED
          BY <4>1, <4>2, <4>3
      <3> QED
        BY <3>3, <3>4
    <2> QED
      BY <2>1, <2>2 DEF u, v, x
  <1>5. Bytes(script)' = b /\ Arrived' = Arrived
    BY ArrivedStays
  <1> HIDE DEF b, q, y
  <1>6. Pending(q)'
    <2>1. tel'.bpos = y
      BY DEF y
    <2> QED
      BY <1>2, <1>3, <1>4, <1>5, <2>1 DEF Pending
  <1> QED
    BY <1>6 DEF q

\* What an option says is in the fields.
LEMMA OptionMeant ==
    ASSUME TypeInv, ScriptInv, NEW i \in 0..Len(script), i < Len(script),
           Meant(i, 0), script[i + 1].kind # "text", NEW r \in {0, 2},
           UNCHANGED <<script, text, buffnum, tbpos, lines, level>>,
           SameFields(tel', SaidOption(tel, script[i + 1], level))
    PROVE  Meant(i + 1, r)'
  <1> DEFINE j == i + 1
             tok == script[j]
  <1>1. script \in Seq(Tokens) /\ Len(script) \in Nat
    BY DEF ScriptInv
  <1>2. /\ j \in 1..Len(script) /\ j \in 0..Len(script) /\ j - 1 = i
        /\ tok \in Tokens
    BY <1>1
  <1>3. tel \in Telnets /\ level \in {"LOGIN", "NOVICE"}
    BY DEF TypeInv, ReaderInv, EditorInv
  <1> SUFFICES ASSUME NEW lvl \in {"LOGIN", "NOVICE"}
               PROVE  MeantFor(j, r, lvl)'
    BY DEF Meant
  <1> DEFINE m == MeaningUpto(script, lvl)[i]
             n == MeaningUpto(script, lvl)[j]
             t == SaidOption(tel, tok, level)
             u == SaidOption(m.t, tok, lvl)
  <1>4. m \in Meanings /\ n = Said(m, tok, lvl)
    <2>1. /\ \A l \in 0..Len(script) : MeaningUpto(script, lvl)[l] \in Meanings
          /\ \A l \in 1..Len(script) :
                MeaningUpto(script, lvl)[l]
                    = Said(MeaningUpto(script, lvl)[l - 1], script[l], lvl)
      BY <1>1, MeaningUptoFacts
    <2> HIDE DEF j
    <2> QED
      BY <1>2, <2>1
  <1>5. MeantFor(i, 0, lvl)
    BY DEF Meant
  <1>6. /\ lines = m.lines /\ Line = m.typed /\ tel.type = m.t.type
        /\ SizeNext(i, 0) \/ (tel.cols = m.t.cols /\ tel.rows = m.t.rows)
        /\ FlagsAre(tel.flags, m.t.flags, lvl, level)
    BY <1>5 DEF MeantFor
  <1>7. SizeNext(i, 0) => tok.kind = "size" /\ SetsSize(tok)
    BY DEF SizeNext
  <1> HIDE DEF j, tok, m, n
  <1>8. n = [m EXCEPT !.t = u]
    BY <1>4 DEF Said, tok, j
  <1>9. n.lines = m.lines /\ n.typed = m.typed /\ n.t = u
    <2> HIDE DEF u
    <2> QED
      BY <1>4, <1>8 DEF Meanings
  <1>10. FieldsAre(t, u, lvl, level)
    <2>1. m.t \in Telnets
      BY <1>4 DEF Meanings
    <2> DEFINE v == m.t
    <2>2. /\ v \in Telnets /\ FlagsAre(tel.flags, v.flags, lvl, level)
          /\ tel.type = v.type
      BY <1>6, <2>1
    <2>3. \/ tok.kind = "size" /\ SetsSize(tok)
          \/ tel.cols = v.cols /\ tel.rows = v.rows
      BY <1>6, <1>7
    <2> HIDE DEF v
    <2>4. FieldsAre(SaidOption(tel, tok, level), SaidOption(v, tok, lvl), lvl,
                    level)
      BY <1>3, <2>2, <2>3, SaidFields
    <2> QED
      BY <2>4 DEF v
  <1>11. SameFields(tel', t)
    BY DEF tok, j
  <1> HIDE DEF t, u
  <1>12. /\ tel'.type = n.t.type /\ tel'.cols = n.t.cols /\ tel'.rows = n.t.rows
         /\ FlagsAre(tel'.flags, n.t.flags, lvl, level)
    BY <1>9, <1>10, <1>11 DEF SameFields, FieldsAre
  <1>13. lines' = n.lines /\ Line' = n.typed
    BY <1>6, <1>9 DEF Line
  <1>14. MeaningUpto(script, lvl)[j]' = n /\ level' = level
    BY DEF n
  <1> QED
    BY <1>12, <1>13, <1>14 DEF MeantFor

\* How many bytes parseTelopt takes of an option, and how many of these it
\* does not take.
LEMMA ShiftFacts ==
    ASSUME NEW tok \in Tokens, Telnet(tok)
    PROVE  LET n == Len(Encoded(tok))
               k == IF Lame(tok) THEN 4 ELSE n
               r == IF Lame(tok) THEN 2 ELSE 0
           IN  n \in Nat /\ k + r = n /\ (Lame(tok) => n = 6)
  <1> DEFINE n == Len(Encoded(tok))
  <1>1. n \in Nat
    BY EncodedHead
  <1>2. Lame(tok) => n = 6
    <2> SUFFICES ASSUME Lame(tok) PROVE n = 6
      OBVIOUS
    <2>1. tok.kind = "type" /\ tok.name = <<>>
      BY DEF Lame, Telnet
    <2>2. n = Len(tok.name) + 6
      BY <2>1, EncodedName
    <2> HIDE DEF n
    <2> QED
      BY <2>1, <2>2
  <1> HIDE DEF n
  <1> QED
    BY <1>1, <1>2 DEF n

\* What OneOption does to the fields.
LEMMA TakenFields ==
    ASSUME TypeInv, OneOption
    PROVE  LET o == Telopt(tel) IN
           /\ OptionType(o, tel)
           /\ tel'.bpos = o.t.bpos - o.shift
           /\ tel'.buff = SubSeq(o.t.buff, o.shift + 1, Len(o.t.buff))
           /\ SameFields(tel', o.t)
           /\ UNCHANGED <<script, wire, pc, input, len, text, buffnum, tbpos,
                          lines, level>>
  <1> DEFINE o == Telopt(tel)
             t == o.t
             s == SubSeq(t.buff, o.shift + 1, Len(t.buff))
             x == t.bpos - o.shift
  <1>1. tel \in Telnets
    BY DEF TypeInv, ReaderInv
  <1>2. OptionType(o, tel)
    BY <1>1, TeloptType
  <1>3. t \in Telnets
    BY <1>2 DEF OptionType
  <1>4. tel' = [t EXCEPT !.bpos = x, !.buff = s]
    BY <1>3 DEF OneOption, Telnets
  <1>5. UNCHANGED <<script, wire, pc, input, len, text, buffnum, tbpos, lines,
                    level>>
    BY DEF OneOption, reading, editor
  <1> HIDE DEF o, t, s, x
  <1>6. tel'.bpos = x /\ tel'.buff = s /\ SameFields(tel', t)
    BY <1>3, <1>4 DEF Telnets, SameFields
  <1> QED
    BY <1>2, <1>5, <1>6 DEF o, t, s, x

\* The second part of an option of which parseTelopt took four bytes.
LEMMA RestTaken ==
    ASSUME TypeInv, TypeInv', ScriptInv, ParsedInv, OneOption,
           NEW i \in 0..Len(script), ParsedUpto(i, 2)
    PROVE  ParsedUpto(i, 0)' /\ GotAll'
  <1> DEFINE p == Place(script, i) - 2
             o == Telopt(tel)
  <1>1. /\ p \in Nat /\ Place(script, i) \in Nat /\ tel \in Telnets
        /\ tel.bpos \in Nat /\ tel.bpos >= 2 /\ tel.bpos <= Len(tel.buff)
        /\ tel.buff[1] = IAC /\ tel.buff[2] = SE /\ pc = "telopt"
        /\ Len(tel.buff) \in Nat
    BY ParsedFacts
  <1>2. o = Option(tel, 2)
    <2>1. At(tel.buff, 2) = SE
      BY <1>1 DEF At
    <2>2. SE \notin {WILL, WONT, DO, DONT, SB}
      BY DEF SE, WILL, WONT, DO, DONT, SB
    <2> QED
      BY <1>1, <2>1, <2>2, TeloptCases
  <1>3. o.t = tel /\ o.shift = 2
    BY <1>2 DEF Option
  <1>4. /\ tel'.bpos = tel.bpos - 2
        /\ tel'.buff = SubSeq(tel.buff, 2 + 1, Len(tel.buff))
        /\ SameFields(tel', tel)
        /\ UNCHANGED <<script, wire, pc, input, len, text, buffnum, tbpos,
                       lines, level>>
    BY <1>3, TakenFields
  <1>5. Pending(p)
    BY DEF ParsedUpto
  <1>6. PICK q \in Nat : q = p
    BY <1>1
  <1> HIDE DEF o
  <1>7. Pending(Place(script, i))'
    <2>1. Pending(q)
      BY <1>5, <1>6
    <2>2. Pending(q + 2)'
      BY <1>1, <1>4, <2>1, PendingShift
    <2>3. Place(script', i) = q + 2
      <3>1. Place(script, i) = q + 2
        BY <1>1, <1>6
      <3> QED
        BY <1>4, <3>1
    <2> QED
      BY <2>2, <2>3, Zenon DEF Pending, Arrived
  <1>8. Meant(i, 0)'
    <2> SUFFICES ASSUME NEW lvl \in {"LOGIN", "NOVICE"}
                 PROVE  MeantFor(i, 0, lvl)'
      BY DEF Meant
    <2>1. MeantFor(i, 2, lvl)
      BY DEF ParsedUpto, Meant
    <2>2. ~SizeNext(i, 2)
      BY DEF SizeNext
    <2> QED
      <3> DEFINE m == MeaningUpto(script, lvl)[i]
      <3>1. /\ lines = m.lines /\ Line = m.typed /\ tel.type = m.t.type
            /\ tel.cols = m.t.cols /\ tel.rows = m.t.rows
            /\ FlagsAre(tel.flags, m.t.flags, lvl, level)
        BY <2>1, <2>2, Zenon DEF MeantFor
      <3>2. m' = m /\ Line' = Line /\ lines' = lines /\ level' = level
        BY <1>4 DEF Line
      <3> HIDE DEF m
      <3>3. /\ tel'.type = tel.type /\ tel'.cols = tel.cols
            /\ tel'.rows = tel.rows /\ tel'.flags = tel.flags
        BY <1>4 DEF SameFields
      <3>4. /\ lines' = m'.lines /\ Line' = m'.typed /\ tel'.type = m'.t.type
            /\ tel'.cols = m'.t.cols /\ tel'.rows = m'.t.rows
            /\ FlagsAre(tel'.flags, m'.t.flags, lvl, level')
        BY <3>1, <3>2, <3>3, Zenon
      <3> QED
        BY <3>4, Zenon DEF MeantFor, m
  <1>9. NamesLast(i)
    BY <1>1 DEF ParsedUpto
  <1>10. ParsedUpto(i, 0)'
    <2>1. pc' # "idle"
      BY <1>1, <1>4
    <2> QED
      BY <1>4, <1>7, <1>8, <1>9, <2>1, ParsedThere
  <1>11. GotAll'
    BY <1>1, <1>4 DEF ParsedInv, GotAll, SameFields
  <1> QED
    BY <1>10, <1>11

\* An option of which parseTelopt takes all that it takes.
LEMMA OptionTaken ==
    ASSUME TypeInv, TypeInv', ScriptInv, ParsedInv, OneOption,
           NEW i \in 0..Len(script), ParsedUpto(i, 0)
    PROVE  /\ i + 1 \in 0..Len(script)
           /\ LET r == IF Lame(script[i + 1]) THEN 2 ELSE 0 IN
              r \in {0, 2} /\ ParsedUpto(i + 1, r)'
           /\ GotAll'
  <1> DEFINE p == Place(script, i)
             j == i + 1
             tok == script[j]
             n == Len(Encoded(tok))
             k == IF Lame(tok) THEN 4 ELSE n
             r == IF Lame(tok) THEN 2 ELSE 0
             o == Telopt(tel)
             x == tel.bpos
  <1>1. /\ pc = "telopt" /\ x > 0 /\ At(tel.buff, 1) = IAC
        /\ o.complete
    BY DEF OneOption
  <1>2. p < Len(Bytes(script)) /\ CanRead(tel, tok)
    BY <1>1, NextOption DEF ParsedInv
  <1>3. /\ i < Len(script) /\ j \in 1..Len(script) /\ tok \in Tokens
        /\ Telnet(tok) /\ p \in Nat /\ Place(script, j) = p + n
    BY <1>2, NextToken
  <1>4. tel \in Telnets /\ x \in Nat
    BY ParsedFacts
  <1>5. n \in Nat /\ k + r = n /\ (Lame(tok) => n = 6)
    <2> HIDE DEF tok
    <2> QED
      BY <1>3, ShiftFacts
  <1>6. x >= n /\ TakenRight(o, tel, tok)
    <2>1. ReadRight(tel, tok)
      <3> HIDE DEF tok
      <3> QED
        BY <1>2, <1>3, <1>4, OptionRead
    <2> HIDE DEF o, n, tok, x
    <2>2. ~(x < n)
      BY <1>1, <2>1, Zenon DEF ReadRight, CutRight, n, o, x
    <2>3. x >= n
      BY <1>4, <1>5, <2>2
    <2> QED
      BY <2>1, <2>3, Zenon DEF ReadRight, n, o, x
  <1>7. /\ o.shift = k /\ o.t.bpos = x /\ (o.t.buff = tel.buff \/ k = x)
        /\ SameFields(o.t, SaidOption(tel, tok, level))
    BY <1>6, Zenon DEF TakenRight
  <1>8. /\ tel'.bpos = x - k
        /\ tel'.buff = SubSeq(tel.buff, k + 1, Len(tel.buff)) \/ k = x
        /\ SameFields(tel', o.t)
        /\ UNCHANGED <<script, wire, pc, input, len, text, buffnum, tbpos,
                       lines, level>>
    BY <1>7, TakenFields, Zenon
  <1>9. SameFields(tel', SaidOption(tel, tok, level))
    BY <1>7, <1>8 DEF SameFields
  <1>10. k \in Nat /\ k <= x /\ r \in {0, 2} /\ (r = 2 => x - k >= 2)
         /\ (r # 0 => r = 2 /\ Lame(tok))
    <2> HIDE DEF n, x, tok
    <2> QED
      BY <1>4, <1>5, <1>6
  <1> HIDE DEF o, n, k, r, tok
  <1>11. Pending(Place(script, j) - r)'
    <2>1. PICK q \in Nat : q = p
      BY <1>3
    <2>2. Pending(q)
      <3>1. Pending(p - 0)
        BY DEF ParsedUpto
      <3>2. p - 0 = p
        BY <1>3
      <3> QED
        BY <2>1, <3>1, <3>2
    <2>3. PICK l \in Nat : l = k
      BY <1>10
    <2>4. PICK s \in {0, 2} : s = r
      BY <1>10
    <2>5. Pending(q + l)'
      BY <1>1, <1>8, <1>10, <2>2, <2>3, PendingShift
    <2>6. Place(script', j) - s = q + l
      <3>1. Place(script, j) = q + n
        BY <1>3, <2>1
      <3>2. Place(script, j) - s = q + l
        <4>1. l + s = n /\ n \in Nat
          BY <1>5, <2>3, <2>4, Zenon
        <4> DEFINE z == Place(script, j)
        <4>2. z = q + n
          BY <3>1
        <4> HIDE DEF z
        <4>3. s \in Nat
          OBVIOUS
        <4>4. z - s = q + l
          BY <4>1, <4>2, <4>3
        <4> QED
          BY <4>4 DEF z
      <3> QED
        BY <1>8, <3>2
    <2>7. Pending(Place(script, j) - s)'
      BY <2>5, <2>6, Zenon DEF Pending, Arrived
    <2>8. r' = s
      BY <1>8, <2>4 DEF r, tok
    <2> QED
      BY <2>7, <2>8, Zenon DEF Pending, Arrived
  <1>12. Meant(j, r)'
    <2>1. tok.kind # "text"
      BY <1>2 DEF CanRead
    <2>2. Meant(i, 0)
      BY DEF ParsedUpto
    <2>3. Meant(j, 0)' /\ Meant(j, 2)'
      BY <1>3, <1>8, <1>9, <2>1, <2>2, OptionMeant DEF tok
    <2> QED
      BY <1>8, <1>10, <2>3 DEF r, tok
  <1>13. NamesLast(j)'
    <2>1. NamesLast(i)
      BY <1>1 DEF ParsedUpto
    <2>2. \A l \in j + 1..Len(script) : l \in i + 1..Len(script)
      BY <1>3
    <2>3. NamesLast(j)
      <3> HIDE DEF j
      <3> QED
        BY <2>1, <2>2, Zenon DEF NamesLast
    <2> QED
      BY <1>8, <2>3, ArrivedStays
  <1>14. ParsedUpto(j, r)'
    <2>1. pc' = "telopt" /\ tel'.bpos = x - k
      BY <1>1, <1>8
    <2>2. \/ r' = 0
          \/ r' = 2 /\ j >= 1 /\ Lame(script'[j]) /\ tel'.bpos >= 2
      BY <1>3, <1>8, <1>10, <2>1 DEF r, tok
    <2> QED
      BY <1>11, <1>12, <1>13, <2>1, <2>2, Zenon DEF ParsedUpto
  <1>15. GotAll'
    <2>1. SameOptions(tel.flags, SaidOption(tel, tok, level).flags)
      <3>1. level \in {"LOGIN", "NOVICE"}
        BY DEF TypeInv, EditorInv
      <3>2. FlagsAre(tel.flags, tel.flags, level, level)
        BY DEF FlagsAre
      <3> QED
        BY <1>4, <3>1, <3>2, SaidFields
    <2> QED
      BY <1>1, <1>8, <1>9, <2>1 DEF ParsedInv, GotAll, SameFields, SameOptions
  <1> QED
    BY <1>3, <1>10, <1>14, <1>15 DEF r, tok

LEMMA OneOptionParsed ==
    ASSUME TypeInv, TypeInv', ScriptInv, ParsedInv, OneOption
    PROVE  ParsedInv' /\ pc' = "telopt"
  <1>1. PICK i \in 0..Len(script), r \in {0, 2} : ParsedUpto(i, r)
    BY DEF ParsedInv
  <1>2. UNCHANGED <<script, wire, pc>> /\ pc = "telopt"
    BY DEF OneOption, reading
  <1>3. CASE r = 2
    <2>1. ParsedUpto(i, 0)' /\ GotAll'
      BY <1>1, <1>3, RestTaken
    <2> QED
      BY <1>2, <2>1, ParsedStays
  <1>4. CASE r = 0
    <2> DEFINE j == i + 1
               s == IF Lame(script[j]) THEN 2 ELSE 0
    <2>1. j \in 0..Len(script) /\ s \in {0, 2} /\ ParsedUpto(j, s)' /\ GotAll'
      BY <1>1, <1>4, OptionTaken
    <2>2. s' = s
      BY <1>2
    <2> HIDE DEF j, s
    <2>3. ParsedUpto(j, 0)' \/ ParsedUpto(j, 2)'
      BY <2>1, <2>2
    <2> QED
      BY <1>2, <2>1, <2>3, ParsedStays
  <1> QED
    BY <1>1, <1>3, <1>4

\* In parseTelopt nothing is read behind buff, and an option that is cut is
\* the next one.
LEMMA OptionCut ==
    ASSUME TypeInv, ScriptInv, ParsedInv, pc = "telopt", tel.bpos > 0,
           At(tel.buff, 1) = IAC,
           NEW i \in 0..Len(script), NEW r \in {0, 2}, ParsedUpto(i, r)
    PROVE  /\ ~ReadsOn(tel) /\ ~Stuck
           /\ ~Telopt(tel).complete =>
                /\ r = 0 /\ i < Len(script)
                /\ tel.bpos < Len(Encoded(script[i + 1]))
                /\ CutRight(Telopt(tel), tel, script[i + 1])
  <1> DEFINE tok == script[i + 1]
  <1>1. /\ tel \in Telnets /\ tel.bpos \in Nat
        /\ r = 2 => /\ tel.bpos >= 2 /\ tel.buff[2] = SE
                    /\ tel.bpos <= Len(tel.buff) /\ Len(tel.buff) \in Nat
    BY ParsedFacts
  <1>2. CASE r = 2
    <2>1. At(tel.buff, 2) = SE
      BY <1>1, <1>2 DEF At
    <2>2. SE \notin {WILL, WONT, DO, DONT, SB} /\ SE # SB
      BY DEF SE, WILL, WONT, DO, DONT, SB
    <2>3. Telopt(tel) = Option(tel, 2)
      BY <1>1, <1>2, <2>1, <2>2, TeloptCases
    <2>4. Telopt(tel).complete
      BY <2>3 DEF Option
    <2> QED
      BY <2>1, <2>2, <2>4 DEF ReadsOn, Stuck
  <1>3. CASE r = 0
    <2>1. Place(script, i) < Len(Bytes(script)) /\ CanRead(tel, tok)
      BY <1>3, NextOption DEF ParsedInv
    <2>2. i < Len(script) /\ tok \in Tokens /\ Len(Encoded(tok)) \in Nat
      BY <2>1, NextToken
    <2>3. ReadRight(tel, tok)
      <3> HIDE DEF tok
      <3> QED
        BY <1>1, <2>1, <2>2, OptionRead
    <2> HIDE DEF tok
    <2>4. ~Telopt(tel).complete => ~(tel.bpos >= Len(Encoded(tok)))
      BY <2>3, Zenon DEF ReadRight, TakenRight
    <2>5. ~Telopt(tel).complete => tel.bpos < Len(Encoded(tok))
      BY <1>1, <2>2, <2>4
    <2>6. ~Telopt(tel).complete => CutRight(Telopt(tel), tel, tok)
      BY <2>3, <2>5, Zenon DEF ReadRight
    <2>7. ~ReadsOn(tel) /\ ~Stuck
      BY <2>3, Zenon DEF ReadRight, Stuck
    <2> QED
      BY <1>3, <2>2, <2>5, <2>6, <2>7 DEF tok
  <1> QED
    BY <1>2, <1>3

LEMMA CutOptionParsed ==
    ASSUME TypeInv, ScriptInv, ParsedInv, CutOption
    PROVE  ParsedInv' /\ pc' = "idle"
  <1>1. PICK i \in 0..Len(script), r \in {0, 2} : ParsedUpto(i, r)
    BY DEF ParsedInv
  <1> DEFINE p == Place(script, i)
             j == i + 1
             tok == script[j]
             n == Len(Encoded(tok))
             x == tel.bpos
             o == Telopt(tel)
  <1>2. /\ pc = "telopt" /\ x > 0 /\ At(tel.buff, 1) = IAC
        /\ ~o.complete /\ tel' = o.t /\ pc' = "idle"
        /\ UNCHANGED <<script, wire, input, len, text, buffnum, tbpos, lines,
                       level>>
    BY DEF CutOption, editor
  <1>3. r = 0 /\ i < Len(script) /\ x < n /\ CutRight(o, tel, tok)
    BY <1>1, <1>2, OptionCut
  <1>4. /\ tel'.buff = tel.buff /\ tel'.bpos = x /\ tel'.flags = tel.flags
        /\ tel'.type = tel.type
        /\ \/ tok.kind = "size" /\ SetsSize(tok)
           \/ tel'.cols = tel.cols /\ tel'.rows = tel.rows
    BY <1>2, <1>3 DEF CutRight
  <1>5. p \in Nat /\ x \in Nat
    BY <1>1, ParsedFacts
  <1>6. Pending(p)
    <2>1. Pending(p - 0)
      BY <1>1, <1>3 DEF ParsedUpto
    <2>2. p - 0 = p
      BY <1>5
    <2> QED
      BY <2>1, <2>2
  <1>7. Place(script, j) > Arrived
    <2>1. p + x + len = Arrived /\ len = 0
      BY <1>2, <1>6 DEF Pending
    <2>2. j \in 1..Len(script) /\ j - 1 = i
      BY <1>3 DEF ScriptInv
    <2>3. tok \in Tokens
      BY <2>2 DEF ScriptInv
    <2>4. n \in Nat
      BY <2>3, EncodedHead
    <2>5. Place(script, j) = p + n
      <3>1. Place(script, j) = Place(script, j - 1) + n
        <4>1. script \in Seq(Tokens)
          BY DEF ScriptInv
        <4> HIDE DEF j
        <4> QED
          BY <2>2, <4>1, PlaceFacts
      <3> QED
        BY <2>2, <3>1
    <2> HIDE DEF p, x, n
    <2>6. p + n > Arrived
      BY <1>3, <1>5, <2>1, <2>4
    <2> QED
      BY <2>5, <2>6
  <1> HIDE DEF o, n, tok, j
  <1>8. Pending(Place(script, i))'
    BY <1>2, <1>4, <1>6 DEF Pending, Arrived
  <1>9. Meant(i, 0)'
    <2> SUFFICES ASSUME NEW lvl \in {"LOGIN", "NOVICE"}
                 PROVE  MeantFor(i, 0, lvl)'
      BY DEF Meant
    <2> DEFINE m == MeaningUpto(script, lvl)[i]
    <2>1. /\ lines = m.lines /\ Line = m.typed /\ tel.type = m.t.type
          /\ SizeNext(i, 0) \/ (tel.cols = m.t.cols /\ tel.rows = m.t.rows)
          /\ FlagsAre(tel.flags, m.t.flags, lvl, level)
      BY <1>1, <1>3, Zenon DEF MeantFor, ParsedUpto, Meant
    <2>2. m' = m /\ Line' = Line /\ lines' = lines /\ level' = level
      BY <1>2 DEF Line
    <2>3. SizeNext(i, 0)' \/ (tel'.cols = tel.cols /\ tel'.rows = tel.rows)
      BY <1>2, <1>3, <1>4 DEF SizeNext, tok, j
    <2>4. SizeNext(i, 0) => SizeNext(i, 0)'
      BY <1>2 DEF SizeNext
    <2> HIDE DEF m
    <2>5. /\ lines' = m'.lines /\ Line' = m'.typed /\ tel'.type = m'.t.type
          /\ FlagsAre(tel'.flags, m'.t.flags, lvl, level')
      BY <1>4, <2>1, <2>2, Zenon
    <2>6. SizeNext(i, 0)' \/ (tel'.cols = m'.t.cols /\ tel'.rows = m'.t.rows)
      BY <2>1, <2>2, <2>3, <2>4, Zenon
    <2> QED
      BY <2>5, <2>6, Zenon DEF MeantFor, m
  <1>10. NamesLast(i)
    BY <1>1, <1>2 DEF ParsedUpto
  <1>11. ParsedUpto(i, 0)'
    BY <1>2, <1>7, <1>8, <1>9, <1>10, ParsedThere DEF j
  <1>12. GotAll'
    <2>1. tel'.bpos # 0
      BY <1>2, <1>4, <1>5
    <2> QED
      BY <1>4, <2>1 DEF ParsedInv, GotAll
  <1> QED
    BY <1>2, <1>11, <1>12, ParsedStays

\* The first n bytes of a sequence as a string.
LEMMA FirstPart ==
    ASSUME NEW b \in Seq(Byte), NEW n \in Nat, n <= Len(b)
    PROVE  /\ Len(Append(SubSeq(b, 1, n), NUL)) = n + 1
           /\ \A k \in 1..n : Append(SubSeq(b, 1, n), NUL)[k] = b[k]
  <1> DEFINE s == SubSeq(b, 1, n)
             w == Append(s, NUL)
  <1>1. s \in Seq(Byte) /\ Len(s) = n /\ \A k \in 1..n : s[k] = b[k]
    <2>1. /\ s \in Seq(Byte) /\ Len(s) = IF 1 <= n THEN n - 1 + 1 ELSE 0
          /\ \A k \in 1..n - 1 + 1 : s[k] = b[1 + k - 1]
      <3>1. 1 \in Nat /\ 1 >= 1
        OBVIOUS
      <3> QED
        BY <3>1, SubSeqType
    <2> HIDE DEF s
    <2>2. n - 1 + 1 = n /\ \A k \in 1..n : 1 + k - 1 = k
      OBVIOUS
    <2> QED
      BY <2>1, <2>2
  <1> HIDE DEF s
  <1>2. Len(w) = n + 1 /\ \A k \in 1..n : w[k] = s[k]
    BY <1>1
  <1> HIDE DEF w
  <1> QED
    BY <1>1, <1>2 DEF w, s

LEMMA OptionsDoneParsed ==
    ASSUME TypeInv, ScriptInv, ParsedInv, OptionsDone
    PROVE  ParsedInv' /\ pc' \in {"idle", "loop"}
  <1>1. PICK i \in 0..Len(script), r \in {0, 2} : ParsedUpto(i, r)
    BY DEF ParsedInv
  <1> DEFINE p == Place(script, i)
             b == Bytes(script)
             x == tel.bpos
             u == tel.buff
             m == Min({x, Len(u)})
             all == "GOT_TELOPT_INFO" \notin tel.flags
                        /\ AllOptions \subseteq tel.flags
             f == IF all THEN tel.flags \cup {"GOT_TELOPT_INFO"} ELSE tel.flags
  <1>2. /\ tel \in Telnets /\ p \in Nat /\ x \in Nat /\ Len(u) \in Nat
        /\ x <= Len(u) /\ u \in Seq(Byte)
    BY <1>1, ParsedFacts, TelnetFields
  <1>3. /\ pc = "telopt" /\ (x = 0 \/ At(u, 1) # IAC)
        /\ len' = x /\ pc' = IF x = 0 THEN "idle" ELSE "loop"
        /\ input' = IF x = 0 THEN <<>> ELSE Append(SubSeq(u, 1, m), NUL)
        /\ UNCHANGED <<script, wire, text, buffnum, tbpos, lines, level>>
    BY DEF OptionsDone, editor
  <1>4. r = 0
    <2> SUFFICES ASSUME r = 2 PROVE FALSE
      BY <1>1
    <2>1. x >= 2 /\ u[1] = IAC
      BY <1>1, ParsedFacts
    <2>2. At(u, 1) = IAC
      BY <1>2, <2>1 DEF At
    <2> QED
      BY <1>2, <1>3, <2>1, <2>2
  <1>5. tel'.bpos = 0 /\ tel'.buff = u /\ tel'.flags = f
        /\ tel'.type = tel.type /\ tel'.cols = tel.cols /\ tel'.rows = tel.rows
    <2>1. tel' = [tel EXCEPT !.bpos = 0, !.flags = f]
      BY <1>2, Zenon DEF OptionsDone, Telnets
    <2> HIDE DEF f
    <2> QED
      BY <1>2, <2>1 DEF Telnets
  <1>6. m = x
    <2> DEFINE S == {x, Len(u)}
    <2>1. S \in SUBSET Nat /\ S # {} /\ x \in S
      BY <1>2
    <2>2. \A y \in S : y >= x
      BY <1>2
    <2> HIDE DEF S
    <2>3. Min(S) \in S /\ \A y \in S : Min(S) <= y
      BY <2>1, MinFacts
    <2> DEFINE y == Min(S)
    <2>4. y \in Nat /\ y <= x /\ y >= x
      BY <2>1, <2>2, <2>3
    <2> HIDE DEF y, x
    <2>5. y = x
      BY <1>2, <2>4
    <2> QED
      BY <2>5 DEF S, y
  <1>7. /\ p + x = Arrived /\ wire = SubSeq(b, Arrived + 1, Len(b)) /\ len = 0
        /\ \A k \in 1..x : u[k] = b[p + k]
    <2> DEFINE q == p - 0
    <2>1. Pending(q)
      BY <1>1, <1>4 DEF ParsedUpto
    <2>2. q = p
      BY <1>2
    <2>3. Pending(p)
      BY <2>1, <2>2
    <2>4. /\ p + x + len = Arrived /\ wire = SubSeq(b, Arrived + 1, Len(b))
          /\ \A k \in 1..x : u[k] = b[p + k]
      BY <2>3, Zenon DEF Pending
    <2>5. len = 0
      BY <1>3, <2>3 DEF Pending
    <2> HIDE DEF p, b, x, u, q
    <2>6. p + x = Arrived
      BY <1>2, <2>4, <2>5
    <2> QED
      BY <2>4, <2>5, <2>6
  <1>8. x > 0 => /\ Len(input') = x + 1
                 /\ \A k \in 1..x : input'[k] = b[p + k]
    <2> SUFFICES ASSUME x > 0
                 PROVE  /\ Len(input') = x + 1
                        /\ \A k \in 1..x : input'[k] = b[p + k]
      OBVIOUS
    <2>1. x # 0
      BY <1>2
    <2>2. input' = Append(SubSeq(u, 1, x), NUL)
      BY <1>3, <1>6, <2>1
    <2> HIDE DEF x, u, b, p
    <2>3. Len(input') = x + 1 /\ \A k \in 1..x : input'[k] = u[k]
      BY <1>2, <2>2, FirstPart
    <2> QED
      BY <1>7, <2>3
  <1>9. Pending(Place(script, i))'
    <2>1. Bytes(script)' = b /\ Place(script, i)' = p /\ Arrived' = Arrived
      BY <1>3, ArrivedStays
    <2>2. pc' = "loop" => x > 0
      BY <1>2, <1>3
    <2>3. pc' # "loop" => len' = 0
      BY <1>2, <1>3
    <2>4. /\ wire' = SubSeq(b, Arrived + 1, Len(b)) /\ p + 0 + x = Arrived
          /\ 0 <= Len(u)
      BY <1>2, <1>3, <1>7
    <2> HIDE DEF p, b, u
    <2>5. \A k \in 1..x : b[p + 0 + k] = b[p + k]
      <3>1. p + 0 = p
        BY <1>2
      <3> QED
        BY <3>1
    <2>6. pc' = "loop" => /\ Len(input') = x + 1
                          /\ \A k \in 1..x : input'[k] = b[p + 0 + k]
      BY <1>8, <2>2, <2>5
    <2> DEFINE l == len'
               v == input'
               c == pc'
    <2>7. /\ l = x /\ (c # "loop" => l = 0)
          /\ c = "loop" => Len(v) = x + 1 /\ \A k \in 1..x : v[k] = b[p + 0 + k]
      BY <1>3, <2>3, <2>6
    <2> HIDE DEF x, l, v, c
    <2>8. /\ SubSeq(b, Arrived + 1, Len(b)) = wire'
          /\ p + tel'.bpos + l = Arrived /\ tel'.bpos <= Len(tel'.buff)
          /\ \A k \in 1..tel'.bpos : tel'.buff[k] = b[p + k]
          /\ c # "loop" => l = 0
          /\ c = "loop" => /\ Len(v) = l + 1
                           /\ \A k \in 1..l : v[k] = b[p + tel'.bpos + k]
                           /\ tel'.bpos > 0 => l > 0
      <3>1. /\ p + tel'.bpos + l = Arrived /\ tel'.bpos <= Len(tel'.buff)
            /\ SubSeq(b, Arrived + 1, Len(b)) = wire'
        BY <1>5, <2>4, <2>7
      <3>2. \A k \in 1..tel'.bpos : tel'.buff[k] = b[p + k]
        BY <1>5
      <3>3. ~(tel'.bpos > 0)
        BY <1>5
      <3>4. c = "loop" => /\ Len(v) = l + 1
                          /\ \A k \in 1..l : v[k] = b[p + tel'.bpos + k]
        BY <1>5, <2>7, Zenon
      <3> QED
        BY <2>7, <3>1, <3>2, <3>3, <3>4, Zenon
    <2> QED
      BY <2>1, <2>8, Zenon DEF Pending, l, v, c
  <1>10. Meant(i, 0)'
    <2> SUFFICES ASSUME NEW lvl \in {"LOGIN", "NOVICE"}
                 PROVE  MeantFor(i, 0, lvl)'
      BY DEF Meant
    <2> DEFINE n == MeaningUpto(script, lvl)[i]
    <2>1. /\ lines = n.lines /\ Line = n.typed /\ tel.type = n.t.type
          /\ SizeNext(i, 0) \/ (tel.cols = n.t.cols /\ tel.rows = n.t.rows)
          /\ FlagsAre(tel.flags, n.t.flags, lvl, level)
      BY <1>1, <1>4, Zenon DEF MeantFor, ParsedUpto, Meant
    <2>2. n' = n /\ Line' = Line /\ lines' = lines /\ level' = level
      BY <1>3 DEF Line
    <2>3. SizeNext(i, 0)' <=> SizeNext(i, 0)
      BY <1>3 DEF SizeNext
    <2> HIDE DEF n
    <2>4. FlagsAre(f, n.t.flags, lvl, level)
      BY <2>1 DEF FlagsAre
    <2> HIDE DEF f
    <2>5. /\ lines' = n'.lines /\ Line' = n'.typed /\ tel'.type = n'.t.type
          /\ FlagsAre(tel'.flags, n'.t.flags, lvl, level')
      BY <1>5, <2>1, <2>2, <2>4, Zenon
    <2>6. SizeNext(i, 0)' \/ (tel'.cols = n'.t.cols /\ tel'.rows = n'.t.rows)
      BY <1>5, <2>1, <2>2, <2>3, Zenon
    <2> QED
      BY <2>5, <2>6, Zenon DEF MeantFor, n
  <1>11. pc' = "idle" /\ i < Len(script) => Place(script, i + 1) > Arrived
    <2> SUFFICES ASSUME pc' = "idle", i < Len(script)
                 PROVE  Place(script, i + 1) > Arrived
      OBVIOUS
    <2>1. x = 0
      BY <1>3
    <2>2. p = Arrived
      BY <1>2, <1>7, <2>1
    <2> QED
      BY <2>2, NextPlace
  <1>12. NamesLast(i)
    BY <1>1, <1>3 DEF ParsedUpto
  <1>13. ParsedUpto(i, 0)'
    BY <1>3, <1>9, <1>10, <1>11, <1>12, ParsedThere
  <1>14. GotAll'
    <2>1. "GOT_TELOPT_INFO" \notin AllOptions
      BY DEF AllOptions
    <2>2. "GOT_TELOPT_INFO" \in f <=> AllOptions \subseteq f
      BY <2>1 DEF ParsedInv, GotAll
    <2> QED
      BY <1>5, <2>2 DEF GotAll
  <1> QED
    BY <1>3, <1>13, <1>14, ParsedStays

-----------------------------------------------------------------------------
(* A byte of text.                                                         *)

LEMMA SaidByteParts ==
    ASSUME NEW m \in Meanings, NEW b
    PROVE  LET n == SaidByte(m, b) IN
           /\ n.t = m.t
           /\ b = CR => n.lines = Append(m.lines, m.typed) /\ n.typed = <<>>
           /\ b \in {BS, DEL} =>
                /\ n.lines = m.lines
                /\ n.typed = IF m.typed = <<>> THEN m.typed ELSE Front(m.typed)
           /\ b \in {NUL, LF} => n = m
           /\ b \notin {NUL, LF, CR, BS, DEL} =>
                n.lines = m.lines /\ n.typed = Append(m.typed, b)
  <1> DEFINE l == Append(m.lines, m.typed)
             f == IF m.typed = <<>> THEN m.typed ELSE Front(m.typed)
             a == Append(m.typed, b)
             x1 == [m EXCEPT !.lines = l, !.typed = <<>>]
             x2 == [m EXCEPT !.typed = f]
             x4 == [m EXCEPT !.typed = a]
             n == SaidByte(m, b)
  <1>1. /\ b = CR => n = x1
        /\ b \in {BS, DEL} => n = x2
        /\ b \in {NUL, LF} => n = m
        /\ b \notin {NUL, LF, CR, BS, DEL} => n = x4
    <2> HIDE DEF x1, x2, x4
    <2>1. n = CASE b = CR -> x1 [] b \in {BS, DEL} -> x2 [] b \in {NUL, LF} -> m
                [] OTHER -> x4
      BY Zenon DEF SaidByte, x1, x2, x4, l, f, a
    <2>2. /\ CR \notin {BS, DEL} /\ CR \notin {NUL, LF}
          /\ BS \notin {NUL, LF} /\ DEL \notin {NUL, LF}
      BY DEF CR, BS, DEL, NUL, LF
    <2> HIDE DEF n
    <2> QED
      BY <2>1, <2>2
  <1> HIDE DEF l, f, a, n
  <1>2. /\ x1.lines = l /\ x1.typed = <<>> /\ x1.t = m.t
        /\ x2.lines = m.lines /\ x2.typed = f /\ x2.t = m.t
        /\ x4.lines = m.lines /\ x4.typed = a /\ x4.t = m.t
    BY DEF Meanings
  <1> HIDE DEF x1, x2, x4
  <1>3. n = x1 \/ n = x2 \/ n = m \/ n = x4
    BY <1>1
  <1>4. n.t = m.t
    BY <1>2, <1>3
  <1> QED
    BY <1>1, <1>2, <1>4 DEF l, f, a, n

\* The editor does with a byte what it means.
ByteTyped(c) ==
    \A m \in Meanings :
        m.lines = lines /\ m.typed = Line =>
            LET n == SaidByte(m, c) IN n.lines = lines' /\ n.typed = Line'

\* Where the parser is before and behind a byte.
LEMMA ByteThere ==
    ASSUME TypeInv, ScriptInv, ParsedInv, NEW c, ByteRead(c), NextByte, pc' = pc
    PROVE  \E i \in 0..Len(script) :
              /\ i < Len(script) /\ i + 1 \in 0..Len(script)
              /\ script[i + 1].kind = "text" /\ script[i + 1].byte = c
              /\ Meant(i, 0) /\ NamesLast(i + 1)
              /\ Pending(Place(script, i + 1))'
  <1>1. /\ pc = "loop" /\ len > 0 /\ input # <<>> /\ tel.bpos = 0
        /\ c = Head(input) /\ c # IAC
    BY DEF ByteRead
  <1>2. PICK i \in 0..Len(script) :
            /\ ParsedUpto(i, 0) /\ NamesLast(i) /\ Meant(i, 0)
            /\ Pending(Place(script, i))
    BY <1>1, AtLoop
  <1> DEFINE p == Place(script, i)
             b == Bytes(script)
             j == i + 1
             tok == script[j]
             e == Encoded(tok)
  <1>3. /\ p \in Nat /\ b \in Seq(Byte) /\ len \in Nat /\ tel.bpos \in Nat
        /\ Len(tel.buff) \in Nat /\ Arrived <= Len(b) /\ Len(b) \in Nat
    BY <1>2, ParsedFacts
  <1>4. /\ wire = SubSeq(b, Arrived + 1, Len(b)) /\ p + 0 + len = Arrived
        /\ Len(input) = len + 1
        /\ \A k \in 1..len : input[k] = b[p + 0 + k]
    BY <1>1, <1>2 DEF Pending
  <1>5. p + len = Arrived /\ \A k \in 1..len : input[k] = b[p + k]
    <2> HIDE DEF p, b
    <2>1. p + 0 = p
      BY <1>3
    <2> QED
      BY <1>4, <2>1
  <1>6. p < Len(b)
    <2> HIDE DEF p, b
    <2> QED
      BY <1>1, <1>3, <1>5
  <1>7. /\ i < Len(script) /\ j \in 1..Len(script) /\ tok \in Tokens
        /\ Telnet(tok) /\ e \in Seq(Byte) /\ Len(e) \in Nat /\ Len(e) >= 1
        /\ Place(script, j) = p + Len(e)
        /\ \A k \in 1..Len(e) : b[p + k] = e[k]
    BY <1>6, NextToken
  <1>8. c = e[1]
    <2>1. input \in Seq(Byte)
      BY DEF TypeInv, ReaderInv
    <2>2. c = input[1]
      BY <1>1, <2>1
    <2>3. 1 \in 1..len /\ 1 \in 1..Len(e)
      BY <1>1, <1>3, <1>7
    <2> HIDE DEF p, b, e
    <2>4. input[1] = b[p + 1] /\ b[p + 1] = e[1]
      BY <1>5, <1>7, <2>3
    <2> QED
      BY <2>2, <2>4
  <1>9. tok.kind = "text" /\ tok.byte = c /\ Len(e) = 1
    <2> HIDE DEF tok
    <2> QED
      BY <1>1, <1>7, <1>8, EncodedHead
  <1> DEFINE q == p + 1
             l == len - 1
             w == Tail(input)
  <1>10. Place(script, j) = q /\ q \in Nat /\ l \in Nat /\ q + l = Arrived
    <2> HIDE DEF e
    <2>1. Place(script, j) = q
      BY <1>7, <1>9
    <2> DEFINE a == Arrived
    <2> HIDE DEF p, a
    <2>2. q \in Nat /\ l \in Nat /\ q + l = a
      BY <1>1, <1>3, <1>5 DEF a
    <2> QED
      BY <2>1, <2>2 DEF a
  <1>11. Len(w) = l + 1 /\ \A k \in 1..l : w[k] = b[q + k]
    <2>1. input \in Seq(Byte)
      BY DEF TypeInv, ReaderInv
    <2>2. Len(w) = Len(input) - 1 /\ \A k \in 1..Len(input) - 1 : w[k] = input[k + 1]
      BY <1>1, <2>1, HeadTailProperties
    <2> HIDE DEF w, p, b
    <2>3. Len(w) = l + 1
      BY <1>3, <1>4, <2>2
    <2>4. ASSUME NEW k \in 1..l PROVE w[k] = b[q + k]
      <3> DEFINE n == k + 1
      <3>1. n \in 1..len /\ k \in 1..Len(input) - 1 /\ p + n = q + k
        BY <1>3, <1>4
      <3>2. w[k] = input[n]
        BY <2>2, <3>1
      <3> HIDE DEF n
      <3>3. input[n] = b[p + n]
        BY <1>5, <3>1
      <3> QED
        BY <3>1, <3>2, <3>3
    <2> QED
      BY <2>3, <2>4
  <1>12. /\ UNCHANGED <<script, wire, tel>> /\ input' = w /\ len' = l
         /\ pc' = "loop"
    BY <1>1 DEF NextByte
  <1>13. Pending(Place(script, j))'
    <2>1. Bytes(script)' = b /\ Place(script, j)' = q /\ Arrived' = Arrived
      BY <1>10, <1>12, ArrivedStays
    <2> HIDE DEF b, q, w, l
    <2>2. q + 0 = q
      BY <1>10
    <2>3. /\ wire' = SubSeq(b, Arrived + 1, Len(b)) /\ q + 0 + l = Arrived
          /\ 0 <= Len(tel.buff) /\ ~(0 > 0)
          /\ \A k \in 1..l : w[k] = b[q + 0 + k]
          /\ \A k \in 1..0 : tel.buff[k] = b[q + k]
      BY <1>3, <1>4, <1>10, <1>11, <1>12, <2>2
    <2>4. tel'.bpos = 0 /\ tel'.buff = tel.buff
      BY <1>1, <1>12
    <2> QED
      BY <1>11, <1>12, <2>1, <2>3, <2>4, Zenon DEF Pending
  <1>14. NamesLast(j)
    <2>1. \A k \in j + 1..Len(script) : k \in i + 1..Len(script)
      BY <1>7
    <2> HIDE DEF j
    <2> QED
      BY <1>2, <2>1, Zenon DEF NamesLast
  <1>15. j \in 0..Len(script)
    BY <1>7
  <1> QED
    BY <1>2, <1>7, <1>9, <1>13, <1>14, <1>15 DEF tok, j

LEMMA ByteParsed ==
    ASSUME TypeInv, ScriptInv, ParsedInv, NEW c, ByteRead(c), NextByte,
           pc' = pc, ByteTyped(c),
           level' = level \/ (level = "LOGIN" /\ level' = "NOVICE")
    PROVE  ParsedInv' /\ pc' = "loop"
  <1>1. PICK i \in 0..Len(script) :
            /\ i < Len(script) /\ i + 1 \in 0..Len(script)
            /\ script[i + 1].kind = "text" /\ script[i + 1].byte = c
            /\ Meant(i, 0) /\ NamesLast(i + 1)
            /\ Pending(Place(script, i + 1))'
    BY ByteThere
  <1> DEFINE j == i + 1
             tok == script[j]
  <1>2. UNCHANGED <<script, wire, tel>> /\ pc = "loop" /\ tel.bpos = 0
    BY DEF NextByte, ByteRead
  <1>3. script \in Seq(Tokens) /\ j \in 1..Len(script) /\ j - 1 = i
    BY <1>1 DEF ScriptInv
  <1>4. Meant(j, 0)'
    <2> SUFFICES ASSUME NEW lvl \in {"LOGIN", "NOVICE"}
                 PROVE  MeantFor(j, 0, lvl)'
      BY DEF Meant
    <2> DEFINE m == MeaningUpto(script, lvl)[i]
               n == MeaningUpto(script, lvl)[j]
    <2>1. m \in Meanings /\ n = Said(m, tok, lvl)
      <3>1. /\ \A l \in 0..Len(script) : MeaningUpto(script, lvl)[l] \in Meanings
            /\ \A l \in 1..Len(script) :
                  MeaningUpto(script, lvl)[l]
                      = Said(MeaningUpto(script, lvl)[l - 1], script[l], lvl)
        BY <1>3, MeaningUptoFacts
      <3> HIDE DEF j
      <3> QED
        BY <1>3, <3>1
    <2>2. n = SaidByte(m, c)
      BY <1>1, <2>1 DEF Said
    <2>3. MeantFor(i, 0, lvl)
      BY <1>1 DEF Meant
    <2>4. ~SizeNext(i, 0)
      <3>1. "text" # "size"
        OBVIOUS
      <3> QED
        BY <1>1, <3>1 DEF SizeNext
    <2>5. /\ lines = m.lines /\ Line = m.typed /\ tel.type = m.t.type
          /\ tel.cols = m.t.cols /\ tel.rows = m.t.rows
          /\ FlagsAre(tel.flags, m.t.flags, lvl, level)
      BY <2>3, <2>4, Zenon DEF MeantFor
    <2>6. n' = n
      BY <1>2
    <2> HIDE DEF m, n, j, tok
    <2>7. lines' = n.lines /\ Line' = n.typed
      <3>1. m.lines = lines /\ m.typed = Line
        BY <2>5
      <3> QED
        BY <2>1, <2>2, <3>1, Zenon DEF ByteTyped
    <2>8. n.t = m.t
      BY <2>1, <2>2, SaidByteParts
    <2>9. FlagsAre(tel.flags, m.t.flags, lvl, level')
      BY <2>5 DEF FlagsAre
    <2>10. /\ lines' = n'.lines /\ Line' = n'.typed /\ tel'.type = n'.t.type
           /\ tel'.cols = n'.t.cols /\ tel'.rows = n'.t.rows
           /\ FlagsAre(tel'.flags, n'.t.flags, lvl, level')
      <3>1. tel' = tel
        BY <1>2
      <3> QED
        BY <2>5, <2>6, <2>7, <2>8, <2>9, <3>1, Zenon
    <2> QED
      BY <2>10, Zenon DEF MeantFor, n
  <1>5. ParsedUpto(j, 0)'
    <2>1. pc' # "idle"
      BY <1>2
    <2>2. j \in 0..Len(script) /\ NamesLast(j) /\ Pending(Place(script, j))'
      BY <1>1
    <2> HIDE DEF j, tok
    <2> QED
      BY <1>2, <1>4, <2>1, <2>2, ParsedThere
  <1>6. GotAll'
    BY <1>2 DEF ParsedInv, GotAll
  <1> QED
    BY <1>1, <1>2, <1>5, <1>6, ParsedStays

\* The first b elements of the first a.
LEMMA PartOfFront ==
    ASSUME NEW s \in Seq(Plain), NEW a \in Nat, NEW b \in Nat,
           b <= a, a <= Len(s)
    PROVE  SubSeq(SubSeq(s, 1, a), 1, b) = SubSeq(s, 1, b)
  <1> DEFINE x == SubSeq(s, 1, a)
             y == SubSeq(x, 1, b)
             z == SubSeq(s, 1, b)
  <1>1. 1 \in Nat /\ 1 >= 1 /\ b <= Len(s)
    OBVIOUS
  <1>2. /\ x \in Seq(Plain) /\ Len(x) = IF 1 <= a THEN a - 1 + 1 ELSE 0
        /\ \A k \in 1..a - 1 + 1 : x[k] = s[1 + k - 1]
    BY <1>1, SubSeqType
  <1>3. /\ z \in Seq(Plain) /\ Len(z) = IF 1 <= b THEN b - 1 + 1 ELSE 0
        /\ \A k \in 1..b - 1 + 1 : z[k] = s[1 + k - 1]
    BY <1>1, SubSeqType
  <1> HIDE DEF x, z
  <1>4. Len(x) = a /\ Len(z) = b
    BY <1>2, <1>3
  <1>5. /\ y \in Seq(Plain) /\ Len(y) = IF 1 <= b THEN b - 1 + 1 ELSE 0
        /\ \A k \in 1..b - 1 + 1 : y[k] = x[1 + k - 1]
    BY <1>1, <1>2, <1>4, SubSeqType
  <1> HIDE DEF y
  <1>6. Len(y) = b
    BY <1>5
  <1>7. ASSUME NEW k \in 1..Len(y) PROVE y[k] = z[k]
    <2>1. k \in 1..b - 1 + 1 /\ k \in 1..a - 1 + 1 /\ 1 + k - 1 = k
      BY <1>6
    <2> QED
      BY <1>2, <1>3, <1>5, <2>1
  <1>8. y = z
    BY <1>3, <1>4, <1>5, <1>6, <1>7, SeqEqual
  <1> QED
    BY <1>8 DEF x, y, z

\* The line after a byte.
LEMMA LineAfter ==
    ASSUME NEW s, NEW n, buffnum' = buffnum, text'[buffnum] = s, tbpos' = n
    PROVE  Line' = SubSeq(s, 1, n)
  BY DEF Line

LEMMA IgnoreParsed ==
    ASSUME TypeInv, ScriptInv, ParsedInv, Ignore
    PROVE  ParsedInv' /\ pc' = "loop"
  <1>1. PICK c \in {NUL, LF} : ByteRead(c)
    BY DEF Ignore
  <1>2. NextByte /\ UNCHANGED <<pc, text, buffnum, tbpos, lines, level>>
    BY DEF Ignore, editor
  <1>3. ByteTyped(c)
    <2> SUFFICES ASSUME NEW m \in Meanings, m.lines = lines, m.typed = Line
                 PROVE  LET n == SaidByte(m, c) IN
                        n.lines = lines' /\ n.typed = Line'
      BY Zenon DEF ByteTyped
    <2>1. SaidByte(m, c) = m
      BY <1>1, SaidByteParts
    <2>2. Line' = Line /\ lines' = lines
      BY <1>2 DEF Line
    <2> QED
      BY <2>1, <2>2
  <1> QED
    BY <1>1, <1>2, <1>3, ByteParsed

LEMMA RuboutParsed ==
    ASSUME TypeInv, ScriptInv, ParsedInv, Rubout
    PROVE  ParsedInv' /\ pc' = "loop"
  <1>1. PICK c \in {BS, DEL} : ByteRead(c)
    BY DEF Rubout
  <1>2. NextByte /\ UNCHANGED <<pc, buffnum, lines, level>>
    BY DEF Rubout
  <1> DEFINE s == text[buffnum]
             t == tbpos
             n == t - 1
             r == SubSeq(s, 1, n)
  <1>3. /\ s \in Seq(Plain) /\ t \in Nat /\ t <= Len(s)
        /\ buffnum \in {0, 1} /\ text \in [{0, 1} -> Seq(Plain)]
        /\ Line \in Seq(Plain) /\ Len(Line) = t /\ Line = SubSeq(s, 1, t)
    BY LineFacts DEF Line
  <1>4. CASE t > 0
    <2>1. n \in Nat /\ n <= Len(s) /\ n <= t /\ n <= n /\ n = t - 1
      <3> HIDE DEF t, s
      <3> QED
        BY <1>3, <1>4
    <2>2. text' = [text EXCEPT ![buffnum] = r] /\ tbpos' = n
      BY <1>4 DEF Rubout
    <2> HIDE DEF s, t, n
    <2>3. r \in Seq(Plain)
      BY <1>3, <2>1, SubSeqType
    <2>4. SubSeq(r, 1, n) = r
      BY <1>3, <2>1, PartOfFront
    <2>5. Front(Line) = r
      <3>1. SubSeq(SubSeq(s, 1, t), 1, n) = r
        BY <1>3, <2>1, PartOfFront
      <3> QED
        BY <1>3, <2>1, <3>1 DEF Front
    <2> HIDE DEF r
    <2>6. text'[buffnum] = r
      BY <1>3, <2>2, <2>3, TextType
    <2>7. Line' = r
      BY <1>2, <2>2, <2>4, <2>6, LineAfter
    <2>8. Line # <<>>
      <3>1. Len(Line) # 0
        BY <1>3, <1>4
      <3>2. Len(<<>>) = 0
        BY EmptySeq
      <3> QED
        BY <3>1, <3>2, Zenon
    <2>9. ByteTyped(c)
      <3> SUFFICES ASSUME NEW m \in Meanings, m.lines = lines, m.typed = Line
                   PROVE  LET k == SaidByte(m, c) IN
                          k.lines = lines' /\ k.typed = Line'
        BY Zenon DEF ByteTyped
      <3>1. SaidByte(m, c).lines = lines /\ SaidByte(m, c).typed = Front(Line)
        BY <2>8, SaidByteParts
      <3> QED
        BY <1>2, <2>5, <2>7, <3>1
    <2> QED
      BY <1>1, <1>2, <2>9, ByteParsed
  <1>5. CASE ~(t > 0)
    <2>1. text' = text /\ tbpos' = 0 /\ t = 0
      BY <1>3, <1>5 DEF Rubout
    <2>2. Line' = Line
      BY <1>2, <2>1 DEF Line
    <2>3. Line = <<>>
      <3> HIDE DEF t
      <3> QED
        BY <1>3, <2>1, EmptySeq
    <2>4. ByteTyped(c)
      <3> SUFFICES ASSUME NEW m \in Meanings, m.lines = lines, m.typed = Line
                   PROVE  LET k == SaidByte(m, c) IN
                          k.lines = lines' /\ k.typed = Line'
        BY Zenon DEF ByteTyped
      <3>1. SaidByte(m, c).lines = lines /\ SaidByte(m, c).typed = Line
        BY <2>3, SaidByteParts
      <3> QED
        BY <1>2, <2>2, <3>1
    <2> QED
      BY <1>1, <1>2, <2>4, ByteParsed
  <1> QED
    BY <1>4, <1>5

\* A character behind the line.
LEMMA LineLonger ==
    ASSUME NEW s \in Seq(Plain), NEW n \in Nat, n <= Len(s), NEW c \in Plain,
           NEW y \in Seq(Plain)
    PROVE  LET r == SubSeq(s, 1, n) \o <<c>> \o y IN
           /\ r \in Seq(Plain)
           /\ SubSeq(r, 1, n + 1) = Append(SubSeq(s, 1, n), c)
  <1> DEFINE x == SubSeq(s, 1, n)
             o == <<c>>
             z == x \o o
             r == z \o y
             q == n + 1
             u == SubSeq(r, 1, q)
             v == Append(x, c)
  <1>1. 1 \in Nat /\ 1 >= 1 /\ q \in Nat /\ q = n + 1
    OBVIOUS
  <1>2. x \in Seq(Plain) /\ Len(x) = n
    BY <1>1, SubSeqType
  <1> HIDE DEF x
  <1>3. o \in Seq(Plain) /\ Len(o) = 1 /\ o[1] = c
    OBVIOUS
  <1>4. /\ v \in Seq(Plain) /\ Len(v) = n + 1 /\ v[n + 1] = c
        /\ \A k \in 1..n : v[k] = x[k]
    BY <1>2
  <1> HIDE DEF o, v, q
  <1>5. z \in Seq(Plain) /\ IsJoined(z, x, o)
    BY <1>2, <1>3, Joined
  <1> HIDE DEF z
  <1>6. r \in Seq(Plain) /\ IsJoined(r, z, y)
    BY <1>5, Joined
  <1> HIDE DEF r
  <1>7. Len(z) = q /\ z[q] = c /\ \A k \in 1..n : z[k] = x[k]
    <2>1. /\ Len(z) = Len(x) + Len(o) /\ \A k \in 1..Len(x) : z[k] = x[k]
          /\ \A k \in 1..Len(o) : z[Len(x) + k] = o[k]
      BY <1>5, Zenon DEF IsJoined
    <2>2. 1 \in 1..Len(o)
      BY <1>3
    <2>3. z[Len(x) + 1] = o[1]
      BY <2>1, <2>2
    <2> QED
      BY <1>1, <1>2, <1>3, <2>1, <2>3
  <1>8. q <= Len(r) /\ \A k \in 1..q : r[k] = z[k]
    <2>1. /\ Len(r) = Len(z) + Len(y) /\ \A k \in 1..Len(z) : r[k] = z[k]
      BY <1>6, Zenon DEF IsJoined
    <2> QED
      BY <1>1, <1>7, <2>1
  <1>9. /\ u \in Seq(Plain) /\ Len(u) = IF 1 <= q THEN q - 1 + 1 ELSE 0
        /\ \A k \in 1..q - 1 + 1 : u[k] = r[1 + k - 1]
    BY <1>1, <1>6, <1>8, SubSeqType
  <1> HIDE DEF u
  <1>10. Len(u) = q /\ Len(v) = q
    BY <1>1, <1>4, <1>9
  <1>11. ASSUME NEW k \in 1..Len(u) PROVE u[k] = v[k]
    <2>1. k \in 1..q - 1 + 1 /\ 1 + k - 1 = k /\ k \in 1..q
      BY <1>1, <1>10
    <2>2. u[k] = z[k]
      BY <1>8, <1>9, <2>1
    <2>3. CASE k = q
      <3>1. v[q] = c /\ z[q] = c
        BY <1>1, <1>4, <1>7
      <3> QED
        BY <2>2, <2>3, <3>1, Zenon
    <2>4. CASE k # q
      <3>1. k \in 1..n
        BY <1>1, <2>1, <2>4
      <3> QED
        BY <1>4, <1>7, <2>2, <3>1
    <2> QED
      BY <2>3, <2>4
  <1>12. u = v
    BY <1>4, <1>9, <1>10, <1>11, SeqEqual
  <1> QED
    BY <1>6, <1>12 DEF u, v, r, z, o, x, q

LEMMA CharParsed ==
    ASSUME TypeInv, ScriptInv, ParsedInv, Char
    PROVE  ParsedInv' /\ pc' = "loop"
  <1>1. PICK c \in Range(input) \ {NUL, LF, CR, BS, DEL} :
            /\ ByteRead(c)
            /\ text' = [text EXCEPT ![buffnum] =
                   SubSeq(@, 1, tbpos) \o <<c>> \o SubSeq(@, tbpos + 2, Len(@))]
    BY DEF Char
  <1>2. NextByte /\ UNCHANGED <<pc, buffnum, lines, level>> /\ tbpos' = tbpos + 1
    BY DEF Char
  <1> DEFINE s == text[buffnum]
             t == tbpos
             m == t + 2
             l == Len(s)
             y == SubSeq(s, m, l)
             r == SubSeq(s, 1, t) \o <<c>> \o y
  <1>3. /\ s \in Seq(Plain) /\ t \in Nat /\ t <= Len(s)
        /\ buffnum \in {0, 1} /\ text \in [{0, 1} -> Seq(Plain)]
        /\ Line = SubSeq(s, 1, t)
    BY LineFacts DEF Line
  <1>4. c \in Plain
    <2>1. c \in Byte
      BY <1>1, <1>2, NextByteType
    <2>2. c # LF
      BY <1>1
    <2> QED
      BY <2>1, <2>2 DEF Plain
  <1>5. y \in Seq(Plain)
    <2>1. m \in Nat /\ m >= 1 /\ l \in Nat /\ l <= Len(s)
      BY <1>3
    <2> HIDE DEF s, m, l
    <2> QED
      BY <1>3, <2>1, SubSeqType
  <1>6. text' = [text EXCEPT ![buffnum] = r]
    BY <1>1, <1>3
  <1> HIDE DEF s, t, y
  <1>7. r \in Seq(Plain) /\ SubSeq(r, 1, t + 1) = Append(Line, c)
    BY <1>3, <1>4, <1>5, LineLonger
  <1> HIDE DEF r
  <1>8. text'[buffnum] = r
    BY <1>3, <1>6, <1>7, TextType
  <1>9. Line' = Append(Line, c)
    <2>1. tbpos' = t + 1
      BY <1>2 DEF t
    <2>2. Line' = SubSeq(r, 1, t + 1)
      BY <1>2, <1>8, <2>1, LineAfter
    <2> QED
      BY <1>7, <2>2
  <1>10. ByteTyped(c)
    <2> SUFFICES ASSUME NEW n \in Meanings, n.lines = lines, n.typed = Line
                 PROVE  LET k == SaidByte(n, c) IN
                        k.lines = lines' /\ k.typed = Line'
      BY Zenon DEF ByteTyped
    <2>1. c \notin {NUL, LF, CR, BS, DEL}
      BY <1>1
    <2>2. /\ SaidByte(n, c).lines = lines
          /\ SaidByte(n, c).typed = Append(Line, c)
      BY <2>1, SaidByteParts
    <2> QED
      BY <1>2, <1>9, <2>2
  <1> QED
    BY <1>1, <1>2, <1>10, ByteParsed

\* A line that ends is one of the lines, and nothing is typed then.
LEMMA LineEnds ==
    ASSUME TypeInv, ScriptInv, ParsedInv, ByteRead(CR), NextByte, pc' = pc,
           lines' = Append(lines, Line), Line' = <<>>,
           level' = level \/ (level = "LOGIN" /\ level' = "NOVICE")
    PROVE  ParsedInv' /\ pc' = "loop"
  <1>1. ByteTyped(CR)
    <2> SUFFICES ASSUME NEW n \in Meanings, n.lines = lines, n.typed = Line
                 PROVE  LET k == SaidByte(n, CR) IN
                        k.lines = lines' /\ k.typed = Line'
      BY Zenon DEF ByteTyped
    <2>1. /\ SaidByte(n, CR).lines = Append(lines, Line)
          /\ SaidByte(n, CR).typed = <<>>
      BY SaidByteParts
    <2> QED
      BY <2>1
  <1> QED
    BY <1>1, ByteParsed

\* Nothing is typed.
LEMMA NothingTyped ==
    ASSUME TypeInv', tbpos' = 0
    PROVE  Line' = <<>>
  <1> DEFINE s == text'[buffnum']
             u == SubSeq(s, 1, 0)
  <1>1. s \in Seq(Plain) /\ Len(s) \in Nat
    <2>1. s \in Seq(Plain)
      BY DEF TypeInv, EditorInv
    <2> HIDE DEF s
    <2> QED
      BY <2>1
  <1>2. Line' = u
    BY DEF Line
  <1>3. u \in Seq(Plain) /\ Len(u) = 0
    <2> HIDE DEF s
    <2>1. /\ u \in Seq(Plain) /\ Len(u) = IF 1 <= 0 THEN 0 - 1 + 1 ELSE 0
      <3>1. 1 \in Nat /\ 1 >= 1 /\ 0 \in Nat /\ 0 <= Len(s)
        BY <1>1
      <3> QED
        BY <1>1, <3>1, SubSeqType
    <2> HIDE DEF u
    <2> QED
      BY <2>1
  <1> HIDE DEF u
  <1> QED
    BY <1>2, <1>3, EmptySeq

LEMMA LoginLineParsed ==
    ASSUME TypeInv, TypeInv', ScriptInv, ParsedInv, LoginLine
    PROVE  ParsedInv' /\ pc' = "loop"
  <1>1. /\ ByteRead(CR) /\ NextByte /\ pc' = pc /\ lines' = Append(lines, Line)
        /\ tbpos' = 0
        /\ level' = level \/ (level = "LOGIN" /\ level' = "NOVICE")
    BY DEF LoginLine
  <1> QED
    BY <1>1, NothingTyped, LineEnds

LEMMA CommandLineReadParsed ==
    ASSUME TypeInv, TypeInv', ScriptInv, ParsedInv, CommandLineRead
    PROVE  (ParsedInv' /\ pc' = "loop") \/ pc' = "terminated"
  <1>1. /\ ByteRead(CR) /\ NextByte /\ pc' \in {pc, "terminated"}
        /\ lines' = Append(lines, Line) /\ tbpos' = 0 /\ level' = level
    BY DEF CommandLineRead
  <1> QED
    BY <1>1, NothingTyped, LineEnds

-----------------------------------------------------------------------------
(* The invariant holds, and the peer is understood.                        *)

LEMMA ParsedRests ==
    ASSUME ScriptInv, ParsedInv, UNCHANGED vars
    PROVE  ParsedInv'
  <1>1. PICK i \in 0..Len(script), r \in {0, 2} : ParsedUpto(i, r)
    BY DEF ParsedInv
  <1>2. UNCHANGED <<script, wire, pc, input, len, tel, text, buffnum, tbpos,
                    lines, level>>
    BY DEF vars
  <1>3. Pending(Place(script, i) - r)'
    <2>1. Pending(Place(script, i) - r)
      BY <1>1 DEF ParsedUpto
    <2> QED
      BY <1>2, <2>1 DEF Pending, Arrived
  <1>4. Meant(i, r)'
    <2>1. Meant(i, r)
      BY <1>1 DEF ParsedUpto
    <2> QED
      BY <1>2, <2>1, MeantStays
  <1>5. ParsedUpto(i, r)'
    <2>1. NamesLast(i) => NamesLast(i)'
      BY <1>2, ArrivedStays
    <2>2. Arrived' = Arrived
      BY <1>2, ArrivedStays
    <2> QED
      BY <1>1, <1>2, <1>3, <1>4, <2>1, <2>2 DEF ParsedUpto
  <1>6. GotAll'
    BY <1>2 DEF ParsedInv, GotAll
  <1> QED
    BY <1>2, <1>5, <1>6, ParsedStays

\* The loop does not read behind the end of input.
LEMMA NotPastEnd ==
    ASSUME TypeInv, ScriptInv, ParsedInv
    PROVE  ~ReadPastEnd /\ ~OptionPastEnd
  <1>1. ~ReadPastEnd
    <2> SUFFICES ASSUME ReadPastEnd PROVE FALSE
      OBVIOUS
    <2>1. pc = "loop" /\ len > 0 /\ input = <<>>
      BY DEF ReadPastEnd
    <2>2. PICK i \in 0..Len(script) : Pending(Place(script, i))
      BY <2>1, AtLoop
    <2>3. Len(input) = len + 1
      BY <2>1, <2>2 DEF Pending
    <2>4. len \in Nat /\ Len(input) = 0
      BY <2>1, EmptySeq DEF TypeInv, ReaderInv
    <2> QED
      BY <2>3, <2>4
  <1>2. ~OptionPastEnd
    <2> SUFFICES ASSUME OptionPastEnd PROVE FALSE
      OBVIOUS
    <2>1. /\ pc = "telopt" /\ tel.bpos > 0 /\ At(tel.buff, 1) = IAC
          /\ ReadsOn(tel)
      BY DEF OptionPastEnd
    <2>2. PICK i \in 0..Len(script), r \in {0, 2} : ParsedUpto(i, r)
      BY DEF ParsedInv
    <2> QED
      BY <2>1, <2>2, OptionCut
  <1> QED
    BY <1>1, <1>2

LEMMA UnderstandStep ==
    ASSUME TypeInv, TypeInv', ScriptInv, UnderstandInv, [Next]_vars
    PROVE  UnderstandInv'
  <1> SUFFICES ASSUME careful'
               PROVE  /\ pc' # "undefined"
                      /\ pc' \in {"idle", "loop", "telopt"} => ParsedInv'
    BY DEF UnderstandInv
  <1>1. careful
    BY DEF Next, Handle, vars, Packet, EndPacket, ReadPastEnd, Stash, OneOption,
           CutOption, OptionPastEnd, OptionsDone, Ignore, Rubout, Char,
           LoginLine, CommandLineRead, NextByte
  <1>2. pc # "undefined" /\ (pc \in {"idle", "loop", "telopt"} => ParsedInv)
    BY <1>1 DEF UnderstandInv
  <1>3. CASE UNCHANGED vars
    <2>1. pc' = pc
      BY <1>3 DEF vars
    <2> QED
      BY <1>2, <1>3, <2>1, ParsedRests
  <1>4. CASE Next
    <2>1. pc \in {"idle", "loop", "telopt"}
      BY <1>4 DEF Next, Handle, Packet, EndPacket, ReadPastEnd, Stash,
           OneOption, CutOption, OptionPastEnd, OptionsDone, Ignore, Rubout,
           Char, LoginLine, CommandLineRead, ByteRead
    <2>2. ParsedInv
      BY <1>2, <2>1
    <2>3. ASSUME NEW k \in 1..Len(wire), Packet(k)
          PROVE  ParsedInv' /\ pc' = "loop"
      BY <2>2, <2>3, PacketParsed
    <2>4. EndPacket => ParsedInv' /\ pc' = "idle"
      BY <2>2, EndPacketParsed DEF EndPacket
    <2>5. Stash => ParsedInv' /\ pc' = "telopt"
      BY <2>2, StashParsed
    <2>6. OneOption => ParsedInv' /\ pc' = "telopt"
      BY <2>2, OneOptionParsed
    <2>7. CutOption => ParsedInv' /\ pc' = "idle"
      BY <2>2, CutOptionParsed
    <2>8. OptionsDone => ParsedInv' /\ pc' \in {"idle", "loop"}
      BY <2>2, OptionsDoneParsed
    <2>9. Ignore \/ Rubout \/ Char \/ LoginLine => ParsedInv' /\ pc' = "loop"
      BY <2>2, IgnoreParsed, RuboutParsed, CharParsed, LoginLineParsed
    <2>10. CommandLineRead =>
                (ParsedInv' /\ pc' = "loop") \/ pc' = "terminated"
      BY <2>2, CommandLineReadParsed
    <2>11. ~ReadPastEnd /\ ~OptionPastEnd
      BY <2>2, NotPastEnd
    <2>12. \/ ParsedInv' /\ pc' \in {"idle", "loop", "telopt"}
           \/ pc' = "terminated"
      BY <1>4, <2>3, <2>4, <2>5, <2>6, <2>7, <2>8, <2>9, <2>10, <2>11
         DEF Next, Handle
    <2> QED
      BY <2>12
  <1> QED
    BY <1>3, <1>4

\* What the invariant says of a peer that is understood.
LEMMA UnderstandIs ==
    ASSUME TypeInv, ScriptInv, UnderstandInv
    PROVE  Understood
  <1> DEFINE f == tel.flags
             m == Meaning(level)
             g == m.t.flags
             b == Bytes(script)
             n == Len(script)
  <1> SUFFICES ASSUME careful
               PROVE  /\ ~Stuck /\ pc # "undefined"
                      /\ AllSaid =>
                          /\ lines = m.lines /\ Line = m.typed
                          /\ tel.bpos = 0
                          /\ <<tel.cols, tel.rows, tel.type>>
                                  = <<m.t.cols, m.t.rows, m.t.type>>
                          /\ g \subseteq f
                          /\ f \ g \subseteq {"TERMSIZE", "GOT_TELOPT_INFO"}
                          /\ level = "LOGIN" =>
                                (/\ "TERMSIZE" \in f <=> "TERMSIZE" \in g
                                 /\ "GOT_TELOPT_INFO" \in f
                                        <=> AllOptions \subseteq g)
    BY Zenon DEF Understood
  <1>1. pc # "undefined" /\ (pc \in {"idle", "loop", "telopt"} => ParsedInv)
    BY DEF UnderstandInv
  <1>2. ~Stuck
    <2> SUFFICES ASSUME Stuck PROVE FALSE
      OBVIOUS
    <2>1. pc = "telopt" /\ tel.bpos >= 2 /\ At(tel.buff, 1) = IAC
      BY DEF Stuck
    <2>2. tel.bpos > 0
      <3>1. tel.bpos \in Nat
        BY TelnetFields DEF TypeInv, ReaderInv
      <3> QED
        BY <2>1, <3>1
    <2>3. ParsedInv
      BY <1>1, <2>1
    <2>4. PICK i \in 0..Len(script), r \in {0, 2} : ParsedUpto(i, r)
      BY <2>3 DEF ParsedInv
    <2> QED
      BY <2>1, <2>2, <2>3, <2>4, OptionCut
  <1>3. ASSUME AllSaid
        PROVE  /\ lines = m.lines /\ Line = m.typed /\ tel.bpos = 0
               /\ tel.cols = m.t.cols /\ tel.rows = m.t.rows
               /\ tel.type = m.t.type
               /\ FlagsAre(f, g, level, level) /\ GotAll
    <2>1. wire = <<>> /\ pc = "idle" /\ ParsedInv
      BY <1>1, <1>3 DEF AllSaid
    <2>2. PICK i \in 0..n, r \in {0, 2} : ParsedUpto(i, r)
      BY <2>1 DEF ParsedInv
    <2>3. r = 0
      BY <2>1, <2>2 DEF ParsedUpto
    <2> DEFINE p == Place(script, i)
    <2>4. /\ p \in Nat /\ Len(b) \in Nat /\ tel.bpos \in Nat /\ len \in Nat
          /\ Arrived = p - 0 + tel.bpos + len
      BY <2>2, <2>3, ParsedFacts
    <2>5. Arrived = Len(b)
      <3>1. Len(wire) = 0
        BY <2>1, EmptySeq
      <3> HIDE DEF b
      <3> QED
        BY <2>4, <3>1 DEF Arrived, b
    <2>6. script \in Seq(Tokens) /\ n \in Nat
      BY DEF ScriptInv
    <2>7. i = n
      <3> SUFFICES ASSUME i < n PROVE FALSE
        BY <2>6
      <3> DEFINE j == i + 1
      <3>1. j \in 0..n /\ n \in 0..n /\ j <= n
        BY <2>6
      <3>2. Place(script, j) > Arrived
        BY <2>1, <2>2 DEF ParsedUpto
      <3> HIDE DEF j
      <3>3. /\ Place(script, j) \in Nat /\ Place(script, n) = Len(b)
            /\ Place(script, j) <= Place(script, n)
        BY <2>6, <3>1, PlaceFacts
      <3> HIDE DEF b, n
      <3> QED
        BY <2>4, <2>5, <3>2, <3>3
    <2>8. tel.bpos = 0
      <3>1. p = Len(b)
        BY <2>6, <2>7, PlaceFacts
      <3> HIDE DEF p, b
      <3> QED
        BY <2>4, <2>5, <3>1
    <2>9. MeantFor(n, 0, level)
      <3>1. level \in {"LOGIN", "NOVICE"}
        BY DEF TypeInv, EditorInv
      <3> QED
        BY <2>2, <2>3, <2>7, <3>1 DEF ParsedUpto, Meant
    <2>10. ~SizeNext(n, 0)
      BY <2>6 DEF SizeNext
    <2>11. MeaningUpto(script, level)[n] = m
      BY DEF Meaning
    <2> HIDE DEF m, n
    <2> QED
      BY <2>1, <2>8, <2>9, <2>10, <2>11, Zenon DEF MeantFor, ParsedInv
  <1> HIDE DEF m
  <1>4. ASSUME AllSaid
        PROVE  /\ g \subseteq f /\ f \ g \subseteq {"TERMSIZE", "GOT_TELOPT_INFO"}
               /\ level = "LOGIN" =>
                    (/\ "TERMSIZE" \in f <=> "TERMSIZE" \in g
                     /\ "GOT_TELOPT_INFO" \in f <=> AllOptions \subseteq g)
    <2>1. level \in {"LOGIN", "NOVICE"}
      BY DEF TypeInv, EditorInv
    <2>2. FlagsAre(f, g, level, level) /\ GotAll /\ pc = "idle" /\ tel.bpos = 0
      BY <1>3, <1>4 DEF AllSaid
    <2>3. "GOT_TELOPT_INFO" \in f <=> AllOptions \subseteq f
      BY <2>2 DEF GotAll
    <2> HIDE DEF f, g
    <2>4. g \subseteq f /\ f \ g \subseteq {"TERMSIZE", "GOT_TELOPT_INFO"}
      BY <2>1, <2>2 DEF FlagsAre
    <2>5. level = "LOGIN" => ("TERMSIZE" \in f <=> "TERMSIZE" \in g)
      BY <2>2, <2>4 DEF FlagsAre
    <2>6. level = "LOGIN" => (AllOptions \subseteq f <=> AllOptions \subseteq g)
      BY <2>4, <2>5 DEF AllOptions
    <2> QED
      BY <2>3, <2>4, <2>5, <2>6
  <1> QED
    BY <1>1, <1>2, <1>3, <1>4

\* However the network cuts what a telnet client says, in packets the code
\* can handle (CarefulPacket), uRead and parseTelopt never read behind a
\* string and never hang, and once all has arrived the user has every line as
\* it was typed, the text not yet ended, and the terminal and the options the
\* client told (uRead, parseTelopt, getTermsize, getTermtype).
THEOREM UnderstoodCorrect ==
    ASSUME SpeaksTelnet
    PROVE  Spec => []Understood
  <1>1. Init => TypeInv /\ ScriptInv /\ UnderstandInv
    <2> SUFFICES ASSUME Init PROVE TypeInv /\ ScriptInv /\ UnderstandInv
      OBVIOUS
    <2>1. TypeInv /\ ScriptInv
      BY InitType, InitScript
    <2>2. ParsedInv
      BY <2>1, InitParsed
    <2>3. pc = "idle"
      BY DEF Init
    <2> QED
      BY <2>1, <2>2, <2>3 DEF UnderstandInv
  <1>2. TypeInv /\ ScriptInv /\ UnderstandInv /\ [Next]_vars
            => (TypeInv /\ ScriptInv /\ UnderstandInv)'
    <2> SUFFICES ASSUME TypeInv, ScriptInv, UnderstandInv, [Next]_vars
                 PROVE  (TypeInv /\ ScriptInv /\ UnderstandInv)'
      OBVIOUS
    <2>1. TypeInv'
      BY TypeStep
    <2>2. script' = script
      BY DEF Next, Handle, vars, Packet, EndPacket, ReadPastEnd, Stash,
             OneOption, CutOption, OptionPastEnd, OptionsDone, Ignore, Rubout,
             Char, LoginLine, CommandLineRead, NextByte
    <2>3. ScriptInv'
      BY <2>2 DEF ScriptInv
    <2>4. UnderstandInv'
      BY <2>1, UnderstandStep
    <2> QED
      BY <2>1, <2>3, <2>4
  <1>3. TypeInv /\ ScriptInv /\ UnderstandInv => Understood
    BY UnderstandIs
  <1> QED
    BY <1>1, <1>2, <1>3, PTL DEF Spec
===============================================================================
