---------------------------- MODULE CommandLine -----------------------------
(***************************************************************************)
(* What becomes of a line of text: Strings/misc (cleanString),             *)
(* Strings/Splitline, the output of User::uPrintf, and reference           *)
(* definitions of the words of a line.                                     *)
(*                                                                         *)
(* A text is a sequence of bytes.  Positions count from 1.  char is signed *)
(* where the program runs: a byte above 127 is less than a blank.          *)
(***************************************************************************)
EXTENDS Naturals, Sequences, SequencesExt

Tab == 9
LF == 10
CR == 13
Space == 32
Quote == 34
Percent == 37
Slash == 47
Backslash == 92

Blank(c) == c <= Space \/ c > 127

-----------------------------------------------------------------------------
(* The code.                                                               *)

\* cleanString, in place: a percent sign that is not doubled becomes a space;
\* the second one of a pair is skipped.  The branch for control codes does
\* nothing: its assignment stands behind the break.
Skipped(s) ==
    LET skipped[i \in 0..Len(s)] ==
            /\ i > 1
            /\ s[i] = Percent /\ s[i - 1] = Percent /\ ~skipped[i - 1]
    IN  skipped

Clean(s) ==
    LET skipped == Skipped(s) IN
    [i \in DOMAIN s |->
        IF s[i] = Percent /\ ~skipped[i] /\ (i = Len(s) \/ s[i + 1] # Percent)
        THEN Space ELSE s[i]]

\* The first position from o1 on that is not blank.
SkipBlanks(line, o1) ==
    LET others == {o \in o1..Len(line) : ~Blank(line[o])}
    IN  IF others = {} THEN Len(line) + 1 ELSE Min(others)

\* Where the word at a position may end: at a blank; a quote at the next one
\* that does not follow a backslash.
QuoteEnds(line, start) ==
    {o \in start + 1..Len(line) :
        line[o] = Quote /\ (o = start + 1 \/ line[o - 1] # Backslash)}

BlankEnds(line, start) == {o \in start..Len(line) : Blank(line[o])}

VariantWordAt(line, start) ==
    LET quotes == {o \in start + 1..Len(line) : line[o] = Quote}
        ends == IF line[start] = Quote THEN quotes ELSE BlankEnds(line, start)
    IN  IF ends = {} THEN [o2 |-> Len(line) + 1, ended |-> FALSE]
        ELSE [o2 |-> IF line[start] = Quote THEN Min(ends) + 1 ELSE Min(ends),
              ended |-> TRUE]

\* The position after the word that starts at a position, and whether its end
\* was found in front of the line's.
WordAt(line, start) ==
    LET ends == IF line[start] = Quote THEN QuoteEnds(line, start)
                ELSE BlankEnds(line, start)
    IN  IF ends = {} THEN [o2 |-> Len(line) + 1, ended |-> FALSE]
        ELSE [o2 |-> IF line[start] = Quote THEN Min(ends) + 1 ELSE Min(ends),
              ended |-> TRUE]

\* w without the backslashes before quotes: of its first i characters.
UnescapedUpto(w) ==
    LET upto[i \in 0..Len(w)] ==
            IF i = 0 THEN <<>>
            ELSE IF i < Len(w) /\ w[i] = Backslash /\ w[i + 1] = Quote
            THEN upto[i - 1] ELSE Append(upto[i - 1], w[i])
    IN  upto

Unescaped(w) == UnescapedUpto(w)[Len(w)]

\* The word that Splitline::addWord takes from start to o2.  A quote that is
\* not closed gives the line from its second character on, wherever the quote
\* starts.
AddWord(line, start, o2, ended) ==
    IF line[start] # Quote THEN SubSeq(line, start, o2 - 1)
    ELSE IF ended THEN Unescaped(SubSeq(line, start + 1, o2 - 2))
    ELSE Unescaped(SubSeq(line, 2, Len(line)))

\* Is there a word at o1 or behind it?  A quote that is the last character is
\* no word.
HasWord(line, o1) ==
    LET start == SkipBlanks(line, o1) IN
    start <= Len(line) /\ ~(start = Len(line) /\ line[start] = Quote)

\* Where getWord looks for the next word when it was called at o1.
AfterWord(line, o1) ==
    IF HasWord(line, o1) THEN WordAt(line, SkipBlanks(line, o1)).o2 ELSE o1

\* Where getWord looks for the next word when parse has n of them.
Searches(line) ==
    LET after == [o \in 1..Len(line) + 1 |-> AfterWord(line, o)]
        o1[n \in 0..Len(line)] == IF n = 0 THEN 1 ELSE after[o1[n - 1]]
    IN  o1

\* The words of a line with their positions, as parse gets them.
GetWords(line) ==
    LET o1 == Searches(line)
        count == Min({n \in 0..Len(line) : ~HasWord(line, o1[n])})
        start(k) == SkipBlanks(line, o1[k - 1])
        w(k) == WordAt(line, start(k))
    IN  [k \in 1..count |->
            [text |-> AddWord(line, start(k), w(k).o2, w(k).ended),
             start |-> start(k)]]

\* Splitline::parse: the words are new; wordPtr keeps the positions of the
\* lines before, and an empty line leaves the old one in place.
Parse(com, inLine) ==
    LET words == GetWords(inLine) IN
    IF inLine = <<>> THEN [com EXCEPT !.word = <<>>]
    ELSE [line |-> inLine,
          word |-> [k \in DOMAIN words |-> words[k].text],
          wordPtr |-> com.wordPtr \o [k \in DOMAIN words |-> words[k].start]]

\* What uPrintf sends for a text: line feeds get a carriage return; a slash
\* is held back until the next character.
PrintedUpto(s) ==
    LET upto[i \in 0..Len(s)] ==
            IF i = 0 THEN <<>>
            ELSE upto[i - 1]
                 \o (IF i > 1 /\ s[i - 1] = Slash THEN <<Slash>> ELSE <<>>)
                 \o (IF s[i] = Slash THEN <<>>
                     ELSE IF s[i] = LF THEN <<CR, LF>> ELSE <<s[i]>>)
    IN  upto

Printed(s) == PrintedUpto(s)[Len(s)]

-----------------------------------------------------------------------------
(* What it should do.                                                      *)

\* A percent sign stays if it is one of a pair, counting from the first of
\* its row.  Control codes stay too, which the comment of cleanString denies:
\* see ControlCodesRemoved of module Input.
CleanReference(s) ==
    [i \in DOMAIN s |->
        IF /\ s[i] = Percent
           /\ i = Len(s) \/ s[i + 1] # Percent
           /\ \E k \in 0..i - 1 :
                 /\ k % 2 = 0
                 /\ \A j \in i - k..i : s[j] = Percent
                 /\ i - k = 1 \/ s[i - k - 1] # Percent
        THEN Space ELSE s[i]]

\* A line read character by character: the words so far and where they
\* start, and whether the reader is between words, in one or in a quote.
Reading == [mode |-> "gap", word |-> <<>>, words |-> <<>>, starts |-> <<>>]

Begun(a, i, mode, w) ==
    [mode |-> mode, word |-> w, words |-> a.words, starts |-> Append(a.starts, i)]
Goes(a, w) ==
    [mode |-> a.mode, word |-> w, words |-> a.words, starts |-> a.starts]
Ended(a) ==
    [mode |-> "gap", word |-> <<>>, words |-> Append(a.words, a.word),
     starts |-> a.starts]

\* What the i-th character c does.
ReadNext(a, c, i) ==
    CASE a.mode = "gap" /\ Blank(c) -> a
      [] a.mode = "gap" /\ c = Quote -> Begun(a, i, "quote", <<>>)
      [] a.mode = "gap" /\ ~Blank(c) /\ c # Quote -> Begun(a, i, "word", <<c>>)
      [] a.mode = "word" /\ Blank(c) -> Ended(a)
      [] a.mode = "quote" /\ c = Quote ->
            IF a.word # <<>> /\ Last(a.word) = Backslash
            THEN Goes(a, Append(Front(a.word), Quote))
            ELSE Ended(a)
      [] OTHER -> Goes(a, Append(a.word, c))

ReadUpto(line) ==
    LET upto[i \in 0..Len(line)] ==
            IF i = 0 THEN Reading ELSE ReadNext(upto[i - 1], line[i], i)
    IN  upto

\* The end of the line ends a word.
Closed(a) == IF a.mode = "word" THEN Ended(a) ELSE a

ReadLine(line) == Closed(ReadUpto(line)[Len(line)])

OpenQuote(line) == ReadLine(line).mode = "quote"
WordsReference(line) == ReadLine(line).words

\* The line from its i-th word on.
FromWord(line, i) == SubSeq(line, ReadLine(line).starts[i], Len(line))
=============================================================================
