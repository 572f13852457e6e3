-------------------------------- MODULE Input -------------------------------
(***************************************************************************)
(* How the bytes of a peer become options and lines (Common/User: uRead,   *)
(* parseTelopt, getTermsize, getTermtype, parseLine, runCmdLine).          *)
(*                                                                         *)
(* A peer says tokens: text, and telnet options with their encoding.  The  *)
(* network delivers the bytes in packets that are cut anywhere.  A packet  *)
(* is handled by uRead, one step per byte of text and per option; an       *)
(* option that is cut is kept in buff for the next packet.                 *)
(*                                                                         *)
(* Of login (module Session) only matters here whether the user is logged  *)
(* in afterwards; of the commands, "say" is the only one that uses the     *)
(* words.  It is the one letter SayLetter here.  What is printed, but for  *)
(* the text of "say", is left out.                                         *)
(*                                                                         *)
(* Definitions marked "Variant" are not part of the specification: each is *)
(* the definition after it with a plausible bug, which some property finds.*)
(***************************************************************************)
EXTENDS CommandLine, Integers

CONSTANTS
    Sessions,       \* [level, script] of the users: what each one says
    AnsiTerms,      \* global.ansiTerms
    SayLetter,      \* the name of the command "say"
    MaxSize,        \* NetworkMessage::MAXSIZE
    MaxText         \* the longest text AddString takes, 8192 in the code

Byte == 0..255
Word == 0..65535
Dot == 46
NUL == 0
BS == 8
DEL == 127
SE == 240
AYT == 246
SB == 250
WILL == 251
WONT == 252
DO == 253
DONT == 254
IAC == 255
ECHO == 1
SGA == 3
TERM == 24
NAWS == 31
IS == 0
SEND == 1

\* "<name> say: ", by one letter.
Heading == <<62>>

\* The terminal type "<unresolved>", by its first letter.
Unresolved == <<60>>

AllOptions == {"ECHO", "SGA", "TERMTYPE", "TERMSIZE"}

VARIABLES
    script,         \* what the peer says, a sequence of tokens
    wire,           \* the bytes that have not arrived yet
    careful,        \* no packet so far was cut where the code needs it whole
    pc,             \* uRead: "idle", at a byte ("loop"), in parseTelopt
                    \* ("telopt"); or "undefined" after a read past the end
                    \* of a string, "terminated" after a throw
    input, len,     \* uRead's locals: the bytes from the i-th on, with the
                    \* zero that ends a string, and how many are to be read
    tel,            \* the telnet fields of User
    text,           \* textBuffer
    buffnum, tbpos, \* the buffer in use, and how much of it is typed
    level, stage,   \* of the user
    com,            \* User::com
    lines,          \* history: the lines handed to login and parseLine
    parsed,         \* history: the line that com was last parsed from
    told            \* history: what others got of the last command line

vars == <<script, wire, careful, pc, input, len, tel, text, buffnum, tbpos,
          level, stage, com, lines, parsed, told>>

reading == <<pc, input, len>>
editor == <<text, buffnum, tbpos, com, lines, parsed, told>>

-----------------------------------------------------------------------------
(* The peer.                                                               *)

Escaped(b) == IF b = IAC THEN <<IAC, IAC>> ELSE <<b>>

\* The bytes of a token, as the telnet protocol has them.
Encoded(t) ==
    CASE t.kind = "text" -> <<t.byte>>
      [] t.kind = "command" -> <<IAC, t.byte>>
      [] t.kind = "option" -> <<IAC, t.verb, t.option>>
      [] t.kind = "size" ->
            <<IAC, SB, NAWS>> \o Escaped(t.cols \div 256)
                \o Escaped(t.cols % 256) \o Escaped(t.rows \div 256)
                \o Escaped(t.rows % 256) \o t.tail
      [] t.kind = "type" -> <<IAC, SB, TERM, t.is>> \o t.name \o <<IAC, SE>>
      [] t.kind = "sub" -> <<IAC, SB, t.option, IAC, SE>>

\* The bytes of the first tokens, and of all.
BytesUpto(s) ==
    LET upto[j \in 0..Len(s)] ==
            IF j = 0 THEN <<>> ELSE upto[j - 1] \o Encoded(s[j])
    IN  upto

Bytes(s) == BytesUpto(s)[Len(s)]

Tokens ==
    [kind : {"text", "command"}, byte : Byte]
    \cup [kind : {"option"}, verb : Byte, option : Byte]
    \cup [kind : {"size"}, cols : Word, rows : Word, tail : Seq(Byte)]
    \cup [kind : {"type"}, is : Byte, name : Seq(Byte)]
    \cup [kind : {"sub"}, option : Byte]

ASSUME InputAssumption ==
    /\ MaxSize \in Nat /\ MaxText \in Nat
    /\ Sessions \subseteq [level : {"LOGIN", "NOVICE"}, script : Seq(Tokens)]

\* What a telnet client says.  A text has no IAC: that is doubled, which makes
\* it a command.  An option is negotiated with one of four verbs; a size is
\* ended by two bytes; a client that does not say its type gives no name, and
\* a name has no end of an option in it.
Telnet(t) ==
    /\ t.kind = "text" => t.byte # IAC
    /\ t.kind = "command" => t.byte \notin {WILL, WONT, DO, DONT, SB}
    /\ t.kind = "option" => t.verb \in {WILL, WONT, DO, DONT}
    /\ t.kind = "size" => Len(t.tail) = 2
    /\ t.kind = "type" =>
        /\ t.is # IS => t.name = <<>>
        /\ \A k \in 1..Len(t.name) - 1 : ~(t.name[k] = IAC /\ t.name[k + 1] = SE)

\* All peers are telnet clients.
SpeaksTelnet ==
    \A s \in Sessions : \A j \in DOMAIN s.script : Telnet(s.script[j])

\* A token that gives both sizes.
SetsSize(t) == 0 \notin {t.cols, t.rows} /\ t.tail = <<IAC, SE>>

\* A packet of k bytes that ends behind byte x of what the peer says is one
\* the code can handle.  A sub option is not cut after its second byte and is
\* a known one; nothing follows the name of a terminal in its packet; a size
\* of zero, or one that does not end as it should, is not cut in front of its
\* last byte; the packet does not fill the buffer.
CarefulPacket(x, k) ==
    /\ k < MaxSize
    /\ \A j \in DOMAIN script :
        LET t == script[j]
            from == Len(BytesUpto(script)[j - 1])
            to == Len(BytesUpto(script)[j])
        IN  /\ t.kind \in {"size", "type", "sub"} => x # from + 2
            /\ t.kind = "sub" => x <= from
            /\ t.kind = "type" /\ t.name # <<>> /\ t.is = IS =>
                  ~(x - k < to /\ to < x)
            /\ t.kind = "size" /\ ~SetsSize(t) => x \notin from + 9..to - 1

-----------------------------------------------------------------------------
(* uRead.                                                                  *)

NewTelnet ==
    [buff |-> <<>>, bpos |-> 0, flags |-> {}, cols |-> 80, rows |-> 25,
     type |-> <<>>]

Init ==
    /\ \E s \in Sessions :
        /\ script = s.script
        /\ level = s.level
    /\ wire = Bytes(script)
    /\ careful = TRUE
    /\ pc = "idle" /\ input = <<>> /\ len = 0
    /\ tel = NewTelnet
    /\ text = [n \in {0, 1} |-> <<>>] /\ buffnum = 0 /\ tbpos = 0
    /\ stage = IF level = "LOGIN" THEN "LOGIN_ID" ELSE "CMD_LINE"
    /\ com = [line |-> <<>>, word |-> <<>>, wordPtr |-> <<>>]
    /\ lines = <<>> /\ parsed = <<>> /\ told = <<>>

\* A packet of k bytes; GetRaw gives none of a message that fills the buffer.
Packet(k) ==
    /\ pc = "idle" /\ k <= MaxSize
    /\ input' = Append(IF k >= MaxSize THEN <<>> ELSE SubSeq(wire, 1, k), NUL)
    /\ wire' = SubSeq(wire, k + 1, Len(wire))
    /\ len' = k /\ pc' = "loop"
    /\ careful' = (careful
                    /\ CarefulPacket(Len(Bytes(script)) - Len(wire'), k))
    /\ UNCHANGED <<script, tel, editor, level, stage>>

\* A string's element: behind the last one there is a zero.
At(s, k) == IF k <= Len(s) THEN s[k] ELSE NUL

\* The loop ends.
EndPacket ==
    /\ pc = "loop" /\ len = 0
    /\ pc' = "idle" /\ input' = <<>>
    /\ UNCHANGED <<script, wire, careful, len, tel, editor, level, stage>>

\* The loop reads behind the zero that ends input.
ReadPastEnd ==
    /\ pc = "loop" /\ len > 0 /\ input = <<>>
    /\ pc' = "undefined"
    /\ UNCHANGED <<script, wire, careful, input, len, tel, editor, level, stage>>

\* There is a byte of text.
ByteRead(c) ==
    /\ pc = "loop" /\ len > 0 /\ input # <<>>
    /\ tel.bpos = 0 /\ Head(input) # IAC
    /\ c = Head(input)

VariantStash ==
    /\ pc = "loop" /\ len > 0 /\ input # <<>>
    /\ tel.bpos > 0 \/ Head(input) = IAC
    /\ tel' = [tel EXCEPT !.buff = Front(input) \o SubSeq(@, len + 1, Len(@)),
                          !.bpos = len]
    /\ pc' = "telopt" /\ input' = <<>> /\ len' = 0
    /\ UNCHANGED <<script, wire, careful, editor, level, stage>>

\* Everything from an IAC on goes to buff, behind what is there of an option
\* that was cut.  buff may have old bytes behind bpos; they are overwritten.
\* With bpos behind the end of buff, std::string::replace throws.
Stash ==
    /\ pc = "loop" /\ len > 0 /\ input # <<>>
    /\ tel.bpos > 0 \/ Head(input) = IAC
    /\ IF tel.bpos > Len(tel.buff)
       THEN pc' = "terminated" /\ UNCHANGED <<tel, input, len>>
       ELSE /\ tel' = [tel EXCEPT
                    !.buff = SubSeq(@, 1, tel.bpos) \o Front(input)
                             \o SubSeq(@, tel.bpos + len + 1, Len(@)),
                    !.bpos = @ + len]
            /\ pc' = "telopt" /\ input' = <<>> /\ len' = 0
    /\ UNCHANGED <<script, wire, careful, editor, level, stage>>

-----------------------------------------------------------------------------
(* parseTelopt.                                                            *)

\* What an option does: t are the fields after it, shift the bytes it takes;
\* incomplete, it takes none and uRead returns.
Option(t, shift) == [t |-> t, shift |-> shift, complete |-> TRUE]
Incomplete(t) == [t |-> t, shift |-> 0, complete |-> FALSE]

WithFlag(t, f) == [t EXCEPT !.flags = @ \cup {f}]

\* WILL, WONT, DO and DONT.
Negotiate(t) ==
    LET verb == At(t.buff, 2)
        option == At(t.buff, 3)
    IN  IF t.bpos < 3 THEN Incomplete(t)
        ELSE Option(
            CASE verb = WONT /\ option = NAWS -> WithFlag(t, "TERMSIZE")
              [] verb = WONT /\ option = TERM ->
                    WithFlag([t EXCEPT !.type = Unresolved], "TERMTYPE")
              [] verb \in {DO, DONT} /\ option = SGA -> WithFlag(t, "SGA")
              [] verb \in {DO, DONT} /\ option = ECHO -> WithFlag(t, "ECHO")
              [] OTHER -> t, 3)

\* Where the bytes of a terminal's size are.  Each of the four is doubled if
\* it is an IAC.
SizeAt(t) ==
    LET Skip(p) == IF At(t.buff, p) = IAC THEN p + 1 ELSE p
        c1 == Skip(4)
        c2 == Skip(c1 + 1)
        r1 == Skip(c2 + 1)
    IN  [c1 |-> c1, c2 |-> c2, r1 |-> r1, r2 |-> Skip(r1 + 1)]

\* getTermsize.  An option that is cut behind its ninth byte leaves what it
\* has as the size, which is then the default for a zero.
GetTermsize(t) ==
    LET p == SizeAt(t)
        cols == At(t.buff, p.c1) * 256 + At(t.buff, p.c2)
        rows == At(t.buff, p.r1) * 256 + At(t.buff, p.r2)
        whole == At(t.buff, p.r2 + 1) = IAC /\ At(t.buff, p.r2 + 2) = SE
        sized == [t EXCEPT !.cols = IF whole /\ cols # 0 THEN cols ELSE @,
                           !.rows = IF whole /\ rows # 0 THEN rows ELSE @]
    IN  IF t.bpos < 9 THEN Incomplete(t)
        ELSE IF p.r2 + 2 > t.bpos
        THEN Incomplete([t EXCEPT !.cols = cols, !.rows = rows])
        ELSE Option(IF level = "LOGIN" THEN WithFlag(sized, "TERMSIZE")
                    ELSE sized, p.r2 + 2)

\* Where the name of a terminal ends.
NameEnds(t) ==
    {p \in 5..t.bpos - 1 : At(t.buff, p) = IAC /\ At(t.buff, p + 1) = SE}

\* getTermtype.  To take the name it cuts buff behind it, also when more
\* bytes follow; bpos still counts them.
GetTermtype(t) ==
    LET e == Min(NameEnds(t))
        name == IF e = 5 THEN Unresolved ELSE SubSeq(t.buff, 5, e - 1)
        typed(n, b) ==
            [t EXCEPT !.type = n, !.buff = b,
                      !.flags = (@ \ {"ANSI_TERM"}) \cup {"TERMTYPE"} \cup
                                (IF n \in AnsiTerms THEN {"ANSI_TERM"} ELSE {})]
    IN  IF t.bpos < 6 THEN Incomplete(t)
        ELSE IF At(t.buff, 4) # IS THEN Option(typed(Unresolved, t.buff), 4)
        ELSE IF NameEnds(t) = {} THEN Incomplete(t)
        ELSE Option(typed(name, IF e = 5 THEN t.buff
                                ELSE SubSeq(t.buff, 1, e - 1)), e + 1)

\* After a packet that filled the buffer bpos counts bytes that buff does not
\* have, and the two read on behind the zero at its end.
ReadsOn(t) ==
    /\ t.bpos >= 2 /\ At(t.buff, 2) = SB
    /\ \/ /\ At(t.buff, 3) = NAWS /\ t.bpos >= 9
          /\ \/ SizeAt(t).r2 > Len(t.buff) + 1
             \/ SizeAt(t).r2 > Len(t.buff) /\ SizeAt(t).r2 + 2 <= t.bpos
       \/ /\ At(t.buff, 3) = TERM /\ t.bpos >= 6
          /\ At(t.buff, 4) = IS /\ NameEnds(t) = {}
          /\ t.bpos > Len(t.buff) + 1

VariantTelopt(t) ==
    CASE t.bpos < 2 -> Incomplete(t)
      [] t.bpos >= 2 /\ At(t.buff, 2) \in {WILL, WONT, DO, DONT} -> Negotiate(t)
      [] t.bpos >= 2 /\ At(t.buff, 2) = SB ->
            (CASE At(t.buff, 3) = NAWS -> GetTermsize(t)
               [] At(t.buff, 3) = TERM -> GetTermtype(t)
               [] OTHER -> Option(t, 0))
      [] OTHER -> Option(t, 0)

\* The option at the front of buff.  A sub option is looked up without a test
\* that its third byte is there, and an unknown one takes nothing.
Telopt(t) ==
    CASE t.bpos < 2 -> Incomplete(t)
      [] t.bpos >= 2 /\ At(t.buff, 2) \in {WILL, WONT, DO, DONT} -> Negotiate(t)
      [] t.bpos >= 2 /\ At(t.buff, 2) = SB ->
            (CASE At(t.buff, 3) = NAWS -> GetTermsize(t)
               [] At(t.buff, 3) = TERM -> GetTermtype(t)
               [] OTHER -> Option(t, 0))
      [] OTHER -> Option(t, 2)

\* One turn of parseTelopt's loop.
OneOption ==
    LET o == Telopt(tel) IN
    /\ pc = "telopt" /\ tel.bpos > 0 /\ At(tel.buff, 1) = IAC
    /\ ~ReadsOn(tel) /\ o.complete
    /\ tel' = [o.t EXCEPT !.bpos = @ - o.shift,
                          !.buff = SubSeq(@, o.shift + 1, Len(@))]
    /\ UNCHANGED <<script, wire, careful, reading, editor, level, stage>>

\* An option is not complete yet: uRead returns.
CutOption ==
    /\ pc = "telopt" /\ tel.bpos > 0 /\ At(tel.buff, 1) = IAC
    /\ ~ReadsOn(tel) /\ ~Telopt(tel).complete
    /\ tel' = Telopt(tel).t
    /\ pc' = "idle"
    /\ UNCHANGED <<script, wire, careful, input, len, editor, level, stage>>

\* The option is not all in buff, though bpos says so.
OptionPastEnd ==
    /\ pc = "telopt" /\ tel.bpos > 0 /\ At(tel.buff, 1) = IAC
    /\ ReadsOn(tel)
    /\ pc' = "undefined"
    /\ UNCHANGED <<script, wire, careful, input, len, tel, editor, level, stage>>

\* No option is left.  With all of them known the login starts over; what
\* is left of buff becomes the input.
OptionsDone ==
    LET all == "GOT_TELOPT_INFO" \notin tel.flags /\ AllOptions \subseteq tel.flags
    IN  /\ pc = "telopt" /\ (tel.bpos = 0 \/ At(tel.buff, 1) # IAC)
        /\ tel' = [tel EXCEPT !.bpos = 0,
                !.flags = IF all THEN @ \cup {"GOT_TELOPT_INFO"} ELSE @]
        /\ stage' = IF all THEN "LOGIN_ID" ELSE stage
        /\ input' = IF tel.bpos = 0 THEN <<>>
                    ELSE Append(SubSeq(tel.buff, 1, Min({tel.bpos, Len(tel.buff)})),
                                NUL)
        /\ len' = tel.bpos
        /\ pc' = IF tel.bpos = 0 THEN "idle" ELSE "loop"
        /\ UNCHANGED <<script, wire, careful, editor, level>>

-----------------------------------------------------------------------------
(* The line editor.                                                        *)

NextByte ==
    /\ input' = Tail(input) /\ len' = len - 1
    /\ UNCHANGED <<script, wire, careful, tel>>

Ignore ==
    /\ ByteRead(NUL) \/ ByteRead(LF)
    /\ NextByte
    /\ UNCHANGED <<pc, editor, level, stage>>

VariantRubout ==
    /\ ByteRead(BS) \/ ByteRead(DEL)
    /\ NextByte
    /\ tbpos' = tbpos - 1
    /\ text' = [text EXCEPT ![buffnum] = SubSeq(@, 1, tbpos - 1)]
    /\ UNCHANGED <<pc, buffnum, com, lines, parsed, told, level, stage>>

Rubout ==
    /\ ByteRead(BS) \/ ByteRead(DEL)
    /\ NextByte
    /\ tbpos' = IF tbpos > 0 THEN tbpos - 1 ELSE 0
    /\ text' = IF tbpos > 0
               THEN [text EXCEPT ![buffnum] = SubSeq(@, 1, tbpos - 1)]
               ELSE text
    /\ UNCHANGED <<pc, buffnum, com, lines, parsed, told, level, stage>>

\* A character replaces the one at its place, which an older line may have
\* left there.
Char ==
    /\ \E c \in Range(input) \ {NUL, LF, CR, BS, DEL} :
        /\ ByteRead(c)
        /\ text' = [text EXCEPT ![buffnum] =
               SubSeq(@, 1, tbpos) \o <<c>> \o SubSeq(@, tbpos + 2, Len(@))]
    /\ tbpos' = tbpos + 1
    /\ NextByte
    /\ UNCHANGED <<pc, buffnum, com, lines, parsed, told, level, stage>>

Line == SubSeq(text[buffnum], 1, tbpos)

\* A line of a user who is logging in, who may then be logged in, or registered:
\* then the next line is no command.  That login ends the user with an exception
\* is in module Session.
LoginLine ==
    /\ ByteRead(CR) /\ level = "LOGIN"
    /\ NextByte
    /\ text' = [text EXCEPT ![buffnum] = Line] /\ tbpos' = 0
    /\ lines' = Append(lines, Line)
    /\ \/ UNCHANGED <<level, stage>>
       \/ level' = "NOVICE" /\ stage' \in {"CMD_LINE", "LOGIN_PROMPT"}
    /\ UNCHANGED <<pc, buffnum, com, parsed, told>>

\* runCmdLine finds "say", with or without a dot, and it has a text.
IsSay(word) ==
    /\ Len(word) >= 2
    /\ word[1] \in {<<SayLetter>>, <<Dot, SayLetter>>}

\* wordptr(1) throws if the position is behind the end of the line.
SayThrows(c) == IsSay(c.word) /\ c.wordPtr[2] > Len(c.line) + 1

\* AddString to a new message: the text with its final zero, or nothing if it
\* does not fit.
AddString(s) ==
    IF Len(s) + 1 < MaxSize /\ Len(s) <= MaxText THEN Append(s, NUL) ELSE <<>>

\* What Say::execute sends to the others, Heading and the text.
SayText(c) ==
    AddString(Printed(
        Heading \o SubSeq(c.line, c.wordPtr[2], Len(c.line)) \o <<LF>>))

\* parseLine with runCmdLine and the command.  Nobody catches what it throws.
CommandLineRead ==
    /\ ByteRead(CR) /\ level # "LOGIN"
    /\ NextByte
    /\ lines' = Append(lines, Line) /\ parsed' = Line
    /\ tbpos' = 0 /\ buffnum' = 1 - buffnum
    /\ \E line \in {Clean(Line)} : \E parse \in {Parse(com, line)} :
        /\ text' = [text EXCEPT ![buffnum] = line]
        /\ com' = parse
        /\ IF stage # "CMD_LINE" \/ ~IsSay(parse.word)
           THEN told' = <<>> /\ pc' = pc
           ELSE IF SayThrows(parse)
           THEN told' = <<>> /\ pc' = "terminated"
           ELSE told' = SayText(parse) /\ pc' = pc
    /\ stage' = "CMD_LINE"
    /\ UNCHANGED level

Handle ==
    \/ EndPacket \/ ReadPastEnd \/ Stash
    \/ OneOption \/ CutOption \/ OptionPastEnd \/ OptionsDone
    \/ Ignore \/ Rubout \/ Char \/ LoginLine \/ CommandLineRead

Next ==
    \/ \E k \in 1..Len(wire) : Packet(k)
    \/ Handle

Spec == Init /\ [][Next]_vars

\* The io thread goes on with a packet once it has it.
FairSpec == Spec /\ WF_vars(Handle)

-----------------------------------------------------------------------------
(* What the peer means.                                                    *)

NothingSaid == [t |-> NewTelnet, typed |-> <<>>, lines |-> <<>>]

\* A byte of text: rubbed-out characters go.
SaidByte(m, b) ==
    CASE b = CR -> [m EXCEPT !.lines = Append(@, m.typed), !.typed = <<>>]
      [] b \in {BS, DEL} ->
            [m EXCEPT !.typed = IF @ = <<>> THEN @ ELSE Front(@)]
      [] b \in {NUL, LF} -> m
      [] OTHER -> [m EXCEPT !.typed = Append(@, b)]

\* The size and the type of the terminal.
SaidSize(t, tok, lvl) ==
    LET kept(n, d) == IF n = 0 \/ tok.tail # <<IAC, SE>> THEN d ELSE n
        sized == [t EXCEPT !.cols = kept(tok.cols, @), !.rows = kept(tok.rows, @)]
    IN  IF lvl = "LOGIN" THEN WithFlag(sized, "TERMSIZE") ELSE sized

SaidType(t, tok) ==
    LET n == IF tok.is # IS \/ tok.name = <<>> THEN Unresolved ELSE tok.name
        ansi == IF n \in AnsiTerms THEN {"ANSI_TERM"} ELSE {}
    IN  [t EXCEPT !.type = n,
                  !.flags = (@ \ {"ANSI_TERM"}) \cup {"TERMTYPE"} \cup ansi]

\* An option, of a user of a level.
SaidOption(t, tok, lvl) ==
    LET says(verbs, o) ==
            tok.kind = "option" /\ tok.verb \in verbs /\ tok.option = o
    IN  CASE says({DO, DONT}, ECHO) -> WithFlag(t, "ECHO")
          [] says({DO, DONT}, SGA) -> WithFlag(t, "SGA")
          [] says({WONT}, NAWS) -> WithFlag(t, "TERMSIZE")
          [] says({WONT}, TERM) ->
                WithFlag([t EXCEPT !.type = Unresolved], "TERMTYPE")
          [] tok.kind = "size" -> SaidSize(t, tok, lvl)
          [] tok.kind = "type" -> SaidType(t, tok)
          [] OTHER -> t

Said(m, tok, lvl) ==
    IF tok.kind = "text" THEN SaidByte(m, tok.byte)
    ELSE [m EXCEPT !.t = SaidOption(@, tok, lvl)]

\* What the first tokens say, and all of them.
MeaningUpto(s, lvl) ==
    LET upto[j \in 0..Len(s)] ==
            IF j = 0 THEN NothingSaid ELSE Said(upto[j - 1], s[j], lvl)
    IN  upto

Meaning(lvl) == MeaningUpto(script, lvl)[Len(script)]

AllSaid == wire = <<>> /\ pc = "idle"

-----------------------------------------------------------------------------
(* Properties.                                                             *)

\* The type invariant.
TypeOK ==
    /\ wire \in Seq(Byte) /\ input \in Seq(Byte) /\ tel.buff \in Seq(Byte)
    /\ careful \in BOOLEAN
    /\ pc \in {"idle", "loop", "telopt", "undefined", "terminated"}
    /\ len \in Nat
    /\ tel.bpos \in Nat
    /\ tel.flags \subseteq AllOptions \cup {"GOT_TELOPT_INFO", "ANSI_TERM"}
    /\ tel.cols \in Word /\ tel.rows \in Word
    /\ text \in [{0, 1} -> Seq(Byte)] /\ buffnum \in {0, 1}
    /\ tbpos \in 0..Len(text[buffnum])
    /\ level \in {"LOGIN", "NOVICE"}
    /\ stage \in {"LOGIN_ID", "LOGIN_PROMPT", "CMD_LINE"}

\* The front of buff is a sub option the parser does not know, or one whose
\* third byte has not come: its loop does not advance.
Stuck ==
    /\ pc = "telopt" /\ tel.bpos >= 2
    /\ At(tel.buff, 1) = IAC /\ At(tel.buff, 2) = SB
    /\ At(tel.buff, 3) \notin {NAWS, TERM}

\* However the bytes are cut into packets and mixed with options, uRead and
\* parseTelopt end up with what the peer said: every line as typed, the text
\* not yet ended, the terminal and the options.  This needs a careful peer
\* (CarefulPacket); otherwise the code hangs, drops bytes or reads past the
\* end of a string.
Understood ==
    careful =>
        /\ ~Stuck /\ pc # "undefined"
        /\ AllSaid =>
            LET m == Meaning(level) IN
            /\ lines = m.lines /\ Line = m.typed
            /\ tel.bpos = 0
            /\ <<tel.cols, tel.rows, tel.type>>
                    = <<m.t.cols, m.t.rows, m.t.type>>
            /\ m.t.flags \subseteq tel.flags
            /\ tel.flags \ m.t.flags \subseteq {"TERMSIZE", "GOT_TELOPT_INFO"}
            /\ level = "LOGIN" => (/\ "TERMSIZE" \in tel.flags
                                      <=> "TERMSIZE" \in m.t.flags
                                   /\ "GOT_TELOPT_INFO" \in tel.flags
                                      <=> AllOptions \subseteq m.t.flags)

\* No line of the session had a word before the last one.  wordPtr is never
\* emptied: behind any line with words it has that line's positions in front.
FirstWords == Len(com.wordPtr) = Len(com.word)

\* What others hear of a "say", unless it is too long for a message: the line
\* from its second word on, whole.
Heard(l) == told # <<>> => told = Heading \o FromWord(l, 2) \o <<CR, LF, NUL>>

\* The words of every command are those of its line, read character by character
\* with quotes and escapes, but for a quote that is left open.  What others hear
\* of a "say" is its text as long as no other line of the session, not even one
\* that was no command, had a word in it.
CommandIsLine ==
    LET l == CleanReference(parsed) IN
    ~OpenQuote(l) =>
        /\ com.word = WordsReference(l)
        /\ FirstWords => Heard(l)

\* "Set wordptr to point to the start of the word in the actual string"
\* (Splitline.cpp): others hear the text of every "say".  The positions of an
\* earlier line are found instead.
SayIsHeard ==
    LET l == CleanReference(parsed) IN ~OpenQuote(l) => Heard(l)

\* "Also remove certain ASCII control codes" (misc.cpp): of a line that was
\* parsed only a tab, or an end of line, is left.  The code that should do it
\* stands behind a break.
ControlCodesRemoved ==
    \A c \in Range(com.line) : c < Space => c \in {Tab, LF, CR}

\* Handling a packet ends, but for a sub option that takes no bytes: the io
\* thread comes back to the other connections.
PacketsEnd ==
    pc \in {"loop", "telopt"} ~>
        (pc \in {"idle", "undefined", "terminated"} \/ Stuck)
=============================================================================
