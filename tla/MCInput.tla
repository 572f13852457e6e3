------------------------------- MODULE MCInput ------------------------------
(* Small scripts for Input: lines of a few characters, options in pairs and *)
(* in every order, and options in the middle of a line.                     *)
EXTENDS Input

A == 97
ESC == 27
High == 200
S == 115

MCAnsiTerms == {<<118>>}

Text(b) == [kind |-> "text", byte |-> b]
Typed(s) == [k \in DOMAIN s |-> Text(s[k])]
Opt(v, o) == [kind |-> "option", verb |-> v, option |-> o]
Size(c, r) == [kind |-> "size", cols |-> c, rows |-> r, tail |-> <<IAC, SE>>]
Type(n) == [kind |-> "type", is |-> IS, name |-> n]

MCTokens ==
    {Text(A), Text(CR), [kind |-> "command", byte |-> AYT],
     [kind |-> "command", byte |-> IAC],
     Opt(WILL, TERM), Opt(WONT, NAWS), Opt(WONT, TERM), Opt(DO, ECHO),
     Opt(DONT, SGA), Opt(DO, NAWS),
     Size(80, 24), Size(255, 24), Size(0, 255), Size(65535, 65535),
     [Size(80, 255) EXCEPT !.tail = <<A, A>>],
     Type(<<118>>), Type(<<>>), [Type(<<>>) EXCEPT !.is = SEND],
     [kind |-> "sub", option |-> 39]}

Upto(T, n) == UNION {[1..k -> T] : k \in 0..n}

\* Lines of blanks, quotes and escapes, lines with percent signs and lines with
\* bytes that are no characters.
Commands ==
    {Typed(Append(s, CR)) : s \in Upto({A, Space, Quote, Backslash}, 5)
                                  \cup Upto({A, Space, Percent}, 4)
                                  \cup Upto({A, ESC, High}, 2)}

\* "say" once, also with a text that is too long, and twice.
Says ==
    {Typed(<<S, Space>> \o s \o <<CR>>) : s \in Upto({A, Space, Quote, Slash}, 3)}
    \cup
    {Typed(<<S, Space, A, A, A, A, CR>>)}
    \cup
    {Typed(s \o <<CR, S, Space, A, CR>>) : s \in Upto({S, Space}, 5)}

Editing == {Typed(s) : s \in Upto({A, S, BS, CR}, 4) \cup Upto({A, LF, DEL}, 3)}

AllFour == {Opt(DO, ECHO), Opt(DO, SGA), Size(80, 24), Type(<<118>>)}
Orders == {f \in [1..4 -> AllFour] : \A x, y \in 1..4 : f[x] = f[y] => x = y}

\* Options that are complete only after the login.
Late ==
    <<Opt(DO, ECHO), Opt(DO, SGA), Opt(WONT, NAWS), Opt(WONT, TERM)>>
        \o Typed(<<S, Space, A, CR, S, Space, A, CR>>)

\* An option, and then a packet that fills the buffer.
Filled == {<<t>> \o [k \in 1..24 |-> Text(NUL)] : t \in {Type(<<118>>), Size(80, 24)}}

AtLogin ==
    Upto(MCTokens, 2) \cup {<<Text(A), t, Text(A), Text(CR)>> : t \in MCTokens}
    \cup {Append(f, Text(CR)) : f \in Orders} \cup Editing \cup Filled

MCSessions ==
    {[level |-> "LOGIN", script |-> s] : s \in AtLogin} \cup
    {[level |-> "NOVICE", script |-> s] :
        s \in Commands \cup Says \cup Editing \cup Upto(MCTokens, 1) \cup {Late}}

\* All of them are telnet clients.
ASSUME TelnetPeers == SpeaksTelnet
===============================================================================
