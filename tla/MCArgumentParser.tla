-------------------------- MODULE MCArgumentParser --------------------------
(***************************************************************************)
(* The option tables of the receiver, of RTPsender2, of RTP_show and of a  *)
(* program without short options, with the names cut to what tells them    *)
(* apart, and the command lines of up to three words.                      *)
(***************************************************************************)
EXTENDS ArgumentParser

\* Letters, with the order of their codes.
a == 97
c == 99
d == 100
f == 102
h == 104
l == 108
p == 112
r == 114
s == 115
CapB == 66
CapD == 68
CapE == 69
CapP == 80

Opt(short, long, has_arg) == [short |-> short, long |-> long, has_arg |-> has_arg]

\* main.cpp
Receiver == << Opt(a, <<a, d>>, TRUE), Opt(p, <<p>>, TRUE), Opt(c, <<r>>, TRUE),
               Opt(CapD, <<a, s>>, TRUE), Opt(d, <<CapD>>, TRUE), Opt(0, <<CapP>>, TRUE),
               Opt(0, <<CapE, f>>, FALSE), Opt(h, <<h>>, FALSE) >>

\* RTPsender2.cpp
Sender == << Opt(a, <<a>>, TRUE), Opt(p, <<p>>, TRUE), Opt(f, <<f>>, TRUE), Opt(l, <<l>>, TRUE),
             Opt(0, <<CapE>>, FALSE), Opt(h, <<h>>, FALSE) >>

\* RTP_show.cpp: one name begins another.
Show == << Opt(f, <<f>>, TRUE), Opt(r, <<r>>, TRUE), Opt(0, <<c, s>>, FALSE),
           Opt(0, <<c, s, f>>, FALSE), Opt(h, <<h>>, FALSE) >>

\* Options without a name among the others.
Mixed == << Opt(f, <<>>, TRUE), Opt(h, <<h>>, FALSE), Opt(p, <<>>, FALSE), Opt(0, <<c, s>>, TRUE) >>

MCTables == {Receiver, Sender, Show, Mixed}

Long(w) == <<DASH, DASH>> \o w
Short(w) == <<DASH>> \o w

\* Words of every shape: short options alone, with something attached,
\* unknown ones, names in full, cut, ambiguous, with '=', and what is neither.
Words == { Short(<<p>>), Short(<<f>>), Short(<<h>>), Short(<<h, f>>), Short(<<p, 49>>),
           Short(<<49>>), Long(<<a>>), Long(<<c>>), Long(<<c, s>>), Long(<<c, s, f>>),
           Long(<<CapE>>), Long(<<CapE, EQ, 49>>), Long(<<f, EQ, 49>>), Long(<<EQ, f>>),
           Short(<<-2>>), Short(<<-4, f>>), <<>>, <<DASH>>, <<DASH, DASH>>, <<49, f>> }

\* What the getters are to read.
Exp == 101
ListChars == {48, 57, Exp, COMMA, DASH, POINT}
Values == UNION {[1 .. n -> ListChars] : n \in 1 .. 4}
            \cup {<<49, COMMA, 50, DASH, 51>>, <<49, COMMA, 50, f, COMMA, 51>>, <<49, DASH, 50, COMMA, 51>>,
                  <<DASH, 57, DASH, DASH, 57>>, <<57, Exp, PLUS, 49>>, <<57, Exp, DASH, 49, DASH, 50>>}

MCCommandLines ==
    UNION {[1 .. n -> Words] : n \in 0 .. 3} \cup {<<Short(<<f>>), v>> : v \in Values}

\* Both styles of the page, scaled down.
MCFormats == { [opt_offset |-> 0, desc_offset_x |-> 8, desc_offset_y |-> 0, max_width |-> 10],
               [opt_offset |-> 2, desc_offset_x |-> 6, desc_offset_y |-> 0, max_width |-> 12] }

\* Explanations of up to five characters, no two of them the same but for
\* spaces and line breaks; and some that need several lines of the second
\* style.
MCExplanations ==
    LET Inked(e) == [k \in DOMAIN e |-> IF e[k] = 0 THEN 100 + k ELSE e[k]]
    IN  {Inked(e) : e \in UNION {[1 .. n -> {0, SPACE, NL}] : n \in 0 .. 5}}
            \cup {Inked([k \in 1 .. 15 |-> IF k \in S THEN SPACE ELSE IF k = b THEN NL ELSE 0]) :
                     S \in {{}, {3}, {3, 8}, {1, 7}, {7, 14}}, b \in {0, 4, 6, 10}}
=============================================================================
