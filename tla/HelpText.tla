------------------------------ MODULE HelpText ------------------------------
(***************************************************************************)
(* arg_description_fmt of argument.hpp: the page "--help" prints. The      *)
(* programs build it while they are compiled: length gives the size of the *)
(* array char_array fills, a line for the option and its explanation       *)
(* broken into the lines of the column on the right.                       *)
(***************************************************************************)
EXTENDS ArgumentList

CONSTANTS
    Formats,        \* the styles of a page
    Explanations    \* explanations of options, sequences of codes

ASSUME FormatAssumption ==
    \A f \in Formats : f.max_width > f.desc_offset_x /\ f.desc_offset_y >= 0

SPACE == 32
NL == 10

Blank(n) == [k \in 1 .. n |-> SPACE]
desc_width(f) == f.max_width - f.desc_offset_x

-----------------------------------------------------------------------------
(* The option.                                                             *)

isalnum(c) == c \in (48 .. 57) \cup (65 .. 90) \cup (97 .. 122)

optlen(f, a) == f.opt_offset + 4 + (IF a.long # <<>> THEN Len(a.long) + 3 ELSE 0)

write_opt(f, a) ==
    Blank(f.opt_offset) \o
    (CASE isalnum(a.short) /\ a.long = <<>> -> <<DASH, a.short>>
       [] ~isalnum(a.short) /\ a.long # <<>> -> Blank(4) \o <<DASH, DASH>> \o a.long
       [] isalnum(a.short) /\ a.long # <<>> -> <<DASH, a.short, 44, SPACE, DASH, DASH>> \o a.long
       [] OTHER -> <<>>)

\* What length counts for an option, up to the column of its explanation.
HeadLength(f, a) ==
    IF f.desc_offset_y > 0 THEN optlen(f, a) + f.desc_offset_x + f.desc_offset_y - 1
    ELSE IF optlen(f, a) <= f.desc_offset_x THEN f.desc_offset_x
    ELSE optlen(f, a) + f.desc_offset_x

\* The option as it is written, filled up to that column.
OptionColumn(f, a) ==
    LET breaks == IF f.desc_offset_y > 0 THEN f.desc_offset_y - 1
                  ELSE IF optlen(f, a) <= f.desc_offset_x THEN 0 ELSE 1
        written == write_opt(f, a) \o [k \in 1 .. breaks |-> NL]
    IN  written \o Blank(HeadLength(f, a) - Len(written))

-----------------------------------------------------------------------------
(* The explanation.                                                        *)

LastOf(S, none) == IF S = {} THEN none ELSE CHOOSE k \in S : \A j \in S : j <= k

\* Mutant: the character behind a full line is skipped like a space.
FullLineSkips(i, j) == i + j + 1

\* i after a line that was cut within a word
FullLine(i, j) == i + j

\* One turn of the loop, i characters being written: the line it cuts off,
\* whether another one follows, and i and space after it. The end of the
\* line is sought among the next characters; space is where the last space
\* was found, and is forgotten only after it was used.
Break(desc, i, space, width) ==
    LET ahead == SubSeq(desc, i + 1, FirstOf({i + width, Len(desc)}, i))
        linebk == {k \in DOMAIN ahead : ahead[k] = NL}
        j == FirstOf(linebk, Len(ahead) + 1) - 1
        seen == LastOf({k \in 1 .. j : ahead[k] = SPACE}, space + 1) - 1
    IN  IF linebk # {}
        THEN [text |-> SubSeq(ahead, 1, j), more |-> TRUE, i |-> i + j + 1, space |-> seen]
        ELSE IF seen # -1 /\ i + j # Len(desc)
        THEN [text |-> SubSeq(ahead, 1, seen), more |-> TRUE, i |-> i + seen + 1, space |-> -1]
        ELSE [text |-> ahead, more |-> i + j # Len(desc), space |-> seen,
              i |-> IF i + j = Len(desc) THEN Len(desc) ELSE FullLine(i, j)]

Breaks(desc, width) ==
    LET from[i \in 0 .. Len(desc), space \in -1 .. width] ==
            IF i = Len(desc) THEN <<>>
            ELSE LET b == Break(desc, i, space, width)
                 IN  <<b>> \o (IF b.i < Len(desc) THEN from[b.i, b.space] ELSE <<>>)
    IN  from[0, -1]

-----------------------------------------------------------------------------
(* The page of options, each with an explanation.                          *)

Total(s) == FoldLeft(LAMBDA n, k : n + k, 0, s)

length(f, args, desc) ==
    LET BreakLength(b) == Len(b.text) + 1 + (IF b.more THEN f.desc_offset_x ELSE 0)
        breaks == Breaks(desc, desc_width(f))
    IN  Total([k \in DOMAIN args |->
            HeadLength(f, args[k]) + Total([n \in DOMAIN breaks |-> BreakLength(breaks[n])])])

\* Mutant: the line after a break is not filled up to its column.
write_descBare(f, b) == Append(b.text, NL)

write_desc(f, b) == Append(b.text, NL) \o (IF b.more THEN Blank(f.desc_offset_x) ELSE <<>>)

char_array(f, args, desc) ==
    LET breaks == Breaks(desc, desc_width(f))
    IN  FlattenSeq([k \in DOMAIN args |->
            OptionColumn(f, args[k]) \o FlattenSeq([n \in DOMAIN breaks |-> write_desc(f, breaks[n])])])
=============================================================================
