--------------------------- MODULE ArgumentParser ---------------------------
(***************************************************************************)
(* argument_t of argument.hpp: getopt reads the command line one option    *)
(* after another, in the loop every program of the repository starts with, *)
(* until can_parse is false or an option ends the program.                 *)
(***************************************************************************)
EXTENDS ArgumentValues, HelpText

CONSTANTS
    Tables,         \* the option tables of the programs
    CommandLines,   \* what argv holds after the program's name
    Room            \* the names an ambiguity message has room for

\* The tables are valid, and each option in them has a short or a long one
\* (both asserted by the constructor); a name does not begin with '='.
ASSUME ParserAssumption ==
    /\ \A t \in Tables :
          /\ t \in Seq(OptSpecs) /\ t # <<>> /\ check(t)
          /\ \A k \in DOMAIN t : IF t[k].long = <<>> THEN t[k].short # 0 ELSE Head(t[k].long) # EQ
    /\ CommandLines \subseteq Seq(Seq(Chars))

\* The string_view without data: no word has such a char.
Null == <<128>>

OptionLists == {argument_list(t) : t \in Tables}

\* get_ambiguous does not look at the end of the caller's array: it has to be
\* as long as the first run of names with the same first character.
ASSUME RoomAssumption ==
    /\ Room \in Nat
    /\ \A o \in OptionLists :
          Room < o.num => \E k \in 1 .. Room + 1 : Head(o.l[k].long) # Head(o.l[1].long)

VARIABLES
    opts, argv, use_posisional_argument,    \* what it is constructed with
    current_str,            \* words taken of argv
    parsing,                \* what is left of the word at hand
    last_parse, opt_arg,    \* opt_arg is Null where its data() is null
    is_positional,
    phase,                  \* "parse", "run" when the loop is over, or "exit"
    got                     \* history: what getopt returned, with the word it
                            \* began at and the last word it took

given == <<opts, argv, use_posisional_argument>>
vars == <<given, current_str, parsing, last_parse, opt_arg, is_positional, phase, got>>

CodesOf(o) == {o.args[k].short : k \in DOMAIN o.args}
Codes == CodesOf(opts)

Init ==
    /\ opts \in OptionLists /\ argv \in CommandLines
    /\ use_posisional_argument \in BOOLEAN
    /\ current_str = 0 /\ parsing = <<>> /\ last_parse = <<>> /\ opt_arg = Null
    /\ is_positional = FALSE
    /\ phase = "parse" /\ got = <<>>

\* Mutant: the last word is not counted.
can_parseLess == current_str + 1 < Len(argv) /\ parsing = <<>>

can_parse == current_str < Len(argv) /\ parsing = <<>>

-----------------------------------------------------------------------------
(* getopt.                                                                 *)

\* find_first_not_of('-'), -1 for npos
num_pfx(w) ==
    IF \A k \in DOMAIN w : w[k] = DASH THEN -1
    ELSE (CHOOSE k \in DOMAIN w : w[k] # DASH /\ \A j \in 1 .. k - 1 : w[j] = DASH) - 1

\* A word "--name=value" in two.
EqualAt(w) == FirstOf({k \in DOMAIN w : w[k] = EQ}, Len(w) + 1)
NameOf(w) == SubSeq(w, 3, EqualAt(w) - 1)
AfterEqual(w) == SubSeq(w, EqualAt(w) + 1, Len(w))

Word == argv[current_str + 1]

\* What the program does with the code: an option it knows may end it too
\* ('h', a value it refuses), an error does.
Returns(code, arg, upto) ==
    /\ got' = Append(got, [code |-> code, arg |-> arg, word |-> current_str + 1, upto |-> upto])
    /\ phase' \in IF code \in Codes \/ (code = positional_argument(opts) /\ use_posisional_argument)
                  THEN {"parse", "exit"} ELSE {"exit"}

\* Mutant: any word is a value.
RefusedNever(v) == v = <<DASH, DASH>>

\* The word after an option that takes an argument is not taken for it.
Refused(v) ==
    /\ Len(v) > 1
    /\ \/ v = <<DASH, DASH>>
       \/ \E o \in (IF num_pfx(v) = 1 THEN {get_option_short(opts, v[2])}
                    ELSE IF num_pfx(v) = 2 THEN {get_option_long(opts, NameOf(v))} ELSE {}) :
             /\ o.short # unknown(opts)
             /\ o.has_arg \/ Len(v) <= 2

\* verify_opt_arg, after the option code was read from the word and rest is
\* left of it.
verify_opt_arg(code, rest) ==
    LET takes == is_valid(opts, code) /\ get_option_short(opts, code).has_arg
        taken == current_str + 1
    IN  \/ /\ ~takes
           /\ parsing' = rest /\ opt_arg' = Null /\ current_str' = taken
           /\ Returns(code, Null, taken)
        \/ /\ takes /\ rest # <<>>
           /\ parsing' = <<>> /\ opt_arg' = rest /\ current_str' = taken
           /\ Returns(code, rest, taken)
        \/ /\ takes /\ rest = <<>> /\ taken >= Len(argv)
           /\ parsing' = rest /\ current_str' = taken
           /\ Returns(no_argument(opts), Null, taken)
           /\ UNCHANGED opt_arg
        \/ /\ takes /\ rest = <<>> /\ taken < Len(argv)
           /\ LET v == argv[taken + 1]
              IN  /\ parsing' = <<>> /\ opt_arg' = v /\ current_str' = taken + 1
                  /\ Returns(IF Refused(v) THEN no_argument(opts) ELSE code, v, taken + 1)

Parsing == phase = "parse" /\ can_parse
OnlyPositional == is_positional /\ use_posisional_argument

\* "-c", with the value or other characters attached
ShortOption ==
    /\ Parsing /\ ~OnlyPositional
    /\ num_pfx(Word) = 1
    /\ last_parse' = <<Word[2]>>
    /\ verify_opt_arg(Word[2], SubSeq(Word, 3, Len(Word)))
    /\ UNCHANGED <<given, is_positional>>

\* "--name" or "--name=value"
LongOption ==
    /\ Parsing /\ ~OnlyPositional
    /\ num_pfx(Word) = 2
    /\ last_parse' = NameOf(Word)
    /\ verify_opt_arg(long_to_short(opts, NameOf(Word)), AfterEqual(Word))
    /\ UNCHANGED <<given, is_positional>>

\* "--": positional words from here on, the first of them at once.
Separator ==
    /\ Parsing /\ ~OnlyPositional
    /\ Word = <<DASH, DASH>> /\ use_posisional_argument
    /\ is_positional' = TRUE
    /\ IF current_str + 1 < Len(argv)
       THEN opt_arg' = argv[current_str + 2] /\ current_str' = current_str + 2
       ELSE opt_arg' = Null /\ current_str' = current_str + 1
    /\ Returns(positional_argument(opts), opt_arg', current_str')
    /\ UNCHANGED <<given, parsing, last_parse>>

\* A word that is none of these: positional, or an error that leaves it.
OtherWord ==
    /\ Parsing
    /\ OnlyPositional \/ (num_pfx(Word) \notin {1, 2} /\ ~(use_posisional_argument /\ Word = <<DASH, DASH>>))
    /\ current_str' = current_str + 1
    /\ IF use_posisional_argument
       THEN /\ opt_arg' = Word
            /\ Returns(positional_argument(opts), Word, current_str')
            /\ UNCHANGED parsing
       ELSE /\ parsing' = Word
            /\ Returns(unknown(opts), Null, current_str')
            /\ UNCHANGED opt_arg
    /\ UNCHANGED <<given, last_parse, is_positional>>

\* The loop of the program is over; it goes on with what it read.
Run ==
    /\ phase = "parse" /\ ~can_parse
    /\ phase' = "run"
    /\ UNCHANGED <<given, current_str, parsing, last_parse, opt_arg, is_positional, got>>

Next == ShortOption \/ LongOption \/ Separator \/ OtherWord \/ Run

Spec == Init /\ [][Next]_vars
-----------------------------------------------------------------------------
(* Properties.                                                             *)

\* A table is looked at once, with nothing to read.
AtStart == argv = <<>> /\ ~use_posisional_argument /\ phase = "parse"

\* What a name means: the option called so, or the only one it begins.
Begun(o, name) == {k \in DOMAIN o.args : o.args[k].long # <<>> /\ IsPrefix(name, o.args[k].long)}
Means(o, name) ==
    LET exact == {k \in Begun(o, name) : o.args[k].long = name}
    IN  IF name = <<>> THEN {} ELSE IF exact # {} THEN exact ELSE Begun(o, name)

NameTries(o) == {<<>>, <<0>>} \cup
    UNION {{SubSeq(o.args[k].long, 1, n) : n \in 1 .. Len(o.args[k].long)} : k \in DOMAIN o.args}

\* The search of the sorted names finds what the table declares, for every
\* beginning of a name: the option, or that there is none or more than one.
\* The names listed for an ambiguity fit the array of the caller, and they are
\* all it could mean when those stand at the front of the table.
Listed(o, name) ==
    LET listed == get_ambiguous(o, name, Room)
        begun == Begun(o, name)
    IN  /\ count_ambiguous(o, name) = Cardinality(begun)
        /\ Cardinality(listed) <= Room
        /\ finish(o, name) <= Room + 2 =>
              {o.l[k].long : k \in listed} = {o.args[k].long : k \in begun}

Resolves(o, name) ==
    LET m == Means(o, name)
    IN  /\ long_to_short(o, name) = IF m = {} THEN unknown(o)
                                    ELSE IF Cardinality(m) > 1 THEN ambiguous(o)
                                    ELSE o.args[CHOOSE k \in m : TRUE].short
        /\ name # <<>> => Listed(o, name)

NamesResolve == AtStart => \A name \in NameTries(opts) : Resolves(opts, name)

\* The search of one half of the table misses no option, and finds none for
\* a character that is none. So the assertion of verify_opt_arg holds.
CodesResolve ==
    AtStart => LET o == opts IN
        /\ \A k \in DOMAIN o.args : get_option_short(o, o.args[k].short) = o.args[k]
        /\ \A code \in (0 .. 300) \ CodesOf(o) : get_option_short(o, code).short = unknown(o)
        /\ CodesOf(o) \cap ToSet(o.error_code) = {}

\* --help shows an explanation whole: its characters in order, and no word cut
\* that is shorter than the line. Excepted are words that fill a line, behind
\* a line that was ended early and held a space: that space's place is still
\* remembered, and one character of the word is taken for it.
ExplanationShown ==
    AtStart => \A f \in Formats, e \in Explanations :
        LET Inked(s) == SelectSeq(s, LAMBDA c : c \notin {SPACE, NL})
            breaks == Breaks(e, desc_width(f))
            texts == [n \in DOMAIN breaks |-> breaks[n].text]
            fills == \E k \in desc_width(f) .. Len(e) :
                        LET w == SubSeq(e, k - desc_width(f) + 1, k) IN Inked(w) = w
            early == \E k \in DOMAIN e : e[k] = NL /\ SPACE \in ToSet(SubSeq(e, 1, k))
        IN  /\ ~(fills /\ early) => Inked(FlattenSeq(texts)) = Inked(e)
            /\ ~fills => \A k \in DOMAIN e \ {1} :
                   LET pair == SubSeq(e, k - 1, k)
                   IN  Inked(pair) = pair => \E n \in DOMAIN texts : ToSet(pair) \subseteq ToSet(texts[n])

\* The array has the size length computed, and its lines fit the page: they
\* are filled up to the column of the explanations, or begin with an option.
\* (An explanation that is empty or ends its line is refused by an assertion
\* when it is the last; desc_offset_y is 0 in both styles of the code.)
HelpLaidOut ==
    AtStart => LET args == opts.args IN
        \A f \in Formats, e \in Explanations : (e # <<>> /\ Last(e) # NL) =>
            LET page == char_array(f, args, e)
                ends == {k \in DOMAIN page : page[k] = NL}
            IN  /\ Len(page) = length(f, args, e) /\ Len(page) \in ends
                /\ \A k \in ({0} \cup ends) \ {Len(page)} :
                      LET line == SubSeq(page, k + 1, FirstOf({n \in ends : n > k}, 0) - 1)
                      IN  /\ Len(line) <= f.max_width
                          /\ \/ IsPrefix(Blank(f.desc_offset_x), line)
                             \/ \E n \in DOMAIN args : IsPrefix(write_opt(f, args[n]), line)

\* Every option returned stands in the words as it was written: each word
\* belongs to one option, read in order, and its value is what is attached to
\* it or else the next word.
Entry(code) == opts.args[CHOOSE k \in DOMAIN opts.args : opts.args[k].short = code]
Written(g) ==
    LET w == argv[g.word]
        e == Entry(g.code)
        attached == IF num_pfx(w) = 1 THEN SubSeq(w, 3, Len(w)) ELSE AfterEqual(w)
    IN  /\ \/ num_pfx(w) = 1 /\ w[2] = e.short
           \/ /\ num_pfx(w) = 2 /\ Means(opts, NameOf(w)) # {}
              /\ \A j \in Means(opts, NameOf(w)) : opts.args[j] = e
        /\ e.has_arg => IF attached # <<>> THEN g.arg = attached /\ g.upto = g.word
                        ELSE g.upto = g.word + 1 /\ g.arg = argv[g.upto]
        /\ ~e.has_arg => g.arg = Null /\ g.upto = g.word

ReadAsWritten ==
    /\ \A k \in DOMAIN got : got[k].word = 1 + IF k = 1 THEN 0 ELSE got[k - 1].upto
    /\ \A k \in DOMAIN got : got[k].code \in Codes => Written(got[k])

\* An option that takes an argument is never taken for the argument of the
\* option before it. (One without is, where it is written with a name.)
TakesArgument(v) ==
    LET S == IF num_pfx(v) = 1 THEN {j \in DOMAIN opts.args : opts.args[j].short = v[2]}
             ELSE IF num_pfx(v) = 2 THEN Means(opts, NameOf(v)) ELSE {}
    IN  Cardinality(S) = 1 /\ \E j \in S : opts.args[j].has_arg

OptionNotTaken ==
    \A k \in DOMAIN got : (got[k].code \in Codes /\ got[k].upto > got[k].word) =>
        ~TakesArgument(argv[got[k].upto])

\* The program starts with words unread only when the last option read takes
\* no argument and has characters attached ("-hE", "--Enter=1"): these, and
\* all words after them, are passed over without a message. (So it is behind
\* a byte over 127, which is negative and may be a code of the parser's own.)
Attached(g) ==
    LET w == argv[g.word]
    IN  \/ num_pfx(w) = 1 /\ Len(w) > 2 /\ w[2] < 0
        \/ /\ g.code \in Codes /\ ~Entry(g.code).has_arg
           /\ IF num_pfx(w) = 1 THEN Len(w) > 2 ELSE EqualAt(w) < Len(w)

NothingPassedOver ==
    (phase = "run" /\ (current_str < Len(argv) \/ parsing # <<>>)) =>
        got # <<>> /\ Attached(got[Len(got)])

\* Whatever getopt took it from, the argument at hand goes up to the end of a
\* word of argv, where the getters may look at the NUL; and what they read
\* from it is what it says, be it asked for as an unsigned or a signed number
\* or as a double: the whole of it or nothing, and of a list the items up to
\* the first that is none.
ValuesAsWritten ==
    opt_arg # Null =>
        /\ \E k \in 1 .. current_str : IsSuffix(opt_arg, argv[k])
        /\ \A T \in Types : ReadsValues(T, opt_arg)
=============================================================================
