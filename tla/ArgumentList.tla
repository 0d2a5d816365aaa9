---------------------------- MODULE ArgumentList ----------------------------
(***************************************************************************)
(* The option tables of argument.hpp: argument_list, built from the table  *)
(* a program declares, and its searches. A character is its code, a word   *)
(* or a name a sequence of codes.                                          *)
(***************************************************************************)
EXTENDS Integers, Sequences, FiniteSets, SequencesExt

Chars == -128 .. 127      \* of a signed char
DASH == 45
EQ == 61

\* optspec_t, without its explanation: a short of 0 is none, and so is an
\* empty long.
OptSpecs == [short: 0 .. 255, long: Seq(Nat), has_arg: BOOLEAN]

\* opt_t{code}
opt_t(code) == [short |-> code, long |-> <<>>, has_arg |-> FALSE]

-----------------------------------------------------------------------------
(* The constructor.                                                        *)

\* The assertion of the constructor.
check(args) ==
    \A j, k \in DOMAIN args : j # k =>
        /\ args[j].short = args[k].short => args[j].short = 0
        /\ args[j].long = args[k].long => args[j].long = <<>>

\* An option without a short one gets a code above the characters.
init_args(in) ==
    [k \in DOMAIN in |->
        IF in[k].short # 0 THEN in[k]
        ELSE [in[k] EXCEPT !.short = 255 + Cardinality({j \in 1 .. k : in[j].short = 0})]]

\* The N passes of the sorts, Swap being the pairs that are swapped; a pass
\* compares one neighbour less than the pass before.
Compare(t, j, Swap) ==
    IF <<t[j], t[j + 1]>> \in Swap THEN [t EXCEPT ![j] = t[j + 1], ![j + 1] = t[j]] ELSE t

Pass(table, n, Swap) ==
    LET s[j \in 0 .. n] == IF j = 0 THEN table ELSE Compare(s[j - 1], j, Swap)
    IN  s[n]

BubbleSort(table, Swap) ==
    LET N == Len(table)
        t[i \in 0 .. N] == IF i = 0 THEN table ELSE Pass(t[i - 1], N - i, Swap)
    IN  t[N]

Pairs(table) == ToSet(table) \X ToSet(table)

init_s_sort_table(args) == BubbleSort(args, {p \in Pairs(args) : p[1].short > p[2].short})

\* a > b of string_view: at the first place where they are not the same
Greater(a, b) ==
    \E k \in DOMAIN a :
        /\ \A j \in 1 .. k - 1 : j \in DOMAIN b /\ a[j] = b[j]
        /\ k \in DOMAIN b => a[k] > b[k]

\* Mutant: the names are not compared.
init_l_sort_tableUnsorted(args) == BubbleSort(args, {p \in Pairs(args) : p[1].long = <<>>})

\* The options without a name go to the end.
init_l_sort_table(args) ==
    BubbleSort(args, {p \in Pairs(args) :
        p[1].long = <<>> \/ (Greater(p[1].long, p[2].long) /\ p[2].long # <<>>)})

init_num_long_opt(l) == Cardinality({k \in DOMAIN l : \A j \in 1 .. k : l[j].long # <<>>})

\* The first four codes below 0 that no option has.
init_error_code(l) ==
    LET free == (-(4 + Len(l)) .. -1) \ {l[k].short : k \in DOMAIN l}
    IN  [n \in 1 .. 4 |-> CHOOSE c \in free : Cardinality({d \in free : d >= c}) = n]

argument_list(in) ==
    LET args == init_args(in)
        l == init_l_sort_table(args)
    IN  [args |-> args, s |-> init_s_sort_table(args), l |-> l,
         num |-> init_num_long_opt(l), error_code |-> init_error_code(l)]

unknown(o) == o.error_code[1]
ambiguous(o) == o.error_code[2]
no_argument(o) == o.error_code[3]
positional_argument(o) == o.error_code[4]

is_valid(o, code) == code \notin ToSet(o.error_code)

-----------------------------------------------------------------------------
(* The searches.                                                           *)

\* Mutant: the upper half from the middle's successor on.
get_option_shortAfter(o, code) ==
    LET mid == Len(o.s) \div 2
        half == IF o.s[mid + 1].short > code THEN 1 .. mid ELSE mid + 2 .. Len(o.s)
        hits == {k \in half : o.s[k].short = code}
    IN  IF hits = {} THEN opt_t(unknown(o)) ELSE o.s[CHOOSE k \in hits : TRUE]

\* get_option for a short option, or the code of one without: in the half of
\* the table it belongs to.
get_option_short(o, code) ==
    LET mid == Len(o.s) \div 2
        half == IF o.s[mid + 1].short > code THEN 1 .. mid ELSE mid + 1 .. Len(o.s)
        hits == {k \in half : o.s[k].short = code}
    IN  IF hits = {} THEN opt_t(unknown(o)) ELSE o.s[CHOOSE k \in hits : TRUE]

\* front() of an empty name reads what follows it in the word, the '='.
front(lopt) == IF lopt = <<>> THEN EQ ELSE Head(lopt)

\* The run of names with the same first character: start and finish, which
\* is one past it.
FirstOf(S, none) == IF S = {} THEN none ELSE CHOOSE k \in S : \A j \in S : k <= j
start(o, lopt) == FirstOf({k \in 1 .. o.num : Head(o.l[k].long) = front(lopt)}, o.num + 1)
finish(o, lopt) ==
    FirstOf({k \in start(o, lopt) .. o.num : Head(o.l[k].long) # front(lopt)}, o.num + 1)

\* The places of the run, below one, where a name begins with lopt.
Hits(o, lopt, upto) == {k \in start(o, lopt) .. upto - 1 : IsPrefix(lopt, o.l[k].long)}

\* get_option for a name: the first two names it is a prefix of decide.
get_option_long(o, lopt) ==
    LET h == Hits(o, lopt, finish(o, lopt))
        first == FirstOf(h, 0)
        second == FirstOf(h \ {first}, first)
    IN  IF h = {} THEN opt_t(unknown(o))
        ELSE IF h = {first} \/ o.l[first].long = lopt THEN o.l[first]
        ELSE IF o.l[second].long = lopt THEN o.l[second]
        ELSE opt_t(ambiguous(o))

\* Mutant: the first name that fits.
long_to_shortFirst(o, lopt) ==
    LET h == Hits(o, lopt, finish(o, lopt))
    IN  IF h = {} THEN unknown(o) ELSE o.l[FirstOf(h, 0)].short

\* long_to_short: the same search, for the code.
long_to_short(o, lopt) == get_option_long(o, lopt).short

count_ambiguous(o, lopt) == Cardinality(Hits(o, lopt, finish(o, lopt)))

\* get_ambiguous, into an array of room names. The bound is a place in the
\* table, not a count: names that stand further down are not listed.
get_ambiguous(o, lopt, room) ==
    LET bound == room + 2
        end == finish(o, lopt)
    IN  Hits(o, lopt, IF end < bound THEN end ELSE bound)
=============================================================================
