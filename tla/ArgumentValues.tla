--------------------------- MODULE ArgumentValues ---------------------------
(***************************************************************************)
(* The getters of argument_t for numbers, intervals and lists of them, all *)
(* upon std::from_chars of the type T asked for: "unsigned" (uint16_t,     *)
(* size_t, uintmax_t), "signed" (int) or "double". The programs call       *)
(* get_value and get_interval; get_values and get_intervals nothing calls. *)
(***************************************************************************)
EXTENDS ArgumentList

CONSTANT MaxValue       \* the largest value of the integer types

ASSUME ValuesAssumption == MaxValue \in Nat

NUL == 0
POINT == 46
PLUS == 43
COMMA == 44
Digits == 48 .. 57
Types == {"unsigned", "signed", "double"}

From(str, k) == SubSeq(str, k, Len(str))

\* w without a sign at its front
Bare(w, signs) == IF w # <<>> /\ Head(w) \in signs THEN Tail(w) ELSE w

\* The first place in w of one of cs, or the place behind w.
PlaceOf(cs, w) == FirstOf({j \in DOMAIN w : w[j] \in cs}, Len(w) + 1)

\* Digits, and digits with a point in front of, between or behind them.
Whole(w) == w # <<>> /\ ToSet(w) \subseteq Digits
Fixed(w) ==
    /\ \E k \in DOMAIN w : w[k] \in Digits
    /\ \A k \in DOMAIN w : w[k] \in Digits \/ (w[k] = POINT /\ k = PlaceOf({POINT}, w))

\* A double is a mantissa and an exponent, if w has one: "e", a sign, digits.
Mantissa(w) == SubSeq(w, 1, PlaceOf({69, 101}, w) - 1)
Exponent(w) == From(w, PlaceOf({69, 101}, w) + 1)

IsNumeral(T, w) ==
    CASE T = "unsigned" -> Whole(w)
      [] T = "signed" -> Whole(Bare(w, {DASH}))
      [] T = "double" -> /\ Fixed(Bare(Mantissa(w), {DASH}))
                         /\ Mantissa(w) # w => Whole(Bare(Exponent(w), {DASH, PLUS}))

\* The number that the digits of w stand for, negative behind a DASH.
Signed(w) ==
    LET v == FoldLeft(LAMBDA n, c : IF c \in Digits THEN 10 * n + (c - 48) ELSE n, 0, w)
    IN  IF w # Bare(w, {DASH}) THEN -v ELSE v

\* A double is <<m, e>>, m times 10 to the e.
ValueOf(T, w) ==
    IF T = "double"
    THEN LET m == Mantissa(w)
         IN  <<Signed(m), Signed(Exponent(w)) - Cardinality(PlaceOf({POINT}, m) + 1 .. Len(m))>>
    ELSE Signed(w)

\* A double holds what it is asked for here: "inf", "nan" and values beyond
\* its exponents are left out.
InRange(T, v) ==
    CASE T = "unsigned" -> v <= MaxValue
      [] T = "signed" -> v \in -(MaxValue + 1) .. MaxValue
      [] T = "double" -> TRUE

\* The number w spells, as the set of it: empty when it spells none.
Numbers(T, w) ==
    IF IsNumeral(T, w) /\ InRange(T, ValueOf(T, w)) THEN {ValueOf(T, w)} ELSE {}

\* from_chars: ptr is the place behind the longest numeral at the front of
\* str, val the set of its value, empty if there is none or the type does not
\* hold it. (The code tests ec for this.)
from_chars(T, str) ==
    LET last == Max({0} \cup {k \in DOMAIN str : IsNumeral(T, SubSeq(str, 1, k))})
    IN  [ptr |-> last + 1, val |-> Numbers(T, SubSeq(str, 1, last))]

\* *ptr: what stands in the word, or the NUL at its end
At(str, ptr) == (str \o <<NUL>>)[ptr]

\* The optional a getter returns is the set of its value.
get_value(T, str) ==
    LET r == from_chars(T, str)
    IN  IF r.ptr = Len(str) + 1 THEN r.val ELSE {}

\* Mutant: the second number may end anywhere.
get_interval_implOpen(T, str) ==
    LET r == from_chars(T, str)
    IN  IF r.ptr = Len(str) + 1 THEN {<<v, v>> : v \in r.val}
        ELSE IF At(str, r.ptr) # DASH THEN {}
        ELSE r.val \X from_chars(T, From(str, r.ptr + 1)).val

\* get_interval_impl: "n" or "n-m".
get_interval_impl(T, str) ==
    LET r == from_chars(T, str)
    IN  IF r.ptr = Len(str) + 1 THEN {<<v, v>> : v \in r.val}
        ELSE IF At(str, r.ptr) # DASH THEN {}
        ELSE r.val \X get_value(T, From(str, r.ptr + 1))

\* The container the lists are read into has a place for every delimiter and
\* one more.
Places(str) == 1 + Cardinality({k \in DOMAIN str : str[k] = COMMA})

\* get_values: the numbers in front of the delimiters, up to one that is no
\* number or is followed by something else. The state is [str, out, go].
get_values(T, str) ==
    LET Take(s, r) == [str |-> From(s.str, r.ptr + 1), out |-> s.out \o SetToSeq(r.val),
                       go |-> r.val # {} /\ At(s.str, r.ptr) = COMMA]
        Step(s, k) == IF s.go THEN Take(s, from_chars(T, s.str)) ELSE s
    IN  FoldLeft(Step, [str |-> str, out |-> <<>>, go |-> TRUE],
                 [k \in 1 .. Places(str) |-> k]).out

\* get_intervals: the same for intervals; each ends at the next delimiter.
get_intervals(T, str) ==
    LET Take(s, pos, one) == [str |-> From(s.str, pos + 1), out |-> s.out \o SetToSeq(one),
                              go |-> one # {} /\ pos < Len(s.str)]
        Step(s, k) ==
            LET pos == PlaceOf({COMMA}, s.str)
            IN  IF s.go THEN Take(s, pos, get_interval_impl(T, SubSeq(s.str, 1, pos - 1))) ELSE s
    IN  FoldLeft(Step, [str |-> str, out |-> <<>>, go |-> str # <<>>],
                 [k \in 1 .. Places(str) |-> k]).out

-----------------------------------------------------------------------------
(* What they are to read: the argument cut at its delimiters.              *)

Items(str) ==
    LET cuts == SetToSortSeq({0, Len(str) + 1} \cup {k \in DOMAIN str : str[k] = COMMA}, <)
    IN  [n \in 1 .. Len(cuts) - 1 |-> SubSeq(str, cuts[n] + 1, cuts[n + 1] - 1)]

\* The intervals an item may stand for: none or one.
Intervals(T, w) ==
    {<<v, v>> : v \in Numbers(T, w)} \cup
        UNION {Numbers(T, SubSeq(w, 1, k - 1)) \X Numbers(T, From(w, k + 1)) :
                  k \in {j \in DOMAIN w : w[j] = DASH}}

\* The items of a list in front of the first that is none of the kind asked for.
Lead(items, P(_)) == SubSeq(items, 1, FirstOf({n \in DOMAIN items : ~P(items[n])}, Len(items) + 1) - 1)

\* A list is read up to the first item that is none; get_values takes from
\* that one still the number at its front.
ReadsValues(T, str) ==
    LET numbers == Lead(Items(str), LAMBDA w : Numbers(T, w) # {})
        intervals == Lead(Items(str), LAMBDA w : Intervals(T, w) # {})
        Rest == SubSeq(Items(str), Len(numbers) + 1, Len(Items(str)))
    IN  /\ get_value(T, str) = Numbers(T, str)
        /\ get_interval_impl(T, str) = Intervals(T, str)
        /\ get_values(T, str) =
              FlattenSeq([n \in DOMAIN numbers |-> SetToSeq(Numbers(T, numbers[n]))])
                  \o (IF Rest = <<>> THEN <<>> ELSE SetToSeq(from_chars(T, Rest[1]).val))
        /\ get_intervals(T, str) =
              FlattenSeq([n \in DOMAIN intervals |-> SetToSeq(Intervals(T, intervals[n]))])
=============================================================================
