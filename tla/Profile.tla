------------------------------- MODULE Profile -------------------------------
(* The limits of the streams the program accepts: j2kprf, const_value.hpp. *)
EXTENDS Naturals

CONSTANTS
    NL,             \* decomposition levels (5)
    CsizMax,        \* components (4)
    SubbandMax,     \* subbands (12)
    DfsMax,         \* DFS marker segments (2)
    Word            \* 2^32, the modulus of uint32_t

ASSUME ProfileAssumption ==
    /\ NL \in Nat
    /\ {CsizMax, SubbandMax, DfsMax, Word} \subseteq Nat \ {0}

\* Postion2D::pow2 of an axis, and 1 << n where it is written so
pow2[n \in Nat] == IF n = 0 THEN 1 ELSE 2 * pow2[n - 1]
=============================================================================
