------------------------------- MODULE MCFlags ------------------------------
(***************************************************************************)
(* Instances of Flags for TLC: every small dictionary of three methods    *)
(* over four flags, with shared flags, at 2 bits, and the flags.h files    *)
(* of up to three lines.                                                   *)
(***************************************************************************)
EXTENDS Flags

\* every flags.h of at most three lines, markers anywhere: text before,
\* between or after the markers, a marker missing, repeated or reversed, both
\* markers on one line
SmallHeaders == BoundedSeq(Line, 3)

\* --- small dictionaries with shared flags ---
SMethods == {"m1", "m2", "m3"}
SFlags == {"a", "b", "c", "d"}
SNameOrder == <<"a", "b", "c", "d">>
\* a method lists at most two flags, in name order, or only __NONE__
SLists == {SelectSeq(SNameOrder, LAMBDA x : x \in S) : S \in {S \in SUBSET SFlags : Cardinality(S) <= 2}}
            \cup {<<NONE>>}
STables == [SMethods -> SLists]
SOrders == SetToSeqs(SMethods)

=============================================================================
