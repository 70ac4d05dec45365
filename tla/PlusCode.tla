------------------------------- MODULE PlusCode ------------------------------
(***************************************************************************)
(* Open Location Codes (ml/pluscode.py), one axis at a time: a code gives  *)
(* each axis one digit of each pair and, after the pairs, one digit of     *)
(* each grid cell, rows for the latitude and columns for the longitude.    *)
(*                                                                         *)
(* A place on an axis is a whole number of the finest units, from the      *)
(* south pole or the antimeridian.  The alphabet, the padding and which    *)
(* strings are a code are left out; codes of all 15 digits too, whose      *)
(* centre is between two units, and the pole itself and what is within     *)
(* half a unit of the antimeridian, which round to a unit past the axis.   *)
(***************************************************************************)
EXTENDS Integers, SequencesExt, Call

CONSTANTS
    Base,           \* _BASE: 20
    PairDigits,     \* _PAIR_LEN / 2: 5
    GridDigits      \* _MAX_DIGITS - _PAIR_LEN: 5

ASSUME PlusCodeAssumption ==
    Base \in Nat \ {0} /\ PairDigits \in Nat \ {0} /\ GridDigits \in Nat

\* An axis has blocks, the number of its first digits (9 and 18); grid, how many
\* cells a grid digit splits it into (5 rows, 4 columns); and is circular when it
\* closes a circle.
Axis == [blocks: 1..Base, grid: Nat \ {0}, circular: BOOLEAN]

Digits == PairDigits + GridDigits

\* How many values digit i has.
Radix(ax, i) == IF i <= PairDigits THEN Base ELSE ax.grid

\* The value, in units, of the digit that k others follow.
Values(ax) ==
    LET value[k \in 0..(Digits - 1)] ==
            IF k = 0 THEN 1 ELSE Radix(ax, Digits - k + 1) * value[k - 1]
    IN  value

\* The place value of digit i.
Place(ax, i) == Values(ax)[Digits - i]

Size(ax) == ax.blocks * Place(ax, 1)

-----------------------------------------------------------------------------
\* encode, of place v to n digits.
Encode(ax, v, n) == [i \in 1..n |-> (v \div Place(ax, i)) % Radix(ax, i)]

\* What the first digits of a code add up to.
Sums(ax, code) ==
    LET sum[i \in 0..Len(code)] ==
            IF i = 0 THEN 0 ELSE sum[i - 1] + code[i] * Place(ax, i)
    IN  sum

\* decode: the area of a code.
Decode(ax, code) == [lo |-> Sums(ax, code)[Len(code)], size |-> Place(ax, Len(code))]

\* Twice the centre, a whole number.
Centre(area) == 2 * area.lo + area.size

\* Mutant: moves only a reference that is a whole block away.
Settle_WholeBlock(ax, ref, centre, block) ==
    CASE 2*ref + 2*block < centre -> centre - 2*block
      [] 2*ref - 2*block > centre -> centre + 2*block
      [] OTHER -> centre

\* The shift of recover_nearest: by one block (twice, as centres are) towards a
\* reference that is more than half a block away, unless that leaves the axis.
\* Only the latitude is kept from leaving.
Settle(ax, ref, centre, block) ==
    CASE 2*ref + block < centre /\ (ax.circular \/ centre - 2*block >= 0) -> centre - 2*block
      [] 2*ref - block > centre /\ (ax.circular \/ centre + 2*block <= 2*Size(ax)) ->
           centre + 2*block
      [] OTHER -> centre

\* recover_nearest: the code that ends in the digits of suffix, lacks the first
\* missing ones, and is near the reference.
Recover(ax, ref, missing, suffix) ==
    LET code   == Encode(ax, ref, missing) \o suffix
        centre == Settle(ax, ref, Centre(Decode(ax, code)), Place(ax, missing))
    IN  Encode(ax, (centre % (2 * Size(ax))) \div 2, Len(code))

-----------------------------------------------------------------------------
(* Properties                                                              *)

Places(ax) == 0..(Size(ax) - 1)

Distance(ax, ref, code) ==
    LET c == Centre(Decode(ax, code))
        d == IF c > 2*ref THEN c - 2*ref ELSE 2*ref - c
    IN  IF ax.circular THEN Min({d, 2*Size(ax) - d}) ELSE d

\* The area of a place's code holds the place, at every length; and the code
\* recovered from a short one keeps its digits and is the nearest of all those
\* that end in them (pluscode.py:175), on either side of a block's edge, at the
\* ends of the latitude and across the antimeridian.
RecoversNearest ==
    LET ax == call.arg.axis
        v  == call.arg.place
    IN  call.fn = "recover" =>
        /\ \A n \in 1..Digits :
             LET area == Decode(ax, Encode(ax, v, n))
             IN  area.lo <= v /\ v < area.lo + area.size
        /\ \A missing \in 1..(PairDigits - 1) :
             \A n \in (missing + 1)..(Digits - 1) :
             \A w \in 0..(Place(ax, missing) - 1) :
                LET suffix(x) == SubSeq(Encode(ax, x, n), missing + 1, n)
                    code == Recover(ax, v, missing, suffix(w))
                IN  /\ SubSeq(code, missing + 1, n) = suffix(w)
                    /\ \A block \in 0..(Size(ax) \div Place(ax, missing) - 1) :
                         Distance(ax, v, code) <=
                           Distance(ax, v, Encode(ax, block * Place(ax, missing) + w, n))

=============================================================================
