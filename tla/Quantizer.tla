------------------------------ MODULE Quantizer ------------------------------
(***************************************************************************)
(* The wire quantisers (quant.rs) and the schema that admits them          *)
(* (protocol.rs), as operators.                                            *)
(*                                                                         *)
(* An orientation is kept exactly: sq[i] is the square of component i's    *)
(* magnitude, sg[i] its sign and norm the square of the whole length, so   *)
(* component i is sg[i] * sqrt(sq[i] / norm).  A decoded orientation has   *)
(* integer smalls over SqrtTwo * Scale, so every comparison the packer     *)
(* makes is one between integers; the f32 noise of the source, far below a *)
(* quantum, is left out.  A rotation basis is the pair of opposite         *)
(* quaternions that denote it.                                             *)
(*                                                                         *)
(* A float is its sign, unbiased exponent and mantissa.  The widths are    *)
(* scaled down: Scale for 16383, Band for the eight quanta of the tie      *)
(* band, FracBits and HalfBits for 23 and 10 mantissa bits, HalfMin for    *)
(* the exponent -14 of the smallest normal half.                           *)
(***************************************************************************)
EXTENDS Integers, Sequences, FiniteSets, FiniteSetsExt, SequencesExt

CONSTANTS Scale, Band, Gap, FracBits, HalfBits, HalfMin, HalfTop

\* A half is narrower than a float, its exponents lie below the one kept for
\* what is not finite, and an orientation has at least one quantum.
ASSUME FloatAssumption ==
    /\ HalfBits \in Nat /\ FracBits \in Nat /\ HalfBits < FracBits
    /\ HalfMin \in Int /\ HalfTop \in HalfMin..98
    /\ Scale \in Nat \ {0}

Components == 1..4

\* 1 << n
Pow2[n \in Nat] == IF n = 0 THEN 1 ELSE 2 * Pow2[n - 1]

----------------------------------------------------------------------------
(* protocol.rs: what a property is and which quantiser it may carry        *)

ValidFor(quant, kind) ==
    \/ quant = "None"
    \/ quant = "Ss3" /\ kind \in {"Quat", "Basis"}
    \/ quant = "Half" /\ kind \in {"Vec3", "Vec2", "F32"}

IsRestored(role) == role \in {"State", "Input"}

\* An annotation that is unknown or does not fit the kind ships lossless.
PushQuantized(entry) ==
    [kind |-> entry.kind, role |-> entry.role,
     quant |-> IF ValidFor(entry.asks, entry.kind) THEN entry.asks ELSE "None"]

----------------------------------------------------------------------------
(* binary16                                                                *)

NonFinite == [neg |-> FALSE, exp |-> 99, man |-> 0]

Zero(neg) == [neg |-> neg, exp |-> HalfMin - 2 * FracBits, man |-> 0]

RoundEven(x, shift) ==
    LET whole == x \div Pow2[shift]
        rest == x % Pow2[shift]
        half == Pow2[shift - 1]
    IN  IF rest > half \/ (rest = half /\ whole % 2 = 1) THEN whole + 1 ELSE whole

Infinity == Pow2[HalfBits] * (HalfTop - HalfMin + 2)

\* A half is its sign and its exponent-and-mantissa bits as one number, so a
\* mantissa that rounds up past its width carries into the exponent.
F32ToF16Bits(v) ==
    LET drop == FracBits - HalfBits
        bits == IF v.exp < HalfMin - HalfBits THEN 0
                ELSE IF v.exp < HalfMin
                     THEN RoundEven(v.man + Pow2[FracBits], HalfMin - v.exp + drop)
                     ELSE (v.exp - HalfMin + 1) * Pow2[HalfBits] + RoundEven(v.man, drop)
    IN  IF v = NonFinite THEN [neg |-> FALSE, bits |-> 0]
        ELSE [neg |-> v.neg, bits |-> Min({bits, Infinity - 1})]

F16BitsToF32(half) ==
    LET exp == half.bits \div Pow2[HalfBits]
        man == half.bits % Pow2[HalfBits]
        top == Max({k \in 0..HalfBits : Pow2[k] <= man})
    IN  IF half.bits >= Infinity THEN Zero(FALSE)
        ELSE IF half.bits = 0 THEN Zero(half.neg)
        ELSE IF exp = 0
             THEN [neg |-> half.neg, exp |-> HalfMin - HalfBits + top,
                   man |-> (man - Pow2[top]) * Pow2[FracBits - top]]
             ELSE [neg |-> half.neg, exp |-> exp - 1 + HalfMin,
                   man |-> man * Pow2[FracBits - HalfBits]]

----------------------------------------------------------------------------
(* Smallest-three                                                          *)

Identity == [sq |-> <<0, 0, 0, 1>>, sg |-> <<1, 1, 1, 1>>, norm |-> 1]

ZeroQuat == [sq |-> <<0, 0, 0, 0>>, sg |-> <<1, 1, 1, 1>>, norm |-> 0]

Negated(q) == [q EXCEPT !.sg = [i \in Components |-> IF q.sq[i] = 0 THEN 1 ELSE -q.sg[i]]]

\* How sqrt(a/norm) - sqrt(b/norm) compares with n quanta, for a >= b: the
\* square of the comparison, which is between integers.
LeadsBy(a, b, norm, n) ==
    LET x == 2 * Scale * Scale * (a + b) - n * n * norm
        y == 4 * Scale * Scale
    IN  a > b /\ x > 0 /\ x * x > y * y * a * b

Peak(q) == Max({q.sq[i] : i \in Components})

DroppedIndex(q) ==
    LET peak == Peak(q)
    IN  CHOOSE i \in Components :
            /\ ~LeadsBy(peak, q.sq[i], q.norm, Band)
            /\ \A j \in 1..(i - 1) : LeadsBy(peak, q.sq[j], q.norm, Band)

SeparationClears(q, largest) ==
    LET runner == Max({q.sq[i] : i \in Components \ {largest}})
    IN  q.sq[largest] >= runner /\ LeadsBy(q.sq[largest], runner, q.norm, Gap)

Scaled(sq, norm) ==
    CHOOSE k \in 0..Scale :
        /\ k = 0 \/ (2 * k - 1) * (2 * k - 1) * norm <= 8 * Scale * Scale * sq
        /\ k = Scale \/ (2 * k + 1) * (2 * k + 1) * norm > 8 * Scale * Scale * sq

TopBit == 4 * Scale

\* The index of the n-th stored small once component `largest` is dropped.
SmallAt(n, largest) == IF n < largest THEN n ELSE n + 1

PackSs3Dropping(q, largest) ==
    LET word(n) == LET i == SmallAt(n, largest)
                   IN  q.sg[largest] * q.sg[i] * Scaled(q.sq[i], q.norm) + Scale
        index == largest - 1
    IN  <<word(1) + TopBit * (index % 2), word(2) + TopBit * (index \div 2), word(3)>>

Ss3ToQuat(words) ==
    LET largest == 1 + (words[1] \div TopBit) + 2 * (words[2] \div TopBit)
        small == [n \in 1..3 |-> Min({(words[n] % TopBit) - Scale, Scale})]
        sum == small[1] * small[1] + small[2] * small[2] + small[3] * small[3]
        big == Max({0, 2 * Scale * Scale - sum})
        at(i) == small[IF i < largest THEN i ELSE i - 1]
    IN  [sq |-> [i \in Components |-> IF i = largest THEN big ELSE at(i) * at(i)],
         sg |-> [i \in Components |-> IF i # largest /\ at(i) < 0 THEN -1 ELSE 1],
         norm |-> big + sum]

Respack(words) ==
    LET decoded == Ss3ToQuat(words)
    IN  PackSs3Dropping(decoded, DroppedIndex(decoded))

\* Byte order of the packed words: the low byte of a word leads its high one.
Rank(words) ==
    LET low == 2 * Scale
        bytes(w) == (w % low) * 8 + (w \div low)
        base == 8 * low
    IN  (bytes(words[1]) * base + bytes(words[2])) * base + bytes(words[3])

\* The walk stops where it repeats a member, so running it to its bound adds
\* nothing to the set its least member is taken from.
LeastOfWalk(packed) ==
    LET walk == FoldLeft(LAMBDA w, k : Append(w, Respack(Last(w))), <<packed>>, [k \in 1..7 |-> k])
        seen == Range(walk)
    IN  CHOOSE w \in seen : \A v \in seen : Rank(w) <= Rank(v)

\* Mutant: the pack is returned without being checked against its own decode.
QuatToSs3Unchecked(quat) ==
    LET q == IF quat = NonFinite \/ quat = ZeroQuat THEN Identity ELSE quat
    IN  PackSs3Dropping(q, DroppedIndex(q))

QuatToSs3(quat) ==
    LET q == IF quat = NonFinite \/ quat = ZeroQuat THEN Identity ELSE quat
        largest == DroppedIndex(q)
        packed == PackSs3Dropping(q, largest)
    IN  IF SeparationClears(q, largest) \/ Respack(packed) = packed
        THEN packed
        ELSE LeastOfWalk(packed)

\* Shepperd's pivot: the component whose sign the method fixes as positive.
\* The zero matrix, no rotation at all, leaves by the last branch.
BasisToQuat(basis) ==
    LET q == CHOOSE q \in basis : TRUE
        pivot == CASE 4 * q.sq[4] > q.norm -> 4
                   [] 4 * q.sq[4] <= q.norm /\ q.sq[1] > q.sq[2] /\ q.sq[1] > q.sq[3] -> 1
                   [] 4 * q.sq[4] <= q.norm /\ ~(q.sq[1] > q.sq[2] /\ q.sq[1] > q.sq[3])
                        /\ q.sq[2] > q.sq[3] -> 2
                   [] OTHER -> 3
    IN  IF NonFinite \in basis THEN Identity
        ELSE IF basis = {} THEN [sq |-> <<0, 0, 1, 0>>, sg |-> <<1, 1, 1, 1>>, norm |-> 1]
        ELSE CHOOSE r \in basis : r.sg[pivot] = 1

QuatToBasis(q) == {q, Negated(q)}

----------------------------------------------------------------------------
(* Properties and rows                                                     *)

EncodeProp(prop, native) ==
    CASE prop.quant = "Ss3" /\ prop.kind = "Quat" -> QuatToSs3(native)
      [] prop.quant = "Ss3" /\ prop.kind = "Basis" -> QuatToSs3(BasisToQuat(native))
      [] prop.quant = "Half" -> [i \in DOMAIN native |-> F32ToF16Bits(native[i])]
      [] OTHER -> native

DecodeProp(prop, wire) ==
    CASE prop.quant = "Ss3" /\ prop.kind = "Quat" -> Ss3ToQuat(wire)
      [] prop.quant = "Ss3" /\ prop.kind = "Basis" -> QuatToBasis(Ss3ToQuat(wire))
      [] prop.quant = "Half" -> [i \in DOMAIN wire |-> F16BitsToF32(wire[i])]
      [] OTHER -> wire

\* Eight rounds of decode after encode; a round that changes nothing is the
\* loop's break.
CanonicalizeValue(prop, native) ==
    LET round[k \in 0..8] ==
            IF k = 0 THEN native
            ELSE LET before == round[k - 1] IN DecodeProp(prop, EncodeProp(prop, before))
    IN  IF prop.quant = "None" THEN native ELSE round[8]

EncodeRow(schema, row) == [i \in DOMAIN schema |-> EncodeProp(schema[i], row[i])]

DecodeRow(schema, wire) == [i \in DOMAIN schema |-> DecodeProp(schema[i], wire[i])]

ValueIsFinite(kind, native) ==
    CASE kind \in {"Vec3", "Vec2", "F32"} -> \A i \in DOMAIN native : native[i] # NonFinite
      [] kind = "Basis" -> NonFinite \notin native
      [] OTHER -> native # NonFinite

RowIsFinite(schema, row) == \A i \in DOMAIN schema : ValueIsFinite(schema[i].kind, row[i])
=============================================================================
