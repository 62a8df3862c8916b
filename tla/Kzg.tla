-------------------------------- MODULE Kzg --------------------------------
(***************************************************************************)
(* The KZG backend of auth/commitment/kzg over a field small enough to     *)
(* enumerate.  A point of a group is its discrete logarithm, so that the   *)
(* arithmetic of the commitments, which is the code's own, is carried out; *)
(* that nobody can compute logarithms is what such a field cannot show.    *)
(* An operation that ends in an error is one that is not accepted.         *)
(***************************************************************************)
EXTENDS Integers, Sequences, FiniteSetsExt, SequencesExt

CONSTANTS
    FieldSize,   \* bls12381ScalarMod
    LogSize,     \* the logarithm of MaxValues
    Generator,   \* a root of unity of order MaxValues
    Alpha,       \* the secret of the trusted setup
    EmptyCell,   \* the cell without bytes
    Hash         \* the digests of the other cells

MaxValues == 2^LogSize
Index == 0..(MaxValues - 1)

Mod(x) == x % FieldSize
Total(S, F(_)) == Mod(MapThenSumSet(F, S))
Reciprocal(x) == CHOOSE y \in 0..(FieldSize - 1) : IF x = 0 THEN y = 0 ELSE Mod(x * y) = 1
Power(x, n) == FoldLeft(LAMBDA y, i : Mod(x * y), 1, [i \in 1..n |-> i])

BitReverse(i) == FoldLeft(LAMBDA r, b : (2 * r) + ((i \div 2^b) % 2), 0, [b \in 1..LogSize |-> b - 1])

\* The powers of the generator, in bit-reversed order.
Roots == [i \in Index |-> Power(Generator, BitReverse(i))]

\* The setup: the values of the Lagrange polynomials at Alpha.
LagrangeG1 ==
    [i \in Index |->
        LET others == SetToSeq(Index \ {i}) IN
        FoldLeft(LAMBDA y, j : Mod(y * (Alpha - Roots[j]) * Reciprocal(Mod(Roots[i] - Roots[j]))),
                 1, others)]

Scalar(cell) == IF cell = EmptyCell THEN 0 ELSE Mod(Hash[cell])

PolynomialFromValues(values) ==
    [i \in Index |-> IF i < Len(values) THEN Scalar(values[i + 1]) ELSE 0]

CommitPolynomial(f) == Total(Index, LAMBDA i : Mod(f[i] * LagrangeG1[i]))

\* (f - f(z)) / (X - z) by its values; the one at z is a sum over the others.
Quotient(f, index) ==
    LET z == Roots[index]
        q == [j \in Index \ {index} |-> Mod((f[j] - f[index]) * Reciprocal(Mod(Roots[j] - z)))]
    IN  [j \in Index |->
            IF j # index THEN q[j]
            ELSE Total(Index \ {index}, LAMBDA k : Mod(-q[k] * Roots[k] * Reciprocal(z)))]

ProvePolynomialAtIndex(f, index) == CommitPolynomial(Quotient(f, index))

\* The pairing check, in the exponents.
VerifyKZGOpening(comm, z, claimed, point) == Mod(comm - claimed) = Mod(point * (Alpha - z))

-----------------------------------------------------------------------------
(* The scheme.  A commitment is qualified by its profile.  A proof holds the *)
(* point, the claimed value and the index.                                  *)

KZG4096 == "kzg4096"
Value(profile, commitment) == [profile |-> profile, commitment |-> commitment]
Proof(point, claimed, index) == [point |-> point, claimed |-> claimed, index |-> index]
Accepted(value) == [ok |-> TRUE, value |-> value]
Rejected == [ok |-> FALSE]

\* openPolynomial.  A scheme has no computer ({}) or one, given by the points it answers
\* for the indices; for other indices it has an error, or bytes that are no point.
OpenPolynomial(computer, f, index) ==
    LET answers == CHOOSE points \in computer : TRUE IN
    IF computer = {} THEN Accepted(Proof(ProvePolynomialAtIndex(f, index), f[index], index))
    ELSE IF index \in DOMAIN answers THEN Accepted(Proof(answers[index], f[index], index))
    ELSE Rejected

ProveValuesIndex(computer, values, index) ==
    OpenPolynomial(computer, PolynomialFromValues(values), index)

Commit(values) ==
    IF Len(values) > MaxValues THEN Rejected
    ELSE Accepted(Value(KZG4096, CommitPolynomial(PolynomialFromValues(values))))

VerifyIndex(root, index, cell, proof) ==
    /\ index \in Index /\ proof.index \in Index
    /\ proof.index = index
    /\ proof.claimed = Scalar(cell)
    /\ root.profile = KZG4096
    /\ VerifyKZGOpening(root.commitment, Roots[index], proof.claimed, proof.point)

VerifyProof(root, cell, proof) == VerifyIndex(root, proof.index, cell, proof)

\* A proof is verified against the selected root before it is returned.
Prove(computer, root, values, index) ==
    IF root.profile # KZG4096 \/ Len(values) > MaxValues \/ index >= Len(values) THEN Rejected
    ELSE LET proof == ProveValuesIndex(computer, values, index) IN
         IF proof.ok /\ VerifyIndex(root, index, values[index + 1], proof.value)
         THEN proof ELSE Rejected

ValidBatchVerification(indices, cells) ==
    /\ indices # <<>> /\ Len(indices) <= MaxValues
    /\ Len(indices) = Len(cells) /\ \A i \in DOMAIN indices : indices[i] \in Index

\* One proof for each index.
BatchVerify(root, indices, cells, proofs) ==
    /\ ValidBatchVerification(indices, cells)
    /\ Len(proofs) = Len(indices)
    /\ \A i \in DOMAIN indices : VerifyIndex(root, indices[i], cells[i], proofs[i])

ValidBatchOpening(values, indices) ==
    /\ Len(values) <= MaxValues
    /\ indices # <<>> /\ Len(indices) <= MaxValues
    /\ \A i \in DOMAIN indices : indices[i] < Len(values)

CellsAt(values, indices) == [i \in DOMAIN indices |-> values[indices[i] + 1]]

BatchProve(computer, root, values, indices) ==
    IF root.profile # KZG4096 \/ ~ValidBatchOpening(values, indices) THEN Rejected
    ELSE LET opened == [i \in DOMAIN indices |-> ProveValuesIndex(computer, values, indices[i])]
             proofs == [i \in DOMAIN indices |-> opened[i].value]
         IN  IF /\ \A i \in DOMAIN indices : opened[i].ok
                /\ BatchVerify(root, indices, CellsAt(values, indices), proofs)
             THEN Accepted(proofs) ELSE Rejected

Replace(values, index, old, new) ==
    IF index >= Len(values) THEN Rejected
    ELSE IF values[index + 1] # old THEN Rejected
    ELSE Commit([values EXCEPT ![index + 1] = new])

\* PrepareOpening and Open: nothing is verified.
Opened(computer, root, values, index) ==
    IF root.profile # KZG4096 \/ Len(values) > MaxValues \/ index >= Len(values) THEN Rejected
    ELSE OpenPolynomial(computer, PolynomialFromValues(values), index)
=============================================================================
