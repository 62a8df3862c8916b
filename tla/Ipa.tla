-------------------------------- MODULE Ipa --------------------------------
(***************************************************************************)
(* The IPA backend of auth/commitment/ipa.  The arguments themselves are   *)
(* those of a library, and symbolic here: a commitment is the vector it    *)
(* binds, and an argument is accepted exactly for the commitment, points   *)
(* and outputs it was made for.  A point of a batch is one byte wide.      *)
(***************************************************************************)
EXTENDS Integers, Sequences

CONSTANTS
    MaxValues,   \* the values of a commitment, as many as a byte has values
    EmptyCell,   \* the cell without bytes
    Hash         \* the digests of the other cells

IPA256 == "ipa256"
Index == 0..(MaxValues - 1)
Byte(index) == index % MaxValues

Value(profile, commitment) == [profile |-> profile, commitment |-> commitment]
Accepted(value) == [ok |-> TRUE, value |-> value]
Rejected == [ok |-> FALSE]

CellToFieldElement(cell) == IF cell = EmptyCell THEN 0 ELSE Hash[cell]

ValuesToVector(values) ==
    [i \in Index |-> IF i < Len(values) THEN CellToFieldElement(values[i + 1]) ELSE 0]

\* The library: CreateIPAProof, CheckIPAProof, CreateMultiProof, CheckMultiProof.
Argument(commitment, vector, points) ==
    [commitment |-> commitment, vector |-> vector, points |-> points]

CheckArgument(argument, commitment, points, outputs) ==
    /\ argument.commitment = commitment /\ argument.vector = commitment
    /\ argument.points = points
    /\ outputs = [i \in DOMAIN points |-> argument.vector[points[i]]]

CommitValues(values) ==
    IF Len(values) > MaxValues THEN Rejected
    ELSE Accepted(Value(IPA256, ValuesToVector(values)))

\* serializeProof: the argument for one point, and the index.
Proof(commitment, vector, index) ==
    [argument |-> Argument(commitment, vector, <<index>>), index |-> index]

VerifyIndex(root, index, cell, proof) ==
    /\ index \in Index
    /\ root.profile = IPA256
    /\ proof.index = index
    /\ CheckArgument(proof.argument, root.commitment, <<index>>, <<CellToFieldElement(cell)>>)

VerifyProof(root, cell, proof) ==
    /\ root.profile = IPA256
    /\ proof.index \in Index
    /\ CheckArgument(proof.argument, root.commitment, <<proof.index>>, <<CellToFieldElement(cell)>>)

ProveValuesIndex(root, values, index) ==
    Proof(root.commitment, ValuesToVector(values), index)

Prove(root, values, index) ==
    IF root.profile # IPA256 \/ Len(values) > MaxValues \/ index >= Len(values) THEN Rejected
    ELSE LET proof == ProveValuesIndex(root, values, index) IN
         IF VerifyIndex(root, index, values[index + 1], proof) THEN Accepted(proof) ELSE Rejected

ValidBatchVerification(indices, cells) ==
    /\ indices # <<>> /\ Len(indices) <= MaxValues
    /\ Len(indices) = Len(cells)
    /\ \A i \in DOMAIN indices : indices[i] < MaxValues

Points(indices) == [i \in DOMAIN indices |-> Byte(indices[i])]
Outputs(cells) == [i \in DOMAIN cells |-> CellToFieldElement(cells[i])]

\* Faulty: the indices are cut to a byte before they are looked at.
BatchVerifyCut(root, indices, cells, proof) ==
    /\ indices # <<>> /\ Len(indices) = Len(cells)
    /\ root.profile = IPA256
    /\ CheckArgument(proof, root.commitment, Points(indices), Outputs(cells))

BatchVerify(root, indices, cells, proof) ==
    /\ ValidBatchVerification(indices, cells)
    /\ root.profile = IPA256
    /\ CheckArgument(proof, root.commitment, Points(indices), Outputs(cells))

ValidBatchOpening(values, indices) ==
    /\ Len(values) <= MaxValues
    /\ indices # <<>> /\ Len(indices) <= MaxValues
    /\ \A i \in DOMAIN indices : indices[i] < Len(values)

BatchProve(root, values, indices) ==
    IF root.profile # IPA256 \/ ~ValidBatchOpening(values, indices) THEN Rejected
    ELSE LET proof == Argument(root.commitment, ValuesToVector(values), Points(indices))
             cells == [i \in DOMAIN indices |-> values[indices[i] + 1]]
         IN  IF BatchVerify(root, indices, cells, proof) THEN Accepted(proof) ELSE Rejected

Replace(values, index, old, new) ==
    IF index >= Len(values) THEN Rejected
    ELSE IF values[index + 1] # old THEN Rejected
    ELSE CommitValues([values EXCEPT ![index + 1] = new])

\* PrepareOpening and Open: nothing is verified.
Opened(root, values, index) ==
    IF root.profile # IPA256 \/ Len(values) > MaxValues \/ index >= Len(values) THEN Rejected
    ELSE Accepted(ProveValuesIndex(root, values, index))
=============================================================================
