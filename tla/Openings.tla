------------------------------ MODULE Openings ------------------------------
(***************************************************************************)
(* Both backends of auth/commitment on the jobs that the card opens: what  *)
(* a Committer, a Prover, a PreparedProver and a Verifier owe each other   *)
(* (commitment.go).                                                        *)
(***************************************************************************)
EXTENDS CudaDevice

Arguments == INSTANCE Ipa

Cells == DOMAIN Hash \cup {EmptyCell}

\* A job's values, and the same with another cell under the index.
Versions(job) == {[job.values EXCEPT ![job.index + 1] = cell] : cell \in Cells}

\* One backend, given by its operations, on a job; foreign is a commitment of the other.
Binding(job, foreign, commit(_), prove(_, _, _), batchProve(_, _, _), opened(_, _, _),
        verifyIndex(_, _, _, _), verifyProof(_, _, _), batchVerify(_, _, _, _),
        replace(_, _, _, _)) ==
    LET values == job.values
        index == job.index
        cell == values[index + 1]
        root == commit(values).value
        proof == prove(root, values, index).value
        both == <<index, 0>>
        proofs == batchProve(root, values, both).value
    IN  /\ \A other \in {commit(version).value : version \in Versions(job)} :
            /\ prove(other, values, index).ok <=> other = root
            /\ batchProve(other, values, both).ok <=> other = root
            /\ verifyIndex(other, index, cell, opened(other, values, index).value)
                   <=> other = root
        /\ ~prove(foreign, values, index).ok /\ ~batchProve(foreign, values, both).ok
        /\ ~opened(foreign, values, index).ok /\ ~verifyProof(foreign, cell, proof)
        /\ \A i, j \in 0..(2 * 2^LogSize - 1), a, b \in Cells :
            batchVerify(root, <<i, j>>, <<a, b>>, proofs)
                <=> <<i, j>> = both /\ a = cell /\ b = values[1]
        /\ \A cell2 \in Cells :
            LET replaced == replace(values, index, cell, cell2).value
                version == [values EXCEPT ![index + 1] = cell2]
            IN  /\ prove(replaced, version, index).ok
                /\ verifyProof(replaced, cell, proof) <=> cell2 = cell

\* ipa.go:233, :357, kzg.go:188: a proof, single or of a batch, is made only under the
\* commitment to the values, and shows exactly the cells at its indices: not another
\* cell, not under a replaced commitment or one of the other backend, and not at an
\* index that only a byte, or the field for it in the proof, takes for the right one.
OpeningsBind ==
    phase = "opening" /\ Idle =>
        \A i \in DOMAIN batch :
            /\ Binding(batch[i], Arguments!CommitValues(batch[i].values).value,
                   Commit, LAMBDA r, v, n : Prove({}, r, v, n),
                   LAMBDA r, v, s : BatchProve({}, r, v, s), LAMBDA r, v, n : Opened({}, r, v, n),
                   VerifyIndex, VerifyProof, BatchVerify, Replace)
            /\ Binding(batch[i], Commit(batch[i].values).value,
                   Arguments!CommitValues, Arguments!Prove, Arguments!BatchProve,
                   Arguments!Opened, Arguments!VerifyIndex, Arguments!VerifyProof,
                   Arguments!BatchVerify, Arguments!Replace)
=============================================================================
