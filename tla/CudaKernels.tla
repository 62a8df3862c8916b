---------------------------- MODULE CudaKernels ----------------------------
(***************************************************************************)
(* The kernels of accelerators/cuda/worker/kzg.cu.  They compute the       *)
(* commitment to a quotient in another way than the CPU: with two tables   *)
(* in natural order instead of inversions, and with the multiples of every *)
(* point gathered by windows, chunks and digits and summed up level by     *)
(* level.  Threads of a launch are the members of a set of indices.        *)
(***************************************************************************)
EXTENDS Kzg

CONSTANTS
    Width,      \* the bits of a window of a scalar
    Windows,    \* the windows of a scalar
    ChunkSize,  \* the points of a chunk
    Group       \* the threads that sum up in one block

\* domainBytes: the powers of the generator and the inverses of their distances to 1.
NaturalRoots == [i \in Index |-> Power(Generator, i)]
Differences == [i \in Index |-> IF i = 0 THEN 0 ELSE Reciprocal(Mod(NaturalRoots[i] - 1))]

\* A difference of exponents, masked to the size of the domain.
Around(x) == x % MaxValues

Precompute(bases) ==
    [w \in 0..(Windows - 1), i \in Index |-> Mod(2^(w * Width) * bases[i])]

QuotientKernel(vector, roots, differences, index) ==
    LET zi == BitReverse(index) IN
    [j \in Index |->
        IF j = index THEN 0
        ELSE Mod((vector[j] - vector[index]) * differences[Around(BitReverse(j) - zi)]
                     * roots[Around(-zi)])]

Contributions(q, roots, index) ==
    [j \in Index |->
        IF j = index THEN 0 ELSE Mod(-q[j] * roots[Around(BitReverse(j) - BitReverse(index))])]

QuotientDiagonal(q, contributions, index) ==
    [q EXCEPT ![index] = Total(Index, LAMBDA j : contributions[j])]

-----------------------------------------------------------------------------
(* The multiple of every point by its scalar, and their sum.                *)

CeilDiv(n, d) == (n + d - 1) \div d

Chunks == CeilDiv(MaxValues, ChunkSize)
BucketsOf == 2^Width - 1
BucketCount == Chunks * Windows * BucketsOf

ScalarDigit(x, w) == (x \div 2^(w * Width)) % 2^Width

Chunk(c) == {i \in Index : i \div ChunkSize = c}

Buckets(table, scalars) ==
    [local \in 0..(BucketCount - 1) |->
        LET digit == (local % BucketsOf) + 1
            c == (local \div BucketsOf) % Chunks
            w == local \div (BucketsOf * Chunks)
            used == {i \in Chunk(c) : ScalarDigit(scalars[i], w) = digit}
        IN  Mod(digit * Total(used, LAMBDA i : table[w, i]))]

Reduce(src, n) ==
    [group \in 0..(CeilDiv(n, Group) - 1) |->
        Total({i \in 0..(n - 1) : i \div Group = group}, LAMBDA i : src[i])]

\* levels: the lengths of the partial sums, down to one.
LevelsFrom[n \in 1..BucketCount] == IF n = 1 THEN <<1>> ELSE <<n>> \o LevelsFrom[CeilDiv(n, Group)]
Levels == LevelsFrom[BucketCount]
=============================================================================
