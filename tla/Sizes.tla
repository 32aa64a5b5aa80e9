-------------------------------- MODULE Sizes --------------------------------
(***************************************************************************)
(* Sizes in bytes that the coding and the files have in common.            *)
(***************************************************************************)
EXTENDS Integers

CONSTANTS
    BaseSize,         \* basesize: bytes of an MPI_LONG
    MaxChunkElements  \* MAX_CHUNK_ELEMENTS

ASSUME SizesAssumption ==
    /\ BaseSize \in Nat \ {0}
    /\ MaxChunkElements \in Nat \ {0}

maxchunkb == MaxChunkElements * BaseSize

RoundDown(k, b) == k - (k % b)
RoundUp(k, b) == RoundDown(k + b - 1, b)

\* As all its callers use it: the next multiple of basesize.
fit_datasize(d) == RoundUp(d, BaseSize)
=============================================================================
