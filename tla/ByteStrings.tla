---------------------------- MODULE ByteStrings ----------------------------
(***************************************************************************)
(* Strings and what the pages make of them: page::prefixLength,            *)
(* page::delta, Loader::deltaLength (include/Page.hpp).  A string is a     *)
(* sequence of bytes, and bytes are natural numbers.                       *)
(***************************************************************************)
EXTENDS MachineTypes, Sequences

\* Number of leading bytes ref and value have in common.
PrefixLength(ref, value) ==
    CHOOSE n \in 0..Len(ref) :
        /\ n <= Len(value)
        /\ \A i \in 1..n : ref[i] = value[i]
        /\ n < Len(ref) /\ n < Len(value) => ref[n+1] # value[n+1]

Delta(ref, value) == SubSeq(value, PrefixLength(ref, value) + 1, Len(value))

\* Mutant: the operands of the subtraction are swapped, and there is no cast.
DeltaLength_Swapped(ref, value) == PrefixLength(ref, value) - Len(value)

\* The loader's estimate of the room a delta takes, cast to StringSizeType.
DeltaLength(ref, value) == (Len(value) - PrefixLength(ref, value)) % StringRange

StartsWith(value, prefix) ==
    /\ Len(prefix) <= Len(value)
    /\ \A i \in 1..Len(prefix) : value[i] = prefix[i]

\* The order of std::string and of the HAT-trie: bytewise, shorter first.
LexLess(a, b) ==
    LET n == PrefixLength(a, b)
    IN  \/ n = Len(a) /\ n < Len(b)
        \/ n < Len(a) /\ n < Len(b) /\ a[n+1] < b[n+1]
=============================================================================
