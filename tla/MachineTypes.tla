---------------------------- MODULE MachineTypes ----------------------------
(***************************************************************************)
(* How many values the integer types of the pages and leaves have.         *)
(***************************************************************************)
EXTENDS Integers

CONSTANTS
    StringRange,  \* StringSizeType and PrefixSizeType: 2^16
    OffsetRange,  \* offsets, delta numbers and leaf entries (uint16_t): 2^16
    WordRange     \* leaf values and node pointers (uint64_t, uintptr_t): 2^64

ASSUME StringRangeAssumption == StringRange \in Nat \ {0}
ASSUME OffsetRangeAssumption == OffsetRange \in Nat \ {0}

\* Ranges are powers of two: a word has room for an offset and one more bit.
ASSUME WordAssumption == \E k \in 1..WordRange : WordRange = 2 * k * OffsetRange
=============================================================================
