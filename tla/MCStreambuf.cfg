\* One fiber on a streambuf with an echo peer: three bytes written, a
\* two-byte put area and two-byte reads, half_duplex, resets allowed.
CONSTANTS
    MaxW = 3
    PutCap = 2
    GetCap = 2
    PutbackMax = 8
    Duplex = "half"

SPECIFICATION Spec

INVARIANT StreamTypeOK
INVARIANT NoLossNoDup
INVARIANT ReadsInOrder

PROPERTY GetReturns
