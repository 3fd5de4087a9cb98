CONSTANT XLEN = 15

SPECIFICATION Spec

INVARIANT DecodesTheEncoding
INVARIANT ResultsAreRV32I
INVARIANT LoadsAreExtended
INVARIANT TraceNamesTheInstruction
