\* Whole lines and lines in pieces, with nested calls.
CONSTANTS
    tag = tag
    star = star
    nl = nl
    Bytes <- AllBytes
    NL = nl
    Setups <- AllSetups
    BUF_SIZE = 10
    MaxLines = 3
SPECIFICATION Spec
INVARIANTS TypeOK BytesInOrder CountIsTrue LinesAreWhole
PROPERTY ReturnsOnLongLines
