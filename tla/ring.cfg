\* Four usable bytes; requests up to more than the ring holds.
CONSTANTS
    BufferSize = 5
    Bytes = {a, b}
    MaxRequest = 5
SPECIFICATION Spec
INVARIANT PiecesInBounds
PROPERTY FifoSpec
