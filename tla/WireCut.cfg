\* A fragment holds a book delta of two levels, and not one of three.
SPECIFICATION Spec
CONSTANTS
    BufferSize = 60
    Mtu = 24
    Depth = {0, 1, 3}
    MaxMessages = 2
INVARIANT FragmentsAreMessages
CHECK_DEADLOCK FALSE
