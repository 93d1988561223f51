CONSTANTS
    Producers = {p1, p2}
    Consumers = {c1, c2}
    Chars = {a, b}
    BUFF_SIZE = 2
    NoThread = NoThread
    NoChar = NoChar
SPECIFICATION FairSpec
INVARIANTS TypeOK RingIndices RoomAfterTest NoLostSignal
PROPERTIES ImplementsFifo BufferProgress
