SPECIFICATION LiveSpec
CONSTANTS
    a = a
    b = b
    e = e
    Frames <- ThreeFrames
    FrameLen <- Lengths
    MaxSeam = 2
    Capacity = 2
    Dark = Dark
    Lit = Lit
    Kinds = {"fifo", "swap", "stream"}
    BlankPoints = 1
    MaxDelay = 1
    MaxChunk = 2
    Names = {n1, n2, n3}
INVARIANTS
    ContentSound
    SeamContinuity
PROPERTIES
    DarkWhenDue
    FrameChosen
