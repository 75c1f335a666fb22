SPECIFICATION LiveSpec
CONSTANTS
    a = a
    b = b
    e = e
    Frames <- ThreeFrames
    FrameLen <- Lengths
    MaxSeam = 1
    Capacity = 2
    Dark = Dark
    Lit = Lit
    Kinds = {"fifo"}
    BlankPoints = 1
    MaxDelay = 0
    MaxChunk = 1
    Names = {n1}
PROPERTIES
    EveryFrameChosen
