CONSTANTS
    Keys = {"m", ">", "o", "space"}
    Height = 2
    Fronts = {"live", "run", "attach"}
    Blocks <- MCBlocks
    Bursts <- MCBursts
    MaxQueue = 1
    MaxWire = 1
    Bounds <- MCBounds
SPECIFICATION FairSpec
CHECK_DEADLOCK FALSE
INVARIANTS NoUseAfterTeardown HeapIsRemote ErrorIsReported ScreenTellsTruth
PROPERTIES QuitEnds DisconnectIsShown
