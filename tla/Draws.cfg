CONSTANTS
    Chunks <- MCChunks
    Views = {{}, {1, 2}}
    Occupied = {"c2"}
    Texts = {"t1", "t2"}
    MaxTurns = 3
    MaxObjects = 2
    MaxDrawn = 3
SPECIFICATION Spec
INVARIANTS DrawsReadTheirOwn StrayOnlyFirst DrawsHavePipelines SetsBounded FenceTellsGPU
