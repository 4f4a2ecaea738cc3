CONSTANTS
    SHA_1 = SHA_1
    SHA_256 = SHA_256
    c1 = c1
    c2 = c2
    Algorithms <- MCAlgorithms
    Chunks <- MCChunks
    MaxChunks = 3
    EnvAttached = {FALSE}
    Throwing = {}
SPECIFICATION Spec
INVARIANT DigestSound
CHECK_DEADLOCK FALSE
