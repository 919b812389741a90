SPECIFICATION Spec
CONSTANTS
    TailBytes = {0, 128, 255}
    MaxLength = 3
    Bursts = {1, 255, 256, 384, 32897, 40961, 65535}
CHECK_DEADLOCK FALSE
INVARIANTS TableImplementsPolynomial DetectsBursts
