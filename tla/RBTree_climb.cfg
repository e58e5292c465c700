SPECIFICATION Spec
CONSTANTS
    Node = {1, 2, 3, 4, 5, 6, 7, 8, 9, 10, 11}
    Msecs = 32
    KeysOf <- DistinctKeys
INVARIANTS Linked Ordered Coloured
VIEW Reached
