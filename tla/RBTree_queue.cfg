SPECIFICATION FairSpec
CONSTANTS
    Node = {1, 2, 3, 4, 5}
    Msecs = 8
    KeysOf <- TiedKeys
INVARIANTS RBTypeOK
PROPERTIES Terminates ImplementsQueue
