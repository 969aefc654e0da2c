SPECIFICATION Spec
CONSTANTS
    p1 = p1
    p2 = p2
    p3 = p3
    A = A
    B = B
    h1 = h1
    h2 = h2
    n1 = n1
    n2 = n2
    Process = {p1, p2, p3}
    Local = {A, B}
    Host = {h1, h2}
    Name = {n1, n2}
    LocalOf <- MCLocalOf
    Args <- MCArgs
    MaxId = 2
    Digits <- MCDigits
    Nobody = nobody
    Nowhere = nowhere
INVARIANTS
    TypeOK
    EntriesOwned
PROPERTIES
    ImplementsAllocation
