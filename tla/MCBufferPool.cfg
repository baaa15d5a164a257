SPECIFICATION PagingSpec
CONSTANTS
    Units = {u1, u2, u3, u4, u5}
    Slots = 3
    Length = 7
SYMMETRY UnitSymmetry
INVARIANTS
    KeysAreFresh
    BeladyIsOptimal
    SameMisses
