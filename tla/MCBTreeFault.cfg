SPECIFICATION TreeSpec
CONSTANTS
    MaxKey = 9
    Keys = {1, 2, 3, 4, 5, 6, 7, 8, 9}
    Nodes = {1, 2, 3, 4, 5, 6, 7, 8, 9, 10, 11, 12}
    SizeParam = 2
    Watched = {1, 2, 3, 4, 5, 6}
    Frozen = {1, 3, 5, 6}
    i1 = i1
    Iterators = {i1}
INVARIANTS NoFault
