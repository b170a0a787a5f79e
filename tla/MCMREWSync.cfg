SPECIFICATION FairMREWSpec
CONSTANTS
    a = a  b = b  c = c
    Thread = {a, b, c}
    None = None
    MaxDepth = 2
INVARIANTS MREWTypeOK UpgradeHonest
PROPERTIES Refines Served
