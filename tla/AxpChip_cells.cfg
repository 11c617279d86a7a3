CONSTANTS
    Chips = {"axp22x", "axp233", "axp803", "axp202", "axp152", "axp80x", "axp15060", "axp2585"}
    Programs = 2
SPECIFICATION Spec
INVARIANTS
    KeepsApart
    OnlyTheseLost
    AskedReadsBack
