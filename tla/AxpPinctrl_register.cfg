CONSTANT
    Chips = {"axp22x", "axp803", "axp202", "axp152", "axp80x", "axp15060"}
SPECIFICATION Spec
INVARIANT FunctionsFit
