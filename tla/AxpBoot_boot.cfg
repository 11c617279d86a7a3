CONSTANTS
    Boards <- AllBoards
SPECIFICATION Spec
INVARIANTS CellsFindTheirChip EachServed PowerOffByMaster
