SPECIFICATION FairCellsSpec
CONSTANTS
    Cells = {c1, c2}
    Users = {u1, u2}
    Placeholder = Placeholder
    None = None
    MaxBindings = 3
INVARIANTS CellsTypeOK PictureIsOwn
PROPERTY PictureSettles
CHECK_DEADLOCK FALSE
