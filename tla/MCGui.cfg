CONSTANTS
    MAX_WINDOWS = 3
    MAX_DIRTY_RECTS = 1
    Programs = {"Terminal"}
    Dialogs = {}
    MaxOpened = 3
SPECIFICATION GuiSpec
INVARIANTS
    WindowsAgree
PROPERTIES
    DragInside
    ChangesDrawn
