CONSTANTS
    Clients = {c1, c2}
    Chats = {r1, r2}
    MaxTexts = 0
    Terse = {}
    None = None
SPECIFICATION Spec
INVARIANTS TaskInItsRoom
CHECK_DEADLOCK FALSE
