\* Two days, three requests under way: page and buttons.
SPECIFICATION Spec
CONSTANTS
    d1 = d1
    d2 = d2
    q1 = q1
    q2 = q2
    q3 = q3
    None = None
    Day <- MCDay
    First = d1
    Slot <- MCSlot
INVARIANTS PageIsConsistent ButtonsComeBack
SYMMETRY MCSymmetry
