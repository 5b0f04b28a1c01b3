CONSTANTS
    a = a
    b = b
    c = c
    Unset = Unset
    Capacity = 4
    Item <- ThreeItems
SPECIFICATION RSpec
INVARIANT RingOK
PROPERTY ImplementsWindow
