SPECIFICATION Spec
CONSTANTS
    top = top
    sub = sub
    other = other
    a = a
    b = b
    c = c
    s = s
    v = v
    w = w
    x = x
    y = y
    z = z
    Inodes <- MCInodes
    KindOf <- MCKinds
    Top = top
    Names = {v, w, x, y, z}
    Found <- MCFound
    Creatable <- MCCreatable
    Barred = {b}
    Excluded = {w}
    Extras <- MCExtras
    Limits <- MCLimits
    Used = 1
    MaxChanges = 3
INVARIANTS Held Complete
CHECK_DEADLOCK FALSE
