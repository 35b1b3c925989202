SPECIFICATION Spec
CONSTANTS
    PushWaiter = {p1, p2}
    Pusher = {q1}
    Popper = {c1}
    WaitPopper = {w1, w2}
    Item = {a, b}
    MaxSize = 2
    None = None
INVARIANT NoLostWakeup
PROPERTIES IsFifo
SYMMETRY Symmetric
