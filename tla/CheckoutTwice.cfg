SPECIFICATION Spec
CONSTANTS
    c1 = c1
    c2 = c2
    t1 = t1
    t2 = t2
    t3 = t3
    l1 = l1
    l2 = l2
    l3 = l3
    l4 = l4
    w1 = w1
    w2 = w2
    NoTill = NoTill
    Cats = {c1, c2}
    Lines = {l1, l2, l3, l4}
    LineCat <- mcLineCat
    LineQty <- mcLineQty
    InitStock <- mcStock
    Tills = {t1, t2, t3}
    Cart <- mcCartTwice
    Writeoffs = {}
    WoCat <- mcNoWo
    WoQty <- mcNoWo
    Modes = {"strict"}
    EngineMayFail = FALSE
CHECK_DEADLOCK FALSE
INVARIANT
    NegativeOnlyByPermit
