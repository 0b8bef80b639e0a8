SPECIFICATION Spec
CONSTANTS
    Levels = 3
    Cascade = 1
    Order <- SmallOrder
    Irq <- SmallIrq
    Timed = {"disk", "serial"}
    Unasked = {"serial"}
    BitAfter = 1
    Triggers = {FALSE, TRUE}
    Masks = {{}, {0}}
    MaxDelay = 3
    MaxCommands = 1
    MaxNest = 2
INVARIANTS SkippingIsInvisible NoLostCascade NeverSpurious EoiEndsInnermost
