\* A multiplier and an exclusive or, with the default options.
SPECIFICATION Spec
CONSTANTS
    Width = 2
    Data = {d1, d2}
    Control = {c1}
    OptionChoices = {{}}
    Logics = {"cellift_mul", "cellift_xor"}
    Flops = {"$dff"}
    AllUses = FALSE
INVARIANT MulIsOrReduction
