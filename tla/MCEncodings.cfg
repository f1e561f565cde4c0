CONSTANTS
    N = 3
    MaxAttacks = 3
SPECIFICATION Spec
INVARIANTS AdmissibleEncoding CompleteEncoding CompleteOneModelEach LabelledEncoding StableEncoding AttacksEncoding
CHECK_DEADLOCK FALSE
