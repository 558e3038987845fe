SPECIFICATION TextSpec
CONSTANTS
    FactorScale = 9
    MaxInt64 = 60
    FactorExtra = 7
    MaxBytes = 40
    Base = 3
    Places = 2
    MaxWhole = 64
    NotDigits = NotDigits
    NoDot = NoDot
INVARIANTS
    TypeOK
    ExactFactor
    TextIsExact
