SPECIFICATION Spec
CONSTANTS
    StackLimit = 3
    MaxInt = 15
    MaxExponent = 5
    Texts <- MCTexts
    Plain = {"a"}
    Spellings = {}
    MaxGaps = 0
    MaxLexemes = 5
INVARIANT StringsDecode
