SPECIFICATION Spec
CONSTANTS
    StackLimit = 3
    MaxInt = 15
    MaxExponent = 5
    Texts <- MCTexts
    Plain = {"a"}
    Spellings <- MCSpellings
    MaxGaps = 1
    MaxLexemes = 9
INVARIANTS
    TypeOK
    ReadsTheLanguage
    ErrorsTellWhy
    NumbersReadRight
