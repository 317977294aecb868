SPECIFICATION Spec
CONSTANTS
    MaxColumns = 2
    Word32 = 16
    Exact = 8
    CellNumbers <- SomeNumbers
    CellTexts <- SomeTexts
    Spelling <- DigitOf
    NumberOf <- NumberRead
    EmptyText <- MinusOne
    NullText <- NullCode
    UndefinedText <- UndefinedCode
    ColumnNames <- SomeColumns
    Names <- TwoNames
    Sessions <- OnlyDisputed
    MaxTxOps = 2
PROPERTY CommentsHold
