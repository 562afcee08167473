\* A claim without citations beside one that has them.
SPECIFICATION Spec
CONSTANTS
    c1 = c1  c2 = c2  src1 = src1  src2 = src2
    q1 = q1  q2 = q2  q3 = q3  s1 = s1  s2 = s2
    Chunks = {c1, c2}
    Sources = {src1, src2}
    SourceOf <- MCSourceOf
    Quotes = {q1, q2, q3}
    EmptyQuote = EmptyQuote
    Occurs <- MCOccurs
    Sentences <- MCSentences
    Score <- MCScore
    MaxScore = 2
    Statements = {s1, s2}
    NoText = NoText
    DefinitionText <- MCDefinitionText
    Refusal = Refusal
    Features <- MCFeatures
    Generable <- MCGenerable
    None = None
INVARIANTS
    AnswerTiedBack
