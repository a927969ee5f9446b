CONSTANTS
    Hearings = {h1, h2, h3}
    Judgments = {j1}
    Nothing = Nothing
    Sessions = {s1, s2}
    MaxVersion = 2
SPECIFICATION Spec
SYMMETRY Interchangeable
INVARIANTS
    TypeOK
    OnlyContestedHearingsOutlive
    AdjournmentsChain
    JudgmentsRestOnHearings
