SPECIFICATION Spec
CONSTANTS
    Users = {ann, bob}
    Requests = {q1, q2}
    Creator = ann
    PollKinds <- MCKinds
    BaseTexts = {"a", "b"}
    Texts = {"x"}
    MaxOptions = 4
    MaxVersion = 3
    Messages = {m1, m2}
    NoMessage = NoMessage
    Scenarios <- MCScenarios
    MaxTime = 1
    MaxArrived = 3
    Files = {f1, f2}
    NoFile = NoFile
    Carriers = {m1, m2, m3}
    Members = {ann}
    Nobody = Nobody
    Devices = {d1}
    NoDevice = NoDevice
    Rotating = {d1}
    MaxTokens = 2
    Stranger = eve
    Groups <- MCGroups
    MaxDirect = 3
SYMMETRY MCSymmetry
INVARIANTS
    PollsHold
    MarksHold
    FilesHold
    TokensHold
    DirectsHold
PROPERTIES
    RecalledIsLeftAlone
CHECK_DEADLOCK FALSE
