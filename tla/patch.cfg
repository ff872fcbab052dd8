SPECIFICATION Spec
CONSTANTS
    a = a
    b = b
    c = c
    r = r
    Div = Div
    Span = Span
    Descriptions <- ListDescriptions
    Text = Text
    NoKey = NoKey
    NoRef = NoRef
    NoElm = NoElm
    MaxChildren = 3
    MaxLeaving = 1
INVARIANTS
    ShowsRender
    KeyedReused
    RefsNameElements
PROPERTIES
    FirstPassKeepsOrder
