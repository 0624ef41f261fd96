SPECIFICATION Spec
CONSTANTS
    Fields <- MCFields
    NotOnEdit <- MCPassword
    Unread <- MCPassword
    Values = {typed}
    Blank = Blank
    Ids = {u1}
    None = None
PROPERTIES
    EditIsSaved
