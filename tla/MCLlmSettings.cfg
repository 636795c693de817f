\* Two requests at a time, two bodies of PATCH.
SPECIFICATION FairSpec
CONSTANTS
    small = small
    large = large
    custom = custom
    None = None
    Clients = {c1, c2}
    Models = {small, large}
    Lists = {custom}
    Bodies <- Asked
    ConfigProvider = "remote"
    ConfigModel = small
    RemoteModel = gpt
INVARIANT AnswerIsRecent
PROPERTY ShownModelIsUsed
