SPECIFICATION SceneSpec
CONSTANTS
    Scenes = {"patches", "signup", "editor", "lookups"}
    None = None
CHECK_DEADLOCK FALSE
PROPERTIES CommandsEnd SubmitsSettle EditsSettle EveryLookupAnswered
