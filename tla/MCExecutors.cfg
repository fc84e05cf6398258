SPECIFICATION MCExecutorsSpec
CONSTANTS
    Agent = {"gemini", "groq"}
    MaxCommands = 3
    MaxCalls = 13
    Window = 12
    MaxRun = 3
    Platform = {"railway", "firebase", "pages"}
CHECK_DEADLOCK FALSE
INVARIANTS
    AgentInv
    RequestsAreConversations
    AnswersAreSeen
    FilesAreRemoved
    SuccessIsServedHere
    RailwayProjectsAreReused
PROPERTIES
    DeploymentsEnd
