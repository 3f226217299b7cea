CONSTANTS
    c1 = c1
    c2 = c2
    Client = {c1, c2}
    Main = Main
    FileLists <- Files
    CmdConfig <- Cmd
    Request <- Requests
    Event <- Events
    MaxTags = 1
SPECIFICATION ReloadSpec
INVARIANT LevelInForce
INVARIANT TagsAsAsked
INVARIANT ScriptsFresh
INVARIANT ConfigByPrecedence
PROPERTY Durable
CHECK_DEADLOCK FALSE
