CONSTANTS
  None = None
  Commands <- MCCommands
  Addrs = {0, 1, 2}
  Words = 2
  ReplyWords = 4
  MaxCmds = 3
  Env = {}
SPECIFICATION AppSpec
INVARIANTS CommandsObeyed
PROPERTIES CommandsAnswered ModeApplied
