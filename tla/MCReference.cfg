CONSTANTS
  Modes = {"generate", "chat"}
  Prompts <- MCPrompts
  Vocabulary = {2, 5, 200002}
  Configs <- MCConfigs
SPECIFICATION Spec
INVARIANTS
  HeadsAttendOwnWindow
  PromptsFedWhole
PROPERTIES
  ImplementsDecode
