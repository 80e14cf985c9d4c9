CONSTANTS
  Devices = {a, b}
  Bases <- MCBases
  Hosts = {"h1", "h2"}
  Segments = {"v1", "messages"}
  Models = {"m1", "m2", "c2", "s1"}
  VersionedHosts = {"h1"}
  AnthropicHosts = {"h2"}
  KeyInputs <- MCKeyInputs
  SavedBefore <- MCSavedBefore
  Service <- MCService
  PreferredModels <- MCPreferred
  SonnetModels = {"s1"}
  EnvDefault = TRUE
  EnvBase <- MCEnvBase
  MaxOffered = 2
  MaxEdits = 2
  MaxCalls = 3
SYMMETRY Symmetry
SPECIFICATION Spec
INVARIANT KeyStaysWithItsHost
INVARIANT StoredSettingWorks
CHECK_DEADLOCK FALSE
