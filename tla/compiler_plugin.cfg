SPECIFICATION PluginSpec
CONSTANTS
  Sources = {"a", "b"}
  Paths <- MCPaths
  Options <- MCOptions
  MaxCopies = 2
INVARIANTS
  SilenceIsSuccess
  WritesWhereAsked
  OptionsArrive
\* A panic that leaves the plugin ends the process.
CHECK_DEADLOCK FALSE
