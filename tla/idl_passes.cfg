SPECIFICATION Spec
CONSTANTS
  Names <- MCNames
  Given = {"k", "k_"}
  Modifying <- MCModifying
  Replacing <- MCReplacing
  Owners = {{"global", "getter"}, {"global", "setter"}, {"field", "fgetter", "fsetter"},
            {"function", "method"}, {"constructor"}, {"releaser"}}
INVARIANTS
  NoKeywordLeft
  
PROPERTY Idempotent
