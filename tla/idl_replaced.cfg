SPECIFICATION Spec
CONSTANTS
  Names <- MCNames
  Given = {"k", "k_"}
  Modifying <- NoWords
  Replacing <- MCReplacing
  Owners = {{"global", "getter", "setter"}}
INVARIANT KeywordsReplaced
