SPECIFICATION Spec
CONSTANTS
  Managers = {m1}
  Uri <- Uris
  Namespace <- Bindable
  Prefix <- Prefixes
  Letter = {"a", "b", "c"}
  Digit = {"1"}
  Inner = {"-"}
  Char = {"a", "b", "c", "1", "-", "_", "/"}
INVARIANTS
  TablesInverse
  TrieIsNested
PROPERTIES
  QNamesExpand
  BindKeepsOthers
