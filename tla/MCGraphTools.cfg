SPECIFICATION Spec
CONSTANTS
  BNode = {"b1", "b2", "b3", "b4", "b5"}
  Falsy = {"zero"}
  Cell = {"b2", "b3"}
  Member <- MemberNames
  Digest <- RankOf
  Rank <- RankOf
  Anon <- NewNodes
  Orders <- OrdersOf
  Literal = {"l", "string"}
  AsString <- StringOf
  TextUri <- UriOf
  Numeric = {"integer", "decimal", "double"}
  NameOrder <- NameOrderUsed
  Lower <- LowerUsed
  Term <- TermsUsed
  SomeTokens <- TokensUsed
  SomeTypes <- TypesUsed
  SomeString <- StringsUsed
  DayLength = 2
  SomeMoment <- MomentsUsed
  SomeText <- DurationsUsed
  MaxDepth = 3
  Jobs <- AllJobs
  List = "b1"
  Bag = "b1"
  Handle = {"h1", "h2"}
  Item = {"x", "zero"}
  MaxItems = 3
  BatchSize = 2
  Paths <- PathsUsed
  Ends = {"b1", "b2", "u", "w"}
INVARIANTS
  PathsAsDefined
  CanonicalForms
  ReadsBack
  DatasetsReadBack
  TermsOrdered
  LiteralsAsDefined
  BatchKeepsAll
PROPERTY
  SequencesAsPython
CHECK_DEADLOCK FALSE
