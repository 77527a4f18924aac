SPECIFICATION UpdateSpec
CONSTANTS
    Variable <- MCVariable
    Number <- MCNumber
    NewTriple <- MCTriple
    Update <- MCUpdate
    Query <- MCQuery
    Named = {"g"}
    Default = "default"
    Self = "self"
    MaxQuads = 4
    AllGraphs = "whole"
    TermIn <- Get
    Fill <- FillTemplate
    Solved <- EvalWhere
    QuadSolutions <- EvalQuadPatterns
    Joined <- JoinAll
    JoinedFrom <- JoinAllFrom
    FirstMatches <- MatchesOfFirst
    PatternMeaning <- Meaning
    WhereMeaning <- MeaningOfWhere
CHECK_DEADLOCK FALSE
INVARIANTS
    UpdatesAsDefined
    GraphsListed
    AnswersAsDefined
