SPECIFICATION Spec
CONSTANTS
    RrfK = 60
    Scale = 238266
    Unit = 1
    Corpus <- MCCorpus
    Within <- MCWithin
    Whole = 6
    MaxFurniture = 2
    CutOff = 1
    Casefold <- MCCasefold
    Lower <- MCLower
    RunTags = {"e"}
    RefusalPhrases <- MCRefusalPhrases
    Fusions <- MCFusions
    Selections <- MCSelections
    Retrievals <- MCRetrievals
    Overviews <- MCOverviews
    Files <- MCFiles
    Pages <- MCPages
    Items <- MCItems
    Batched <- MCBatched
    Manifests <- MCManifests
    Cases <- MCCases
    Generations <- MCGenerations
    Questions <- MCQuestions
    Documents <- MCDocuments
    Sections <- MCSections
    Strings <- MCStrings
    Evaluations <- MCEvaluations
    Verdicts <- MCVerdicts
INVARIANTS
    EvidenceFollowsRanks BestReachesEvidence MarkersLeadToEvidence
    PlanKeepsTheQuestion ExtractionKeepsText ChunksKeepText HierarchyValidates
    RunRecordIsHonest VerdictIsEarned
CHECK_DEADLOCK FALSE
