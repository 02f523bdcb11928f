SPECIFICATION AlgorithmsSpec
CONSTANTS
    N = 4
    MAX_LIMIT = 2
    DEFAULT_LIMIT = 2
    CANDIDATE_CEILING = 3
    MaxPages = 5
INVARIANT DefinitionsSound
INVARIANT AnswersExact
