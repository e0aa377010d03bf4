\* Every description of up to four lines of seven kinds.
CONSTANTS
    Descriptions <- SomeDescriptions
    Titles <- SomeTitles
    Asked <- SomeAsked
    Triggers <- Words
    KnownSkills <- Table
    Stopwords = {6}
    Short = {7}
    KeywordLimit = 2
    MaxAttempts = 2
    None = None
SPECIFICATION Spec
INVARIANTS TypeOK StoredBySection SkillsMergedOnce KeywordsRanked
