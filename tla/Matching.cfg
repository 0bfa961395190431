\* Scoring, selection and merge of the answers of three services, arXiv
\* with them where the citation has an arXiv id.
CONSTANTS
    None = None
    Likeness <- LikenessDef
    ShortTitle = {"tatme"}
    BareName <- BareNameDef
    Abbreviated <- AbbreviatedDef
    Words = {"polack", "fernando", "thomas", "de", "lacy", "antonio", "initials"}
    Citation <- CitationDef
    Record <- RecordDef
    Rows = 2
    Configured = {"crossref", "openalex", "semantic_scholar", "arxiv"}
SPECIFICATION Spec
INVARIANTS
    TypeOK
    HighIsEarned
    Reconciled
    OwnAuthorHelps
    EchoKeepsSurnames
    IdentifierIsCertain
\* A call ends with its answer.
CHECK_DEADLOCK FALSE
