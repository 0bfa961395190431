SPECIFICATION FairSpec
CONSTANTS
    Request = {r1, r2, r3}
    None = None
    Services = {"arxiv", "pubmed", "openalex", "semantic_scholar", "crossref"}
    Horizon = 2
    Permits = 2
    MaxRetries = 1
    Delay = {1, 2}
CHECK_DEADLOCK FALSE
INVARIANTS
    TypeOK
    ArxivSpaced
    PubMedRate
PROPERTIES
    Ends
