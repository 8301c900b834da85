SPECIFICATION CrawlSpec
CONSTANTS
    home = home
    homeHash = homeHash
    left = left
    right = right
    away = away
    mail = mail
    site = site
    other = other
    None = None
    Urls = {home, left, right, away}
    Hrefs = {home, homeHash, left, right, away, mail}
    Normal <- MCNormal
    Origin <- MCOrigin
    LinksOn <- MCLinksOn
    Seeds <- MCSeeds
    OtherHosts = {other}
    PerPage = 2
    MostLate = 1
    MostPages = 4
    MostRequests = 6
    MostSeconds = 2
INVARIANTS
    BudgetHolds
    CompleteMeansClosed
CHECK_DEADLOCK FALSE
