\* Pages 2 and 3 are variants of one path, page 4 is an asset; one HTML page is beyond max_urls.
SPECIFICATION FairSpec
CONSTANTS
    Pages = {0, 1, 2, 3, 4}
    Assets = {4}
    Variants = {2, 3}
    Alternates = {3}
    MaxVariants = 1
    MaxUrls = 3
    RootLinks = 2
    MaxLinks = 1
    Sites <- Structures
    Registries <- BlankOrChain
    Sitemaps = {{}, {3}}
    MaxStops = 1
INVARIANTS TypeOK CompleteCoversSite FirstCrawlDepth
PROPERTIES FetchedOnce CrawlEnds
CHECK_DEADLOCK FALSE
