SPECIFICATION FairSpec
CONSTANTS
    Lines <- MCLines
    LineMax <- LineLength
    FileMax = 2
    UintMax = 9999
    Digest <- MCDigest
    Hosts <- MCHosts
    Ports <- MCPorts
    Files <- MCFiles
    NoObject = nourl
    NoUrl = nourl
    Dnsers <- MCDnsers
    Schedulers <- MCSchedulers
    Downloaders <- MCDownloaders
    Extractors <- MCExtractors
    Urls <- MCUrls
    Keys <- MCKeys
    KeyOf <- MCKeyOf
    Seeds <- MCSeeds
    Shuffle <- MCShuffle
    MaxRetries = 2
INVARIANTS OneUser SameUrlSameThread KeysAreResources StartsAsAsked
PROPERTIES EverySeedEnds
CHECK_DEADLOCK FALSE
