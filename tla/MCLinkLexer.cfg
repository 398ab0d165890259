SPECIFICATION FairLexerSpec
CONSTANTS
    Links <- Forms
    Addresses <- MCAddresses
    MaxTokens = 6
    MaxPages = 2
INVARIANTS ConditionsLeadBack LinksAreRight
PROPERTIES PagesEnd
CHECK_DEADLOCK FALSE
