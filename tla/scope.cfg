SPECIFICATION FillSpec
CONSTANTS
    m1 = m1  x1 = x1
    gcp = gcp  supabase = supabase
    p1 = p1  p2 = p2  q1 = q1
    Accounts <- MCAccounts
    Management = m1
    Unknown = Unknown
    AwsChecks = {"aws.s3", "aws.iam"}
    Providers <- MCProviders
    Units <- MCUnits
    ChecksOf <- MCChecksOf
    Mappings <- MCMappings
    Overrides <- MCOverrides
    Disabled = Disabled
    TopicOrder <- MCTopicOrder
    PhrasesOf <- MCPhrases
    TechnicalPhrases = {"configured"}
    Gaps = {{"remote", "mfa"}}
    NoId = NoId
    None = None
    PersistentChecks = {"aws.s3"}
    Sheets <- MCSheets
    MaxFills = 2
INVARIANTS
    SheetTypeOK
    NothingUnseenLooksClean
    AwsReportAccepted
    ClaimsObserved
    AnswersSupported
    CustomerCellsKept
