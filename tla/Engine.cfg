\* The receivers: two contents, two start() calls, one pollWhileWaiting() at a
\* time, three start() calls and server changes together.
SPECIFICATION AllSpec
CONSTANTS
    policyKey = policyKey
    pricingKey = pricingKey
    None = None
    PolicyKeys <- MCPolicyKeys
    PricingKeys <- MCPricingKeys
    Versions <- MCVersions
    Times <- MCTimes
    MaxAge = 1
    FutureSkew = 1
    MaxCalls = 2
    SignedEnvelopes <- MCSignedEnvelopes
    TrustLists <- MCTrustLists
    Clocks <- MCClocks
    Expected = "policy"
    MaxSignatures = 2
    KeyIds <- MCKeyIds
    PublicKeys <- MCPublicKeys
    NoHint = NoHint
    Malformed = Malformed
    Contents <- MCContents
    Loaders <- MCLoaders
    MaxStarts = 2
    MaxPolls = 1
    MaxMoves = 3
INVARIANTS
    AllTypeOK
    EnvelopesJudged
PROPERTIES
    BundlesMarked
    DefencesHold
    ReceiversObey
\* A stopped receiver is at rest.
CHECK_DEADLOCK FALSE
