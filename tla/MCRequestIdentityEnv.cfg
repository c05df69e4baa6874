SPECIFICATION Spec
CONSTANTS
    i1 = i1
    listed = listed
    unlisted = unlisted
    human = human
    agent = agent
    g1 = g1
    other = other
    Requests = {r1}
    Issuers = {i1}
    Clients = {listed, unlisted}
    Principals = {human, agent, other}
    GrantIds = {g1}
    Tokens <- MCTokens
    Grants <- MCGrants
    Environments <- MCEnvironments
    HeaderIds = {human, other, Unset, Blank, Undecodable, Invalid}
    HeaderGrants = {g1, Unset, Invalid}
    Unset = Unset
    Blank = Blank
    Undecodable = Undecodable
    Invalid = Invalid
    None = None
CHECK_DEADLOCK FALSE
INVARIANT
    FirstNonEmptyWins
