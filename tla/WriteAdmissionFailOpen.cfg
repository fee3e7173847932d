\* Bearer tokens over HTTP and MCP-HTTP when the revoke query of the
\* ChipStore may fail.
CONSTANTS
    Reqs = {r1, r2}
    Sessions = {}
    Tokens = {t1, t2}
    Users = {u1, u2}
    Dids = {d1, d2}
    t1 = t1  t2 = t2  u1 = u1  u2 = u2  d1 = d1  d2 = d2  s1 = s1
    r1 = r1  r2 = r2
    NotAToken = NotAToken
    AnonDid = AnonDid
    None = None
    AuthRequired = TRUE
    ApiKeysConfigured = TRUE
    PublicTypes = {"ubl/document"}
    OnboardingTypes = {"ubl/user"}
    StoreFaults = TRUE
    TokenWorld <- MCTokenWorld
    TokenScope <- MCTokenScope
    TokenUser <- MCTokenUser
    UserDid <- MCUserDid
    PublicWorlds <- MCPublicWorlds
    ChipTypes = {"app/order"}
    Versions = {"1.0", "2.0"}
    MetaPool = {}
    MetaWrites = {}
    RegistryQueries = {}
    KatForms = {}
    Inputs <- MCHttpInputs
SPECIFICATION Spec
INVARIANT AdmittedWritesAuthorized
\* Once both requests are answered and every token is revoked and expired
\* the gate waits for the next request.
CHECK_DEADLOCK FALSE
