\* Bearer tokens, API keys and the public lane over HTTP and MCP-HTTP, with
\* revocation and expiry racing two requests; ChipStore queries succeed.
CONSTANTS
    Reqs = {r1, r2}
    Sessions = {}
    Tokens = {t1, t2}
    Users = {u1, u2}
    Dids = {d1, d2}
    t1 = t1  t2 = t2  u1 = u1  u2 = u2  d1 = d1  d2 = d2  s1 = s1
    r1 = r1  r2 = r2
    NotAToken = NotAToken
    AnonDid = AnonDid
    None = None
    AuthRequired = TRUE
    ApiKeysConfigured = TRUE
    PublicTypes = {"ubl/document"}
    OnboardingTypes = {"ubl/user"}
    StoreFaults = FALSE
    TokenWorld <- MCTokenWorld
    TokenScope <- MCTokenScope
    TokenUser <- MCTokenUser
    UserDid <- MCUserDid
    PublicWorlds <- MCPublicWorlds
    ChipTypes = {"app/order"}
    Versions = {"1.0", "2.0"}
    MetaPool = {}
    MetaWrites = {}
    RegistryQueries = {}
    KatForms = {}
    Inputs <- MCHttpInputs
SPECIFICATION Spec
INVARIANT AdmittedWritesAuthorized
\* Once both requests are answered and every token is revoked and expired
\* the gate waits for the next request.
CHECK_DEADLOCK FALSE
