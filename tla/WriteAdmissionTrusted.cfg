\* The two callers of submit_chip_bytes with trusted_write = true: ubl.deliver
\* over a WebSocket session whose token was valid at upgrade, and the KAT
\* test form replaying a registered KAT; ChipStore queries succeed.  The
\* store starts without meta chips: a token of world a/demo registers
\* app/order with a KAT into a/private, and the KAT test form replays it.
\* (MetaWrites = {} and Inputs <- MCWsInputs give the WebSocket
\* counterexample instead.)
CONSTANTS
    Reqs = {r1, r2}
    Sessions = {s1}
    Tokens = {t1, t2}
    Users = {u1, u2}
    Dids = {d1, d2}
    t1 = t1  t2 = t2  u1 = u1  u2 = u2  d1 = d1  d2 = d2  s1 = s1
    r1 = r1  r2 = r2
    NotAToken = NotAToken
    AnonDid = AnonDid
    None = None
    AuthRequired = TRUE
    ApiKeysConfigured = TRUE
    PublicTypes = {"ubl/document"}
    OnboardingTypes = {"ubl/user"}
    StoreFaults = FALSE
    TokenWorld <- MCTokenWorld
    TokenScope <- MCTokenScope
    TokenUser <- MCTokenUser
    UserDid <- MCUserDid
    PublicWorlds <- MCPublicWorlds
    ChipTypes = {"app/order"}
    Versions = {"1.0", "2.0"}
    MetaPool = {}
    MetaWrites <- MCMetaWrites
    RegistryQueries = {}
    KatForms <- MCKatForms
    Inputs <- MCPlantInputs
SPECIFICATION Spec
INVARIANT AdmittedWritesAuthorized
\* Once the request is answered and every token is revoked and expired the
\* gate waits for the next request.
CHECK_DEADLOCK FALSE
