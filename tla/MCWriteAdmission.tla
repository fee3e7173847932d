-------------------------- MODULE MCWriteAdmission --------------------------
(* Model of WriteAdmission for TLC: two tokens, two users, two worlds.      *)
EXTENDS WriteAdmission, TLC

CONSTANTS t1, t2, u1, u2, d1, d2, s1

\* a/demo/t/dev is a default public world; a/private/t/main is not.
Demo == <<"a", "demo", "t", "dev">>
Priv == <<"a", "private", "t", "main">>

\* t1: world a/demo, scope mcp:write, user u1 with a DID.
\* t2: world "*", scope read, user u2 without a DID.
MCTokenWorld == (t1 :> <<"a", "demo">>) @@ (t2 :> Wildcard)
MCTokenScope == (t1 :> {"mcp:write"}) @@ (t2 :> {"read"})
MCTokenUser == (t1 :> u1) @@ (t2 :> u2)
MCUserDid == (u1 :> d1) @@ (u2 :> None)
MCPublicWorlds == {Demo}

\* A request whose Authorization header, if any, is "Bearer b".
Req(v, b, k, w, ty, ok, s) ==
    [via |-> v, authz |-> IF b = None THEN None ELSE [scheme |-> "bearer", cred |-> b],
     apiKey |-> k, world |-> w, type |-> ty,
     did |-> d2, knockOk |-> ok, session |-> s, meta |-> None]

\* HTTP and MCP-HTTP writes with a Bearer, to either world; writes without
\* a Bearer, with or without an API key, public type or not; a chip knock
\* rejects; the API key sent as "Authorization: Bearer k1" and as
\* "Authorization: ApiKey k1" to the private world.  Every body claims the
\* DID d2.
MCHttpInputs ==
    {Req(v, b, FALSE, w, "app/order", TRUE, None) :
        v \in {"http", "mcp_http"}, b \in {t1, t2, NotAToken}, w \in {Demo, Priv}}
    \cup {Req("http", None, k, Demo, ty, TRUE, None) :
            k \in BOOLEAN, ty \in {"ubl/document", "app/order"}}
    \cup {Req("http", None, FALSE, Demo, "app/order", FALSE, None)}
    \cup {[Req("http", None, FALSE, Priv, "app/order", TRUE, None)
             EXCEPT !.authz = [scheme |-> sc, cred |-> "k1"]] : sc \in {"bearer", "apikey"}}

\* ubl.deliver frames on the WebSocket session s1.
MCWsInputs ==
    {Req("ws", None, FALSE, w, "app/order", ok, s1) : w \in {Demo, Priv}, ok \in BOOLEAN}

\* The KAT input of app/order v1.0: a chip into the private world, which
\* no request without a token or an API key may write.
KatIn == Req("kat", None, FALSE, Priv, "app/order", TRUE, None)

\* A register of v1.0 carrying KatIn, a describe (whose type_version field
\* parse_describe ignores) with one KAT that has no input, and a later
\* register of v2.0 without KATs, and a deprecate of the type.
MCMetaPool ==
    { [kind |-> "register", at |-> 1, target |-> "app/order", ver |-> "1.0", kats |-> <<KatIn>>],
      [kind |-> "describe", at |-> 2, target |-> "app/order", ver |-> "1.0", kats |-> <<None>>],
      [kind |-> "register", at |-> 3, target |-> "app/order", ver |-> "2.0", kats |-> <<>>],
      [kind |-> "deprecate", at |-> 4, target |-> "app/order", ver |-> "1.0", kats |-> <<>>] }

\* A ubl/meta.register of app/order v1.0 whose KAT is KatIn.
PlantedRegister == [kind |-> "register", target |-> "app/order", ver |-> "1.0", kats |-> <<KatIn>>]

MCMetaWrites == {PlantedRegister}

\* t1, whose world is a/demo, writes that register into a/demo/t/dev over
\* HTTP: the KAT it carries targets a/private.
MCPlantInputs ==
    {[Req("http", t1, FALSE, Demo, "ubl/meta.register", TRUE, None) EXCEPT !.meta = PlantedRegister]}

MCAllInputs == MCHttpInputs \cup MCWsInputs \cup MCPlantInputs

\* Every registry read, for the registered type.
MCRegistryQueries ==
    {[ep |-> "types"], [ep |-> "table"], [ep |-> "detail", type |-> "app/order"],
     [ep |-> "page", type |-> "app/order"]}
    \cup {[ep |-> "version", type |-> "app/order", ver |-> v] : v \in {"1.0", "2.0"}}

\* The KAT forms: either version, the first or the second KAT.
MCKatForms == [type : {"app/order"}, ver : {"1.0", "2.0"}, idx : {0, 1}]
=============================================================================
