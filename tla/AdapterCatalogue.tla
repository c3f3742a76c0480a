-------------------------- MODULE AdapterCatalogue --------------------------
(***************************************************************************)
(* The ten products the gateway runs in containers, as far as their        *)
(* adapters decide something: which secrets a product must keep, how the   *)
(* variables of its container are put together, and how its answer to a    *)
(* request for models is read.                                             *)
(*                                                                         *)
(* A text is a record: Blank, the Mask the pages show for a secret, or a   *)
(* text of some kind, by the tab that typed it or the start that drew it.  *)
(* "short" texts have less than 32 characters, "long" and "made" ones have *)
(* at least that.  A stored variable is [text, enc, secret], and the       *)
(* variables of a router are a function from names to stored variables.    *)
(* The column is a list: of two entries with one name the later one wins   *)
(* when a container is made or a page saves, and the first when a page     *)
(* asks for one secret, so a list with a name twice is left out.           *)
(*                                                                         *)
(* Provider credentials are not an input of the Env operators: loadCreds   *)
(* returns either an error or no credential at all (RouterEnv, Make), so   *)
(* the code that injects them never has one to inject.                     *)
(***************************************************************************)
EXTENDS Naturals, FiniteSets, Sequences

Product == {"omniroute", "9router", "litellm", "freellmapi", "new-api",
            "portkey", "bifrost", "coai", "llmgateway", "openconnector"}

-----------------------------------------------------------------------------
(* Texts *)

Blank         == [kind |-> "blank", by |-> "nobody", n |-> 0]
Mask          == [kind |-> "mask", by |-> "nobody", n |-> 0]
Default       == [kind |-> "short", by |-> "adapter", n |-> 0]
Typed(size, t) == [kind |-> size, by |-> t, n |-> 0]
Drawn(o, n)   == [kind |-> "made", by |-> o, n |-> n]

IsLong(text) == text.kind \in {"long", "made"}

\* f where it is defined, g elsewhere
Over(f, g) == [x \in DOMAIN f \union DOMAIN g |->
                 IF x \in DOMAIN f THEN f[x] ELSE g[x]]

-----------------------------------------------------------------------------
(* EnsurePermanentSecrets.  A requirement is met by one variable of that   *)
(* is stored with enough text; when it is not, the names of draws are      *)
(* added, those with the same number holding the same random text.         *)

Requirement(of, long, draws) == [of |-> of, long |-> long, draws |-> draws]

OmniRouteSecrets   == {}
NineRouterSecrets  == {}
LiteLLMSecrets     == {Requirement({"LITELLM_MASTER_KEY"}, FALSE, [LITELLM_MASTER_KEY |-> 1]),
                       Requirement({"LITELLM_SALT_KEY"}, FALSE, [LITELLM_SALT_KEY |-> 2])}
FreeLLMAPISecrets  == {Requirement({"ENCRYPTION_KEY"}, TRUE, [ENCRYPTION_KEY |-> 1])}
NewApiSecrets      == {Requirement({"SESSION_SECRET"}, FALSE, [SESSION_SECRET |-> 1])}
PortkeySecrets     == {Requirement({"PORTKEY_GATEWAY_SECRET"}, FALSE, [PORTKEY_GATEWAY_SECRET |-> 1])}
BifrostSecrets     == {Requirement({"BIFROST_ADMIN_KEY", "BIFROST_SECRET_KEY"}, FALSE,
                                   [BIFROST_ADMIN_KEY |-> 1, BIFROST_SECRET_KEY |-> 1])}
CoAISecrets        == {Requirement({"SECRET", "COAI_ADMIN_KEY", "JWT_SECRET", "SECRET_KEY"}, TRUE,
                                   [SECRET |-> 1, COAI_ADMIN_KEY |-> 1, JWT_SECRET |-> 1])}
LLMGatewaySecrets  == {Requirement({"AUTH_SECRET", "GATEWAY_API_KEY_HASH_SECRET", "JWT_SECRET"}, TRUE,
                                   [AUTH_SECRET |-> 1, GATEWAY_API_KEY_HASH_SECRET |-> 2, JWT_SECRET |-> 1])}
OpenConnectorSecrets == {Requirement({"AUTH_SECRET", "JWT_SECRET", "ENCRYPTION_KEY"}, TRUE,
                                     [AUTH_SECRET |-> 1, JWT_SECRET |-> 1, ENCRYPTION_KEY |-> 2])}

Requirements(p) ==
    CASE p = "omniroute"     -> OmniRouteSecrets
      [] p = "9router"       -> NineRouterSecrets
      [] p = "litellm"       -> LiteLLMSecrets
      [] p = "freellmapi"    -> FreeLLMAPISecrets
      [] p = "new-api"       -> NewApiSecrets
      [] p = "portkey"       -> PortkeySecrets
      [] p = "bifrost"       -> BifrostSecrets
      [] p = "coai"          -> CoAISecrets
      [] p = "llmgateway"    -> LLMGatewaySecrets
      [] p = "openconnector" -> OpenConnectorSecrets

\* The code measures what is stored: "enc:" and a ciphertext is never short,
\* whatever it hides.
Met(req, env) == \E k \in req.of \intersect DOMAIN env :
                     \/ env[k].enc
                     \/ IF req.long THEN IsLong(env[k].text) ELSE env[k].text # Blank

Lacking(p, env) == {req \in Requirements(p) : ~Met(req, env)}

\* (mutant) Every secret is drawn as soon as one is missing.
EnsuredAll(p, env, o) ==
    IF Lacking(p, env) = {} THEN env
    ELSE Over([k \in UNION {DOMAIN req.draws : req \in Requirements(p)} |->
                 [text |-> Drawn(o, (CHOOSE req \in Requirements(p) : k \in DOMAIN req.draws).draws[k]),
                  enc |-> TRUE, secret |-> TRUE]],
              env)

Ensured(p, env, o) ==
    LET missing == Lacking(p, env)
        number(k) == (CHOOSE req \in missing : k \in DOMAIN req.draws).draws[k]
    IN  Over([k \in UNION {DOMAIN req.draws : req \in missing} |->
                [text |-> Drawn(o, number(k)), enc |-> TRUE, secret |-> TRUE]],
             env)

-----------------------------------------------------------------------------
(* Env.  own holds the router's variables, decrypted, and config those of  *)
(* the older map in its configuration; PORT stands for the defaults of a   *)
(* product that are the same at every start, and random is the text an     *)
(* adapter draws at this start.                                            *)

Defaults(names, random) == Over([k \in names |-> random], [PORT |-> Default])

Layers(config, own, defaults) == Over(own, Over(config, defaults))

OmniRouteEnv(config, own, random)  == Layers(config, own, Defaults({}, random))
NineRouterEnv(config, own, random) == Layers(config, own, Defaults({}, random))
LiteLLMEnv(config, own, random)    ==
    Over(Layers(config, own, Defaults({}, random)), [DATABASE_URL |-> Default])
NewApiEnv(config, own, random)     == Layers(config, own, Defaults({}, random))
PortkeyEnv(config, own, random)    == Layers(config, own, Defaults({}, random))
BifrostEnv(config, own, random)    == Layers(config, own, Defaults({}, random))
FreeLLMAPIEnv(config, own, random) ==
    LET env == Layers(config, own, Defaults({}, random))
    IN  IF "ENCRYPTION_KEY" \in DOMAIN env /\ IsLong(env["ENCRYPTION_KEY"])
        THEN env
        ELSE Over([ENCRYPTION_KEY |-> random], env)
CoAIEnv(config, own, random)       ==
    Layers(config, own, Defaults({"SECRET", "JWT_SECRET", "COAI_ADMIN_KEY"}, random))
LLMGatewayEnv(config, own, random) ==
    Layers(config, own,
           Defaults({"AUTH_SECRET", "GATEWAY_API_KEY_HASH_SECRET", "JWT_SECRET"}, random))
OpenConnectorEnv(config, own, random) ==
    Layers(config, own,
           Over([DATABASE_URL |-> Default],
                Defaults({"AUTH_SECRET", "JWT_SECRET", "ENCRYPTION_KEY"}, random)))

Env(p, config, own, random) ==
    CASE p = "omniroute"     -> OmniRouteEnv(config, own, random)
      [] p = "9router"       -> NineRouterEnv(config, own, random)
      [] p = "litellm"       -> LiteLLMEnv(config, own, random)
      [] p = "freellmapi"    -> FreeLLMAPIEnv(config, own, random)
      [] p = "new-api"       -> NewApiEnv(config, own, random)
      [] p = "portkey"       -> PortkeyEnv(config, own, random)
      [] p = "bifrost"       -> BifrostEnv(config, own, random)
      [] p = "coai"          -> CoAIEnv(config, own, random)
      [] p = "llmgateway"    -> LLMGatewayEnv(config, own, random)
      [] p = "openconnector" -> OpenConnectorEnv(config, own, random)

-----------------------------------------------------------------------------
(* ParseModels.  An identifier is [vendor, family, rest]: "vendor/rest",   *)
(* the vendor being "" when the slash comes first, or a name without a     *)
(* slash whose beginning tells the family.  A body is [form, entries], the *)
(* form an "object" with a data list, a bare "list" or "other" for what    *)
(* does not decode, and entries a list of [id, name, owner, provider], ""  *)
(* for what one does not say.  The result is a list of pairs of an         *)
(* identifier and a provider, empty for an error, in the product's order   *)
(* and with a model as often as the product names it.                      *)

\* No vendor is called like this: a vendor is what stands before a slash.
NoVendor == "/"

Id(vendor, family, rest) == [vendor |-> vendor, family |-> family, rest |-> rest]
NoId == Id(NoVendor, "", "")

First(a, b) == IF a # "" THEN a ELSE b

NamedId(e) == IF e.id # NoId THEN e.id ELSE e.name

\* The owner an entry names, or else the vendor of its identifier, which may be
\* empty, or else the product
Named(e, product) ==
    First(e.owner, IF e.id.vendor # NoVendor THEN e.id.vendor ELSE product)

\* The owner an entry of a bare list names, or else its provider
ListedBy(e, product) == First(e.owner, First(e.provider, product))

\* What most adapters do
ParseCommon(body, product) ==
    LET e == body.entries
    IN  CASE body.form = "object" -> [n \in DOMAIN e |-> <<e[n].id, Named(e[n], product)>>]
          [] body.form = "list"   -> [n \in DOMAIN e |-> <<e[n].id, ListedBy(e[n], product)>>]
          [] OTHER                -> <<>>

\* (mutant) An entry without an owner is stored without a provider.
ParseObjectBare(body, product) ==
    LET e == body.entries
    IN  IF body.form = "object" THEN [n \in DOMAIN e |-> <<e[n].id, e[n].owner>>] ELSE <<>>

ParseObject(body, product) ==
    LET e == body.entries
    IN  IF body.form = "object"
        THEN [n \in DOMAIN e |-> <<e[n].id, First(e[n].owner, product)>>] ELSE <<>>

OmniRouteModels(body)   == ParseObject(body, "unknown")
NineRouterModels(body)  == ParseObject(body, "9router")
NewApiModels(body)      == ParseCommon(body, "new-api")
PortkeyModels(body)     == ParseCommon(body, "portkey")
BifrostModels(body)     == ParseCommon(body, "bifrost")
CoAIModels(body)        == ParseCommon(body, "coai")
LLMGatewayModels(body)  == ParseCommon(body, "llmgateway")

OpenConnectorModels(body) ==
    LET e == body.entries
    IN  IF body.form = "list"
        THEN [n \in DOMAIN e |-> <<NamedId(e[n]), ListedBy(e[n], "openconnector")>>]
        ELSE ParseCommon(body, "openconnector")

FreeLLMAPIModels(body) ==
    LET e == body.entries
    IN  IF body.form = "list"
        THEN [n \in DOMAIN e |-> <<e[n].id, First(e[n].provider, "freellmapi")>>]
        ELSE ParseCommon(body, "freellmapi")

inferLiteLLMProvider(id) ==
    CASE id.vendor # NoVendor -> id.vendor
      [] id.vendor = NoVendor /\ id.family \in {"gpt", "o1", "o3"} -> "openai"
      [] id.vendor = NoVendor /\ id.family = "claude"   -> "anthropic"
      [] id.vendor = NoVendor /\ id.family = "gemini"   -> "gemini"
      [] id.vendor = NoVendor /\ id.family = "mistral"  -> "mistral"
      [] id.vendor = NoVendor /\ id.family = "deepseek" -> "deepseek"
      [] id.vendor = NoVendor /\ id.family = "llama"    -> "groq"
      [] id.vendor = NoVendor /\ id.family = "command"  -> "cohere"
      [] OTHER                -> "litellm"

LiteLLMModels(body) ==
    LET named(e) == IF e.owner \in {"", "system", "openai"}
                    THEN inferLiteLLMProvider(e.id) ELSE e.owner
        e == body.entries
        k == SelectSeq(e, LAMBDA x : NamedId(x) # NoId)
    IN  CASE body.form = "object" -> [n \in DOMAIN e |-> <<e[n].id, named(e[n])>>]
          [] body.form = "list"   ->
               [n \in DOMAIN k |-> <<NamedId(k[n]), inferLiteLLMProvider(NamedId(k[n]))>>]
          [] OTHER                -> <<>>

ParseModels(p, body) ==
    CASE p = "omniroute"     -> OmniRouteModels(body)
      [] p = "9router"       -> NineRouterModels(body)
      [] p = "litellm"       -> LiteLLMModels(body)
      [] p = "freellmapi"    -> FreeLLMAPIModels(body)
      [] p = "new-api"       -> NewApiModels(body)
      [] p = "portkey"       -> PortkeyModels(body)
      [] p = "bifrost"       -> BifrostModels(body)
      [] p = "coai"          -> CoAIModels(body)
      [] p = "llmgateway"    -> LLMGatewayModels(body)
      [] p = "openconnector" -> OpenConnectorModels(body)

-----------------------------------------------------------------------------
(* The models a router is given when neither its product nor its           *)
(* credentials name any.                                                   *)

gpt4o    == Id(NoVendor, "gpt", "4o")
sonnet   == Id(NoVendor, "claude", "3-5-sonnet-20241022")
flash    == Id(NoVendor, "gemini", "1.5-flash")
pro      == Id(NoVendor, "gemini", "1.5-pro")
deepseek == Id(NoVendor, "deepseek", "chat")

Shipped(p) ==
    LET a == <<gpt4o, "openai">>
        b == <<sonnet, "anthropic">>
        c == <<deepseek, "deepseek">>
        free(r)   == <<Id(NoVendor, "free", r), "freellmapi">>
        routed(r) == <<Id("9router", "", r), "9router">>
        tool(r)   == <<Id(NoVendor, "tool", r), "openconnector">>
    IN  CASE p = "omniroute"  -> <<a, b, <<flash, "gemini">>>>
          [] p \in {"litellm", "new-api", "portkey"} -> <<a, b, c>>
          [] p \in {"bifrost", "coai", "llmgateway"} -> <<a, b, c, <<pro, "gemini">>>>
          [] p = "freellmapi" -> <<free("gpt-4o"), free("claude-3.5"), free("deepseek-v3")>>
          [] p = "9router"    -> <<routed("auto"), routed("fast")>>
          [] p = "openconnector" -> <<a, b, tool("mcp-tool-connector"), tool("saas-action-runner")>>
=============================================================================
