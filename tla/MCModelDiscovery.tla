---------------------------- MODULE MCModelDiscovery ----------------------------
(* ModelDiscovery for TLC: answers of up to three models that name an owner, a    *)
(* provider, a vendor in their identifier, an empty vendor, or nothing, in        *)
(* opposite orders and with a model named twice.                                  *)
EXTENDS ModelDiscovery

Entry(id, name, owner, provider) == [id |-> id, name |-> name, owner |-> owner, provider |-> provider]

Plain  == Entry(gpt4o, NoId, "", "")
Owned  == Entry(gpt4o, NoId, "acme", "")
Vendor == Entry(Id("acme", "", "m"), NoId, "", "")
Slash  == Entry(Id("", "", "m"), NoId, "system", "")
Bare   == Entry(Id("", "", "m"), NoId, "", "")
Listed == Entry(NoId, Id(NoVendor, "other", "n"), "", "acme")

SmallBodies ==
    {[form |-> "object", entries |-> <<Owned, Vendor>>],
     [form |-> "object", entries |-> <<Vendor, Owned, Plain>>],
     [form |-> "object", entries |-> <<Slash, Bare>>],
     [form |-> "list", entries |-> <<Plain, Listed>>],
     [form |-> "other", entries |-> <<Plain>>]}
=============================================================================
