---------------------------- MODULE MCProxyRequests ----------------------------
(* ProxyRequests for TLC: a plain router and two of the products the proxy  *)
(* knows by name, one that is answered in their place and one redirected.  *)
EXTENDS ProxyRequests

CONSTANTS k1, admin

Slugs   == {"omni", "portkey-1", "litellm-1"}
LookOf  == [s \in Slugs |-> CASE s = "portkey-1" -> "portkey"
                              [] s = "litellm-1" -> "litellm"
                              [] OTHER           -> "plain"]
AllowOf == [k \in Key |-> {"omni"}]
Paths   == {<<>>, <<"login">>, <<"_next", "x">>}
================================================================================
