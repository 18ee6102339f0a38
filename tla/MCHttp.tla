------------------------------- MODULE MCHttp -------------------------------
(* HttpServer with two connections: the client of c1 sends one request of any  *)
(* kind alone, or two without waiting while c2 toggles or asks for an upgrade.  *)
EXTENDS HttpServer

CONSTANTS c1, c2

Plain(m, t, k) == [kind |-> "plain", method |-> m, target |-> t, keep |-> k]
Toggle  == Plain("put", <<"session", "toggle">>, TRUE)
Remove  == Plain("delete", <<"torrent", "none">>, FALSE)
Probe   == Plain("head", <<"torrent", "none">>, TRUE)
Upgrade == [kind |-> "upgrade"]

Single == {<<Plain(m, t, TRUE)>> : m \in Methods, t \in Targets} \cup {<<[kind |-> "malformed"]>>}
Pairs  == {<<Toggle, Remove>>, <<Remove, Toggle>>, <<Probe, Toggle>>, <<Toggle, Upgrade>>}

MCScripts ==
    {[c \in Conns |-> IF c = c1 THEN s ELSE <<>>] : s \in Single}
    \cup {[c \in Conns |-> IF c = c1 THEN p ELSE <<r>>] : p \in Pairs, r \in {Toggle, Upgrade}}
=============================================================================
