------------------------------ MODULE Routing -------------------------------
(***************************************************************************)
(* How kedge answers an HTTP request (handle_request in http_session.cpp,  *)
(* sbCall and the handle... functions of httpCaller in handlers.cpp, the   *)
(* make_resp... functions of http_util.hpp).                               *)
(*                                                                         *)
(* A request target is abstracted to what the code tells apart; a response *)
(* to its status, whether bytes of a body follow its header, and whether   *)
(* the connection is kept.  What the torrent manager and the file system   *)
(* say is an argument, e.                                                  *)
(***************************************************************************)
EXTENDS Naturals, Sequences

Methods == {"get", "head", "post", "put", "delete"}

\* Targets under /api/torrent/: too short for an info-hash, not a hash, a hash
\* without an action or with one.
Acts == {"none", "peers", "files", "toggle", "start", "other"}
TorrentTargets == {<<"torrent", a>> : a \in Acts}
                  \cup {<<"torrent", "short">>, <<"torrent", "nothex">>}
Targets == TorrentTargets
           \cup {<<"illegal">>, <<"session">>, <<"session", "stats">>, <<"session", "toggle">>,
                 <<"sync", "stats">>, <<"torrents">>, <<"file">>}

\* "upgrade" asks for a websocket, "malformed" does not parse or is too long.
Requests == [kind : {"plain"}, method : Methods, target : Targets, keep : BOOLEAN]
            \cup {[kind |-> "upgrade"], [kind |-> "malformed"]}

\* What the code around the router answers: the torrent exists, the addition
\* was accepted, and what opening the file gives.
Answers == [found : BOOLEAN, added : BOOLEAN, file : {"there", "missing", "error"}]

Responses == [status : {200, 204, 400, 404, 500}, body : BOOLEAN, keep : BOOLEAN]

\* make_resp: every status but 204 has a body, whatever the method.
make_resp(r, s) == [status |-> s, body |-> s # 204, keep |-> r.keep]

\* Mutant of handleTorrents: a new torrent is answered with 201.
handleTorrentsCreated(r, e) ==
    [make_resp(r, IF e.added THEN 204 ELSE 500) EXCEPT !.status = IF r.method = "post" THEN 201 ELSE @]

handleTorrents(r, e) ==
    CASE r.method = "get"  -> make_resp(r, 200)
      [] r.method = "post" -> make_resp(r, IF e.added THEN 204 ELSE 500)
      [] OTHER             -> make_resp(r, 400)

\* Mutant of handleTorrent: HEAD is answered like GET.
handleTorrentAnyGet(r, e) ==
    CASE r.target[2] = "short"  -> make_resp(r, 404)
      [] r.target[2] = "nothex" -> make_resp(r, 400)
      [] r.target[2] \in Acts /\ r.method \in {"head", "get"} -> make_resp(r, IF e.found THEN 200 ELSE 404)
      [] r.target[2] \in Acts /\ r.method \in {"delete", "put"} -> make_resp(r, 204)
      [] r.target[2] \in Acts /\ r.method = "post" -> make_resp(r, 400)

\* drop_torrent, pause_resume_torrent and resume_torrent also say whether there
\* was such a torrent, which is not looked at.
handleTorrent(r, e) ==
    CASE r.target[2] = "short"  -> make_resp(r, 404)
      [] r.target[2] = "nothex" -> make_resp(r, 400)
      [] r.target[2] \in Acts /\ r.method = "head" -> make_resp(r, IF e.found THEN 204 ELSE 404)
      [] r.target[2] \in Acts /\ r.method = "get"  -> make_resp(r, IF e.found THEN 200 ELSE 404)
      [] r.target[2] \in Acts /\ r.method \in {"delete", "put"} -> make_resp(r, 204)
      [] r.target[2] \in Acts /\ r.method = "post" -> make_resp(r, 400)

\* The rest of handle_request: a file below ui_root.
StaticFile(r, e) ==
    CASE e.file = "missing" -> make_resp(r, 404)
      [] e.file = "error"   -> make_resp(r, 500)
      [] e.file = "there"   -> [status |-> 200, body |-> r.method # "head", keep |-> r.keep]

\* The requests sbCall answers itself with 200: get_session..., getSyncStats,
\* toggle_pause_resume.
IsToggle(r) == r.kind = "plain" /\ r.method = "put" /\ r.target = <<"session", "toggle">>
IsQuery(r)  == r.method = "get" /\ r.target \in {<<"session">>, <<"session", "stats">>, <<"sync", "stats">>}

handle_request(r, e) ==
    CASE r.target = <<"illegal">>    -> make_resp(r, 400)
      [] IsQuery(r) \/ IsToggle(r)   -> make_resp(r, 200)
      [] r.target = <<"torrents">>   -> handleTorrents(r, e)
      [] r.target \in TorrentTargets -> handleTorrent(r, e)
      [] OTHER                       -> StaticFile(r, e)

-----------------------------------------------------------------------------
(* "JSON APIs" in the README: the statuses of each documented request.       *)

Api(method, targets, statuses) == [method |-> method, targets |-> targets, statuses |-> statuses]
Hash(acts) == {<<"torrent", a>> : a \in acts}

Apis == {Api("get", {<<"session">>, <<"session", "stats">>, <<"torrents">>}, {200}),
         Api("put", {<<"session", "toggle">>}, {200}),
         Api("post", {<<"torrents">>}, {204, 500}),
         Api("get", Hash({"none", "files", "peers"}), {200, 404}),
         Api("head", Hash({"none"}), {204, 404}),
         Api("delete", Hash({"none"}), {204, 404}),
         Api("put", Hash({"toggle", "start"}), {204})}

Documented(r, s) ==
    \A a \in Apis : r.method = a.method /\ r.target \in a.targets => s \in a.statuses
=============================================================================
