-------------------------- MODULE HttpServerProofs --------------------------
(***************************************************************************)
(* Proofs about HttpServer, for every set of connections, every number of  *)
(* io threads and whatever the clients send.                               *)
(***************************************************************************)
EXTENDS HttpServer, SequenceTheorems, TLAPS

-----------------------------------------------------------------------------
(* Requests and their answers *)

PlainRequests == [kind : {"plain"}, method : Methods, target : Targets, keep : BOOLEAN]

\* A request that parses and asks for no upgrade has a method and a target.
LEMMA PlainFields ==
    ASSUME NEW r \in Requests, r.kind = "plain"
    PROVE  r \in PlainRequests
  BY DEF Requests, PlainRequests

\* There is no fourth kind.
LEMMA Kinds ==
    ASSUME NEW r \in Requests
    PROVE  r.kind \in {"plain", "upgrade", "malformed"}
  BY DEF Requests

\* A response with one of the statuses is a response.
LEMMA MakeResp ==
    ASSUME NEW r \in PlainRequests, NEW s \in {200, 204, 400, 404, 500}
    PROVE  make_resp(r, s) \in Responses /\ make_resp(r, s).status = s
  BY DEF make_resp, Responses, PlainRequests

\* Targets that differ.
LEMMA TargetsDiffer ==
    /\ \A a : <<"torrent", a>> \notin {<<"illegal">>, <<"session">>, <<"session", "stats">>,
                  <<"session", "toggle">>, <<"sync", "stats">>, <<"torrents">>, <<"file">>}
    /\ <<"torrents">> \notin {<<"illegal">>, <<"session">>, <<"session", "stats">>,
                  <<"session", "toggle">>, <<"sync", "stats">>, <<"file">>}
    /\ <<"illegal">> \notin {<<"session">>, <<"session", "stats">>,
                  <<"session", "toggle">>, <<"sync", "stats">>, <<"file">>}
  OBVIOUS

\* A target below /api/torrent/.
LEMMA TorrentTarget ==
    ASSUME NEW g \in TorrentTargets
    PROVE  /\ g = <<"torrent", g[2]>> /\ g[2] \in Acts \cup {"short", "nothex"}
           /\ g \notin {<<"illegal">>, <<"session">>, <<"session", "stats">>,
                  <<"session", "toggle">>, <<"sync", "stats">>, <<"torrents">>, <<"file">>}
<1>1. g = <<"torrent", g[2]>> /\ g[2] \in Acts \cup {"short", "nothex"}
  BY DEF TorrentTargets, Acts
<1> QED
  BY <1>1, TargetsDiffer

\* Of a request for a torrent, the documentation promises what handleTorrent does.
LEMMA TorrentAnswer ==
    ASSUME NEW r \in PlainRequests, NEW e \in Answers, r.target \in TorrentTargets
    PROVE  /\ handleTorrent(r, e) \in Responses
           /\ Documented(r, handleTorrent(r, e).status)
<1> DEFINE g == r.target[2]
<1>1. r.target = <<"torrent", g>> /\ g \in Acts \cup {"short", "nothex"} /\ r.method \in Methods
  BY TorrentTarget DEF PlainRequests
<1>2. "short" \notin Acts /\ "nothex" \notin Acts
  BY DEF Acts
<1>3. PICK s \in {200, 204, 400, 404} :
        /\ handleTorrent(r, e) = make_resp(r, s)
        /\ g \in Acts /\ r.method = "head" => s \in {204, 404}
        /\ g \in Acts /\ r.method = "get" => s \in {200, 404}
        /\ g \in Acts /\ r.method \in {"delete", "put"} => s = 204
  <2>1. CASE g \notin Acts
    BY <1>1, <1>2, <2>1 DEF handleTorrent
  <2>2. CASE g \in Acts /\ r.method = "head"
    BY <1>1, <1>2, <2>2 DEF handleTorrent
  <2>3. CASE g \in Acts /\ r.method = "get"
    BY <1>1, <1>2, <2>3 DEF handleTorrent
  <2>4. CASE g \in Acts /\ r.method \in {"delete", "put"}
    BY <1>1, <1>2, <2>4 DEF handleTorrent
  <2>5. CASE g \in Acts /\ r.method = "post"
    BY <1>1, <1>2, <2>5 DEF handleTorrent
  <2> QED
    BY <1>1, <2>1, <2>2, <2>3, <2>4, <2>5 DEF Methods
<1>4. handleTorrent(r, e) \in Responses /\ handleTorrent(r, e).status = s
  BY <1>3, MakeResp
<1>5. Documented(r, s)
  <2> SUFFICES ASSUME NEW a \in Apis, r.method = a.method, r.target \in a.targets
               PROVE  s \in a.statuses
    BY DEF Documented
  <2>1. \A x : <<"torrent", g>> = <<"torrent", x>> => g = x
    OBVIOUS
  <2>2. \A S : r.target \in Hash(S) => g \in S
    BY <1>1, <2>1 DEF Hash
  <2>3. r.target \notin {<<"illegal">>, <<"session">>, <<"session", "stats">>,
                  <<"session", "toggle">>, <<"sync", "stats">>, <<"torrents">>, <<"file">>}
    BY TorrentTarget
  <2>4. CASE a.targets = Hash({"none", "files", "peers"}) /\ a.statuses = {200, 404} /\ a.method = "get"
    <3>1. g \in {"none", "files", "peers"}
      BY <2>2, <2>4
    <3>2. g \in Acts
      BY <3>1 DEF Acts
    <3> QED
      BY <1>3, <2>4, <3>2
  <2>5. CASE a.targets = Hash({"none"}) /\ a.method \in {"head", "delete"} /\ a.statuses = {204, 404}
    <3>1. g \in {"none"}
      BY <2>2, <2>5
    <3>2. g \in Acts
      BY <3>1 DEF Acts
    <3> QED
      BY <1>3, <2>5, <3>2
  <2>6. CASE a.targets = Hash({"toggle", "start"}) /\ a.method = "put" /\ a.statuses = {204}
    <3>1. g \in {"toggle", "start"}
      BY <2>2, <2>6
    <3>2. g \in Acts
      BY <3>1 DEF Acts
    <3> QED
      BY <1>3, <2>6, <3>2
  <2>7. CASE a.targets \subseteq {<<"session">>, <<"session", "stats">>, <<"session", "toggle">>,
                                  <<"torrents">>}
    BY <2>3, <2>7
  <2> QED
    BY <2>4, <2>5, <2>6, <2>7 DEF Apis, Api
<1> QED
  BY <1>4, <1>5

\* The documentation says nothing of the other targets, but for four of them.
LEMMA OtherDocumented ==
    ASSUME NEW r \in PlainRequests, r.target \notin TorrentTargets, NEW s,
           r.method = "get" /\ r.target \in {<<"session">>, <<"session", "stats">>, <<"torrents">>}
              => s = 200,
           r.method = "put" /\ r.target = <<"session", "toggle">> => s = 200,
           r.method = "post" /\ r.target = <<"torrents">> => s \in {204, 500}
    PROVE  Documented(r, s)
<1> SUFFICES ASSUME NEW a \in Apis, r.method = a.method, r.target \in a.targets
             PROVE  s \in a.statuses
  BY DEF Documented
<1>1. \A S : S \subseteq Acts => Hash(S) \subseteq TorrentTargets
  BY DEF Hash, TorrentTargets
<1>2. {"none", "files", "peers"} \subseteq Acts /\ {"none"} \subseteq Acts /\ {"toggle", "start"} \subseteq Acts
  BY DEF Acts
<1>3. /\ r.target \notin Hash({"none", "files", "peers"}) /\ r.target \notin Hash({"none"})
      /\ r.target \notin Hash({"toggle", "start"})
  BY <1>1, <1>2
<1>4. CASE a = Api("get", {<<"session">>, <<"session", "stats">>, <<"torrents">>}, {200})
  BY <1>4 DEF Api
<1>5. CASE a = Api("put", {<<"session", "toggle">>}, {200})
  BY <1>5 DEF Api
<1>6. CASE a = Api("post", {<<"torrents">>}, {204, 500})
  BY <1>6 DEF Api
<1>7. CASE a.targets \in {Hash({"none", "files", "peers"}), Hash({"none"}), Hash({"toggle", "start"})}
  BY <1>3, <1>7
<1> QED
  BY <1>4, <1>5, <1>6, <1>7 DEF Apis, Api

\* Whatever the torrent manager and the file system say, handle_request makes a
\* response, with a status the documentation gives for the request.
LEMMA HandleAnswer ==
    ASSUME NEW r \in PlainRequests, NEW e \in Answers
    PROVE  /\ handle_request(r, e) \in Responses
           /\ Documented(r, handle_request(r, e).status)
<1>0. r.kind = "plain" /\ r.method \in Methods /\ r.target \in Targets /\ r.keep \in BOOLEAN
  BY DEF PlainRequests
<1>1. CASE r.target \in TorrentTargets
  <2>1. handle_request(r, e) = handleTorrent(r, e)
    BY <1>1, TorrentTarget DEF handle_request, IsQuery, IsToggle
  <2> QED
    BY <1>1, <2>1, TorrentAnswer
<1>2. CASE r.target = <<"illegal">>
  <2>1. handle_request(r, e) = make_resp(r, 400)
    BY <1>2, TargetsDiffer, TorrentTarget DEF handle_request, IsQuery, IsToggle
  <2>2. Documented(r, 400)
    BY <1>2, TargetsDiffer, TorrentTarget, OtherDocumented
  <2> QED
    BY <2>1, <2>2, MakeResp
<1>3. CASE IsQuery(r) \/ IsToggle(r)
  <2>1. r.target \in {<<"session">>, <<"session", "stats">>, <<"sync", "stats">>, <<"session", "toggle">>}
        /\ r.method \in {"get", "put"}
    BY <1>3 DEF IsQuery, IsToggle
  <2>2. r.target \notin TorrentTargets /\ r.target # <<"illegal">> /\ r.target # <<"torrents">>
    BY <2>1, TorrentTarget, TargetsDiffer
  <2>3. handle_request(r, e) = make_resp(r, 200)
    BY <1>3, <2>2 DEF handle_request
  <2>4. Documented(r, 200)
    BY <2>1, <2>2, OtherDocumented
  <2> QED
    BY <2>3, <2>4, MakeResp
<1>4. CASE r.target = <<"torrents">>
  <2>1. r.target \notin TorrentTargets /\ ~IsQuery(r) /\ ~IsToggle(r) /\ r.target # <<"illegal">>
        /\ r.target \notin {<<"session">>, <<"session", "stats">>, <<"session", "toggle">>}
    BY <1>4, TorrentTarget, TargetsDiffer DEF IsQuery, IsToggle
  <2>2. handle_request(r, e) = handleTorrents(r, e)
    BY <1>4, <2>1 DEF handle_request
  <2>3. PICK s \in {200, 204, 400, 500} :
          /\ handleTorrents(r, e) = make_resp(r, s)
          /\ r.method = "get" => s = 200
          /\ r.method = "post" => s \in {204, 500}
    <3>1. CASE r.method = "get"
      BY <3>1 DEF handleTorrents
    <3>2. CASE r.method = "post"
      BY <3>2 DEF handleTorrents
    <3>3. CASE r.method \notin {"get", "post"}
      BY <3>3 DEF handleTorrents
    <3> QED
      BY <3>1, <3>2, <3>3
  <2>4. Documented(r, s)
    BY <1>4, <2>1, <2>3, OtherDocumented
  <2> QED
    BY <2>2, <2>3, <2>4, MakeResp
<1>5. CASE r.target \notin TorrentTargets \cup {<<"illegal">>, <<"torrents">>} /\ ~IsQuery(r) /\ ~IsToggle(r)
  <2>1. handle_request(r, e) = StaticFile(r, e)
    BY <1>5 DEF handle_request
  <2>2. StaticFile(r, e) \in Responses
    <3>1. e.file \in {"there", "missing", "error"}
      BY DEF Answers
    <3>2. CASE e.file = "there"
      BY <1>0, <3>2 DEF StaticFile, Responses
    <3>3. CASE e.file # "there"
      BY <3>1, <3>3, MakeResp DEF StaticFile
    <3> QED
      BY <3>2, <3>3
  <2>3. /\ ~(r.method = "get" /\ r.target \in {<<"session">>, <<"session", "stats">>, <<"torrents">>})
        /\ ~(r.method = "put" /\ r.target = <<"session", "toggle">>)
        /\ ~(r.method = "post" /\ r.target = <<"torrents">>)
        /\ r.target \notin TorrentTargets
    BY <1>0, <1>5 DEF IsQuery, IsToggle
  <2>4. Documented(r, StaticFile(r, e).status)
    BY <2>3, OtherDocumented
  <2> QED
    BY <2>1, <2>2, <2>4
<1> QED
  BY <1>1, <1>2, <1>3, <1>4, <1>5

-----------------------------------------------------------------------------
(* The inductive invariants *)

\* What a session serves: only plain requests, and a toggle where it toggles.
Serving ==
    \A c \in Conns :
        /\ sess[c] \in Running \cup {"write"} => cur[c].kind = "plain"
        /\ sess[c] \in Toggling => IsToggle(cur[c])

\* InStep, from the connection on.  (The server keeps in step with every client;
\* one that was sent a body in answer to HEAD does not know.)
StepAt(c) ==
    /\ sess[c] = "none" => inbox[c] = <<>> /\ asked[c] = <<>>
    /\ sess[c] \in {"queued", "read"} => asked[c] = inbox[c]
    /\ sess[c] \in Running \cup {"write"} => asked[c] = <<cur[c]>> \o inbox[c]

StepInv == \A c \in Conns : StepAt(c)

\* The requests waited for are a sequence because they keep in step: the type of
\* asked needs StepInv.
TypeInv == TypeOK /\ Serving /\ StepInv

\* While no two toggles overlap there is one at a time, which knows whether the
\* session is paused.
ToggleInv ==
    ~overlapped =>
        /\ paused <=> toggles % 2 = 1
        /\ \A c, d \in Conns : sess[c] \in Toggling /\ sess[d] \in Toggling => c = d
        /\ \A c \in Conns :
              /\ sess[c] = "act" => (saw[c] <=> paused)
              /\ sess[c] = "report" => (saw[c] <=> ~paused)
              /\ sess[c] = "write" /\ IsToggle(cur[c]) => (told[c] <=> ~saw[c])

-----------------------------------------------------------------------------
(* Type correctness, and what is served *)

States == Open \cup {"none", "queued", "ws", "closed"}

\* The names of the places a session can be at.
LEMMA Places ==
    /\ Toggling = {"act", "report"} /\ Running = {"handle", "act", "report"}
    /\ Open = {"read", "write", "handle", "act", "report"}
    /\ States = {"read", "write", "handle", "act", "report", "none", "queued", "ws", "closed"}
  BY DEF Toggling, Running, Open, States

\* A sequence of requests that begins with the one being served.
LEMMA AfterFirst ==
    ASSUME NEW r \in Requests, NEW s \in Seq(Requests)
    PROVE  Tail(<<r>> \o s) = s
  OBVIOUS

\* One more request sent ahead.
LEMMA AppendAfter ==
    ASSUME NEW r \in Requests, NEW s \in Seq(Requests), NEW q \in Requests
    PROVE  Append(<<r>> \o s, q) = <<r>> \o Append(s, q)
  OBVIOUS

\* The request that is read next.
LEMMA FirstAndRest ==
    ASSUME NEW s \in Seq(Requests), s # <<>>
    PROVE  s = <<Head(s)>> \o Tail(s) /\ Head(s) \in Requests
  OBVIOUS

\* A session that moves, and serves what its new place asks for.
LEMMA Moves ==
    ASSUME TypeInv, NEW c \in Conns, NEW l \in States, Goto(c, l),
           NEW r \in Requests, cur' = [cur EXCEPT ![c] = r],
           l \in Running \cup {"write"} => r.kind = "plain",
           l \in Toggling => IsToggle(r)
    PROVE  sess' \in [Conns -> States] /\ cur' \in [Conns -> Requests] /\ Serving'
<1>1. sess \in [Conns -> States] /\ cur \in [Conns -> Requests] /\ Serving
  BY DEF TypeInv, TypeOK, States
<1>2. sess' = [sess EXCEPT ![c] = l]
  BY DEF Goto
<1>3. sess' \in [Conns -> States] /\ cur' \in [Conns -> Requests]
  BY <1>1, <1>2
<1>4. ASSUME NEW d \in Conns
      PROVE  /\ sess'[d] \in Running \cup {"write"} => cur'[d].kind = "plain"
             /\ sess'[d] \in Toggling => IsToggle(cur'[d])
  <2>1. CASE d = c
    BY <1>1, <1>2, <2>1
  <2>2. CASE d # c
    BY <1>1, <1>2, <2>2 DEF Serving
  <2> QED
    BY <2>1, <2>2
<1> QED
  BY <1>3, <1>4 DEF Serving

\* A session that moves and keeps its request.
LEMMA Stays ==
    ASSUME TypeInv, NEW c \in Conns, NEW l \in States, Goto(c, l), UNCHANGED cur,
           l \in Running \cup {"write"} => cur[c].kind = "plain",
           l \in Toggling => IsToggle(cur[c])
    PROVE  sess' \in [Conns -> States] /\ cur' \in [Conns -> Requests] /\ Serving'
<1>1. cur \in [Conns -> Requests] /\ cur[c] \in Requests
  BY DEF TypeInv, TypeOK
<1>2. cur' = [cur EXCEPT ![c] = cur[c]]
  BY <1>1
<1> QED
  BY <1>1, <1>2, Moves

\* The first state.
LEMMA TypeInit == Init => TypeInv
<1> SUFFICES ASSUME Init PROVE TypeInv
  OBVIOUS
<1>1. NoRequest \in Requests /\ NoResponse \in Responses
  BY DEF NoRequest, NoResponse, Requests, Responses
<1>2. script \in [Conns -> Seq(Requests)]
  BY ScriptsAssumption DEF Init
<1>3. inbox \in [Conns -> Seq(Requests)] /\ asked \in [Conns -> Seq(Requests)]
  BY DEF Init
<1>4. listening \in BOOLEAN
  BY DEF Init
<1>5. TypeOK
  BY <1>1, <1>2, <1>3, <1>4 DEF Init, TypeOK
<1>6. Serving
  BY DEF Init, Serving, Running, Toggling
<1>7. StepInv
  BY DEF Init, StepInv, StepAt, Running, Toggling
<1> QED
  BY <1>5, <1>6, <1>7 DEF TypeInv

\* A step of a client.
LEMMA TypeClient ==
    ASSUME TypeInv, NEW c \in Conns, Connect(c) \/ Ask(c) \/ HangUp(c) PROVE TypeOK' /\ Serving'
<1> USE DEF server, session, toggle, client
<1>1. CASE Connect(c)
  <2>1. sess' \in [Conns -> States] /\ cur' \in [Conns -> Requests] /\ Serving'
    BY <1>1, Places, Stays DEF Connect
  <2> QED
    BY <1>1, <2>1 DEF Connect, TypeInv, TypeOK, States
<1>2. CASE Ask(c)
  <2>1. script[c] \in Seq(Requests) /\ script[c] # <<>>
    BY <1>2 DEF Ask, TypeInv, TypeOK
  <2>2. Head(script[c]) \in Requests /\ Tail(script[c]) \in Seq(Requests)
    BY <2>1
  <2>3. /\ script' \in [Conns -> Seq(Requests)] /\ inbox' \in [Conns -> Seq(Requests)]
        /\ asked' \in [Conns -> Seq(Requests)]
    BY <1>2, <2>2 DEF Ask, TypeInv, TypeOK
  <2> QED
    BY <1>2, <2>3 DEF Ask, TypeInv, TypeOK, Serving
<1>3. CASE HangUp(c)
  BY <1>3 DEF HangUp, TypeInv, TypeOK, Serving
<1> QED
  BY <1>1, <1>2, <1>3

\* A step of the listener, of the clock or of main.
LEMMA TypeListener ==
    ASSUME TypeInv, NEW c \in Conns, OnAccept(c) \/ OnAcceptError \/ Expire(c) \/ Stop PROVE TypeOK' /\ Serving'
<1> USE DEF server, session, toggle, client
<1>1. CASE OnAccept(c)
  <2>1. sess' \in [Conns -> States] /\ cur' \in [Conns -> Requests] /\ Serving'
    BY <1>1, Places, Stays DEF OnAccept, do_read
  <2>2. timer' \in [Conns -> {"off", "armed", "expired"}]
    BY <1>1 DEF OnAccept, do_read, TypeInv, TypeOK
  <2> QED
    BY <1>1, <2>1, <2>2 DEF OnAccept, TypeInv, TypeOK, States
<1>2. CASE OnAcceptError
  BY <1>2 DEF OnAcceptError, TypeInv, TypeOK, Serving
<1>3. CASE Expire(c)
  BY <1>3 DEF Expire, TypeInv, TypeOK, Serving
<1>4. CASE Stop
  BY <1>4 DEF Stop, TypeInv, TypeOK, Serving
<1> QED
  BY <1>1, <1>2, <1>3, <1>4

\* The answer to the request a session serves.
LEMMA Answering ==
    ASSUME TypeInv, NEW c \in Conns, NEW a \in Responses, Respond(c, a), UNCHANGED cur,
           sess[c] \in Running
    PROVE  /\ sess' \in [Conns -> States] /\ cur' \in [Conns -> Requests] /\ Serving'
           /\ resp' \in [Conns -> Responses]
<1>1. cur[c].kind = "plain"
  BY DEF TypeInv, Serving
<1>2. sess' \in [Conns -> States] /\ cur' \in [Conns -> Requests] /\ Serving'
  BY <1>1, Places, Stays DEF Respond
<1> QED
  BY <1>2 DEF Respond, TypeInv, TypeOK

\* A step of on_read, on_write and what they call.
LEMMA TypeSession ==
    ASSUME TypeInv, NEW c \in Conns, Handler(c) \/ OnWrite(c) PROVE TypeOK' /\ Serving'
<1> USE DEF server, session, toggle, client
<1>0. cur[c] \in Requests /\ cur \in [Conns -> Requests] /\ sess[c] \in States
  BY DEF TypeInv, TypeOK, States
<1>00. sess[c] \in Running => cur[c] \in PlainRequests
  BY <1>0, PlainFields DEF TypeInv, Serving
<1>1. CASE OnRead(c)
  <2> DEFINE r == Head(inbox[c])
  <2>1. inbox[c] \in Seq(Requests) /\ inbox[c] # <<>>
    BY <1>1 DEF OnRead, TypeInv, TypeOK
  <2>2. r \in Requests /\ Tail(inbox[c]) \in Seq(Requests)
    BY <2>1
  <2>3. PICK l \in {"handle", "ws", "closed"} : Goto(c, l) /\ (l = "handle" => r.kind = "plain")
    <3>1. r.kind \in {"plain", "upgrade", "malformed"}
      BY <2>2, Kinds
    <3> QED
      BY <1>1, <3>1 DEF OnRead
  <2>4. cur' = [cur EXCEPT ![c] = r] /\ inbox' = [inbox EXCEPT ![c] = Tail(@)]
    BY <1>1 DEF OnRead
  <2>5. sess' \in [Conns -> States] /\ cur' \in [Conns -> Requests] /\ Serving'
    BY <2>2, <2>3, <2>4, Places, Moves
  <2>6. inbox' \in [Conns -> Seq(Requests)]
    BY <2>2, <2>4 DEF TypeInv, TypeOK
  <2> QED
    BY <1>1, <2>5, <2>6 DEF OnRead, TypeInv, TypeOK, States
<1>2. CASE OnError(c)
  <2>1. sess' \in [Conns -> States] /\ cur' \in [Conns -> Requests] /\ Serving'
    BY <1>2, Places, Stays DEF OnError
  <2> QED
    BY <1>2, <2>1 DEF OnError, TypeInv, TypeOK, States
<1>3. CASE Handle(c)
  <2>1. PICK e \in Answers : Respond(c, handle_request(cur[c], e))
    BY <1>3 DEF Handle
  <2>2. sess[c] \in Running
    BY <1>3, Places DEF Handle
  <2>3. handle_request(cur[c], e) \in Responses
    BY <1>00, <2>2, HandleAnswer
  <2>4. /\ sess' \in [Conns -> States] /\ cur' \in [Conns -> Requests] /\ Serving'
        /\ resp' \in [Conns -> Responses]
    BY <1>3, <2>1, <2>2, <2>3, Answering DEF Handle
  <2> QED
    BY <1>3, <2>4 DEF Handle, TypeInv, TypeOK, States
<1>4. CASE ToggleCheck(c)
  <2>1. cur[c].kind = "plain" /\ IsToggle(cur[c])
    BY <1>4 DEF ToggleCheck, IsToggle
  <2>2. sess' \in [Conns -> States] /\ cur' \in [Conns -> Requests] /\ Serving'
    BY <1>4, <2>1, Places, Stays DEF ToggleCheck
  <2>3. saw' \in [Conns -> BOOLEAN] /\ overlapped' \in BOOLEAN
    BY <1>4 DEF ToggleCheck, TypeInv, TypeOK
  <2> QED
    BY <1>4, <2>2, <2>3 DEF ToggleCheck, TypeInv, TypeOK, States
<1>5. CASE ToggleAct(c)
  <2>1. IsToggle(cur[c]) /\ cur[c].kind = "plain"
    BY <1>5, Places DEF ToggleAct, TypeInv, Serving
  <2>2. sess' \in [Conns -> States] /\ cur' \in [Conns -> Requests] /\ Serving'
    BY <1>5, <2>1, Places, Stays DEF ToggleAct
  <2>3. paused' \in BOOLEAN /\ toggles' \in Nat
    BY <1>5 DEF ToggleAct, TypeInv, TypeOK
  <2> QED
    BY <1>5, <2>2, <2>3 DEF ToggleAct, TypeInv, TypeOK, States
<1>6. CASE ToggleReport(c)
  <2>1. sess[c] \in Running
    BY <1>6, Places DEF ToggleReport
  <2>2. make_resp(cur[c], 200) \in Responses
    BY <1>00, <2>1, MakeResp
  <2>3. /\ sess' \in [Conns -> States] /\ cur' \in [Conns -> Requests] /\ Serving'
        /\ resp' \in [Conns -> Responses]
    BY <1>6, <2>1, <2>2, Answering DEF ToggleReport
  <2>4. told' \in [Conns -> BOOLEAN]
    BY <1>6 DEF ToggleReport, TypeInv, TypeOK
  <2> QED
    BY <1>6, <2>3, <2>4 DEF ToggleReport, TypeInv, TypeOK, States
<1>7. CASE OnWrite(c)
  <2>1. PICK l \in {"read", "closed"} : Goto(c, l)
    BY <1>7 DEF OnWrite, do_read
  <2>2. sess' \in [Conns -> States] /\ cur' \in [Conns -> Requests] /\ Serving'
    BY <1>7, <2>1, Places, Stays DEF OnWrite
  <2>3. timer' \in [Conns -> {"off", "armed", "expired"}]
    BY <1>7 DEF OnWrite, do_read, TypeInv, TypeOK
  <2>4. asked' \in [Conns -> Seq(Requests)]
    <3>1. Tail(asked[c]) = inbox[c] /\ inbox[c] \in Seq(Requests)
      BY <1>0, <1>7, AfterFirst DEF OnWrite, TypeInv, TypeOK, StepInv, StepAt
    <3> QED
      BY <1>7, <3>1 DEF OnWrite, TypeInv, TypeOK
  <2>5. skewed' \subseteq Conns
    BY <1>7 DEF OnWrite, TypeInv, TypeOK
  <2> QED
    BY <1>7, <2>2, <2>3, <2>4, <2>5 DEF OnWrite, TypeInv, TypeOK, States
<1> QED
  BY <1>1, <1>2, <1>3, <1>4, <1>5, <1>6, <1>7 DEF Handler

\* Every step keeps the types.
LEMMA TypeNext == TypeInv /\ [Next]_vars => TypeOK' /\ Serving'
<1> SUFFICES ASSUME TypeInv, [Next]_vars PROVE TypeOK' /\ Serving'
  OBVIOUS
<1>1. CASE UNCHANGED vars
  BY <1>1 DEF TypeInv, TypeOK, Serving, vars, server, session, toggle, client
<1>2. CASE \E c \in Conns : Connect(c) \/ Ask(c) \/ HangUp(c)
  BY <1>2, TypeClient
<1>3. CASE \E c \in Conns : OnAccept(c) \/ Expire(c)
  BY <1>3, TypeListener
<1>4. CASE \E c \in Conns : Handler(c) \/ OnWrite(c)
  BY <1>4, TypeSession
<1>5. CASE OnAcceptError \/ Stop
  BY <1>5 DEF OnAcceptError, Stop, TypeInv, TypeOK, Serving, server, session, toggle, client
<1> QED
  BY <1>1, <1>2, <1>3, <1>4, <1>5 DEF Next

\* Only the session that takes the step can fall out of step.
LEMMA StepFrame ==
    ASSUME TypeInv, NEW c \in Conns, StepAt(c)',
           \A d \in Conns \ {c} : /\ sess'[d] = sess[d] /\ cur'[d] = cur[d]
                                 /\ inbox'[d] = inbox[d] /\ asked'[d] = asked[d]
    PROVE  StepInv'
  BY DEF TypeInv, StepInv, StepAt

\* Every step keeps answers and questions in step.
LEMMA StepNext == TypeInv /\ [Next]_vars => StepInv'
<1> SUFFICES ASSUME TypeInv, [Next]_vars PROVE StepInv'
  OBVIOUS
<1> USE DEF server, session, toggle, client
<1>0. /\ sess \in [Conns -> States] /\ cur \in [Conns -> Requests] /\ StepInv
      /\ inbox \in [Conns -> Seq(Requests)] /\ asked \in [Conns -> Seq(Requests)]
      /\ script \in [Conns -> Seq(Requests)]
  BY DEF TypeInv, TypeOK, States
<1>1. CASE UNCHANGED vars
  BY <1>0, <1>1 DEF StepInv, StepAt, vars
<1>2. CASE OnAcceptError \/ Stop
  BY <1>0, <1>2 DEF StepInv, StepAt, OnAcceptError, Stop
<1>3. ASSUME NEW c \in Conns, Connect(c) PROVE StepInv'
  <2>1. StepAt(c)'
    BY <1>0, <1>3, Places DEF StepInv, StepAt, Connect, Goto
  <2> QED
    BY <1>0, <1>3, <2>1, StepFrame DEF Connect, Goto
<1>4. ASSUME NEW c \in Conns, Ask(c) PROVE StepInv'
  <2>1. /\ script[c] \in Seq(Requests) /\ script[c] # <<>> /\ cur[c] \in Requests
        /\ inbox[c] \in Seq(Requests)
    BY <1>0, <1>4 DEF Ask
  <2>2. Head(script[c]) \in Requests
    BY <2>1
  <2>3. Append(<<cur[c]>> \o inbox[c], Head(script[c])) = <<cur[c]>> \o Append(inbox[c], Head(script[c]))
    BY <2>1, <2>2, AppendAfter
  <2>4. /\ inbox'[c] = Append(inbox[c], Head(script[c])) /\ asked'[c] = Append(asked[c], Head(script[c]))
        /\ sess' = sess /\ cur' = cur /\ sess[c] # "none"
    BY <1>0, <1>4, Places DEF Ask
  <2>5. StepAt(c)'
    BY <1>0, <2>3, <2>4 DEF StepInv, StepAt
  <2> QED
    BY <1>0, <1>4, <2>4, <2>5, StepFrame DEF Ask
<1>5. ASSUME NEW c \in Conns, HangUp(c) \/ Expire(c) PROVE StepInv'
  BY <1>0, <1>5 DEF StepInv, StepAt, HangUp, Expire
<1>6. ASSUME NEW c \in Conns, OnAccept(c) PROVE StepInv'
  <2>1. StepAt(c)'
    BY <1>0, <1>6, Places DEF StepInv, StepAt, OnAccept, do_read, Goto
  <2> QED
    BY <1>0, <1>6, <2>1, StepFrame DEF OnAccept, do_read, Goto
<1>7. ASSUME NEW c \in Conns, OnRead(c) PROVE StepInv'
  <2>1. inbox[c] \in Seq(Requests) /\ inbox[c] # <<>> /\ asked[c] = inbox[c]
    BY <1>0, <1>7 DEF OnRead, StepInv, StepAt
  <2>2. inbox[c] = <<Head(inbox[c])>> \o Tail(inbox[c]) /\ Head(inbox[c]) \in Requests
    BY <2>1, FirstAndRest
  <2>3. PICK l \in {"handle", "ws", "closed"} : Goto(c, l)
    <3>1. Head(inbox[c]).kind \in {"plain", "upgrade", "malformed"}
      BY <2>2, Kinds
    <3> QED
      BY <1>7, <3>1 DEF OnRead
  <2>4. /\ inbox'[c] = Tail(inbox[c]) /\ cur'[c] = Head(inbox[c]) /\ asked' = asked
        /\ sess'[c] \in {"handle", "ws", "closed"}
    BY <1>0, <1>7, <2>3 DEF OnRead, Goto
  <2>5. StepAt(c)'
    BY <2>1, <2>2, <2>4, Places DEF StepAt
  <2> QED
    BY <1>0, <1>7, <2>3, <2>5, StepFrame DEF OnRead, Goto
<1>8. ASSUME NEW c \in Conns, OnError(c) PROVE StepInv'
  <2>1. StepAt(c)'
    BY <1>0, <1>8, Places DEF StepAt, OnError, Goto
  <2> QED
    BY <1>0, <1>8, <2>1, StepFrame DEF OnError, Goto
<1>9. ASSUME NEW c \in Conns, Handle(c) \/ ToggleCheck(c) \/ ToggleAct(c) \/ ToggleReport(c)
      PROVE  StepInv'
  <2>1. PICK l \in {"act", "report", "write"} : Goto(c, l)
    BY <1>9 DEF Handle, ToggleCheck, ToggleAct, ToggleReport, Respond
  <2>2. UNCHANGED <<cur, inbox, asked>> /\ sess[c] \in Running
    BY <1>9, Places DEF Handle, ToggleCheck, ToggleAct, ToggleReport
  <2>3. StepAt(c)'
    BY <1>0, <2>1, <2>2, Places DEF StepInv, StepAt, Goto
  <2> QED
    BY <1>0, <2>1, <2>2, <2>3, StepFrame DEF Goto
<1>10. ASSUME NEW c \in Conns, OnWrite(c) PROVE StepInv'
  <2>1. PICK l \in {"read", "closed"} : Goto(c, l)
    BY <1>10 DEF OnWrite, do_read
  <2>2. asked[c] = <<cur[c]>> \o inbox[c] /\ inbox[c] \in Seq(Requests) /\ cur[c] \in Requests
    BY <1>0, <1>10 DEF OnWrite, StepInv, StepAt
  <2>3. asked'[c] = inbox[c] /\ inbox' = inbox /\ cur' = cur
    BY <1>0, <1>10, <2>2, AfterFirst DEF OnWrite
  <2>4. StepAt(c)'
    BY <1>0, <2>1, <2>3, Places DEF StepAt, Goto
  <2> QED
    BY <1>0, <1>10, <2>1, <2>4, StepFrame DEF OnWrite, Goto
<1> QED
  BY <1>1, <1>2, <1>3, <1>4, <1>5, <1>6, <1>7, <1>8, <1>9, <1>10 DEF Next, Handler

\* TypeInv holds throughout.
LEMMA TypeAlways == Spec => []TypeInv
<1>1. TypeInv /\ [Next]_vars => TypeInv'
  BY TypeNext, StepNext DEF TypeInv
<1> QED
  BY <1>1, TypeInit, PTL DEF Spec

\* The state of the server has its types in every behaviour; in particular every
\* response is one that make_resp or a file can give.
THEOREM TypeCorrect == Spec => []TypeOK
<1>1. TypeInv => TypeOK
  BY DEF TypeInv
<1> QED
  BY <1>1, TypeAlways, PTL

\* Whatever a client sends ahead, what it waits for is what the session serves
\* and then what it has not read, in that order.
THEOREM AnswersInStep == Spec => []InStep
<1>1. TypeInv => InStep
  BY DEF TypeInv, StepInv, StepAt, InStep
<1> QED
  BY <1>1, TypeAlways, PTL

-----------------------------------------------------------------------------
(* Documented statuses *)

\* A response is documented when it is made, and neither it nor its request
\* changes before it has gone out.
LEMMA DocumentedStep == TypeInv /\ AsDocumented /\ [Next]_vars => AsDocumented'
<1> SUFFICES ASSUME TypeInv, AsDocumented, [Next]_vars, NEW d \in Conns, sess'[d] = "write"
             PROVE  Documented(cur'[d], resp'[d].status)
  BY DEF AsDocumented
<1> USE DEF server, session, toggle, client
<1>0. /\ sess \in [Conns -> States] /\ cur \in [Conns -> Requests]
      /\ resp \in [Conns -> Responses]
  BY DEF TypeInv, TypeOK, States
<1>1. CASE sess'[d] = sess[d] /\ cur'[d] = cur[d] /\ resp'[d] = resp[d]
  BY <1>1 DEF AsDocumented
<1>2. CASE Handle(d)
  <2>1. PICK e \in Answers : Respond(d, handle_request(cur[d], e))
    BY <1>2 DEF Handle
  <2>2. cur[d] \in PlainRequests /\ cur' = cur
    BY <1>0, <1>2, Places, PlainFields DEF Handle, TypeInv, Serving
  <2>3. resp'[d] = handle_request(cur[d], e)
    BY <1>0, <2>1 DEF Respond
  <2> QED
    BY <2>2, <2>3, HandleAnswer
<1>3. CASE ToggleReport(d)
  <2>1. cur[d] \in PlainRequests /\ IsToggle(cur[d]) /\ cur' = cur
    BY <1>0, <1>3, Places, PlainFields DEF ToggleReport, TypeInv, Serving
  <2>2. resp'[d] = make_resp(cur[d], 200)
    BY <1>0, <1>3 DEF ToggleReport, Respond
  <2>3. Documented(cur[d], 200)
    BY <2>1, TorrentTarget, OtherDocumented DEF IsToggle
  <2> QED
    BY <2>1, <2>2, <2>3, MakeResp
<1>4. \/ sess'[d] = sess[d] /\ cur'[d] = cur[d] /\ resp'[d] = resp[d]
      \/ Handle(d) \/ ToggleReport(d)
  <2>1. CASE UNCHANGED vars \/ OnAcceptError \/ Stop
    BY <2>1 DEF vars, OnAcceptError, Stop
  <2>2. ASSUME NEW c \in Conns, c # d, Connect(c) \/ Ask(c) \/ HangUp(c) \/ OnAccept(c)
                 \/ Handler(c) \/ OnWrite(c) \/ Expire(c)
        PROVE  sess'[d] = sess[d] /\ cur'[d] = cur[d] /\ resp'[d] = resp[d]
    BY <1>0, <2>2 DEF Connect, Ask, HangUp, OnAccept, Handler, OnWrite, Expire, OnRead, OnError,
       Handle, ToggleCheck, ToggleAct, ToggleReport, Respond, do_read, Goto
  <2>3. CASE Ask(d) \/ HangUp(d) \/ Expire(d)
    BY <2>3 DEF Ask, HangUp, Expire
  <2>4. CASE Connect(d) \/ OnAccept(d) \/ OnError(d) \/ OnWrite(d) \/ ToggleCheck(d) \/ ToggleAct(d)
    <3>1. sess'[d] \in {"queued", "read", "closed", "act", "report"}
      BY <1>0, <2>4 DEF Connect, OnAccept, OnError, OnWrite, ToggleCheck, ToggleAct, do_read, Goto
    <3> QED
      BY <3>1
  <2>5. CASE OnRead(d)
    <3>1. inbox[d] \in Seq(Requests) /\ inbox[d] # <<>>
      BY <2>5 DEF OnRead, TypeInv, TypeOK
    <3>2. Head(inbox[d]).kind \in {"plain", "upgrade", "malformed"}
      BY <3>1, Kinds
    <3>3. sess'[d] \in {"handle", "ws", "closed"}
      BY <1>0, <2>5, <3>2 DEF OnRead, Goto
    <3> QED
      BY <3>3
  <2> QED
    BY <2>1, <2>2, <2>3, <2>4, <2>5 DEF Next, Handler
<1> QED
  BY <1>1, <1>2, <1>3, <1>4

\* Every request of the documented API is answered with a status given for it,
\* for every set of connections and whatever the torrent manager says.
THEOREM StatusesDocumented == Spec => []AsDocumented
<1>1. Init => AsDocumented
  BY DEF Init, AsDocumented
<1> QED
  BY <1>1, DocumentedStep, TypeAlways, PTL DEF Spec

-----------------------------------------------------------------------------
(* Toggles *)

\* A step that moves no session into or out of toggle_pause_resume, nor one with
\* its answer.
LEMMA ToggleFrame ==
    ASSUME ToggleInv, UNCHANGED toggle,
           \A d \in Conns : /\ sess'[d] \in Toggling => sess'[d] = sess[d]
                            /\ sess'[d] = "write" /\ IsToggle(cur'[d]) =>
                                  sess[d] = "write" /\ IsToggle(cur[d])
    PROVE  ToggleInv'
<1>1. UNCHANGED <<paused, saw, told, toggles, overlapped>>
  BY DEF toggle
<1>2. \A d \in Conns : /\ sess'[d] = "act" => sess[d] = "act"
                       /\ sess'[d] = "report" => sess[d] = "report"
  BY Places
<1> QED
  BY <1>1, <1>2, Zenon DEF ToggleInv

\* One more call of pause or resume.
LEMMA Parity == \A n \in Nat : (n + 1) % 2 = 1 <=> n % 2 # 1
  OBVIOUS

\* Every step keeps ToggleInv.
LEMMA ToggleNext == TypeInv /\ ToggleInv /\ [Next]_vars => ToggleInv'
<1> SUFFICES ASSUME TypeInv, ToggleInv, [Next]_vars PROVE ToggleInv'
  OBVIOUS
<1>0. /\ sess \in [Conns -> States] /\ cur \in [Conns -> Requests] /\ toggles \in Nat
      /\ paused \in BOOLEAN /\ saw \in [Conns -> BOOLEAN] /\ told \in [Conns -> BOOLEAN]
      /\ overlapped \in BOOLEAN
  BY DEF TypeInv, TypeOK, States
<1>1. CASE UNCHANGED vars \/ OnAcceptError \/ Stop
  BY <1>1, ToggleFrame DEF vars, OnAcceptError, Stop, session
<1>2. ASSUME NEW c \in Conns, Connect(c) \/ Ask(c) \/ HangUp(c) \/ Expire(c) PROVE ToggleInv'
  <2>1. UNCHANGED <<toggle, cur>>
    BY <1>2 DEF Connect, Ask, HangUp, Expire, session, client
  <2>2. \A d \in Conns : sess'[d] = sess[d] \/ sess'[d] = "queued"
    BY <1>0, <1>2 DEF Connect, Ask, HangUp, Expire, session, Goto
  <2> QED
    BY <2>1, <2>2, Places, ToggleFrame
<1>3. ASSUME NEW c \in Conns, OnAccept(c) \/ OnError(c) \/ OnWrite(c) PROVE ToggleInv'
  <2>1. UNCHANGED <<toggle, cur>>
    BY <1>3 DEF OnAccept, OnError, OnWrite
  <2>2. \A d \in Conns : sess'[d] = sess[d] \/ sess'[d] \in {"read", "closed"}
    BY <1>0, <1>3 DEF OnAccept, OnError, OnWrite, do_read, Goto
  <2> QED
    BY <2>1, <2>2, Places, ToggleFrame
<1>4. ASSUME NEW c \in Conns, OnRead(c) PROVE ToggleInv'
  <2>1. inbox[c] \in Seq(Requests) /\ inbox[c] # <<>>
    BY <1>4 DEF OnRead, TypeInv, TypeOK
  <2>2. Head(inbox[c]).kind \in {"plain", "upgrade", "malformed"}
    BY <2>1, Kinds
  <2>3. PICK l \in {"handle", "ws", "closed"} : Goto(c, l)
    BY <1>4, <2>2 DEF OnRead
  <2>4. \A d \in Conns : \/ sess'[d] = sess[d] /\ cur'[d] = cur[d]
                         \/ sess'[d] \in {"handle", "ws", "closed"}
    BY <1>0, <1>4, <2>3 DEF OnRead, Goto
  <2>5. UNCHANGED toggle
    BY <1>4 DEF OnRead
  <2> QED
    BY <2>4, <2>5, Places, ToggleFrame
<1>5. ASSUME NEW c \in Conns, Handle(c) PROVE ToggleInv'
  <2>1. UNCHANGED <<toggle, cur>> /\ ~IsToggle(cur[c])
    BY <1>5 DEF Handle
  <2>2. \A d \in Conns : sess'[d] = sess[d] \/ (d = c /\ sess'[d] = "write")
    BY <1>0, <1>5 DEF Handle, Respond, Goto
  <2> QED
    BY <2>1, <2>2, Places, ToggleFrame
<1>6. ASSUME NEW c \in Conns, ToggleCheck(c), ~overlapped' PROVE ToggleInv'
  <2>1. /\ UNCHANGED <<paused, told, toggles, cur>> /\ ~overlapped
        /\ \A d \in Conns : sess[d] \notin Toggling
    BY <1>6 DEF ToggleCheck
  <2>2. /\ sess'[c] = "act" /\ saw'[c] = paused
        /\ \A d \in Conns : d # c => sess'[d] = sess[d] /\ saw'[d] = saw[d]
    BY <1>0, <1>6 DEF ToggleCheck, Goto
  <2>3. \A d \in Conns : sess'[d] \in Toggling => d = c
    BY <2>1, <2>2
  <2>4. \A d \in Conns : d # c => sess'[d] # "act" /\ sess'[d] # "report"
    BY <2>3, Places
  <2> QED
    BY <2>1, <2>2, <2>3, <2>4, Zenon DEF ToggleInv
<1>7. ASSUME NEW c \in Conns, ToggleAct(c), ~overlapped PROVE ToggleInv'
  <2>1. UNCHANGED <<saw, told, overlapped, cur>> /\ sess[c] = "act" /\ toggles' = toggles + 1
        /\ paused' = ~saw[c]
    BY <1>7 DEF ToggleAct
  <2>2. /\ sess'[c] = "report" /\ \A d \in Conns : d # c => sess'[d] = sess[d]
    BY <1>0, <1>7 DEF ToggleAct, Goto
  <2>3. /\ paused <=> toggles % 2 = 1
        /\ saw[c] <=> paused
        /\ \A d \in Conns : sess[d] \in Toggling => d = c
        /\ \A d \in Conns : sess[d] = "write" /\ IsToggle(cur[d]) => (told[d] <=> ~saw[d])
    BY <1>7, <2>1, Places DEF ToggleInv
  <2>4. paused' <=> toggles' % 2 = 1
    <3>1. (toggles + 1) % 2 = 1 <=> toggles % 2 # 1
      BY <1>0, Parity
    <3> QED
      BY <2>1, <2>3, <3>1, Zenon
  <2>5. \A d \in Conns : d # c => sess'[d] \notin Toggling /\ sess'[d] # "act" /\ sess'[d] # "report"
    BY <2>2, <2>3, Places
  <2>6. saw'[c] <=> ~paused'
    BY <2>1, <2>3, Zenon
  <2>7. \A d \in Conns : sess'[d] = "write" /\ IsToggle(cur'[d]) => (told'[d] <=> ~saw'[d])
    BY <2>1, <2>2, <2>3
  <2>8. sess'[c] # "act"
    BY <2>2
  <2> QED
    BY <2>2, <2>4, <2>5, <2>6, <2>7, <2>8, Zenon DEF ToggleInv
<1>8. ASSUME NEW c \in Conns, ToggleReport(c), ~overlapped PROVE ToggleInv'
  <2>1. UNCHANGED <<saw, paused, toggles, overlapped, cur>> /\ sess[c] = "report"
        /\ told' = [told EXCEPT ![c] = paused]
    BY <1>8 DEF ToggleReport
  <2>2. /\ sess'[c] = "write" /\ \A d \in Conns : d # c => sess'[d] = sess[d] /\ told'[d] = told[d]
        /\ told'[c] = paused
    BY <1>0, <1>8, <2>1 DEF ToggleReport, Respond, Goto
  <2>3. /\ paused <=> toggles % 2 = 1
        /\ saw[c] <=> ~paused
        /\ \A d \in Conns : sess[d] \in Toggling => d = c
        /\ \A d \in Conns : sess[d] = "write" /\ IsToggle(cur[d]) => (told[d] <=> ~saw[d])
    BY <1>8, <2>1, Places DEF ToggleInv
  <2>4. \A d \in Conns : sess'[d] \notin Toggling /\ sess'[d] # "act" /\ sess'[d] # "report"
    BY <2>2, <2>3, Places
  <2>5. told'[c] <=> ~saw'[c]
    BY <2>1, <2>2, <2>3, Zenon
  <2>6. paused' <=> toggles' % 2 = 1
    BY <2>1, <2>3
  <2>7. \A d \in Conns : sess'[d] = "write" /\ IsToggle(cur'[d]) => (told'[d] <=> ~saw'[d])
    BY <2>1, <2>2, <2>3, <2>5
  <2> QED
    BY <2>4, <2>6, <2>7, Zenon DEF ToggleInv
<1>9. ASSUME NEW c \in Conns, ToggleCheck(c) \/ ToggleAct(c) \/ ToggleReport(c) PROVE ToggleInv'
  <2>1. overlapped => overlapped'
    BY <1>9 DEF ToggleCheck, ToggleAct, ToggleReport
  <2>2. CASE overlapped'
    BY <2>2 DEF ToggleInv
  <2>3. CASE ~overlapped'
    BY <1>6, <1>7, <1>8, <1>9, <2>1, <2>3
  <2> QED
    BY <2>2, <2>3
<1> QED
  BY <1>1, <1>2, <1>3, <1>4, <1>5, <1>9 DEF Next, Handler

\* As long as no two calls of toggle_pause_resume overlap, each turns the session
\* over and tells its client so.
THEOREM TogglesAreCounted == Spec => []TogglesCount
<1>1. Init => ToggleInv
  BY DEF Init, ToggleInv, Toggling
<1>2. TypeInv /\ ToggleInv => TogglesCount
  <2> SUFFICES ASSUME TypeInv, ToggleInv, ~overlapped
               PROVE  /\ paused <=> toggles % 2 = 1
                      /\ \A c \in Conns : sess[c] = "write" /\ IsToggle(cur[c]) => told[c] = ~saw[c]
    BY DEF TogglesCount
  <2>1. paused <=> toggles % 2 = 1
    BY DEF ToggleInv
  <2>2. ASSUME NEW c \in Conns, sess[c] = "write", IsToggle(cur[c]) PROVE told[c] = ~saw[c]
    <3>1. told[c] <=> ~saw[c]
      BY <2>2 DEF ToggleInv
    <3>2. told[c] \in BOOLEAN /\ saw[c] \in BOOLEAN
      BY DEF TypeInv, TypeOK
    <3> QED
      BY <3>1, <3>2
  <2> QED
    BY <2>1, <2>2
<1> QED
  BY <1>1, <1>2, ToggleNext, TypeAlways, PTL DEF Spec
=============================================================================
