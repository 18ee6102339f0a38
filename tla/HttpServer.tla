----------------------------- MODULE HttpServer -----------------------------
(***************************************************************************)
(* The HTTP server of kedge: the listener (listener.cpp), one http_session *)
(* per connection (http_session.cpp) and the stop of ioc in main.cpp.      *)
(*                                                                         *)
(* The io threads run handlers; the handlers of one session never overlap  *)
(* (it has a strand), so sess[c] is where the session of c is:             *)
(*   none, queued    not connected; connected and not accepted             *)
(*   read            async_read is outstanding                             *)
(*   handle          on_read is running handle_request                     *)
(*   act, report     ... inside toggle_pause_resume, before the calls of   *)
(*                   pause or resume and of the second is_paused           *)
(*   write           async_write is outstanding                            *)
(*   ws, closed      handed to a websocket_session (module Sync); gone     *)
(* Clients are the environment: each has a script of requests, may send    *)
(* them without waiting for answers, may stop reading, close or vanish.    *)
(***************************************************************************)
EXTENDS Routing, FiniteSets

CONSTANTS
    Conns,     \* connections
    Scripts,   \* what the clients may be out to send: a sequence of requests each
    Threads,   \* the number of io threads
    Faults     \* what may fail: "bind", "accept"

ASSUME ThreadsAssumption == Threads \in Nat \ {0}
ASSUME ScriptsAssumption == \A f \in Scripts : f \in [Conns -> Seq(Requests)]
ASSUME FaultsAssumption  == Faults \subseteq {"bind", "accept"}

VARIABLES
    listening,  \* the constructor of listener got as far as listen
    accept,     \* of async_accept: pending, failed, or idle when there is none
    sess,
    cur, resp,  \* cur[c], resp[c]: the request being served and its response
    timer,      \* timer[c] of stream_: off, armed, or expired
    stopped,    \* ioc
    \* toggle_pause_resume
    paused,     \* libtorrent's session is paused
    saw, told,  \* saw[c], told[c]: what the first and the second is_paused said
    \* clients
    script,     \* script[c]: requests the client has yet to send
    inbox,      \* inbox[c]: requests sent that the session has not read
    asked,      \* asked[c]: requests whose answer the client still waits for
    peer,       \* peer[c]: the client is up, has closed (eof) or vanished (reset)
    \* history
    skewed,     \* clients that were sent a body in answer to HEAD
    toggles,    \* calls of pause and resume
    overlapped  \* a toggle began inside another

server  == <<listening, accept, stopped>>
session == <<sess, cur, resp, timer>>
toggle  == <<paused, saw, told, toggles, overlapped>>
client  == <<script, inbox, asked, peer, skewed>>
vars    == <<server, session, toggle, client>>

-----------------------------------------------------------------------------

NoRequest  == [kind |-> "malformed"]
NoResponse == [status |-> 400, body |-> FALSE, keep |-> FALSE]

Toggling == {"act", "report"}
Running  == {"handle"} \cup Toggling              \* on_read occupies a thread
Open     == {"read", "write"} \cup Running

TypeOK ==
    /\ listening \in BOOLEAN /\ accept \in {"idle", "pending", "failed"}
    /\ sess \in [Conns -> Open \cup {"none", "queued", "ws", "closed"}]
    /\ cur \in [Conns -> Requests] /\ resp \in [Conns -> Responses]
    /\ timer \in [Conns -> {"off", "armed", "expired"}]
    /\ stopped \in BOOLEAN
    /\ paused \in BOOLEAN /\ saw \in [Conns -> BOOLEAN] /\ told \in [Conns -> BOOLEAN]
    /\ script \in [Conns -> Seq(Requests)]
    /\ inbox \in [Conns -> Seq(Requests)] /\ asked \in [Conns -> Seq(Requests)]
    /\ peer \in [Conns -> {"up", "eof", "reset"}]
    /\ skewed \subseteq Conns /\ toggles \in Nat /\ overlapped \in BOOLEAN

\* After listener::listener, where an error is only logged, and its run.
Init ==
    /\ listening \in {TRUE, "bind" \notin Faults} /\ accept = "pending"
    /\ sess = [c \in Conns |-> "none"]
    /\ cur = [c \in Conns |-> NoRequest] /\ resp = [c \in Conns |-> NoResponse]
    /\ timer = [c \in Conns |-> "off"]
    /\ stopped = FALSE
    /\ paused = FALSE
    /\ saw = [c \in Conns |-> FALSE] /\ told = [c \in Conns |-> FALSE]
    /\ script \in Scripts
    /\ inbox = [c \in Conns |-> <<>>] /\ asked = [c \in Conns |-> <<>>]
    /\ peer = [c \in Conns |-> "up"]
    /\ skewed = {} /\ toggles = 0 /\ overlapped = FALSE

Goto(c, l) == sess' = [sess EXCEPT ![c] = l]

\* A handler can start: ioc has not been stopped and a thread is free.
Ready == ~stopped /\ Cardinality({c \in Conns : sess[c] \in Running}) < Threads

-----------------------------------------------------------------------------
(* Clients and the network *)

\* Who has nothing to ask does not connect; who has need not ask, though.
Connect(c) ==
    /\ sess[c] = "none" /\ listening /\ script[c] # <<>>
    /\ Goto(c, "queued")
    /\ UNCHANGED <<server, cur, resp, timer, toggle, client>>

Ask(c) ==
    /\ sess[c] \in Open \cup {"queued"} /\ peer[c] = "up" /\ script[c] # <<>>
    /\ script' = [script EXCEPT ![c] = Tail(@)]
    /\ inbox' = [inbox EXCEPT ![c] = Append(@, Head(script[c]))]
    /\ asked' = [asked EXCEPT ![c] = Append(@, Head(script[c]))]
    /\ UNCHANGED <<server, session, toggle, peer, skewed>>

HangUp(c) ==
    /\ sess[c] \in Open \cup {"queued"} /\ peer[c] = "up"
    /\ \E how \in {"eof", "reset"} : peer' = [peer EXCEPT ![c] = how]
    /\ UNCHANGED <<server, session, toggle, script, inbox, asked, skewed>>

-----------------------------------------------------------------------------
(* listener *)

\* Mutant of do_read: no expires_after.
do_readUntimed(c) == Goto(c, "read") /\ UNCHANGED timer

\* http_session::do_read arms the timer of the stream: it covers this read and
\* the write that answers it.
do_read(c) == Goto(c, "read") /\ timer' = [timer EXCEPT ![c] = "armed"]

\* Mutant of OnAccept: accepts once.
OnAcceptOnce(c) ==
    /\ Ready /\ accept = "pending" /\ sess[c] = "queued"
    /\ accept' = "idle"
    /\ do_read(c)
    /\ UNCHANGED <<listening, stopped, cur, resp, toggle, client>>

\* on_accept starts a session and accepts again.
OnAccept(c) ==
    /\ Ready /\ accept = "pending" /\ sess[c] = "queued"
    /\ accept' = "pending"
    /\ do_read(c)
    /\ UNCHANGED <<listening, stopped, cur, resp, toggle, client>>

\* On an error it only returns: nothing accepts any more.
OnAcceptError ==
    /\ Ready /\ accept = "pending"
    /\ ~listening \/ "accept" \in Faults
    /\ accept' = "failed"
    /\ UNCHANGED <<listening, stopped, session, toggle, client>>

-----------------------------------------------------------------------------
(* http_session *)

\* on_read: an upgrade takes the socket away, a request that does not parse ends
\* the session, any other is handled on this thread.
OnRead(c) ==
    /\ Ready /\ sess[c] = "read" /\ inbox[c] # <<>>
    /\ LET r == Head(inbox[c]) IN
       /\ inbox' = [inbox EXCEPT ![c] = Tail(@)]
       /\ cur' = [cur EXCEPT ![c] = r]
       /\ Goto(c, CASE r.kind = "plain" -> "handle"
                    [] r.kind = "upgrade" -> "ws"
                    [] r.kind = "malformed" -> "closed")
    /\ UNCHANGED <<server, resp, timer, toggle, script, asked, peer, skewed>>

\* on_read or on_write with an error (end_of_stream, timeout or a lost
\* connection): nothing holds the session any more.  What was read or written
\* before the timer ran out may still be reported as done.
OnError(c) ==
    /\ Ready
    /\ \/ sess[c] \in {"read", "write"} /\ (timer[c] = "expired" \/ peer[c] = "reset")
       \/ sess[c] = "read" /\ peer[c] = "eof" /\ inbox[c] = <<>>
    /\ Goto(c, "closed")
    /\ UNCHANGED <<server, cur, resp, timer, toggle, client>>

Respond(c, a) == Goto(c, "write") /\ resp' = [resp EXCEPT ![c] = a]

\* handle_request up to its send, but for toggle_pause_resume.
Handle(c) ==
    /\ sess[c] = "handle" /\ ~IsToggle(cur[c])
    /\ \E e \in Answers : Respond(c, handle_request(cur[c], e))
    /\ UNCHANGED <<server, cur, timer, toggle, client>>

\* toggle_pause_resume: three calls into libtorrent, with no lock around them.
ToggleCheck(c) ==
    /\ sess[c] = "handle" /\ IsToggle(cur[c])
    /\ saw' = [saw EXCEPT ![c] = paused]
    /\ overlapped' = (overlapped \/ \E d \in Conns : sess[d] \in Toggling)
    /\ Goto(c, "act")
    /\ UNCHANGED <<server, cur, resp, timer, paused, told, toggles, client>>

\* Mutant of ToggleAct: resumes, and then pauses too (the else is lost).
ToggleActNoElse(c) ==
    /\ sess[c] = "act"
    /\ paused' = TRUE
    /\ toggles' = toggles + 1
    /\ Goto(c, "report")
    /\ UNCHANGED <<server, cur, resp, timer, saw, told, overlapped, client>>

ToggleAct(c) ==
    /\ sess[c] = "act"
    /\ paused' = ~saw[c]
    /\ toggles' = toggles + 1
    /\ Goto(c, "report")
    /\ UNCHANGED <<server, cur, resp, timer, saw, told, overlapped, client>>

ToggleReport(c) ==
    /\ sess[c] = "report"
    /\ told' = [told EXCEPT ![c] = paused]
    /\ Respond(c, make_resp(cur[c], 200))
    /\ UNCHANGED <<server, cur, timer, paused, saw, toggles, overlapped, client>>

\* Mutant of OnWrite: the answer is sent again when the next request is already there.
OnWriteTwice(c) ==
    /\ Ready /\ sess[c] = "write" /\ peer[c] # "reset"
    /\ asked' = [asked EXCEPT ![c] = Tail(@)]
    /\ IF inbox[c] = <<>> THEN do_read(c) ELSE UNCHANGED <<sess, timer>>
    /\ UNCHANGED <<server, cur, resp, toggle, script, inbox, peer, skewed>>

\* The response has gone out and on_write reads again or closes.  A client that
\* sent HEAD takes a body for the beginning of the next answer.
OnWrite(c) ==
    /\ Ready /\ sess[c] = "write" /\ peer[c] # "reset"
    /\ asked' = [asked EXCEPT ![c] = Tail(@)]
    /\ skewed' = IF cur[c].method = "head" /\ resp[c].body THEN skewed \cup {c} ELSE skewed
    /\ IF resp[c].keep THEN do_read(c) ELSE Goto(c, "closed") /\ UNCHANGED timer
    /\ UNCHANGED <<server, cur, resp, toggle, script, inbox, peer>>

\* The 30 seconds pass.
Expire(c) ==
    /\ sess[c] \in Open /\ timer[c] = "armed"
    /\ timer' = [timer EXCEPT ![c] = "expired"]
    /\ UNCHANGED <<server, sess, cur, resp, toggle, client>>

\* The signal handler sets quit, and shth_loader then stops ioc.
Stop ==
    /\ ~stopped
    /\ stopped' = TRUE
    /\ UNCHANGED <<listening, accept, session, toggle, client>>

-----------------------------------------------------------------------------

Handler(c) ==
    \/ OnRead(c) \/ OnError(c)
    \/ Handle(c) \/ ToggleCheck(c) \/ ToggleAct(c) \/ ToggleReport(c)

Next ==
    \/ \E c \in Conns :
        \/ Connect(c) \/ Ask(c) \/ HangUp(c)
        \/ OnAccept(c) \/ Handler(c) \/ OnWrite(c) \/ Expire(c)
    \/ OnAcceptError \/ Stop

\* The io threads run what is ready and time passes.  Nothing makes a client
\* send, read what it is sent, or close; nor is the server stopped.
Fairness ==
    \A c \in Conns : WF_vars(OnAccept(c)) /\ WF_vars(Handler(c)) /\ WF_vars(Expire(c))

Spec == Init /\ [][Next]_vars /\ Fairness

-----------------------------------------------------------------------------
(* Properties *)

\* Answers keep in step with questions: whatever a client sends ahead, the
\* requests it waits for are the one the session serves, until its answer has
\* gone out, and those the session has not read, in that order.  (Not so once a
\* client was sent a body in answer to HEAD.)
InStep ==
    \A c \in Conns \ skewed :
        /\ sess[c] \in Running \cup {"write"} => asked[c] = <<cur[c]>> \o inbox[c]
        /\ sess[c] = "read" => asked[c] = inbox[c]

\* Every documented request is answered with a status the README gives for it,
\* whatever the torrent manager says.
AsDocumented ==
    \A c \in Conns : sess[c] = "write" => Documented(cur[c], resp[c].status)

\* Each PUT /api/session/toggle turns the session over and says so, unless two of
\* them overlapped: toggle_pause_resume holds no lock between its three calls.
TogglesCount ==
    ~overlapped =>
        /\ paused <=> toggles % 2 = 1
        /\ \A c \in Conns : sess[c] = "write" /\ IsToggle(cur[c]) => told[c] = ~saw[c]

\* A connection waiting for accept is accepted, unless an accept failed before.
Served ==
    \A c \in Conns : sess[c] = "queued" ~> sess[c] # "queued" \/ accept = "failed" \/ stopped

\* No connection is held for ever, though its client may neither send, read nor
\* close: the timer armed in do_read ends the read and the write.
ConnectionsEnd ==
    \A c \in Conns : sess[c] \in Open ~> sess[c] \in {"ws", "closed"} \/ stopped
=============================================================================
