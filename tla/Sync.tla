-------------------------------- MODULE Sync --------------------------------
(***************************************************************************)
(* The live synchronisation of kedge: httpCaller's list of websocket       *)
(* sessions and its loop (handlers.cpp), the sessions (http_websocket.cpp) *)
(* and the end of main.cpp, which closes them.                             *)
(*                                                                         *)
(* Actors: the io threads, which run the handlers of one session one at a  *)
(* time (each session has a strand, so pc[s] is where the running handler  *)
(* of s is), the caller loop (thread caller_loader) and the main thread.   *)
(* A session lives as long as an asynchronous operation, a posted handler  *)
(* or a running handler holds it; its destructor then leaves the list.     *)
(*                                                                         *)
(* A sync document is abstracted to the number of the state of the world   *)
(* it was taken from: json_diff(a, b) turns a into b and spoils any other  *)
(* document, except that a patch from null replaces whatever it finds.     *)
(***************************************************************************)
EXTENDS Naturals, Integers, Sequences

CONSTANTS
    Clients,   \* connections that ask for an upgrade, one session each
    Faults,    \* what may end them: operations that fail, a signal
    MaxWorld,  \* bound: states of the world
    MaxVer,    \* bound: the caller loop starts no round at this version
    MaxChats   \* bound: messages clients send

ASSUME ClientsAssumption == "caller" \notin Clients /\ "main" \notin Clients
                            /\ "none" \notin Clients
ASSUME FaultsAssumption == Faults \subseteq {"accept", "read", "write", "signal"}
ASSUME BoundsAssumption == MaxWorld \in Nat /\ MaxVer \in Nat /\ MaxChats \in Nat

VARIABLES
    \* httpCaller
    mutex_,      \* who holds it: an actor, or "none"
    sessions_,
    sync_ver,
    curr_stats, prev_stats,
    \* threads
    pc,          \* pc[a]: the running handler of a session, or the caller loop
    fetched,     \* what getSyncStats returned to the caller loop
    answer,      \* what it returned to join
    out,         \* out[a]: the message that a is broadcasting
    vws,         \* vws[a]: sessions a has yet to send it to
    main, toClose,
    \* websocket_session
    life,        \* life[s]: does the object exist
    ops,         \* ops[s]: outstanding accept, read and close operations
    writes,      \* writes[s]: the number of outstanding async_write
    posted,      \* posted[s]: on_send calls the strand has yet to run
    queue_,
    closed,
    \* environment
    world, doc,  \* doc[s]: the document of the client of s
    quit, stopped,
    \* bounds and history
    chats,
    raced,       \* sessions that joined while a round was under way
    failed       \* sessions a write of which failed

state    == <<mutex_, sessions_, sync_ver, curr_stats, prev_stats>>
round    == <<fetched, answer, out, vws>>
ending   == <<main, toClose>>
io       == <<ops, writes, posted, queue_, closed>>
env      == <<world, quit, stopped, chats>>
vars     == <<state, pc, round, ending, life, io, env, doc, raced, failed>>

-----------------------------------------------------------------------------
(* Data *)

Null == 0    \* the JSON null
Torn == -1   \* a value read while it is assigned
None == -2   \* the client has received no document
Spoilt == -3 \* a document patched with a patch made from another one

Bodies == Nat \cup {Torn}
Docs   == Bodies \cup {None, Spoilt}

Casters == Clients \cup {"caller"}   \* the actors that broadcast

Messages == [kind : {"full", "delta", "chat"}, ver : Nat, from : Bodies, to : Bodies]
Full(v, d)     == [kind |-> "full", ver |-> v, from |-> Null, to |-> d]
Delta(v, a, b) == [kind |-> "delta", ver |-> v, from |-> a, to |-> b]
Chat           == [kind |-> "chat", ver |-> 0, from |-> Null, to |-> Null]

\* What a client makes of a message.
Apply(d, m) ==
    CASE m.kind = "chat" -> d
      [] m.kind = "full" -> m.to
      [] m.kind = "delta" /\ m.from \in {Null, d} -> m.to
      [] m.kind = "delta" /\ m.from \notin {Null, d} -> IF d = Torn THEN Torn ELSE Spoilt

HandlerPCs == {"idle", "join", "fetch", "query", "store", "full", "snap", "send"}
CallerPCs  == {"check", "bump", "stats", "assign", "build", "snap", "send", "save", "exit"}
MainPCs    == {"run", "close", "join", "destroy", "done", "aborted"}

TypeOK ==
    /\ mutex_ \in Clients \cup {"main", "none"}
    /\ sessions_ \subseteq Clients
    /\ sync_ver \in Nat
    /\ curr_stats \in Bodies /\ prev_stats \in Bodies
    /\ fetched \in Bodies /\ answer \in Bodies
    /\ pc \in [Casters -> HandlerPCs \cup CallerPCs]
    /\ out \in [Casters -> Messages]
    /\ vws \in [Casters -> SUBSET Clients]
    /\ main \in MainPCs /\ toClose \subseteq Clients
    /\ life \in [Clients -> {"new", "live", "freed"}]
    /\ ops \in [Clients -> SUBSET {"accept", "read", "close"}]
    /\ writes \in [Clients -> Nat]
    /\ posted \in [Clients -> Seq(Messages)]
    /\ queue_ \in [Clients -> Seq(Messages)]
    /\ closed \in [Clients -> BOOLEAN]
    /\ world \in Nat /\ doc \in [Clients -> Docs]
    /\ quit \in BOOLEAN /\ stopped \in BOOLEAN
    /\ chats \in Nat /\ raced \subseteq Clients /\ failed \subseteq Clients

Init ==
    /\ mutex_ = "none" /\ sessions_ = {} /\ sync_ver = 0
    /\ curr_stats = Null /\ prev_stats = Null /\ fetched = Null /\ answer = Null
    /\ pc = [a \in Casters |-> IF a = "caller" THEN "check" ELSE "idle"]
    /\ out = [a \in Casters |-> Chat] /\ vws = [a \in Casters |-> {}]
    /\ main = "run" /\ toClose = {}
    /\ life = [s \in Clients |-> "new"] /\ ops = [s \in Clients |-> {}]
    /\ writes = [s \in Clients |-> 0]
    /\ posted = [s \in Clients |-> <<>>] /\ queue_ = [s \in Clients |-> <<>>]
    /\ closed = [s \in Clients |-> FALSE]
    /\ world = 1 /\ doc = [s \in Clients |-> None]
    /\ quit = FALSE /\ stopped = FALSE
    /\ chats = 0 /\ raced = {} /\ failed = {}

Up == main \notin {"done", "aborted"}

\* Somebody has a shared_ptr to the session.
Referenced(s) == ops[s] # {} \/ writes[s] > 0 \/ posted[s] # <<>> \/ pc[s] # "idle"

\* weak_ptr::lock and shared_from_this succeed.
Lockable(s) == life[s] = "live" /\ Referenced(s)

Goto(a, l) == pc' = [pc EXCEPT ![a] = l]
Without(s, o) == ops' = [ops EXCEPT ![s] = @ \ {o}]

-----------------------------------------------------------------------------
(* websocket_session: the handlers that the strand of s starts               *)

\* A handler starts while ioc runs and no other handler of the session does.
Ready(s) == Up /\ ~stopped /\ life[s] = "live" /\ pc[s] = "idle"

\* http_session::on_read creates the session and run() accepts the handshake.
Run(s) ==
    /\ Up /\ ~stopped /\ life[s] = "new"
    /\ life' = [life EXCEPT ![s] = "live"]
    /\ ops' = [ops EXCEPT ![s] = {"accept"}]
    /\ UNCHANGED <<state, pc, round, ending, writes, posted, queue_, closed, env, doc, raced, failed>>

OnAccept(s) ==
    /\ Ready(s) /\ "accept" \in ops[s]
    /\ Without(s, "accept")
    /\ \/ Goto(s, "join")
       \/ "accept" \in Faults /\ UNCHANGED pc   \* the handshake failed
    /\ UNCHANGED <<state, round, ending, life, writes, posted, queue_, closed, env, doc, raced, failed>>

\* A message: unless the session is closed it is broadcast, and on_read reads on.
OnRead(s) ==
    /\ Ready(s) /\ "read" \in ops[s] /\ chats < MaxChats
    /\ chats' = chats + 1
    /\ Without(s, "read")
    /\ \/ /\ ~closed[s]
          /\ Goto(s, "snap") /\ out' = [out EXCEPT ![s] = Chat]
       \/ /\ closed[s]
          /\ UNCHANGED <<pc, out>>
    /\ UNCHANGED <<state, fetched, answer, vws, ending, life, writes, posted, queue_, closed,
                   world, quit, stopped, doc, raced, failed>>

\* The peer closed the websocket, or the connection failed or timed out.
OnReadError(s) ==
    /\ Ready(s) /\ "read" \in ops[s] /\ "read" \in Faults
    /\ Without(s, "read")
    /\ \E peer \in BOOLEAN : closed' = [closed EXCEPT ![s] = @ \/ peer]
    /\ UNCHANGED <<state, pc, round, ending, life, writes, posted, queue_, env, doc, raced, failed>>

\* Mutant of OnSend: it starts a write although one is under way.
OnSendAlways(s) ==
    /\ Ready(s) /\ posted[s] # <<>>
    /\ posted' = [posted EXCEPT ![s] = Tail(@)]
    /\ queue_' = [queue_ EXCEPT ![s] = Append(@, Head(posted[s]))]
    /\ writes' = [writes EXCEPT ![s] = @ + 1]
    /\ UNCHANGED <<state, pc, round, ending, life, ops, closed, env, doc, raced, failed>>

\* Only the first message of the queue starts a write.
OnSend(s) ==
    /\ Ready(s) /\ posted[s] # <<>>
    /\ posted' = [posted EXCEPT ![s] = Tail(@)]
    /\ queue_' = [queue_ EXCEPT ![s] = Append(@, Head(posted[s]))]
    /\ writes' = IF queue_[s] = <<>> THEN [writes EXCEPT ![s] = @ + 1] ELSE writes
    /\ UNCHANGED <<state, pc, round, ending, life, ops, closed, env, doc, raced, failed>>

\* Mutant of OnWrite: the queue is not looked at for the next message.
OnWriteLast(s) ==
    /\ Ready(s) /\ writes[s] > 0
    /\ doc' = [doc EXCEPT ![s] = Apply(@, Head(queue_[s]))]
    /\ queue_' = [queue_ EXCEPT ![s] = Tail(@)]
    /\ writes' = [writes EXCEPT ![s] = @ - 1]
    /\ UNCHANGED <<state, pc, round, ending, life, ops, posted, closed, env, raced, failed>>

\* The front of the queue has reached the client; the next write starts.
OnWrite(s) ==
    /\ Ready(s) /\ writes[s] > 0
    /\ doc' = [doc EXCEPT ![s] = Apply(@, Head(queue_[s]))]
    /\ queue_' = [queue_ EXCEPT ![s] = Tail(@)]
    /\ writes' = IF Len(queue_[s]) = 1 THEN [writes EXCEPT ![s] = @ - 1] ELSE writes
    /\ UNCHANGED <<state, pc, round, ending, life, ops, posted, closed, env, raced, failed>>

\* Mutant of OnWriteError: the message that failed is taken off the queue.
OnWriteErrorPops(s) ==
    /\ Ready(s) /\ writes[s] > 0 /\ "write" \in Faults
    /\ writes' = [writes EXCEPT ![s] = @ - 1]
    /\ queue_' = [queue_ EXCEPT ![s] = Tail(@)]
    /\ failed' = failed \cup {s}
    /\ UNCHANGED <<state, pc, round, ending, life, ops, posted, closed, env, doc, raced>>

\* A failed write leaves the queue as it is, so that no write follows it.
OnWriteError(s) ==
    /\ Ready(s) /\ writes[s] > 0 /\ "write" \in Faults
    /\ writes' = [writes EXCEPT ![s] = @ - 1]
    /\ failed' = failed \cup {s}
    /\ \/ /\ ops' = [ops EXCEPT ![s] = @ \cup {"close"}]   \* websocket::error::closed
          /\ closed' = [closed EXCEPT ![s] = TRUE]
       \/ UNCHANGED <<ops, closed>>
    /\ UNCHANGED <<state, pc, round, ending, life, posted, queue_, env, doc, raced>>

\* Mutant of OnClose: the handler of async_close ends a write.
OnCloseWrites(s) ==
    /\ Ready(s) /\ "close" \in ops[s]
    /\ Without(s, "close")
    /\ writes' = [writes EXCEPT ![s] = @ - 1]
    /\ UNCHANGED <<state, pc, round, ending, life, posted, queue_, closed, env, doc, raced, failed>>

\* The handler of async_close does nothing.
OnClose(s) ==
    /\ Ready(s) /\ "close" \in ops[s]
    /\ Without(s, "close")
    /\ UNCHANGED <<state, pc, round, ending, life, writes, posted, queue_, closed, env, doc, raced, failed>>

-----------------------------------------------------------------------------
(* httpCaller::join, under the mutex, in the on_accept of s                  *)

\* Mutant of JoinInsert: the mutex is held for the insertion only.
JoinInsertUnlocked(s) ==
    /\ Up /\ pc[s] = "join" /\ mutex_ = "none"
    /\ sessions_' = sessions_ \cup {s}
    /\ sync_ver' = sync_ver + 1
    /\ Goto(s, "fetch")
    /\ UNCHANGED <<mutex_, curr_stats, prev_stats, round, ending, life, io, env, doc, raced, failed>>

JoinInsert(s) ==
    /\ Up /\ pc[s] = "join" /\ mutex_ = "none"
    /\ mutex_' = s
    /\ sessions_' = sessions_ \cup {s}
    /\ sync_ver' = sync_ver + 1
    /\ Goto(s, "fetch")
    /\ UNCHANGED <<curr_stats, prev_stats, round, ending, life, io, env, doc, raced, failed>>

\* if (curr_stats.is_null())
JoinFetch(s) ==
    /\ Up /\ pc[s] = "fetch"
    /\ Goto(s, IF curr_stats = Null THEN "query" ELSE "full")
    /\ UNCHANGED <<state, round, ending, life, io, env, doc, raced, failed>>

\* curr_stats = getSyncStats(): the state is asked for ...
JoinQuery(s) ==
    /\ Up /\ pc[s] = "query"
    /\ answer' = world
    /\ Goto(s, "store")
    /\ UNCHANGED <<state, fetched, out, vws, ending, life, io, env, doc, raced, failed>>

\* ... and assigned, late or not; the caller loop may be assigning, too.
JoinStore(s) ==
    /\ Up /\ pc[s] = "store"
    /\ curr_stats' = IF pc["caller"] = "assign" THEN Torn ELSE answer
    /\ Goto(s, "full")
    /\ UNCHANGED <<mutex_, sessions_, sync_ver, prev_stats, round, ending, life, io, env, doc, raced, failed>>

\* The caller loop has taken the state of this round and not yet the sessions.
InRound == pc["caller"] \in {"assign", "build", "snap"}

\* Mutant of JoinFull: the document of the last round is sent.
JoinFullPrev(s) ==
    /\ Up /\ pc[s] = "full"
    /\ posted' = [posted EXCEPT ![s] = Append(@, Full(sync_ver, prev_stats))]
    /\ raced' = IF InRound THEN raced \cup {s} ELSE raced
    /\ mutex_' = "none"
    /\ ops' = [ops EXCEPT ![s] = @ \cup {"read"}]
    /\ Goto(s, "idle")
    /\ UNCHANGED <<sessions_, sync_ver, curr_stats, prev_stats, round, ending, life,
                   writes, queue_, closed, env, doc, failed>>

\* The full document is sent, the mutex is unlocked and on_accept reads.
JoinFull(s) ==
    /\ Up /\ pc[s] = "full"
    /\ posted' = [posted EXCEPT ![s] = Append(@, Full(sync_ver, curr_stats))]
    /\ raced' = IF InRound THEN raced \cup {s} ELSE raced
    /\ mutex_' = "none"
    /\ ops' = [ops EXCEPT ![s] = @ \cup {"read"}]
    /\ Goto(s, "idle")
    /\ UNCHANGED <<sessions_, sync_ver, curr_stats, prev_stats, round, ending, life,
                   writes, queue_, closed, env, doc, failed>>

\* Mutant of Leave: the mutex is not taken.
LeaveUnlocked(s) ==
    /\ Up /\ life[s] = "live" /\ ~Referenced(s)
    /\ sessions_' = sessions_ \ {s}
    /\ life' = [life EXCEPT ![s] = "freed"]
    /\ UNCHANGED <<mutex_, sync_ver, curr_stats, prev_stats, pc, round, ending, io, env, doc, raced, failed>>

\* ~websocket_session calls leave.
Leave(s) ==
    /\ Up /\ life[s] = "live" /\ ~Referenced(s) /\ mutex_ = "none"
    /\ sessions_' = sessions_ \ {s}
    /\ life' = [life EXCEPT ![s] = "freed"]
    /\ UNCHANGED <<mutex_, sync_ver, curr_stats, prev_stats, pc, round, ending, io, env, doc, raced, failed>>

-----------------------------------------------------------------------------
(* httpCaller::broadcast, called by on_read and by the caller loop           *)

\* The list is copied under the mutex ...
Snap(a) ==
    /\ Up /\ pc[a] = "snap" /\ mutex_ = "none"
    /\ vws' = [vws EXCEPT ![a] = sessions_]
    /\ Goto(a, "send")
    /\ UNCHANGED <<state, fetched, answer, out, ending, life, io, env, doc, raced, failed>>

\* ... and each session that still lives is sent the message without it.
SendTo(a, s) ==
    /\ Up /\ pc[a] = "send" /\ s \in vws[a]
    /\ vws' = [vws EXCEPT ![a] = @ \ {s}]
    /\ posted' = IF Lockable(s) THEN [posted EXCEPT ![s] = Append(@, out[a])] ELSE posted
    /\ UNCHANGED <<state, pc, fetched, answer, out, ending, life, ops, writes, queue_, closed, env, doc,
                   raced, failed>>

\* on_read clears its buffer and reads on.
ReadOn(s) ==
    /\ Up /\ pc[s] = "send" /\ vws[s] = {}
    /\ ops' = [ops EXCEPT ![s] = @ \cup {"read"}]
    /\ Goto(s, "idle")
    /\ UNCHANGED <<state, round, ending, life, writes, posted, queue_, closed, env, doc, raced, failed>>

Strand(s) == JoinInsert(s) \/ JoinFetch(s) \/ JoinQuery(s) \/ JoinStore(s)
             \/ JoinFull(s) \/ Snap(s) \/ (\E r \in Clients : SendTo(s, r)) \/ ReadOn(s)

-----------------------------------------------------------------------------
(* httpCaller::doLoop, while (!quit)                                         *)

CallerCheck ==
    /\ Up /\ pc["caller"] = "check"
    /\ \/ quit /\ Goto("caller", "exit")
       \/ ~quit /\ sessions_ # {} /\ sync_ver < MaxVer /\ Goto("caller", "bump")
    /\ UNCHANGED <<state, round, ending, life, io, env, doc, raced, failed>>

CallerBump ==
    /\ Up /\ pc["caller"] = "bump"
    /\ sync_ver' = sync_ver + 1
    /\ Goto("caller", "stats")
    /\ UNCHANGED <<mutex_, sessions_, curr_stats, prev_stats, round, ending, life, io, env, doc, raced, failed>>

\* The assignment to curr_stats begins ...
CallerStats ==
    /\ Up /\ pc["caller"] = "stats"
    /\ fetched' = world /\ curr_stats' = Torn
    /\ Goto("caller", "assign")
    /\ UNCHANGED <<mutex_, sessions_, sync_ver, prev_stats, answer, out, vws, ending, life, io, env, doc, raced, failed>>

\* ... and ends; a session that assigns it at the same time may spoil it.
CallerAssign ==
    /\ Up /\ pc["caller"] = "assign"
    /\ curr_stats' \in {fetched} \cup (IF \E s \in Clients : pc[s] = "store" THEN {Torn} ELSE {})
    /\ Goto("caller", "build")
    /\ UNCHANGED <<mutex_, sessions_, sync_ver, prev_stats, round, ending, life, io, env, doc, raced, failed>>

\* Mutant of CallerBuild: the arguments of json_diff are swapped.
CallerBuildSwapped ==
    /\ Up /\ pc["caller"] = "build"
    /\ out' = [out EXCEPT !["caller"] = Delta(sync_ver, curr_stats, prev_stats)]
    /\ Goto("caller", "snap")
    /\ UNCHANGED <<state, fetched, answer, vws, ending, life, io, env, doc, raced, failed>>

CallerBuild ==
    /\ Up /\ pc["caller"] = "build"
    /\ out' = [out EXCEPT !["caller"] = Delta(sync_ver, prev_stats, curr_stats)]
    /\ Goto("caller", "snap")
    /\ UNCHANGED <<state, fetched, answer, vws, ending, life, io, env, doc, raced, failed>>

\* Mutant of CallerSent: the loop over the copy ends one session early.
CallerSentEarly ==
    /\ Up /\ pc["caller"] = "send" /\ \E s \in Clients : vws["caller"] \subseteq {s}
    /\ Goto("caller", "save")
    /\ UNCHANGED <<state, round, ending, life, io, env, doc, raced, failed>>

CallerSent ==
    /\ Up /\ pc["caller"] = "send" /\ vws["caller"] = {}
    /\ Goto("caller", "save")
    /\ UNCHANGED <<state, round, ending, life, io, env, doc, raced, failed>>

CallerSave ==
    /\ Up /\ pc["caller"] = "save"
    /\ prev_stats' = curr_stats
    /\ Goto("caller", "check")
    /\ UNCHANGED <<mutex_, sessions_, sync_ver, curr_stats, round, ending, life, io, env, doc, raced, failed>>

Caller == CallerCheck \/ CallerBump \/ CallerStats \/ CallerAssign \/ CallerBuild
          \/ Snap("caller") \/ (\E s \in Clients : SendTo("caller", s))
          \/ CallerSent \/ CallerSave

-----------------------------------------------------------------------------
(* The end of main                                                           *)

\* The pump has seen quit and calls ioc.stop(): running handlers end, none starts.
StopIoc ==
    /\ Up /\ quit /\ ~stopped
    /\ stopped' = TRUE
    /\ UNCHANGED <<state, pc, round, ending, life, io, world, quit, chats, doc, raced, failed>>

\* closeWS, from when ioc.run() has returned, holds the mutex ...
BeginClose ==
    /\ main = "run" /\ stopped /\ mutex_ = "none"
    /\ mutex_' = "main" /\ toClose' = sessions_
    /\ main' = "close"
    /\ UNCHANGED <<sessions_, sync_ver, curr_stats, prev_stats, pc, round, life, io, env, doc, raced, failed>>

\* ... and closes session after session; shared_from_this of a session that
\* nobody holds any more throws, and nothing catches it.
CloseOne(s) ==
    /\ main = "close" /\ s \in toClose
    /\ toClose' = toClose \ {s}
    /\ \/ /\ Lockable(s)
          /\ ops' = [ops EXCEPT ![s] = @ \cup {"close"}]
          /\ closed' = [closed EXCEPT ![s] = TRUE]
          /\ UNCHANGED main
       \/ /\ ~Lockable(s)
          /\ main' = "aborted"
          /\ UNCHANGED <<ops, closed>>
    /\ UNCHANGED <<state, pc, round, life, writes, posted, queue_, env, doc, raced, failed>>

\* Mutant of EndClose: the mutex is held until main returns.
EndCloseLocked ==
    /\ main = "close" /\ toClose = {}
    /\ main' = "join"
    /\ UNCHANGED <<state, pc, round, toClose, life, io, env, doc, raced, failed>>

EndClose ==
    /\ main = "close" /\ toClose = {}
    /\ mutex_' = "none"
    /\ main' = "join"
    /\ UNCHANGED <<sessions_, sync_ver, curr_stats, prev_stats, pc, round, toClose, life, io, env, doc, raced, failed>>

\* The threads are joined and ~io_context drops the handlers it still has.
DestroyIoc ==
    /\ main = "join" /\ pc["caller"] = "exit"
    /\ \A s \in Clients : pc[s] = "idle" /\ (life[s] = "live" => Referenced(s))
    /\ ops' = [s \in Clients |-> {}]
    /\ writes' = [s \in Clients |-> 0]
    /\ posted' = [s \in Clients |-> <<>>]
    /\ main' = "destroy"
    /\ UNCHANGED <<state, pc, round, toClose, life, queue_, closed, env, doc, raced, failed>>

Return ==
    /\ main = "destroy" /\ \A s \in Clients : life[s] # "live"
    /\ main' = "done"
    /\ UNCHANGED <<state, pc, round, toClose, life, io, env, doc, raced, failed>>

Main == BeginClose \/ (\E s \in Clients : CloseOne(s)) \/ EndClose \/ DestroyIoc \/ Return

-----------------------------------------------------------------------------
(* Environment *)

\* The torrents change.
WorldStep ==
    /\ Up /\ world < MaxWorld
    /\ world' = world + 1
    /\ UNCHANGED <<state, pc, round, ending, life, io, quit, stopped, chats, doc, raced, failed>>

Signal ==
    /\ Up /\ ~stopped /\ ~quit /\ "signal" \in Faults
    /\ quit' = TRUE
    /\ UNCHANGED <<state, pc, round, ending, life, io, world, stopped, chats, doc, raced, failed>>

Session(s) == Run(s) \/ OnAccept(s) \/ OnRead(s) \/ OnReadError(s) \/ OnSend(s)
              \/ OnWrite(s) \/ OnWriteError(s) \/ OnClose(s) \/ Leave(s) \/ Strand(s)

Next == (\E s \in Clients : Session(s)) \/ Caller \/ StopIoc \/ Main \/ WorldStep \/ Signal

\* Every thread runs on; a handshake and a write end, with success or not (the
\* websocket has timeouts).  Clients need not send, close or upgrade.
Fairness ==
    /\ \A s \in Clients : /\ WF_vars(Strand(s))
                          /\ WF_vars(OnAccept(s))
                          /\ WF_vars(OnSend(s))
                          /\ WF_vars(OnWrite(s) \/ OnWriteError(s))
                          /\ WF_vars(Leave(s))
    /\ WF_vars(Caller)
    /\ WF_vars(StopIoc)
    /\ WF_vars(Main)

Spec == Init /\ [][Next]_vars /\ Fairness

-----------------------------------------------------------------------------
(* Properties *)

\* The raw pointers in sessions_ and in closeWS's loop are of sessions whose
\* destructor has not returned.
SessionsExist == \A s \in sessions_ \cup toClose : life[s] = "live"

\* beast allows one async_write at a time on a stream, of a buffer that stays:
\* at most one is outstanding, and its buffer is the front of queue_.
WriteExclusive ==
    \A s \in Clients : writes[s] <= 1 /\ (writes[s] = 1 => queue_[s] # <<>>)

\* Something is on its way to the client of s, and what comes first.
Pending(s) == queue_[s] # <<>> \/ posted[s] # <<>>
First(s)   == IF queue_[s] # <<>> THEN queue_[s][1] ELSE posted[s][1]

\* What a client receives first is the full document: the mutex keeps every
\* broadcast, of the loop or of another client, behind it.
FullComesFirst ==
    \A s \in Clients : doc[s] = None /\ Pending(s) => First(s).kind = "full"

\* Patches fit: a client that did not join between the fetch and the snapshot of
\* a round applies each delta to the document it was made from.
PatchesFit == \A s \in Clients \ raced : doc[s] \notin {Torn, Spoilt}

\* Nobody misses a round: between two rounds a session that join is through with
\* and that has written all it was sent has shown its client curr_stats, whatever
\* joined, left or failed while the list was copied and walked through.
UpToDate ==
    ~stopped /\ pc["caller"] \in {"check", "bump", "stats", "exit"} =>
        \A s \in sessions_ \ raced :
            Lockable(s) /\ pc[s] \notin {"fetch", "query", "store", "full"} /\ ~Pending(s)
                => doc[s] = curr_stats

\* No client goes back in time: each message makes its document a later state of
\* the world, or the same, though curr_stats is read and written without a lock.
NeverBackwards == [][\A s \in Clients \ raced' : doc[s] <= doc'[s]]_vars

\* on_write returns on an error without touching the queue, and on_send starts
\* no write while the queue has something in it: a session whose write failed
\* never writes again, though it stays in the list and is sent every message,
\* and no other session with something to send is without a write.
FailedIsSilent ==
    main \notin {"destroy", "done"} =>
        \A s \in Clients : s \in failed <=> (queue_[s] # <<>> /\ writes[s] = 0)

\* What was sent is written, unless the program ends or a write of that session
\* failed.
SentIsWritten ==
    \A s \in Clients :
        posted[s] # <<>> ~> \/ posted[s] = <<>> /\ queue_[s] = <<>>
                            \/ stopped \/ s \in failed

\* The end of main is reached or the process is aborted: no lock or join waits
\* for ever.
MainEnds == quit ~> main \in {"done", "aborted"}

\* "Capture SIGINT and SIGTERM to perform a clean shutdown": closing the sessions
\* does not abort the process.
CloseIsClean == main # "aborted"

=============================================================================
