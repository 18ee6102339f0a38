----------------------------- MODULE SyncProofs -----------------------------
(***************************************************************************)
(* Proofs about Sync, for every set of clients, every set of faults and    *)
(* every value of the bounds.                                              *)
(***************************************************************************)
EXTENDS Sync, SequenceTheorems, TLAPS

-----------------------------------------------------------------------------
(* Type correctness *)

\* The messages that are sent are messages.
LEMMA MessagesMade ==
    /\ Chat \in Messages
    /\ \A v \in Nat, d \in Bodies : Full(v, d) \in Messages
    /\ \A v \in Nat, a, b \in Bodies : Delta(v, a, b) \in Messages
  BY DEF Messages, Chat, Full, Delta, Bodies, Null

\* A message makes a document of a document.
LEMMA ApplyType ==
    ASSUME NEW d \in Docs, NEW m \in Messages
    PROVE  /\ Apply(d, m) \in Docs
           /\ d # None \/ m.kind = "full" => Apply(d, m) # None
<1>1. m.kind \in {"full", "delta", "chat"} /\ m.to \in Bodies
  BY DEF Messages
<1>2. \A b \in Bodies : b \in Docs /\ b # None
  BY DEF Docs, Bodies, None, Torn
<1>3. Torn \in Docs /\ Spoilt \in Docs /\ Torn # None /\ Spoilt # None
  BY DEF Docs, Bodies, None, Torn, Spoilt
<1>4. CASE m.kind = "chat"
  BY <1>4 DEF Apply
<1>5. CASE m.kind = "full"
  BY <1>1, <1>2, <1>5 DEF Apply
<1>6. CASE m.kind = "delta" /\ m.from \in {Null, d}
  BY <1>1, <1>2, <1>6 DEF Apply
<1>7. CASE m.kind = "delta" /\ m.from \notin {Null, d}
  BY <1>3, <1>7 DEF Apply
<1> QED
  BY <1>1, <1>4, <1>5, <1>6, <1>7

\* A queue with a message more at its end, or less at its front.
LEMMA QueueSteps ==
    ASSUME NEW f \in [Clients -> Seq(Messages)], NEW s \in Clients, NEW m \in Messages
    PROVE  /\ [f EXCEPT ![s] = Append(@, m)] \in [Clients -> Seq(Messages)]
           /\ f[s] # <<>> => /\ Head(f[s]) \in Messages
                             /\ [f EXCEPT ![s] = Tail(@)] \in [Clients -> Seq(Messages)]
<1>1. Append(f[s], m) \in Seq(Messages)
  OBVIOUS
<1>2. ASSUME f[s] # <<>>
      PROVE  Head(f[s]) \in Messages /\ Tail(f[s]) \in Seq(Messages)
  BY <1>2
<1> QED
  BY <1>1, <1>2

\* TypeOK is not inductive: what on_write takes from the queue is a message
\* only because an outstanding write has its buffer there.
TypeInv == TypeOK /\ WriteExclusive

\* The handlers that the strand of a session starts.
LEMMA TypeHandler ==
    ASSUME TypeInv, NEW s \in Clients,
           Run(s) \/ OnAccept(s) \/ OnRead(s) \/ OnReadError(s) \/ OnSend(s)
           \/ OnWrite(s) \/ OnWriteError(s) \/ OnClose(s)
    PROVE  TypeInv'
<1> USE DEF state, round, ending, io, env, TypeInv
<1>1. CASE Run(s)
  BY <1>1 DEF TypeOK, WriteExclusive, Run
<1>2. CASE OnAccept(s)
  BY <1>2 DEF TypeOK, WriteExclusive, OnAccept, Without, Goto, Casters, HandlerPCs
<1>3. CASE OnRead(s)
  <2>1. /\ s \in Casters /\ "snap" \in HandlerPCs /\ Chat \in Messages
        /\ pc \in [Casters -> HandlerPCs \cup CallerPCs] /\ out \in [Casters -> Messages]
    BY MessagesMade DEF TypeOK, Casters, HandlerPCs
  <2>2. pc' \in [Casters -> HandlerPCs \cup CallerPCs] /\ out' \in [Casters -> Messages]
    <3>1. CASE pc' = pc /\ out' = out
      BY <2>1, <3>1
    <3>2. CASE pc' = [pc EXCEPT ![s] = "snap"] /\ out' = [out EXCEPT ![s] = Chat]
      BY <2>1, <3>2
    <3> QED
      BY <1>3, <3>1, <3>2 DEF OnRead, Goto
  <2> QED
    BY <1>3, <2>2 DEF TypeOK, WriteExclusive, OnRead, Without
<1>4. CASE OnReadError(s)
  BY <1>4 DEF TypeOK, WriteExclusive, OnReadError, Without
<1>5. CASE OnSend(s)
  <2>1. /\ posted' \in [Clients -> Seq(Messages)] /\ queue_' \in [Clients -> Seq(Messages)]
        /\ \A r \in Clients : queue_[r] # <<>> => queue_'[r] # <<>>
        /\ queue_'[s] # <<>>
    BY <1>5, QueueSteps DEF TypeOK, OnSend
  <2>2. queue_[s] = <<>> => writes[s] = 0
    <3>1. writes[s] \in Nat
      BY DEF TypeOK
    <3>2. writes[s] <= 1 /\ (writes[s] = 1 => queue_[s] # <<>>)
      BY DEF WriteExclusive
    <3> QED
      BY <3>1, <3>2
  <2>3. writes' \in [Clients -> Nat] /\ WriteExclusive'
    BY <1>5, <2>1, <2>2 DEF TypeOK, WriteExclusive, OnSend
  <2> QED
    BY <1>5, <2>1, <2>3 DEF TypeOK, OnSend
<1>6. CASE OnWrite(s)
  <2>1. writes[s] = 1 /\ queue_[s] # <<>> /\ queue_[s] \in Seq(Messages)
    BY <1>6 DEF TypeOK, WriteExclusive, OnWrite
  <2>2. Head(queue_[s]) \in Messages /\ queue_' \in [Clients -> Seq(Messages)]
    BY <1>6, <2>1, QueueSteps, MessagesMade DEF TypeOK, OnWrite
  <2>3. doc' \in [Clients -> Docs]
    BY <1>6, <2>2, ApplyType DEF TypeOK, OnWrite
  <2>4. Len(queue_[s]) # 1 => Tail(queue_[s]) # <<>>
    <3>1. Len(queue_[s]) \in Nat /\ Len(Tail(queue_[s])) = Len(queue_[s]) - 1
      BY <2>1
    <3>2. Len(queue_[s]) # 1 => Len(Tail(queue_[s])) # 0
      BY <3>1
    <3>3. Len(<<>>) = 0
      OBVIOUS
    <3> QED
      BY <3>2, <3>3, Zenon
  <2>5. queue_'[s] = Tail(queue_[s]) /\ \A r \in Clients \ {s} : queue_'[r] = queue_[r]
    BY <1>6 DEF TypeOK, OnWrite
  <2>6. writes' \in [Clients -> Nat] /\ WriteExclusive'
    BY <1>6, <2>1, <2>4, <2>5 DEF TypeOK, WriteExclusive, OnWrite
  <2> QED
    BY <1>6, <2>2, <2>3, <2>6 DEF TypeOK, OnWrite
<1>7. CASE OnWriteError(s)
  <2>1. writes' \in [Clients -> Nat] /\ WriteExclusive'
    BY <1>7 DEF TypeOK, WriteExclusive, OnWriteError
  <2>2. ops' \in [Clients -> SUBSET {"accept", "read", "close"}]
    <3>1. ops' = ops \/ ops' = [ops EXCEPT ![s] = @ \cup {"close"}]
      BY <1>7 DEF OnWriteError
    <3>2. ops \in [Clients -> SUBSET {"accept", "read", "close"}]
      BY DEF TypeOK
    <3>3. ops[s] \cup {"close"} \in SUBSET {"accept", "read", "close"}
      BY <3>2
    <3> QED
      BY <3>1, <3>2, <3>3
  <2>3. closed' \in [Clients -> BOOLEAN]
    BY <1>7 DEF TypeOK, OnWriteError
  <2> QED
    BY <1>7, <2>1, <2>2, <2>3 DEF TypeOK, OnWriteError
<1>8. CASE OnClose(s)
  BY <1>8 DEF TypeOK, WriteExclusive, OnClose, Without
<1> QED
  BY <1>1, <1>2, <1>3, <1>4, <1>5, <1>6, <1>7, <1>8

\* The steps of a running handler and of the destructor.
LEMMA TypeStrand ==
    ASSUME TypeInv, NEW s \in Clients, Strand(s) \/ Leave(s)
    PROVE  TypeInv'
<1> USE DEF state, round, ending, io, env, TypeInv
<1>1. CASE JoinInsert(s)
  BY <1>1 DEF TypeOK, WriteExclusive, JoinInsert, Goto, Casters, HandlerPCs
<1>2. CASE JoinFetch(s)
  BY <1>2 DEF TypeOK, WriteExclusive, JoinFetch, Goto, Casters, HandlerPCs
<1>3. CASE JoinQuery(s) \/ JoinStore(s)
  <2>1. CASE JoinQuery(s)
    BY <2>1 DEF TypeOK, WriteExclusive, JoinQuery, Goto, Casters, HandlerPCs, Bodies
  <2>2. CASE JoinStore(s)
    BY <2>2 DEF TypeOK, WriteExclusive, JoinStore, Goto, Casters, HandlerPCs, Bodies
  <2> QED
    BY <1>3, <2>1, <2>2
<1>4. CASE JoinFull(s)
  <2>1. posted' \in [Clients -> Seq(Messages)]
    BY <1>4, MessagesMade, QueueSteps DEF TypeOK, JoinFull
  <2> QED
    BY <1>4, <2>1 DEF TypeOK, WriteExclusive, JoinFull, Goto, Casters, HandlerPCs
<1>5. CASE Snap(s)
  BY <1>5 DEF TypeOK, WriteExclusive, Snap, Goto, Casters, HandlerPCs
<1>6. CASE \E r \in Clients : SendTo(s, r)
  <2>1. PICK r \in Clients : SendTo(s, r)
    BY <1>6
  <2>2. s \in Casters /\ out[s] \in Messages
    BY DEF TypeOK, Casters
  <2>3. posted' \in [Clients -> Seq(Messages)]
    BY <2>1, <2>2, QueueSteps DEF TypeOK, SendTo
  <2> QED
    BY <2>1, <2>2, <2>3 DEF TypeOK, WriteExclusive, SendTo
<1>7. CASE ReadOn(s)
  BY <1>7 DEF TypeOK, WriteExclusive, ReadOn, Goto, Casters, HandlerPCs
<1>8. CASE Leave(s)
  BY <1>8 DEF TypeOK, WriteExclusive, Leave
<1> QED
  BY <1>1, <1>2, <1>3, <1>4, <1>5, <1>6, <1>7, <1>8 DEF Strand

\* The caller loop.
LEMMA TypeCaller == TypeInv /\ Caller => TypeInv'
<1> SUFFICES ASSUME TypeInv, Caller PROVE TypeInv'
  OBVIOUS
<1> USE DEF state, round, ending, io, env, TypeInv
<1>1. "caller" \in Casters
  BY DEF Casters
<1>2. CASE CallerCheck
  BY <1>1, <1>2 DEF TypeOK, WriteExclusive, CallerCheck, Goto, CallerPCs
<1>3. CASE CallerBump
  BY <1>1, <1>3 DEF TypeOK, WriteExclusive, CallerBump, Goto, CallerPCs
<1>4. CASE CallerStats
  BY <1>1, <1>4 DEF TypeOK, WriteExclusive, CallerStats, Goto, CallerPCs, Bodies
<1>5. CASE CallerAssign
  <2>1. curr_stats' \in Bodies
    BY <1>5 DEF TypeOK, CallerAssign, Bodies
  <2> QED
    BY <1>1, <1>5, <2>1 DEF TypeOK, WriteExclusive, CallerAssign, Goto, CallerPCs
<1>6. CASE CallerBuild
  BY <1>1, <1>6, MessagesMade DEF TypeOK, WriteExclusive, CallerBuild, Goto, CallerPCs
<1>7. CASE Snap("caller")
  BY <1>1, <1>7 DEF TypeOK, WriteExclusive, Snap, Goto, CallerPCs
<1>8. CASE \E r \in Clients : SendTo("caller", r)
  <2>1. PICK r \in Clients : SendTo("caller", r)
    BY <1>8
  <2>2. out["caller"] \in Messages
    BY <1>1 DEF TypeOK
  <2>3. posted' \in [Clients -> Seq(Messages)]
    BY <2>1, <2>2, QueueSteps DEF TypeOK, SendTo
  <2> QED
    BY <1>1, <2>1, <2>3 DEF TypeOK, WriteExclusive, SendTo
<1>9. CASE CallerSent
  BY <1>1, <1>9 DEF TypeOK, WriteExclusive, CallerSent, Goto, CallerPCs
<1>10. CASE CallerSave
  BY <1>1, <1>10 DEF TypeOK, WriteExclusive, CallerSave, Goto, CallerPCs
<1> QED
  BY <1>2, <1>3, <1>4, <1>5, <1>6, <1>7, <1>8, <1>9, <1>10 DEF Caller

\* The end of main, the signal and the world.
LEMMA TypeMain == TypeInv /\ (Main \/ StopIoc \/ WorldStep \/ Signal) => TypeInv'
<1> SUFFICES ASSUME TypeInv, Main \/ StopIoc \/ WorldStep \/ Signal PROVE TypeInv'
  OBVIOUS
<1> USE DEF state, round, ending, io, env, TypeInv
<1>1. CASE BeginClose
  BY <1>1 DEF TypeOK, WriteExclusive, BeginClose, MainPCs
<1>2. CASE \E s \in Clients : CloseOne(s)
  <2>1. PICK s \in Clients : CloseOne(s)
    BY <1>2
  <2>2. ops' \in [Clients -> SUBSET {"accept", "read", "close"}]
    <3>1. ops' = ops \/ ops' = [ops EXCEPT ![s] = @ \cup {"close"}]
      BY <2>1 DEF CloseOne
    <3>2. ops \in [Clients -> SUBSET {"accept", "read", "close"}]
      BY DEF TypeOK
    <3>3. ops[s] \cup {"close"} \in SUBSET {"accept", "read", "close"}
      BY <3>2
    <3> QED
      BY <3>1, <3>2, <3>3
  <2>3. closed' \in [Clients -> BOOLEAN]
    BY <2>1 DEF TypeOK, CloseOne
  <2> QED
    BY <2>1, <2>2, <2>3 DEF TypeOK, WriteExclusive, CloseOne, MainPCs
<1>3. CASE EndClose
  BY <1>3 DEF TypeOK, WriteExclusive, EndClose, MainPCs
<1>4. CASE DestroyIoc
  BY <1>4 DEF TypeOK, WriteExclusive, DestroyIoc, MainPCs
<1>5. CASE Return
  BY <1>5 DEF TypeOK, WriteExclusive, Return, MainPCs
<1>6. CASE StopIoc
  BY <1>6 DEF TypeOK, WriteExclusive, StopIoc
<1>7. CASE WorldStep
  BY <1>7 DEF TypeOK, WriteExclusive, WorldStep
<1>8. CASE Signal
  BY <1>8 DEF TypeOK, WriteExclusive, Signal
<1> QED
  BY <1>1, <1>2, <1>3, <1>4, <1>5, <1>6, <1>7, <1>8 DEF Main

\* Every step keeps TypeInv.
LEMMA TypeStep == TypeInv /\ [Next]_vars => TypeInv'
<1> SUFFICES ASSUME TypeInv, [Next]_vars PROVE TypeInv'
  OBVIOUS
<1>1. CASE \E s \in Clients : Session(s)
  BY <1>1, TypeHandler, TypeStrand DEF Session
<1>2. CASE Caller
  BY <1>2, TypeCaller
<1>3. CASE Main \/ StopIoc \/ WorldStep \/ Signal
  BY <1>3, TypeMain
<1>4. CASE UNCHANGED vars
  BY <1>4 DEF TypeInv, TypeOK, WriteExclusive, vars, state, round, ending, io, env
<1> QED
  BY <1>1, <1>2, <1>3, <1>4 DEF Next

\* It always holds.
LEMMA TypeAlways == Spec => []TypeInv
<1>1. Init => TypeInv
  <2> SUFFICES ASSUME Init PROVE TypeInv
    OBVIOUS
  <2>1. /\ pc \in [Casters -> HandlerPCs \cup CallerPCs]
        /\ out \in [Casters -> Messages] /\ vws \in [Casters -> SUBSET Clients]
    BY MessagesMade DEF Init, HandlerPCs, CallerPCs
  <2>2. /\ ops \in [Clients -> SUBSET {"accept", "read", "close"}]
        /\ life \in [Clients -> {"new", "live", "freed"}]
        /\ writes \in [Clients -> Nat] /\ WriteExclusive
        /\ posted \in [Clients -> Seq(Messages)] /\ queue_ \in [Clients -> Seq(Messages)]
    BY DEF Init, WriteExclusive
  <2>3. /\ curr_stats \in Bodies /\ prev_stats \in Bodies /\ fetched \in Bodies /\ answer \in Bodies
        /\ doc \in [Clients -> Docs] /\ world \in Nat /\ chats \in Nat /\ sync_ver \in Nat
    BY DEF Init, Bodies, Docs, Null, None
  <2>4. closed \in [Clients -> BOOLEAN] /\ quit \in BOOLEAN /\ stopped \in BOOLEAN
    BY Zenon DEF Init
  <2>5. /\ sessions_ = {} /\ toClose = {} /\ raced = {} /\ failed = {}
        /\ mutex_ \in Clients \cup {"main", "none"} /\ main \in MainPCs
    BY DEF Init, MainPCs
  <2> QED
    BY <2>1, <2>2, <2>3, <2>4, <2>5 DEF TypeInv, TypeOK
<1> QED
  BY <1>1, TypeStep, PTL DEF Spec

\* Every variable of httpCaller, of the sessions and of the threads keeps its
\* type, whatever the interleaving of handlers, broadcasts and shutdown.
THEOREM SyncTypeCorrect == Spec => []TypeOK
  BY TypeAlways, PTL DEF TypeInv

\* on_send and on_write never have two writes of one session outstanding, and
\* the buffer of the one they have stays at the front of queue_.
THEOREM WritesAreExclusive == Spec => []WriteExclusive
  BY TypeAlways, PTL DEF TypeInv

-----------------------------------------------------------------------------
(* A failed write *)

\* The handlers that read or change the queue or the writes of a session.
LEMMA SilentHandler ==
    ASSUME TypeInv, FailedIsSilent, NEW s \in Clients,
           OnSend(s) \/ OnWrite(s) \/ OnWriteError(s)
    PROVE  FailedIsSilent'
<1> USE DEF state, round, ending, io, env, TypeInv
<1>1. main' = main /\ Up
  BY DEF OnSend, OnWrite, OnWriteError, Ready
<1>2. SUFFICES ASSUME main \notin {"destroy", "done"}, NEW r \in Clients
               PROVE  r \in failed' <=> (queue_'[r] # <<>> /\ writes'[r] = 0)
  BY <1>1 DEF FailedIsSilent
<1>3. r \in failed <=> (queue_[r] # <<>> /\ writes[r] = 0)
  BY <1>2 DEF FailedIsSilent
<1>4. /\ writes \in [Clients -> Nat] /\ queue_ \in [Clients -> Seq(Messages)]
      /\ posted \in [Clients -> Seq(Messages)]
      /\ writes[s] <= 1 /\ (writes[s] = 1 => queue_[s] # <<>>)
  BY DEF TypeOK, WriteExclusive
<1>5. CASE OnSend(s)
  <2>1. queue_' = [queue_ EXCEPT ![s] = Append(@, Head(posted[s]))] /\ failed' = failed
    BY <1>5 DEF OnSend
  <2>2. queue_'[s] # <<>>
    BY <1>4, <2>1
  <2>3. writes' = IF queue_[s] = <<>> THEN [writes EXCEPT ![s] = @ + 1] ELSE writes
    BY <1>5 DEF OnSend
  <2>4. CASE r = s
    BY <1>3, <1>4, <2>1, <2>2, <2>3, <2>4
  <2>5. CASE r # s
    BY <1>3, <1>4, <2>1, <2>3, <2>5
  <2> QED
    BY <2>4, <2>5
<1>6. CASE OnWrite(s)
  <2>1. writes[s] = 1 /\ queue_[s] # <<>> /\ queue_[s] \in Seq(Messages) /\ failed' = failed
    BY <1>4, <1>6 DEF OnWrite
  <2>2. queue_' = [queue_ EXCEPT ![s] = Tail(@)]
    BY <1>6 DEF OnWrite
  <2>3. writes' = IF Len(queue_[s]) = 1 THEN [writes EXCEPT ![s] = @ - 1] ELSE writes
    BY <1>6 DEF OnWrite
  <2>4. CASE r # s
    BY <1>3, <1>4, <2>1, <2>2, <2>3, <2>4
  <2>5. CASE r = s
    <3>1. Len(queue_[s]) \in Nat /\ Len(Tail(queue_[s])) = Len(queue_[s]) - 1
          /\ Tail(queue_[s]) \in Seq(Messages)
      BY <2>1
    <3>2. CASE Len(queue_[s]) = 1
      <4>1. Tail(queue_[s]) = <<>>
        <5>1. Len(Tail(queue_[s])) \notin Nat \ {0}
          BY <3>1, <3>2
        <5>2. \A q \in Seq(Messages) : q # <<>> => Len(q) \in Nat \ {0}
          BY EmptySeq, Zenon
        <5> QED
          BY <3>1, <5>1, <5>2, Zenon
      <4>2. queue_'[s] = <<>>
        BY <1>4, <2>2, <4>1
      <4>3. s \notin failed
        BY <1>3, <2>1, <2>5
      <4> QED
        BY <2>1, <2>5, <4>2, <4>3
    <3>3. CASE Len(queue_[s]) # 1
      <4>1. writes'[s] = 1
        BY <2>1, <2>3, <3>3
      <4>2. s \notin failed
        BY <1>3, <2>1, <2>5
      <4> QED
        BY <2>1, <2>5, <4>1, <4>2
    <3> QED
      BY <3>2, <3>3
  <2> QED
    BY <2>4, <2>5
<1>7. CASE OnWriteError(s)
  <2>1. /\ writes[s] = 1 /\ queue_[s] # <<>> /\ queue_' = queue_
        /\ writes' = [writes EXCEPT ![s] = @ - 1] /\ failed' = failed \cup {s}
    BY <1>4, <1>7 DEF OnWriteError
  <2> QED
    BY <1>3, <1>4, <2>1
<1> QED
  BY <1>5, <1>6, <1>7

\* Nothing else does, before ~io_context drops what is outstanding.
LEMMA SilentStep == TypeInv /\ FailedIsSilent /\ [Next]_vars => FailedIsSilent'
<1> SUFFICES ASSUME TypeInv, FailedIsSilent, [Next]_vars PROVE FailedIsSilent'
  OBVIOUS
<1> USE DEF state, round, ending, io, env
<1>1. CASE UNCHANGED <<main, queue_, writes, failed>>
  BY <1>1 DEF FailedIsSilent
<1>2. CASE \E s \in Clients : Session(s)
  <2>1. PICK s \in Clients : Session(s)
    BY <1>2
  <2>2. CASE OnSend(s) \/ OnWrite(s) \/ OnWriteError(s)
    BY <2>2, SilentHandler
  <2>3. CASE Run(s) \/ OnAccept(s) \/ OnRead(s) \/ OnReadError(s) \/ OnClose(s) \/ Leave(s)
    BY <1>1, <2>3 DEF Run, OnAccept, OnRead, OnReadError, OnClose, Leave
  <2>4. CASE Strand(s)
    BY <1>1, <2>4 DEF Strand, JoinInsert, JoinFetch, JoinQuery, JoinStore, JoinFull, Snap,
                     SendTo, ReadOn
  <2> QED
    BY <2>1, <2>2, <2>3, <2>4 DEF Session
<1>3. CASE Caller
  BY <1>1, <1>3 DEF Caller, CallerCheck, CallerBump, CallerStats, CallerAssign, CallerBuild,
     Snap, SendTo, CallerSent, CallerSave
<1>4. CASE StopIoc \/ WorldStep \/ Signal
  BY <1>1, <1>4 DEF StopIoc, WorldStep, Signal
<1>5. CASE Main
  <2>1. CASE DestroyIoc \/ Return
    BY <2>1 DEF DestroyIoc, Return, FailedIsSilent
  <2>2. CASE BeginClose \/ (\E s \in Clients : CloseOne(s)) \/ EndClose
    <3>1. UNCHANGED <<queue_, writes, failed>> /\ main \notin {"destroy", "done"}
      BY <2>2 DEF BeginClose, CloseOne, EndClose
    <3> QED
      BY <3>1 DEF FailedIsSilent
  <2> QED
    BY <1>5, <2>1, <2>2 DEF Main
<1>6. CASE UNCHANGED vars
  BY <1>1, <1>6 DEF vars
<1> QED
  BY <1>2, <1>3, <1>4, <1>5, <1>6 DEF Next

\* A session whose write failed never writes again, and every other one that
\* has something queued is writing it.
THEOREM FailedStaysSilent == Spec => []FailedIsSilent
<1>1. Init => FailedIsSilent
  BY DEF Init, FailedIsSilent
<1> QED
  BY <1>1, TypeAlways, SilentStep, PTL DEF Spec

-----------------------------------------------------------------------------
(* The pointers in sessions_ *)

\* A running handler keeps its session; join and closeWS have the mutex; and
\* closeWS visits sessions that are still in the list.
SessionInv ==
    /\ SessionsExist
    /\ \A s \in Clients : /\ pc[s] # "idle" => life[s] = "live"
                          /\ pc[s] \in {"fetch", "query", "store", "full"} => mutex_ = s
    /\ main = "close" => mutex_ = "main"
    /\ toClose # {} => main \in {"close", "aborted"}
    /\ toClose \subseteq sessions_

\* A handler that starts keeps SessionInv.
LEMMA SessionHandler ==
    ASSUME TypeOK, SessionInv, NEW s \in Clients,
           Run(s) \/ OnAccept(s) \/ OnRead(s) \/ OnReadError(s) \/ OnSend(s)
           \/ OnWrite(s) \/ OnWriteError(s) \/ OnClose(s)
    PROVE  SessionInv'
<1> USE DEF state, round, ending, io, env
<1>1. pc \in [Casters -> HandlerPCs \cup CallerPCs] /\ Clients \subseteq Casters
  BY DEF TypeOK, Casters
<1>2. life \in [Clients -> {"new", "live", "freed"}] /\ sessions_ \subseteq Clients
  BY DEF TypeOK
<1>3. CASE Run(s)
  BY <1>2, <1>3 DEF SessionInv, SessionsExist, Run
<1>4. CASE OnAccept(s)
  BY <1>1, <1>4 DEF SessionInv, SessionsExist, OnAccept, Ready, Goto
<1>5. CASE OnRead(s)
  BY <1>1, <1>5 DEF SessionInv, SessionsExist, OnRead, Ready, Goto
<1>6. CASE OnReadError(s) \/ OnSend(s) \/ OnWrite(s) \/ OnWriteError(s) \/ OnClose(s)
  <2>1. UNCHANGED <<state, pc, ending, life>>
    BY <1>6 DEF OnReadError, OnSend, OnWrite, OnWriteError, OnClose
  <2> QED
    BY <2>1 DEF SessionInv, SessionsExist
<1> QED
  BY <1>3, <1>4, <1>5, <1>6

\* So does the rest of a handler, and the destructor.
LEMMA SessionStrand ==
    ASSUME TypeOK, SessionInv, NEW s \in Clients, Strand(s) \/ Leave(s)
    PROVE  SessionInv'
<1> USE DEF state, round, ending, io, env
<1>1. pc \in [Casters -> HandlerPCs \cup CallerPCs] /\ Clients \subseteq Casters
  BY DEF TypeOK, Casters
<1>2. life \in [Clients -> {"new", "live", "freed"}] /\ sessions_ \subseteq Clients
  BY DEF TypeOK
<1>3. \A r \in Clients : r # "main" /\ r # "none"
  BY ClientsAssumption
<1>4. CASE JoinInsert(s)
  BY <1>1, <1>2, <1>3, <1>4 DEF SessionInv, SessionsExist, JoinInsert, Goto
<1>5. CASE JoinFetch(s)
  BY <1>1, <1>5 DEF SessionInv, SessionsExist, JoinFetch, Goto
<1>6. CASE JoinQuery(s) \/ JoinStore(s)
  BY <1>1, <1>6 DEF SessionInv, SessionsExist, JoinQuery, JoinStore, Goto
<1>7. CASE JoinFull(s)
  BY <1>1, <1>3, <1>7 DEF SessionInv, SessionsExist, JoinFull, Goto
<1>8. CASE Snap(s)
  BY <1>1, <1>8 DEF SessionInv, SessionsExist, Snap, Goto
<1>9. CASE \E r \in Clients : SendTo(s, r)
  BY <1>9 DEF SessionInv, SessionsExist, SendTo
<1>10. CASE ReadOn(s)
  BY <1>1, <1>10 DEF SessionInv, SessionsExist, ReadOn, Goto
<1>11. CASE Leave(s)
  <2>1. toClose = {} /\ pc[s] = "idle"
    BY <1>11 DEF SessionInv, Leave, Up, Referenced
  <2> QED
    BY <1>2, <1>11, <2>1 DEF SessionInv, SessionsExist, Leave
<1> QED
  BY <1>4, <1>5, <1>6, <1>7, <1>8, <1>9, <1>10, <1>11 DEF Strand

\* So does the caller loop.
LEMMA SessionCaller == TypeOK /\ SessionInv /\ Caller => SessionInv'
<1> SUFFICES ASSUME TypeOK, SessionInv, Caller PROVE SessionInv'
  OBVIOUS
<1>1. /\ UNCHANGED <<mutex_, sessions_, main, toClose, life>>
      /\ pc' = pc \/ \E l : pc' = [pc EXCEPT !["caller"] = l]
  BY DEF Caller, CallerCheck, CallerBump, CallerStats, CallerAssign, CallerBuild, Snap,
         SendTo, CallerSent, CallerSave, Goto, state, ending
<1>2. \A s \in Clients : pc'[s] = pc[s]
  BY <1>1, ClientsAssumption DEF TypeOK, Casters
<1> QED
  BY <1>1, <1>2 DEF SessionInv, SessionsExist

\* So does main.
LEMMA SessionMain ==
    TypeOK /\ SessionInv /\ (Main \/ StopIoc \/ WorldStep \/ Signal) => SessionInv'
<1> SUFFICES ASSUME TypeOK, SessionInv, Main \/ StopIoc \/ WorldStep \/ Signal
             PROVE  SessionInv'
  OBVIOUS
<1> USE DEF state, round, ending, io, env
<1>1. CASE BeginClose
  BY <1>1, ClientsAssumption DEF SessionInv, SessionsExist, BeginClose
<1>2. CASE \E s \in Clients : CloseOne(s)
  BY <1>2 DEF SessionInv, SessionsExist, CloseOne
<1>3. CASE EndClose
  BY <1>3, ClientsAssumption DEF SessionInv, SessionsExist, EndClose
<1>4. CASE DestroyIoc \/ Return
  BY <1>4 DEF SessionInv, SessionsExist, DestroyIoc, Return
<1>5. CASE StopIoc \/ WorldStep \/ Signal
  BY <1>5 DEF SessionInv, SessionsExist, StopIoc, WorldStep, Signal
<1> QED
  BY <1>1, <1>2, <1>3, <1>4, <1>5 DEF Main

\* So does every step.
LEMMA SessionStep == TypeOK /\ SessionInv /\ [Next]_vars => SessionInv'
<1> SUFFICES ASSUME TypeOK, SessionInv, [Next]_vars PROVE SessionInv'
  OBVIOUS
<1>1. CASE \E s \in Clients : Session(s)
  BY <1>1, SessionHandler, SessionStrand DEF Session
<1>2. CASE Caller
  BY <1>2, SessionCaller
<1>3. CASE Main \/ StopIoc \/ WorldStep \/ Signal
  BY <1>3, SessionMain
<1>4. CASE UNCHANGED vars
  BY <1>4 DEF SessionInv, SessionsExist, vars, state, ending
<1> QED
  BY <1>1, <1>2, <1>3, <1>4 DEF Next

\* It always holds.
LEMMA SessionAlways == Spec => []SessionInv
<1>1. Init => SessionInv
  BY ClientsAssumption DEF Init, SessionInv, SessionsExist, Casters
<1> QED
  BY <1>1, SessionStep, SyncTypeCorrect, PTL DEF Spec

\* broadcast and closeWS never follow a pointer to a session that is gone.
THEOREM SessionsAlwaysExist == Spec => []SessionsExist
  BY SessionAlways, PTL DEF SessionInv

-----------------------------------------------------------------------------
(* The first message *)

\* The full document was sent to s.
Welcomed(s) == doc[s] # None \/ Pending(s)

\* Whoever a broadcast can reach has been welcomed: join keeps the mutex from
\* the insertion until the full document is posted.  ~io_context drops posted
\* messages, but then no broadcast is left.
FirstInv ==
    /\ FullComesFirst
    /\ main \notin {"destroy", "done"} =>
          /\ \A s \in sessions_ : mutex_ # s => Welcomed(s)
          /\ \A a \in Casters : \A s \in vws[a] : Welcomed(s)
    /\ main # "run" => stopped
    /\ main \in {"destroy", "done"} =>
          pc["caller"] = "exit" /\ \A s \in Clients : pc[s] = "idle"

\* The front of a queue with a message more.
LEMMA AppendFront ==
    ASSUME NEW q \in Seq(Messages), NEW m \in Messages
    PROVE  /\ Append(q, m) # <<>>
           /\ Append(q, m)[1] = IF q # <<>> THEN q[1] ELSE m
<1>1. Len(q) \in Nat /\ Len(Append(q, m)) = Len(q) + 1
  OBVIOUS
<1>2. Len(<<>>) = 0 /\ Len(Append(q, m)) # 0
  BY <1>1
<1>3. Append(q, m) # <<>>
  BY <1>2, Zenon
<1>4. CASE q = <<>>
  BY <1>4
<1>5. CASE q # <<>>
  <2>1. Len(q) # 0
    BY <1>5
  <2> QED
    BY <1>1, <1>5, <2>1
<1> QED
  BY <1>3, <1>4, <1>5

\* What posting a message to s changes.
LEMMA Posting ==
    ASSUME TypeOK, NEW s \in Clients, NEW m \in Messages,
           posted' = [posted EXCEPT ![s] = Append(@, m)], UNCHANGED <<queue_, doc>>
    PROVE  /\ \A r \in Clients \ {s} : Pending(r)' = Pending(r) /\ First(r)' = First(r)
           /\ Pending(s)'
           /\ First(s)' = IF Pending(s) THEN First(s) ELSE m
<1>1. posted[s] \in Seq(Messages) /\ posted'[s] = Append(posted[s], m)
  BY DEF TypeOK
<1>2. posted'[s] # <<>>
  BY <1>1, AppendFront
<1>3. posted'[s][1] = IF posted[s] # <<>> THEN posted[s][1] ELSE m
  BY <1>1, AppendFront
<1>4. \A r \in Clients \ {s} : posted'[r] = posted[r]
  BY DEF TypeOK
<1> QED
  BY <1>2, <1>3, <1>4 DEF Pending, First

\* A message after the first full document keeps FirstInv.
LEMMA FirstPosting ==
    ASSUME TypeOK, FirstInv, NEW s \in Clients, NEW m \in Messages,
           posted' = [posted EXCEPT ![s] = Append(@, m)], UNCHANGED <<queue_, doc>>,
           Welcomed(s) \/ m.kind = "full"
    PROVE  FullComesFirst' /\ (\A r \in Clients : Welcomed(r) => Welcomed(r)') /\ Welcomed(s)'
<1>1. /\ \A r \in Clients \ {s} : Pending(r)' = Pending(r) /\ First(r)' = First(r)
      /\ Pending(s)'
      /\ First(s)' = IF Pending(s) THEN First(s) ELSE m
  BY Posting
<1> QED
  BY <1>1 DEF FirstInv, FullComesFirst, Welcomed

\* on_send moves a message from the strand to the queue, behind the others.
LEMMA FirstOnSend ==
    ASSUME TypeOK, FirstInv, NEW s \in Clients, OnSend(s)
    PROVE  FirstInv'
<1>1. posted[s] \in Seq(Messages) /\ queue_[s] \in Seq(Messages) /\ posted[s] # <<>>
  BY DEF TypeOK, OnSend
<1>2. /\ queue_'[s] = Append(queue_[s], posted[s][1])
      /\ posted[s][1] \in Messages
  BY <1>1 DEF TypeOK, OnSend
<1>3. /\ queue_'[s] # <<>>
      /\ queue_'[s][1] = IF queue_[s] # <<>> THEN queue_[s][1] ELSE posted[s][1]
  BY <1>1, <1>2, AppendFront
<1>4. Pending(s) /\ Pending(s)' /\ First(s)' = First(s)
  BY <1>1, <1>3 DEF Pending, First
<1>5. \A r \in Clients \ {s} : Pending(r)' = Pending(r) /\ First(r)' = First(r)
  BY DEF TypeOK, OnSend, Pending, First
<1>6. UNCHANGED <<doc, sessions_, mutex_, vws, main, stopped, pc>>
  BY DEF OnSend, state, round, ending, env
<1>7. FullComesFirst'
  BY <1>4, <1>5, <1>6 DEF FirstInv, FullComesFirst
<1>8. \A r \in Clients : Welcomed(r) => Welcomed(r)'
  BY <1>4, <1>5, <1>6 DEF Welcomed
<1>9. sessions_ \subseteq Clients /\ \A a \in Casters : vws[a] \subseteq Clients
  BY DEF TypeOK
<1> QED
  BY <1>6, <1>7, <1>8, <1>9 DEF FirstInv

\* After the first message that on_write completes the client has a document.
LEMMA FirstOnWrite ==
    ASSUME TypeInv, FirstInv, NEW s \in Clients, OnWrite(s)
    PROVE  FirstInv'
<1>1. writes[s] = 1 /\ queue_[s] # <<>> /\ queue_[s] \in Seq(Messages) /\ doc[s] \in Docs
  BY DEF TypeInv, TypeOK, WriteExclusive, OnWrite
<1>2. Head(queue_[s]) \in Messages /\ Head(queue_[s]) = First(s) /\ Pending(s)
  BY <1>1 DEF First, Pending
<1>3. doc'[s] = Apply(doc[s], Head(queue_[s]))
  BY DEF TypeInv, TypeOK, OnWrite
<1>4. doc'[s] # None
  BY <1>1, <1>2, <1>3, ApplyType DEF FirstInv, FullComesFirst
<1>5. \A r \in Clients \ {s} : doc'[r] = doc[r] /\ queue_'[r] = queue_[r] /\ posted'[r] = posted[r]
  BY DEF TypeInv, TypeOK, OnWrite
<1>6. UNCHANGED <<sessions_, mutex_, vws, main, stopped, pc>>
  BY DEF OnWrite, state, round, ending, env
<1>7. FullComesFirst'
  BY <1>4, <1>5 DEF FirstInv, FullComesFirst, Pending, First
<1>8. \A r \in Clients : Welcomed(r) => Welcomed(r)'
  BY <1>4, <1>5 DEF Welcomed, Pending
<1>9. sessions_ \subseteq Clients /\ \A a \in Casters : vws[a] \subseteq Clients
  BY DEF TypeInv, TypeOK
<1> QED
  BY <1>6, <1>7, <1>8, <1>9 DEF FirstInv

\* The other handlers change no document and no queue, and start only while
\* ioc runs.
LEMMA FirstHandler ==
    ASSUME TypeOK, FirstInv, NEW s \in Clients,
           Run(s) \/ OnAccept(s) \/ OnRead(s) \/ OnReadError(s) \/ OnWriteError(s) \/ OnClose(s)
    PROVE  FirstInv'
<1>1. UNCHANGED <<doc, queue_, posted, sessions_, mutex_, vws, main, stopped>>
  BY DEF Run, OnAccept, OnRead, OnReadError, OnWriteError, OnClose, state, round, ending, io, env
<1>2. main \in {"run"}
  BY DEF Run, OnAccept, OnRead, OnReadError, OnWriteError, OnClose, Ready, FirstInv
<1> QED
  BY <1>1, <1>2 DEF FirstInv, FullComesFirst, Welcomed, Pending, First

\* Joins, broadcasts and destructors.
LEMMA FirstStrand ==
    ASSUME TypeOK, SessionInv, FirstInv, NEW s \in Clients, Strand(s) \/ Leave(s)
    PROVE  FirstInv'
<1> USE DEF state, round, ending, io, env
<1>1. /\ pc \in [Casters -> HandlerPCs \cup CallerPCs] /\ Clients \subseteq Casters
      /\ sessions_ \subseteq Clients /\ vws \in [Casters -> SUBSET Clients]
      /\ "caller" \notin Clients
  BY ClientsAssumption DEF TypeOK, Casters
<1>2. \A r \in Clients : r # "main" /\ r # "none"
  BY ClientsAssumption
<1>3. CASE JoinInsert(s)
  BY <1>1, <1>2, <1>3 DEF FirstInv, FullComesFirst, Welcomed, Pending, First, JoinInsert, Goto
<1>4. CASE JoinFetch(s) \/ JoinQuery(s) \/ JoinStore(s)
  BY <1>1, <1>4 DEF FirstInv, FullComesFirst, Welcomed, Pending, First, JoinFetch, JoinQuery,
                    JoinStore, Goto
<1>5. CASE JoinFull(s)
  <2>1. Full(sync_ver, curr_stats) \in Messages /\ Full(sync_ver, curr_stats).kind = "full"
    BY MessagesMade DEF TypeOK, Full
  <2>2. /\ FullComesFirst' /\ (\A r \in Clients : Welcomed(r) => Welcomed(r)') /\ Welcomed(s)'
    BY <1>5, <2>1, FirstPosting DEF JoinFull
  <2>3. mutex_ = s
    BY <1>5 DEF SessionInv, JoinFull
  <2> QED
    BY <1>1, <1>2, <1>5, <2>2, <2>3 DEF FirstInv, JoinFull, Goto
<1>6. CASE Snap(s)
  BY <1>1, <1>2, <1>6 DEF FirstInv, FullComesFirst, Welcomed, Pending, First, Snap, Goto
<1>7. CASE \E r \in Clients : SendTo(s, r)
  <2>1. PICK r \in Clients : SendTo(s, r)
    BY <1>7
  <2>2. out[s] \in Messages
    BY <1>1 DEF TypeOK
  <2>3. main \notin {"destroy", "done"} /\ Welcomed(r)
    BY <1>1, <2>1 DEF FirstInv, SendTo
  <2>4. FullComesFirst' /\ \A q \in Clients : Welcomed(q) => Welcomed(q)'
    <3>1. CASE Lockable(r)
      BY <2>1, <2>2, <2>3, <3>1, FirstPosting DEF SendTo
    <3>2. CASE ~Lockable(r)
      BY <2>1, <3>2 DEF SendTo, FirstInv, FullComesFirst, Welcomed, Pending, First
    <3> QED
      BY <3>1, <3>2
  <2> QED
    BY <1>1, <2>1, <2>3, <2>4 DEF FirstInv, SendTo
<1>8. CASE ReadOn(s)
  BY <1>1, <1>8 DEF FirstInv, FullComesFirst, Welcomed, Pending, First, ReadOn, Goto
<1>9. CASE Leave(s)
  BY <1>9 DEF FirstInv, FullComesFirst, Welcomed, Pending, First, Leave
<1> QED
  BY <1>3, <1>4, <1>5, <1>6, <1>7, <1>8, <1>9 DEF Strand

\* The caller loop.
LEMMA FirstCaller == TypeOK /\ FirstInv /\ Caller => FirstInv'
<1> SUFFICES ASSUME TypeOK, FirstInv, Caller PROVE FirstInv'
  OBVIOUS
<1> USE DEF state, round, ending, io, env
<1>1. /\ pc \in [Casters -> HandlerPCs \cup CallerPCs] /\ "caller" \in Casters
      /\ Clients \subseteq Casters /\ "caller" \notin Clients
      /\ sessions_ \subseteq Clients /\ vws \in [Casters -> SUBSET Clients]
  BY ClientsAssumption DEF TypeOK, Casters
<1>2. CASE CallerCheck \/ CallerBump \/ CallerStats \/ CallerAssign \/ CallerBuild
           \/ CallerSent \/ CallerSave
  <2>1. /\ UNCHANGED <<doc, queue_, posted, sessions_, mutex_, vws, main, stopped>>
        /\ pc["caller"] # "exit"
    BY <1>2 DEF CallerCheck, CallerBump, CallerStats, CallerAssign, CallerBuild, CallerSent,
         CallerSave
  <2> QED
    BY <2>1 DEF FirstInv, FullComesFirst, Welcomed, Pending, First
<1>3. CASE Snap("caller")
  <2>1. \A r \in Clients : r # "none"
    BY ClientsAssumption
  <2> QED
    BY <1>1, <1>3, <2>1 DEF FirstInv, FullComesFirst, Welcomed, Pending, First, Snap, Goto
<1>4. CASE \E r \in Clients : SendTo("caller", r)
  <2>1. PICK r \in Clients : SendTo("caller", r)
    BY <1>4
  <2>2. out["caller"] \in Messages
    BY <1>1 DEF TypeOK
  <2>3. main \notin {"destroy", "done"} /\ Welcomed(r)
    BY <1>1, <2>1 DEF FirstInv, SendTo
  <2>4. FullComesFirst' /\ \A q \in Clients : Welcomed(q) => Welcomed(q)'
    <3>1. CASE Lockable(r)
      BY <2>1, <2>2, <2>3, <3>1, FirstPosting DEF SendTo
    <3>2. CASE ~Lockable(r)
      BY <2>1, <3>2 DEF SendTo, FirstInv, FullComesFirst, Welcomed, Pending, First
    <3> QED
      BY <3>1, <3>2
  <2> QED
    BY <1>1, <2>1, <2>3, <2>4 DEF FirstInv, SendTo
<1> QED
  BY <1>2, <1>3, <1>4 DEF Caller

\* The end of main, the signal and the world.
LEMMA FirstMain ==
    TypeOK /\ SessionInv /\ FirstInv /\ (Main \/ StopIoc \/ WorldStep \/ Signal) => FirstInv'
<1> SUFFICES ASSUME TypeOK, SessionInv, FirstInv, Main \/ StopIoc \/ WorldStep \/ Signal
             PROVE  FirstInv'
  OBVIOUS
<1> USE DEF state, round, ending, io, env
<1>1. sessions_ \subseteq Clients /\ \A r \in Clients : r # "main" /\ r # "none"
  BY ClientsAssumption DEF TypeOK
<1>2. CASE BeginClose
  BY <1>1, <1>2 DEF FirstInv, FullComesFirst, Welcomed, Pending, First, BeginClose
<1>3. CASE \E s \in Clients : CloseOne(s)
  BY <1>3 DEF FirstInv, FullComesFirst, Welcomed, Pending, First, CloseOne
<1>4. CASE EndClose
  BY <1>1, <1>4 DEF FirstInv, SessionInv, FullComesFirst, Welcomed, Pending, First, EndClose
<1>5. CASE DestroyIoc
  BY <1>5 DEF FirstInv, FullComesFirst, Pending, First, DestroyIoc
<1>6. CASE Return
  BY <1>6 DEF FirstInv, FullComesFirst, Pending, First, Return
<1>7. CASE StopIoc \/ WorldStep \/ Signal
  BY <1>7 DEF FirstInv, FullComesFirst, Welcomed, Pending, First, StopIoc, WorldStep, Signal
<1> QED
  BY <1>2, <1>3, <1>4, <1>5, <1>6, <1>7 DEF Main

\* Every step keeps FirstInv.
LEMMA FirstStep == TypeInv /\ SessionInv /\ FirstInv /\ [Next]_vars => FirstInv'
<1> SUFFICES ASSUME TypeInv, SessionInv, FirstInv, [Next]_vars PROVE FirstInv'
  OBVIOUS
<1>1. TypeOK
  BY DEF TypeInv
<1>2. CASE \E s \in Clients : Session(s)
  BY <1>1, <1>2, FirstHandler, FirstOnSend, FirstOnWrite, FirstStrand DEF Session
<1>3. CASE Caller
  BY <1>1, <1>3, FirstCaller
<1>4. CASE Main \/ StopIoc \/ WorldStep \/ Signal
  BY <1>1, <1>4, FirstMain
<1>5. CASE UNCHANGED vars
  BY <1>5 DEF FirstInv, FullComesFirst, Welcomed, Pending, First, vars, state, round, ending, io, env
<1> QED
  BY <1>2, <1>3, <1>4, <1>5 DEF Next

\* It always holds.
LEMMA FirstAlways == Spec => []FirstInv
<1>1. Init => FirstInv
  BY DEF Init, FirstInv, FullComesFirst, Pending, Welcomed
<1> QED
  BY <1>1, FirstStep, TypeAlways, SessionAlways, PTL DEF Spec

\* What a client is sent first is the full document, whatever broadcasts run
\* while it joins.
THEOREM FullAlwaysFirst == Spec => []FullComesFirst
  BY FirstAlways, PTL DEF FirstInv
=============================================================================
