-------------------------- MODULE SyncPatchProofs ---------------------------
(***************************************************************************)
(* Proofs about Sync, continued: every patch a client is sent fits the     *)
(* document it then has (PatchesFit), nobody misses a round (UpToDate) and *)
(* no document goes back in time (NeverBackwards), unless the client       *)
(* joined while a round was under way.                                     *)
(***************************************************************************)
EXTENDS SyncProofs

-----------------------------------------------------------------------------
(* A queue of messages leads from a document to a document *)

\* The documents that are no patch's ruin.
Sound == Nat \cup {None}

\* The messages of q, applied one by one, turn d into e; every document on the
\* way is sound and none is older than the one before it.  f is what the client
\* has after each message.
Leads(d, q, e) ==
    \E f \in [0 .. Len(q) -> Sound] :
        /\ f[0] = d /\ f[Len(q)] = e
        /\ \A i \in 1 .. Len(q) : f[i] = Apply(f[i - 1], q[i]) /\ f[i - 1] <= f[i]

\* No message leads nowhere.
LEMMA LeadsNone == \A d \in Sound : Leads(d, <<>>, d)
<1> SUFFICES ASSUME NEW d \in Sound PROVE Leads(d, <<>>, d)
  OBVIOUS
<1> DEFINE f == [i \in 0 .. Len(<<>>) |-> d]
<1>1. Len(<<>>) = 0 /\ 0 \in 0 .. 0 /\ 1 .. 0 = {}
  OBVIOUS
<1>2. f \in [0 .. Len(<<>>) -> Sound] /\ f[0] = d /\ f[Len(<<>>)] = d
  BY <1>1
<1> QED
  BY <1>1, <1>2 DEF Leads

\* No messages lead nowhere.
LEMMA LeadsNowhere == \A d, e : Leads(d, <<>>, e) => d = e
<1>1. Len(<<>>) = 0
  OBVIOUS
<1> QED
  BY <1>1 DEF Leads

\* Both ends are sound.
LEMMA LeadsEnds ==
    ASSUME NEW S, NEW q \in Seq(S), NEW d, NEW e, Leads(d, q, e)
    PROVE  d \in Sound /\ e \in Sound
<1>1. PICK f \in [0 .. Len(q) -> Sound] : f[0] = d /\ f[Len(q)] = e
  BY DEF Leads
<1>2. Len(q) \in Nat /\ 0 \in 0 .. Len(q) /\ Len(q) \in 0 .. Len(q)
  OBVIOUS
<1> QED
  BY <1>1, <1>2

\* One message more.
LEMMA LeadsAppend ==
    ASSUME NEW S, NEW q \in Seq(S), NEW m \in S, NEW d, NEW e, Leads(d, q, e), Apply(e, m) \in Sound,
           e <= Apply(e, m)
    PROVE  Leads(d, Append(q, m), Apply(e, m))
<1>1. PICK f \in [0 .. Len(q) -> Sound] :
        /\ f[0] = d /\ f[Len(q)] = e
        /\ \A i \in 1 .. Len(q) : f[i] = Apply(f[i - 1], q[i]) /\ f[i - 1] <= f[i]
  BY DEF Leads
<1> DEFINE n == Len(q)
           r == Append(q, m)
           x == Apply(e, m)
           g == [i \in 0 .. n + 1 |-> IF i = n + 1 THEN x ELSE f[i]]
<1>2. /\ n \in Nat /\ Len(r) = n + 1 /\ r[n + 1] = m
      /\ \A i \in 1 .. n : r[i] = q[i]
  OBVIOUS
<1> HIDE DEF n, r, x
<1>3. g \in [0 .. n + 1 -> Sound] /\ g[0] = d /\ g[n + 1] = x
  BY <1>1, <1>2 DEF n, x
<1>4. ASSUME NEW i \in 1 .. n + 1 PROVE g[i] = Apply(g[i - 1], r[i]) /\ g[i - 1] <= g[i]
  <2>1. CASE i = n + 1
    <3>1. i - 1 = n /\ n \in 0 .. n + 1 /\ n # n + 1 /\ i \in 0 .. n + 1
      BY <1>2, <2>1
    <3>2. g[i] = x /\ g[i - 1] = f[n] /\ r[i] = m
      BY <1>2, <2>1, <3>1
    <3> QED
      BY <1>1, <3>2 DEF n, x
  <2>2. CASE i # n + 1
    <3>1. i \in 1 .. n /\ i - 1 \in 0 .. n + 1 /\ i - 1 # n + 1 /\ i \in 0 .. n + 1
      BY <1>2, <2>2
    <3>2. g[i] = f[i] /\ g[i - 1] = f[i - 1] /\ r[i] = q[i]
      BY <1>2, <2>2, <3>1
    <3> QED
      BY <1>1, <3>1, <3>2 DEF n
  <2> QED
    BY <2>1, <2>2
<1>5. Leads(d, r, x)
  <2> HIDE DEF g
  <2> QED
    BY <1>2, <1>3, <1>4 DEF Leads
<1> QED
  BY <1>5 DEF r, x

\* One message less.
LEMMA LeadsTail ==
    ASSUME NEW S, NEW q \in Seq(S), q # <<>>, NEW d, NEW e, Leads(d, q, e)
    PROVE  /\ Apply(d, Head(q)) \in Sound /\ Leads(Apply(d, Head(q)), Tail(q), e)
           /\ d <= Apply(d, Head(q))
<1>1. PICK f \in [0 .. Len(q) -> Sound] :
        /\ f[0] = d /\ f[Len(q)] = e
        /\ \A i \in 1 .. Len(q) : f[i] = Apply(f[i - 1], q[i]) /\ f[i - 1] <= f[i]
  BY DEF Leads
<1> DEFINE n == Len(q)
           r == Tail(q)
           g == [i \in 0 .. n - 1 |-> f[i + 1]]
<1>2. /\ n \in Nat \ {0} /\ Len(r) = n - 1 /\ Head(q) = q[1]
      /\ \A i \in 1 .. n - 1 : r[i] = q[i + 1]
  OBVIOUS
<1> HIDE DEF n, r
<1>3. f[1] = Apply(d, Head(q)) /\ f[1] \in Sound /\ d <= f[1]
  <2>1. 1 \in 1 .. n /\ 1 - 1 = 0 /\ 1 \in 0 .. n
    BY <1>2
  <2> QED
    BY <1>1, <1>2, <2>1 DEF n
<1>4. g \in [0 .. n - 1 -> Sound] /\ g[0] = f[1] /\ g[n - 1] = e
  <2>1. \A i \in 0 .. n - 1 : i + 1 \in 0 .. n
    BY <1>2
  <2>2. 0 \in 0 .. n - 1 /\ n - 1 \in 0 .. n - 1 /\ 0 + 1 = 1 /\ (n - 1) + 1 = n
    BY <1>2
  <2> QED
    BY <1>1, <2>1, <2>2 DEF n
<1>5. ASSUME NEW i \in 1 .. n - 1 PROVE g[i] = Apply(g[i - 1], r[i]) /\ g[i - 1] <= g[i]
  <2>1. /\ i \in 0 .. n - 1 /\ i - 1 \in 0 .. n - 1 /\ (i - 1) + 1 = i /\ (i + 1) - 1 = i
        /\ i + 1 \in 1 .. n
    BY <1>2
  <2>2. g[i] = f[i + 1] /\ g[i - 1] = f[i] /\ r[i] = q[i + 1]
    BY <1>2, <2>1
  <2>3. f[i + 1] = Apply(f[i], q[i + 1]) /\ f[i] <= f[i + 1]
    BY <1>1, <2>1 DEF n
  <2> QED
    BY <2>2, <2>3
<1>6. Leads(f[1], r, e)
  <2> HIDE DEF g
  <2> QED
    BY <1>2, <1>4, <1>5 DEF Leads
<1> QED
  BY <1>3, <1>6 DEF r

\* The names that are not of clients, and the functions over the actors.
LEMMA ActorTypes ==
    ASSUME TypeOK
    PROVE  /\ Clients \subseteq Casters /\ "caller" \in Casters /\ "caller" \notin Clients
           /\ pc \in [Casters -> HandlerPCs \cup CallerPCs] /\ out \in [Casters -> Messages]
           /\ vws \in [Casters -> SUBSET Clients] /\ sessions_ \subseteq Clients
           /\ \A s \in Clients : s # "caller" /\ s # "main" /\ s # "none"
  BY ClientsAssumption DEF TypeOK, Casters

-----------------------------------------------------------------------------
(* What join has asked for *)

\* What join is about to assign is a state of the world, though it may be an
\* old one.
AnswerInv == world \in Nat \ {Null} /\ \A s \in Clients : pc[s] = "store" => answer \in 1 .. world

\* Every step keeps AnswerInv.
LEMMA AnswerStep == TypeOK /\ AnswerInv /\ [Next]_vars => AnswerInv'
<1> SUFFICES ASSUME TypeOK, AnswerInv, [Next]_vars PROVE AnswerInv'
  OBVIOUS
<1> USE DEF state, round, ending, io, env
<1>1. CASE \E r \in Clients : JoinQuery(r)
  <2>1. world' = world /\ answer' = world
    BY <1>1 DEF JoinQuery
  <2> QED
    BY <2>1 DEF AnswerInv, Null
<1>2. CASE ~\E r \in Clients : JoinQuery(r)
  <2>1. answer' = answer /\ (world' = world \/ world' = world + 1)
    BY <1>2 DEF Next, vars, Session, Run, OnAccept, OnRead, OnReadError, OnSend, OnWrite,
         OnWriteError, OnClose, Leave, Strand, JoinInsert, JoinFetch, JoinStore, JoinFull, Snap,
         SendTo, ReadOn, Caller, CallerCheck, CallerBump, CallerStats, CallerAssign, CallerBuild,
         CallerSent, CallerSave, Main, BeginClose, CloseOne, EndClose, DestroyIoc, Return, StopIoc,
         WorldStep, Signal
  <2>2. \/ pc' = pc
        \/ \E a \in Casters, l \in (HandlerPCs \cup CallerPCs) \ {"store"} : pc' = [pc EXCEPT ![a] = l]
    BY <1>2, ActorTypes DEF Next, vars, Session, Run, OnAccept, OnRead, OnReadError, OnSend, OnWrite,
         OnWriteError, OnClose, Leave, Strand, JoinInsert, JoinFetch, JoinStore, JoinFull, Snap,
         SendTo, ReadOn, Caller, CallerCheck, CallerBump, CallerStats, CallerAssign, CallerBuild,
         CallerSent, CallerSave, Main, BeginClose, CloseOne, EndClose, DestroyIoc, Return, StopIoc,
         WorldStep, Signal, Goto, HandlerPCs, CallerPCs
  <2>3. \A s \in Clients : pc'[s] = "store" => pc[s] = "store"
    BY <2>2, ActorTypes
  <2> QED
    BY <2>1, <2>3 DEF AnswerInv, Null
<1> QED
  BY <1>1, <1>2

\* It always holds.
LEMMA AnswerAlways == Spec => []AnswerInv
<1>1. Init => AnswerInv
  BY ClientsAssumption DEF Init, AnswerInv, Null, Casters
<1> QED
  BY <1>1, AnswerStep, SyncTypeCorrect, PTL DEF Spec

-----------------------------------------------------------------------------
(* The documents of a round *)

\* Where join has the mutex.
Joining == {"fetch", "query", "store", "full"}

\* Where join is about to assign curr_stats.
Storing == {"query", "store"}

\* join is through with s.
Joined(s) == s \in sessions_ /\ pc[s] \notin Joining

\* Where the caller loop has not begun to take the state of a round.
Before == {"check", "bump", "stats", "exit"}

\* No document is null once there is a session that has one, and curr_stats is
\* torn only while the caller loop assigns it, or behind a join that will.
Written ==
    /\ pc["caller"] \in CallerPCs /\ world # Null
    /\ pc["caller"] = "assign" => fetched \in Nat \ {Null}
    /\ curr_stats = Torn => \/ pc["caller"] = "assign"
                            \/ pc["caller"] \in {"build", "snap"} /\ \E s \in Clients : pc[s] \in Storing
    /\ curr_stats = Null => /\ pc["caller"] \in Before /\ prev_stats = Null
                            /\ \A s \in Clients : ~Joined(s) /\ pc[s] # "full"
    /\ \A s \in Clients : pc[s] \in Storing =>
          /\ pc["caller"] \notin {"send", "save"} /\ prev_stats = Null
          /\ \A r \in Clients : ~Joined(r)

\* Between rounds prev_stats is what was sent, or null; within one, the delta
\* is made from prev_stats, and it leads to curr_stats unless a join has written
\* curr_stats, which nobody then has but sessions that raced.
Rounds ==
    /\ pc["caller"] \in Before => prev_stats \in {Null, curr_stats}
    /\ pc["caller"] \in {"snap", "send"} =>
          out["caller"].kind = "delta" /\ out["caller"].from = prev_stats
    /\ pc["caller"] = "snap" =>
          out["caller"].to = curr_stats \/ \A s \in Clients : Joined(s) => s \in raced
    /\ pc["caller"] = "send" =>
          out["caller"].to = curr_stats \/ vws["caller"] \subseteq raced
    /\ \A a \in Clients : out[a].kind = "chat"

RoundInv == Written /\ Rounds

\* A step that neither makes a session joined nor begins or ends a store, and
\* leaves the caller loop where it is.
LEMMA RoundKept ==
    ASSUME TypeOK, RoundInv, UNCHANGED <<curr_stats, prev_stats, fetched>>,
           world' # Null, raced \subseteq raced',
           pc'["caller"] = pc["caller"], out'["caller"] = out["caller"],
           vws'["caller"] \subseteq vws["caller"],
           \A a \in Clients : out'[a].kind = "chat",
           \A s \in Clients : pc'[s] \in Storing <=> pc[s] \in Storing,
           \A s \in Clients : pc'[s] = "full" => pc[s] = "full" \/ curr_stats # Null,
           \A s \in Clients : Joined(s)' => Joined(s)
    PROVE  RoundInv'
<1>1. Written'
  BY DEF RoundInv, Written
<1>2. Rounds'
  BY DEF RoundInv, Rounds
<1> QED
  BY <1>1, <1>2 DEF RoundInv

\* The handlers a strand starts.
LEMMA RoundHandler ==
    ASSUME TypeOK, RoundInv, NEW s \in Clients,
           Run(s) \/ OnAccept(s) \/ OnRead(s) \/ OnReadError(s) \/ OnSend(s)
           \/ OnWrite(s) \/ OnWriteError(s) \/ OnClose(s)
    PROVE  RoundInv'
<1> USE DEF state, round, ending, io, env
<1>1. UNCHANGED <<state, fetched, vws, world, raced>>
  BY DEF Run, OnAccept, OnRead, OnReadError, OnSend, OnWrite, OnWriteError, OnClose
<1>2. pc' = pc \/ (pc[s] = "idle" /\ pc' = [pc EXCEPT ![s] = "join"])
               \/ (pc[s] = "idle" /\ pc' = [pc EXCEPT ![s] = "snap"])
  BY DEF Run, OnAccept, OnRead, OnReadError, OnSend, OnWrite, OnWriteError, OnClose, Goto, Ready
<1>3. out' = out \/ out' = [out EXCEPT ![s] = Chat]
  BY DEF Run, OnAccept, OnRead, OnReadError, OnSend, OnWrite, OnWriteError, OnClose
<1>4. /\ out'["caller"] = out["caller"] /\ \A a \in Clients : out'[a].kind = "chat"
      /\ pc'["caller"] = pc["caller"]
      /\ \A r \in Clients : /\ pc'[r] \in Storing <=> pc[r] \in Storing
                            /\ pc'[r] = "full" <=> pc[r] = "full"
                            /\ pc'[r] \in Joining <=> pc[r] \in Joining
  BY <1>2, <1>3, ActorTypes DEF RoundInv, Rounds, Chat, Joining, Storing
<1>5. world # Null
  BY DEF RoundInv, Written
<1>6. \A r \in Clients : Joined(r)' => Joined(r)
  BY <1>1, <1>4 DEF Joined
<1> QED
  BY <1>1, <1>4, <1>5, <1>6, RoundKept

\* join, a broadcast by a client, and the destructor.
LEMMA RoundStrand ==
    ASSUME TypeOK, SessionInv, AnswerInv, RoundInv, NEW s \in Clients, Strand(s) \/ Leave(s)
    PROVE  RoundInv'
<1> USE DEF state, round, ending, io, env
<1>0. world # Null /\ \A a \in Clients : out[a].kind = "chat"
  BY DEF RoundInv, Written, Rounds
<1>1. CASE JoinInsert(s) \/ Snap(s) \/ (\E r \in Clients : SendTo(s, r)) \/ ReadOn(s) \/ Leave(s)
  <2>1. UNCHANGED <<curr_stats, prev_stats, fetched, world, raced, out>>
    BY <1>1 DEF JoinInsert, Snap, SendTo, ReadOn, Leave
  <2>2. vws' = vws \/ \E V : vws' = [vws EXCEPT ![s] = V]
    BY <1>1 DEF JoinInsert, Snap, SendTo, ReadOn, Leave
  <2>3. vws'["caller"] = vws["caller"]
    BY <2>2, ActorTypes
  <2>4. CASE JoinInsert(s)
    <3>1. /\ pc'[s] = "fetch" /\ pc[s] = "join" /\ sessions_' = sessions_ \cup {s}
          /\ \A r \in Casters \ {s} : pc'[r] = pc[r]
      BY <2>4, ActorTypes DEF JoinInsert, Goto
    <3>2. /\ pc'["caller"] = pc["caller"]
          /\ \A r \in Clients : /\ pc'[r] \in Storing <=> pc[r] \in Storing
                                /\ pc'[r] = "full" <=> pc[r] = "full"
                                /\ Joined(r)' => Joined(r)
      BY <3>1, ActorTypes DEF Joined, Joining, Storing
    <3> QED
      BY <1>0, <2>1, <2>3, <3>2, RoundKept
  <2>5. CASE ~JoinInsert(s)
    <3>1. sessions_' \subseteq sessions_
      BY <1>1, <2>5 DEF Snap, SendTo, ReadOn, Leave
    <3>2. \/ pc' = pc
          \/ pc[s] = "snap" /\ pc' = [pc EXCEPT ![s] = "send"]
          \/ pc[s] = "send" /\ pc' = [pc EXCEPT ![s] = "idle"]
      BY <1>1, <2>5 DEF Snap, SendTo, ReadOn, Leave, Goto
    <3>3. /\ pc'["caller"] = pc["caller"]
          /\ \A r \in Clients : /\ pc'[r] \in Storing <=> pc[r] \in Storing
                                /\ pc'[r] = "full" <=> pc[r] = "full"
                                /\ pc'[r] \in Joining <=> pc[r] \in Joining
      BY <3>2, ActorTypes DEF Joining, Storing
    <3>4. \A r \in Clients : Joined(r)' => Joined(r)
      BY <3>1, <3>3 DEF Joined
    <3> QED
      BY <1>0, <2>1, <2>3, <3>3, <3>4, RoundKept
  <2> QED
    BY <2>4, <2>5
<1>2. CASE JoinFetch(s)
  <2>1. /\ UNCHANGED <<curr_stats, prev_stats, fetched, world, raced, out, vws, sessions_>>
        /\ pc[s] = "fetch" /\ pc'[s] = (IF curr_stats = Null THEN "query" ELSE "full")
        /\ \A r \in Casters \ {s} : pc'[r] = pc[r]
    BY <1>2, ActorTypes DEF JoinFetch, Goto
  <2>2. pc'["caller"] = pc["caller"] /\ \A r \in Clients \ {s} : pc'[r] = pc[r]
    BY <2>1, ActorTypes
  <2>3. \A r \in Clients : Joined(r)' => Joined(r)
    BY <2>1, <2>2 DEF Joined, Joining
  <2>4. CASE curr_stats # Null
    <3>1. \A r \in Clients : pc'[r] \in Storing <=> pc[r] \in Storing
      BY <2>1, <2>2, <2>4 DEF Storing
    <3> QED
      BY <1>0, <2>1, <2>2, <2>3, <3>1, RoundKept
  <2>5. CASE curr_stats = Null
    <3>1. pc["caller"] \in Before /\ prev_stats = Null /\ \A r \in Clients : ~Joined(r)
      BY <2>5 DEF RoundInv, Written
    <3>2. Written'
      BY <2>1, <2>2, <2>3, <2>5, <3>1 DEF RoundInv, Written, Before, Storing, Null, Torn
    <3>3. Rounds'
      BY <2>1, <2>2, <2>3, <3>1 DEF RoundInv, Rounds, Before
    <3> QED
      BY <3>2, <3>3 DEF RoundInv
  <2> QED
    BY <2>4, <2>5
<1>3. CASE JoinStore(s)
  <2>1. /\ UNCHANGED <<prev_stats, fetched, world, raced, out, vws, sessions_>>
        /\ curr_stats' = IF pc["caller"] = "assign" THEN Torn ELSE answer
        /\ pc[s] = "store" /\ pc'[s] = "full"
        /\ \A r \in Casters \ {s} : pc'[r] = pc[r]
    BY <1>3, ActorTypes DEF JoinStore, Goto
  <2>2. pc'["caller"] = pc["caller"] /\ \A r \in Clients \ {s} : pc'[r] = pc[r]
    BY <2>1, ActorTypes
  <2>3. /\ pc["caller"] \notin {"send", "save"} /\ prev_stats = Null
        /\ \A r \in Clients : ~Joined(r)
    BY <2>1 DEF RoundInv, Written, Storing
  <2>4. \A r \in Clients : ~Joined(r)'
    BY <2>1, <2>2, <2>3 DEF Joined, Joining
  <2>5. \A r \in Clients : pc'[r] \notin Storing
    BY <2>1, <2>2 DEF SessionInv, Storing
  <2>6. answer # Null /\ Torn # Null /\ answer # Torn
    BY <2>1 DEF AnswerInv, Torn, Null
  <2>7. Written'
    BY <2>1, <2>2, <2>4, <2>5, <2>6 DEF RoundInv, Written
  <2>8. Rounds'
    BY <2>1, <2>2, <2>3, <2>4 DEF RoundInv, Rounds
  <2> QED
    BY <2>7, <2>8 DEF RoundInv
<1>4. CASE JoinFull(s)
  <2>1. /\ UNCHANGED <<curr_stats, prev_stats, fetched, world, out, vws, sessions_>>
        /\ raced' = IF InRound THEN raced \cup {s} ELSE raced
        /\ pc[s] = "full" /\ pc'[s] = "idle" /\ mutex_ = s
        /\ \A r \in Casters \ {s} : pc'[r] = pc[r]
    BY <1>4, ActorTypes DEF JoinFull, Goto, SessionInv
  <2>2. pc'["caller"] = pc["caller"] /\ \A r \in Clients \ {s} : pc'[r] = pc[r]
    BY <2>1, ActorTypes
  <2>3. \A r \in Clients \ {s} : Joined(r)' => Joined(r)
    BY <2>1, <2>2 DEF Joined
  <2>4. \A r \in Clients : pc[r] \notin Storing /\ pc'[r] \notin Storing
    BY <2>1, <2>2 DEF SessionInv, Storing
  <2>5. curr_stats # Null
    BY <2>1 DEF RoundInv, Written
  <2>6. Written'
    BY <2>1, <2>2, <2>4, <2>5 DEF RoundInv, Written
  <2>7. Rounds'
    BY <2>1, <2>2, <2>3 DEF RoundInv, Rounds, InRound
  <2> QED
    BY <2>6, <2>7 DEF RoundInv
<1>5. CASE JoinQuery(s)
  <2>1. /\ UNCHANGED <<curr_stats, prev_stats, fetched, world, raced, out, vws, sessions_>>
        /\ pc[s] = "query" /\ pc'[s] = "store"
        /\ \A r \in Casters \ {s} : pc'[r] = pc[r]
    BY <1>5, ActorTypes DEF JoinQuery, Goto
  <2>2. /\ pc'["caller"] = pc["caller"]
        /\ \A r \in Clients : /\ pc'[r] \in Storing <=> pc[r] \in Storing
                              /\ pc'[r] = "full" <=> pc[r] = "full"
                              /\ Joined(r)' => Joined(r)
    BY <2>1, ActorTypes DEF Joined, Joining, Storing
  <2> QED
    BY <1>0, <2>1, <2>2, RoundKept
<1> QED
  BY <1>1, <1>2, <1>3, <1>4, <1>5 DEF Strand

\* The caller loop.
LEMMA RoundCaller ==
    ASSUME TypeOK, SessionInv, RoundInv, Caller
    PROVE  RoundInv'
<1> USE DEF state, round, ending, io, env
<1>0. world \in Nat /\ world # Null /\ Torn # Null /\ Torn \notin Nat
  BY DEF TypeOK, RoundInv, Written, Torn, Null
<1>1. UNCHANGED <<sessions_, world, raced>>
  BY DEF Caller, CallerCheck, CallerBump, CallerStats, CallerAssign, CallerBuild, Snap, SendTo,
         CallerSent, CallerSave
<1>2. \/ pc' = pc
      \/ \E l \in CallerPCs : pc' = [pc EXCEPT !["caller"] = l]
  BY DEF Caller, CallerCheck, CallerBump, CallerStats, CallerAssign, CallerBuild, Snap, SendTo,
         CallerSent, CallerSave, Goto, CallerPCs
<1>3. /\ \A r \in Clients : pc'[r] = pc[r]
      /\ \A l : pc' = [pc EXCEPT !["caller"] = l] => pc'["caller"] = l
  BY <1>2, ActorTypes
<1>4. \A r \in Clients : Joined(r)' <=> Joined(r)
  BY <1>1, <1>3 DEF Joined
<1>5. \A a \in Clients : out[a].kind = "chat"
  BY DEF RoundInv, Rounds
<1>6. CASE CallerCheck \/ CallerBump
  <2>1. /\ UNCHANGED <<curr_stats, prev_stats, fetched, out, vws>>
        /\ pc["caller"] \in Before /\ pc'["caller"] \in Before
    BY <1>3, <1>6 DEF CallerCheck, CallerBump, Goto, Before
  <2>2. pc'["caller"] \in CallerPCs
    BY <2>1 DEF Before, CallerPCs
  <2>3. Written'
    BY <1>0, <1>1, <1>3, <1>4, <2>1, <2>2 DEF RoundInv, Written, Before
  <2>4. Rounds'
    BY <1>5, <2>1, <2>2 DEF RoundInv, Rounds, Before
  <2> QED
    BY <2>3, <2>4 DEF RoundInv
<1>7. CASE CallerStats
  <2>1. /\ UNCHANGED <<prev_stats, out>> /\ fetched' = world /\ curr_stats' = Torn
        /\ pc["caller"] = "stats" /\ pc'["caller"] = "assign"
    BY <1>3, <1>7 DEF CallerStats, Goto
  <2>2. Written'
    BY <1>0, <1>1, <1>3, <1>4, <2>1 DEF RoundInv, Written, CallerPCs
  <2>3. Rounds'
    BY <1>5, <2>1 DEF Rounds, Before
  <2> QED
    BY <2>2, <2>3 DEF RoundInv
<1>8. CASE CallerAssign
  <2>1. /\ UNCHANGED <<prev_stats, fetched, out>>
        /\ curr_stats' = fetched \/ (curr_stats' = Torn /\ \E s \in Clients : pc[s] \in Storing)
        /\ pc["caller"] = "assign" /\ pc'["caller"] = "build"
    BY <1>3, <1>8 DEF CallerAssign, Goto, Storing
  <2>2. fetched \in Nat /\ fetched # Null
    BY <2>1 DEF RoundInv, Written
  <2>3. Written'
    BY <1>0, <1>1, <1>3, <1>4, <2>1, <2>2 DEF RoundInv, Written, CallerPCs
  <2>4. Rounds'
    BY <1>5, <2>1 DEF Rounds, Before
  <2> QED
    BY <2>3, <2>4 DEF RoundInv
<1>9. CASE CallerBuild
  <2>1. /\ UNCHANGED <<curr_stats, prev_stats, fetched, vws>>
        /\ out' = [out EXCEPT !["caller"] = Delta(sync_ver, prev_stats, curr_stats)]
        /\ pc["caller"] = "build" /\ pc'["caller"] = "snap"
    BY <1>3, <1>9 DEF CallerBuild, Goto
  <2>2. /\ out'["caller"] = Delta(sync_ver, prev_stats, curr_stats)
        /\ \A a \in Clients : out'[a].kind = "chat"
    BY <1>5, <2>1, ActorTypes
  <2>3. Written'
    BY <1>0, <1>1, <1>3, <1>4, <2>1 DEF RoundInv, Written, CallerPCs, Before
  <2>4. Rounds'
    BY <2>1, <2>2 DEF Rounds, Before, Delta
  <2> QED
    BY <2>3, <2>4 DEF RoundInv
<1>10. CASE Snap("caller")
  <2>1. /\ UNCHANGED <<curr_stats, prev_stats, fetched, out>> /\ mutex_ = "none"
        /\ vws'["caller"] = sessions_
        /\ pc["caller"] = "snap" /\ pc'["caller"] = "send"
    BY <1>3, <1>10, ActorTypes DEF Snap, Goto
  <2>2. \A r \in Clients : pc[r] \notin Joining
    BY <2>1, ActorTypes DEF SessionInv, Joining
  <2>3. \A r \in sessions_ : Joined(r)
    BY <2>2, ActorTypes DEF Joined
  <2>4. Written'
    BY <1>0, <1>1, <1>3, <1>4, <2>1, <2>2 DEF RoundInv, Written, CallerPCs, Before, Joining,
                                                          Storing
  <2>5. Rounds'
    BY <1>1, <1>5, <2>1, <2>3, ActorTypes DEF RoundInv, Rounds, Before
  <2> QED
    BY <2>4, <2>5 DEF RoundInv
<1>11. CASE \E r \in Clients : SendTo("caller", r)
  <2>1. /\ UNCHANGED <<curr_stats, prev_stats, fetched, out, pc>>
        /\ vws'["caller"] \subseteq vws["caller"]
    BY <1>11, ActorTypes DEF SendTo
  <2> QED
    BY <1>0, <1>1, <1>4, <1>5, <2>1, RoundKept
<1>12. CASE CallerSent
  <2>1. /\ UNCHANGED <<curr_stats, prev_stats, fetched, out>>
        /\ pc["caller"] = "send" /\ pc'["caller"] = "save"
    BY <1>3, <1>12 DEF CallerSent, Goto
  <2>2. Written'
    BY <1>0, <1>1, <1>3, <1>4, <2>1 DEF RoundInv, Written, CallerPCs, Before
  <2>3. Rounds'
    BY <1>5, <2>1 DEF Rounds, Before
  <2> QED
    BY <2>2, <2>3 DEF RoundInv
<1>13. CASE CallerSave
  <2>1. /\ UNCHANGED <<curr_stats, fetched, out>> /\ prev_stats' = curr_stats
        /\ pc["caller"] = "save" /\ pc'["caller"] = "check"
    BY <1>3, <1>13 DEF CallerSave, Goto
  <2>2. curr_stats # Null /\ curr_stats # Torn /\ \A r \in Clients : pc[r] \notin Storing
    BY <2>1 DEF RoundInv, Written, Before
  <2>3. Written'
    BY <1>0, <1>1, <1>3, <2>1, <2>2 DEF RoundInv, Written, CallerPCs
  <2>4. Rounds'
    BY <1>5, <2>1 DEF Rounds
  <2> QED
    BY <2>3, <2>4 DEF RoundInv
<1> QED
  BY <1>6, <1>7, <1>8, <1>9, <1>10, <1>11, <1>12, <1>13 DEF Caller

\* The end of main, the signal and the world leave the rounds alone.
LEMMA RoundMain ==
    ASSUME TypeOK, RoundInv, Main \/ StopIoc \/ WorldStep \/ Signal
    PROVE  RoundInv'
<1> USE DEF state, round, ending, io, env
<1>1. /\ UNCHANGED <<curr_stats, prev_stats, fetched, sessions_, pc, out, vws, raced>>
      /\ world' = world \/ world' = world + 1
  BY DEF Main, BeginClose, CloseOne, EndClose, DestroyIoc, Return, StopIoc, WorldStep, Signal
<1>2. world' # Null /\ \A a \in Clients : out[a].kind = "chat"
  BY <1>1 DEF TypeOK, RoundInv, Written, Rounds, Null
<1>3. \A r \in Clients : Joined(r)' <=> Joined(r)
  BY <1>1 DEF Joined
<1> QED
  BY <1>1, <1>2, <1>3, RoundKept

\* Every step keeps RoundInv.
LEMMA RoundStep == TypeOK /\ SessionInv /\ AnswerInv /\ RoundInv /\ [Next]_vars => RoundInv'
<1> SUFFICES ASSUME TypeOK, SessionInv, AnswerInv, RoundInv, [Next]_vars PROVE RoundInv'
  OBVIOUS
<1>1. CASE \E s \in Clients : Session(s)
  BY <1>1, RoundHandler, RoundStrand DEF Session
<1>2. CASE Caller
  BY <1>2, RoundCaller
<1>3. CASE Main \/ StopIoc \/ WorldStep \/ Signal
  BY <1>3, RoundMain
<1>4. CASE UNCHANGED vars
  BY <1>4 DEF RoundInv, Written, Rounds, Joined, vars, state, round, ending, io, env
<1> QED
  BY <1>1, <1>2, <1>3, <1>4 DEF Next

\* It always holds.
LEMMA RoundAlways == Spec => []RoundInv
<1>1. Init => RoundInv
  <2> SUFFICES ASSUME Init PROVE RoundInv
    OBVIOUS
  <2>1. "caller" \in Casters /\ "caller" \notin Clients /\ Clients \subseteq Casters
    BY ClientsAssumption DEF Casters
  <2>2. /\ pc["caller"] = "check" /\ \A s \in Clients : pc[s] = "idle" /\ out[s] = Chat
        /\ curr_stats = Null /\ prev_stats = Null /\ sessions_ = {} /\ world = 1
    BY <2>1 DEF Init
  <2>3. Written
    BY <2>2 DEF Written, CallerPCs, Before, Joined, Storing, Null, Torn
  <2>4. Rounds
    BY <2>2 DEF Rounds, Chat
  <2> QED
    BY <2>3, <2>4 DEF RoundInv
<1> QED
  BY <1>1, RoundStep, SyncTypeCorrect, SessionAlways, AnswerAlways, PTL DEF Spec

-----------------------------------------------------------------------------
(* Sessions that have yet to join *)

\* s is on its way to join.
Fresh(s) == life[s] = "new" \/ "accept" \in ops[s] \/ pc[s] = "join"

\* on_accept is the first handler of a session, and runs once.
Accepting(s) == "accept" \in ops[s] => pc[s] = "idle" /\ "read" \notin ops[s]

\* A session is neither in the list before it joins nor in a copy of it before
\* join is through, and a copy lists sessions of the list and freed ones.
FreshInv ==
    \A s \in Clients :
        /\ Accepting(s)
        /\ Fresh(s) => s \notin sessions_
        /\ Fresh(s) \/ pc[s] \in Joining => \A a \in Casters : s \notin vws[a]
        /\ \A a \in Casters : s \in vws[a] => s \in sessions_ \/ life[s] = "freed"

\* A step that adds nobody to the list or to a copy of it.
LEMMA FreshKept ==
    ASSUME FreshInv, \A a \in Casters : vws'[a] \subseteq vws[a], sessions_' \subseteq sessions_,
           \A s \in Clients : /\ Accepting(s)' /\ (Fresh(s)' => Fresh(s))
                              /\ pc'[s] \in Joining => pc[s] \in Joining
                              /\ s \in sessions_ => s \in sessions_' \/ life'[s] = "freed"
                              /\ life[s] = "freed" => life'[s] = "freed"
    PROVE  FreshInv'
  BY DEF FreshInv

\* The handlers a strand starts.
LEMMA FreshHandler ==
    ASSUME TypeOK, SessionInv, FreshInv, NEW s \in Clients,
           Run(s) \/ OnAccept(s) \/ OnRead(s) \/ OnReadError(s) \/ OnSend(s)
           \/ OnWrite(s) \/ OnWriteError(s) \/ OnClose(s)
    PROVE  FreshInv'
<1> USE DEF state, round, ending, io, env
<1>1. UNCHANGED <<sessions_, vws>>
  BY DEF Run, OnAccept, OnRead, OnReadError, OnSend, OnWrite, OnWriteError, OnClose
<1>2. /\ life \in [Clients -> {"new", "live", "freed"}]
      /\ ops \in [Clients -> SUBSET {"accept", "read", "close"}]
  BY DEF TypeOK
<1>3. /\ \A r \in Clients : life[r] = "freed" => life'[r] = "freed"
      /\ \A r \in Clients \ {s} : life'[r] = life[r] /\ ops'[r] = ops[r] /\ pc'[r] = pc[r]
  <2>1. life' = life \/ (life[s] = "new" /\ life' = [life EXCEPT ![s] = "live"])
    BY DEF Run, OnAccept, OnRead, OnReadError, OnSend, OnWrite, OnWriteError, OnClose
  <2>2. ops' = ops \/ \E o : ops' = [ops EXCEPT ![s] = o]
    BY DEF Run, OnAccept, OnRead, OnReadError, OnSend, OnWrite, OnWriteError, OnClose, Without
  <2>3. pc' = pc \/ \E l : pc' = [pc EXCEPT ![s] = l]
    BY DEF Run, OnAccept, OnRead, OnReadError, OnSend, OnWrite, OnWriteError, OnClose, Goto
  <2> QED
    BY <1>2, <2>1, <2>2, <2>3, ActorTypes
<1>4. Accepting(s)' /\ (Fresh(s)' => Fresh(s)) /\ (pc'[s] \in Joining => pc[s] \in Joining)
  <2>1. Accepting(s) /\ (life[s] = "new" => pc[s] = "idle")
    BY DEF FreshInv, SessionInv
  <2>2. CASE Run(s)
    BY <1>2, <2>1, <2>2 DEF Run, Accepting, Fresh
  <2>3. CASE OnAccept(s)
    <3>1. life' = life /\ "accept" \in ops[s] /\ ops'[s] = ops[s] \ {"accept"} /\ pc'[s] \in {"join", pc[s]}
      BY <1>2, <2>3, ActorTypes DEF OnAccept, Without, Goto
    <3> QED
      BY <3>1 DEF Accepting, Fresh, Joining
  <2>4. CASE OnRead(s)
    <3>1. life' = life /\ "read" \in ops[s] /\ ops'[s] = ops[s] \ {"read"} /\ pc'[s] \in {"snap", pc[s]}
      BY <1>2, <2>4, ActorTypes DEF OnRead, Without, Goto
    <3> QED
      BY <2>1, <3>1 DEF Accepting, Fresh, Joining
  <2>5. CASE OnReadError(s) \/ OnSend(s) \/ OnWrite(s) \/ OnWriteError(s) \/ OnClose(s)
    <3>1. life' = life /\ pc' = pc
      BY <2>5 DEF OnReadError, OnSend, OnWrite, OnWriteError, OnClose
    <3>2. /\ ops'[s] \subseteq ops[s] \cup {"close"}
      BY <1>2, <2>5 DEF OnReadError, OnSend, OnWrite, OnWriteError, OnClose, Without
    <3> QED
      BY <2>1, <3>1, <3>2 DEF Accepting, Fresh
  <2> QED
    BY <2>2, <2>3, <2>4, <2>5
<1>5. \A r \in Clients \ {s} : Accepting(r)' /\ (Fresh(r)' => Fresh(r))
  BY <1>3 DEF FreshInv, Accepting, Fresh
<1> QED
  BY <1>1, <1>3, <1>4, <1>5, FreshKept

\* The copies of the list that a broadcast takes.
LEMMA FreshSnap ==
    ASSUME TypeOK, SessionInv, FreshInv, NEW a \in Casters, Snap(a)
    PROVE  FreshInv'
<1> USE DEF state, round, ending, io, env
<1>1. /\ UNCHANGED <<sessions_, life, ops>> /\ mutex_ = "none"
      /\ vws' = [vws EXCEPT ![a] = sessions_]
      /\ pc[a] = "snap" /\ pc'[a] = "send" /\ \A r \in Casters \ {a} : pc'[r] = pc[r]
  BY ActorTypes DEF Snap, Goto
<1>2. \A r \in Clients : pc[r] \notin Joining
  BY <1>1, ActorTypes DEF SessionInv, Joining
<1>3. \A r \in Clients : /\ pc'[r] \notin Joining
                         /\ Accepting(r)' /\ (Fresh(r)' => Fresh(r))
  <2>1. \A r \in Clients : pc'[r] = pc[r] \/ (pc[r] = "snap" /\ pc'[r] = "send")
    BY <1>1, ActorTypes
  <2> QED
    BY <1>1, <1>2, <2>1 DEF FreshInv, Accepting, Fresh, Joining
<1>4. \A b \in Casters : vws'[b] = sessions_ \/ vws'[b] = vws[b]
  BY <1>1, ActorTypes
<1> QED
  BY <1>1, <1>3, <1>4 DEF FreshInv

\* A broadcast to one session.
LEMMA FreshSend ==
    ASSUME TypeOK, FreshInv, NEW a \in Casters, NEW r \in Clients, SendTo(a, r)
    PROVE  FreshInv'
<1> USE DEF state, round, ending, io, env
<1>1. /\ UNCHANGED <<sessions_, life, ops, pc>>
      /\ \A b \in Casters : vws'[b] \subseteq vws[b]
  BY ActorTypes DEF SendTo
<1>2. \A s \in Clients : Accepting(s)' /\ (Fresh(s)' => Fresh(s))
  BY <1>1 DEF FreshInv, Accepting, Fresh
<1> QED
  BY <1>1, <1>2, FreshKept

\* join, the end of a broadcast by a client, and the destructor.
LEMMA FreshStrand ==
    ASSUME TypeOK, SessionInv, FreshInv, NEW s \in Clients, Strand(s) \/ Leave(s)
    PROVE  FreshInv'
<1> USE DEF state, round, ending, io, env
<1>0. /\ life \in [Clients -> {"new", "live", "freed"}]
      /\ ops \in [Clients -> SUBSET {"accept", "read", "close"}]
      /\ Accepting(s) /\ (pc[s] # "idle" => life[s] = "live" /\ "accept" \notin ops[s])
  BY DEF TypeOK, SessionInv, FreshInv, Accepting
<1>1. CASE JoinInsert(s)
  <2>1. /\ UNCHANGED <<vws, life, ops>> /\ sessions_' = sessions_ \cup {s}
        /\ pc[s] = "join" /\ pc'[s] = "fetch" /\ \A r \in Clients \ {s} : pc'[r] = pc[r]
    BY <1>1, ActorTypes DEF JoinInsert, Goto
  <2>2. Accepting(s)' /\ ~Fresh(s)' /\ Fresh(s)
    BY <1>0, <2>1 DEF Accepting, Fresh
  <2>3. \A r \in Clients \ {s} : (Accepting(r)' <=> Accepting(r)) /\ (Fresh(r)' <=> Fresh(r))
    BY <2>1 DEF Accepting, Fresh
  <2> QED
    BY <2>1, <2>2, <2>3 DEF FreshInv
<1>2. CASE JoinFetch(s) \/ JoinQuery(s) \/ JoinStore(s) \/ JoinFull(s) \/ ReadOn(s)
  <2>1. /\ UNCHANGED <<vws, life, sessions_>>
        /\ ops' = ops \/ ops' = [ops EXCEPT ![s] = @ \cup {"read"}]
        /\ pc[s] \in Joining \cup {"send"}
        /\ \E l \in Joining \cup {"idle"} :
              pc' = [pc EXCEPT ![s] = l] /\ (l # "idle" => pc[s] \in Joining)
    BY <1>2 DEF JoinFetch, JoinQuery, JoinStore, JoinFull, ReadOn, Goto, Joining
  <2>2. /\ pc'[s] \in Joining \cup {"idle"} /\ (pc'[s] # "idle" => pc[s] \in Joining)
        /\ \A r \in Clients \ {s} : pc'[r] = pc[r] /\ ops'[r] = ops[r]
        /\ ops'[s] \subseteq ops[s] \cup {"read"} /\ pc[s] # "idle"
    BY <1>0, <2>1, ActorTypes DEF Joining
  <2>3. "accept" \notin ops'[s] /\ life'[s] = "live" /\ pc'[s] # "join"
    BY <1>0, <2>1, <2>2 DEF Joining
  <2>4. Accepting(s)' /\ ~Fresh(s)' /\ (pc'[s] \in Joining => pc[s] \in Joining)
    BY <2>2, <2>3 DEF Accepting, Fresh, Joining
  <2>5. \A r \in Clients \ {s} : Accepting(r)' /\ (Fresh(r)' => Fresh(r))
    BY <2>1, <2>2 DEF FreshInv, Accepting, Fresh
  <2> QED
    BY <2>1, <2>2, <2>4, <2>5, FreshKept
<1>3. CASE Snap(s)
  BY <1>3, FreshSnap, ActorTypes
<1>4. CASE \E r \in Clients : SendTo(s, r)
  BY <1>4, FreshSend, ActorTypes
<1>5. CASE Leave(s)
  <2>1. /\ UNCHANGED <<vws, ops, pc>> /\ sessions_' = sessions_ \ {s}
        /\ life'[s] = "freed" /\ \A r \in Clients \ {s} : life'[r] = life[r]
    BY <1>0, <1>5 DEF Leave
  <2>2. \A r \in Clients : Accepting(r)' /\ (Fresh(r)' => Fresh(r))
    BY <2>1 DEF FreshInv, Accepting, Fresh
  <2> QED
    BY <2>1, <2>2, FreshKept
<1> QED
  BY <1>1, <1>2, <1>3, <1>4, <1>5 DEF Strand

\* The caller loop, the end of main, the signal and the world.
LEMMA FreshOther ==
    ASSUME TypeOK, SessionInv, FreshInv, Caller \/ Main \/ StopIoc \/ WorldStep \/ Signal
    PROVE  FreshInv'
<1> USE DEF state, round, ending, io, env
<1>1. CASE Snap("caller")
  BY <1>1, FreshSnap, ActorTypes
<1>2. CASE \E r \in Clients : SendTo("caller", r)
  BY <1>2, FreshSend, ActorTypes
<1>3. CASE ~Snap("caller") /\ ~(\E r \in Clients : SendTo("caller", r))
  <2>1. /\ UNCHANGED <<vws, life, sessions_>>
        /\ pc' = pc \/ \E l : pc' = [pc EXCEPT !["caller"] = l]
    BY <1>3 DEF Caller, CallerCheck, CallerBump, CallerStats, CallerAssign, CallerBuild,
                CallerSent, CallerSave, Goto,
                Main, BeginClose, CloseOne, EndClose, DestroyIoc, Return, StopIoc, WorldStep, Signal
  <2>2. \A r \in Clients : pc'[r] = pc[r]
    BY <2>1, ActorTypes
  <2>3. \A r \in Clients : ops'[r] \subseteq ops[r] \cup {"close"}
    <3>1. ops \in [Clients -> SUBSET {"accept", "read", "close"}]
      BY DEF TypeOK
    <3>2. CASE ops' = ops
      BY <3>2
    <3>3. CASE \E s \in Clients : ops' = [ops EXCEPT ![s] = @ \cup {"close"}]
      BY <3>1, <3>3
    <3>4. CASE ops' = [s \in Clients |-> {}]
      BY <3>4
    <3> QED
      BY <1>3, <3>2, <3>3, <3>4
         DEF Caller, CallerCheck, CallerBump, CallerStats, CallerAssign, CallerBuild,
             CallerSent, CallerSave,
             Main, BeginClose, CloseOne, EndClose, DestroyIoc, Return, StopIoc, WorldStep, Signal
  <2>4. \A r \in Clients : Accepting(r)' /\ (Fresh(r)' => Fresh(r))
    BY <2>1, <2>2, <2>3 DEF FreshInv, Accepting, Fresh
  <2> QED
    BY <2>1, <2>2, <2>4, FreshKept
<1> QED
  BY <1>1, <1>2, <1>3

\* Every step keeps FreshInv.
LEMMA FreshStep == TypeOK /\ SessionInv /\ FreshInv /\ [Next]_vars => FreshInv'
<1> SUFFICES ASSUME TypeOK, SessionInv, FreshInv, [Next]_vars PROVE FreshInv'
  OBVIOUS
<1>1. CASE \E s \in Clients : Session(s)
  BY <1>1, FreshHandler, FreshStrand DEF Session
<1>2. CASE Caller \/ Main \/ StopIoc \/ WorldStep \/ Signal
  BY <1>2, FreshOther
<1>3. CASE UNCHANGED vars
  BY <1>3 DEF FreshInv, Accepting, Fresh, vars, state, round, ending, io, env
<1> QED
  BY <1>1, <1>2, <1>3 DEF Next

\* It always holds.
LEMMA FreshAlways == Spec => []FreshInv
<1>1. Init => FreshInv
  BY DEF Init, FreshInv, Accepting
<1> QED
  BY <1>1, FreshStep, SyncTypeCorrect, SessionAlways, PTL DEF Spec

-----------------------------------------------------------------------------
(* Sessions that were sent nothing, and the age of the documents *)

\* join has yet to send s the full document.
Bare(s) == Fresh(s) \/ pc[s] \in Joining

\* Such a session has nothing on its way, and its client nothing.
BareInv == \A s \in Clients : Bare(s) => doc[s] = None /\ ~Pending(s)

\* A session is sent the full document once.
LEMMA BareStays ==
    ASSUME TypeOK, [Next]_vars, NEW s \in Clients, Bare(s)'
    PROVE  Bare(s)
<1> USE DEF state, round, ending, io, env
<1>0. /\ life \in [Clients -> {"new", "live", "freed"}]
      /\ ops \in [Clients -> SUBSET {"accept", "read", "close"}]
  BY DEF TypeOK
<1>1. ASSUME NEW r \in Clients, Run(r) PROVE Bare(s)
  <2>1. pc' = pc /\ life[r] = "new" /\ \A q \in Clients \ {r} : life'[q] = life[q] /\ ops'[q] = ops[q]
    BY <1>0, <1>1 DEF Run
  <2> QED
    BY <2>1 DEF Bare, Fresh
<1>2. ASSUME NEW r \in Clients,
             OnAccept(r) \/ OnRead(r) \/ OnReadError(r) \/ OnSend(r) \/ OnWrite(r)
             \/ OnWriteError(r) \/ OnClose(r)
      PROVE  Bare(s)
  <2>1. life' = life /\ \A q \in Clients : ops'[q] \subseteq ops[q] \cup {"close"}
    BY <1>0, <1>2 DEF OnAccept, OnRead, OnReadError, OnSend, OnWrite, OnWriteError, OnClose, Without
  <2>2. \/ pc' = pc \/ pc' = [pc EXCEPT ![r] = "snap"]
        \/ "accept" \in ops[r] /\ pc' = [pc EXCEPT ![r] = "join"]
    BY <1>2 DEF OnAccept, OnRead, OnReadError, OnSend, OnWrite, OnWriteError, OnClose, Goto
  <2>3. pc'[s] \in Joining \cup {"join"} => pc'[s] = pc[s] \/ "accept" \in ops[s]
    BY <2>2, ActorTypes DEF Joining
  <2> QED
    BY <2>1, <2>3 DEF Bare, Fresh
<1>3. ASSUME NEW r \in Clients, Strand(r) \/ Leave(r) PROVE Bare(s)
  <2>1. /\ life'[s] = "new" => life[s] = "new"
        /\ ops'[s] \subseteq ops[s] \cup {"read"}
    BY <1>0, <1>3 DEF Strand, Leave, JoinInsert, JoinFetch, JoinQuery, JoinStore, JoinFull, Snap,
                     SendTo, ReadOn
  <2>2. \/ pc' = pc
        \/ \E l \in Joining : pc[r] \in Joining \cup {"join"} /\ pc' = [pc EXCEPT ![r] = l]
        \/ \E l \in {"send", "idle"} : pc' = [pc EXCEPT ![r] = l]
    BY <1>3 DEF Strand, Leave, JoinInsert, JoinFetch, JoinQuery, JoinStore, JoinFull, Snap, SendTo,
                ReadOn, Goto, Joining
  <2>3. pc'[s] \in Joining \cup {"join"} => pc[s] \in Joining \cup {"join"}
    BY <2>2, ActorTypes DEF Joining
  <2> QED
    BY <2>1, <2>3 DEF Bare, Fresh
<1>4. ASSUME Caller \/ Main \/ StopIoc \/ WorldStep \/ Signal \/ UNCHANGED vars PROVE Bare(s)
  <2>1. /\ life' = life
        /\ pc' = pc \/ \E l : pc' = [pc EXCEPT !["caller"] = l]
    BY <1>4 DEF Caller, CallerCheck, CallerBump, CallerStats, CallerAssign, CallerBuild, Snap, SendTo,
                CallerSent, CallerSave, Goto, Main, BeginClose, CloseOne, EndClose, DestroyIoc, Return,
                StopIoc, WorldStep, Signal, vars
  <2>2. pc'[s] = pc[s]
    BY <2>1, ActorTypes
  <2>3. ops'[s] \subseteq ops[s] \cup {"close"}
    <3>1. CASE ops' = ops
      BY <3>1
    <3>2. CASE \E r \in Clients : ops' = [ops EXCEPT ![r] = @ \cup {"close"}]
      BY <1>0, <3>2
    <3>3. CASE ops' = [r \in Clients |-> {}]
      BY <3>3
    <3> QED
      BY <1>4, <3>1, <3>2, <3>3
         DEF Caller, CallerCheck, CallerBump, CallerStats, CallerAssign, CallerBuild, Snap, SendTo,
             CallerSent, CallerSave, Main, BeginClose, CloseOne, EndClose, DestroyIoc, Return,
             StopIoc, WorldStep, Signal, vars
  <2> QED
    BY <2>1, <2>2, <2>3 DEF Bare, Fresh
<1> QED
  BY <1>1, <1>2, <1>3, <1>4 DEF Next, Session

\* The full document is all that makes a difference to a session that is bare.
LEMMA BareStep == TypeInv /\ SessionInv /\ FreshInv /\ BareInv /\ [Next]_vars => BareInv'
<1> SUFFICES ASSUME TypeInv, SessionInv, FreshInv, BareInv, [Next]_vars, NEW s \in Clients, Bare(s)'
             PROVE  (doc[s] = None /\ ~Pending(s))'
  BY DEF BareInv
<1> USE DEF state, round, ending, io, env, TypeInv
<1>0. /\ doc \in [Clients -> Docs] /\ posted \in [Clients -> Seq(Messages)]
      /\ queue_ \in [Clients -> Seq(Messages)] /\ writes \in [Clients -> Nat]
      /\ ops \in [Clients -> SUBSET {"accept", "read", "close"}]
  BY DEF TypeOK
<1>1. Bare(s) /\ doc[s] = None /\ queue_[s] = <<>> /\ posted[s] = <<>>
  BY BareStays DEF BareInv, Pending
<1>2. writes[s] = 0 /\ \A a \in Casters : s \notin vws[a]
  BY <1>0, <1>1 DEF WriteExclusive, FreshInv, Bare
<1>3. ASSUME JoinFull(s) PROVE FALSE
  <2>1. /\ life' = life /\ pc[s] = "full" /\ pc'[s] = "idle" /\ ops'[s] = ops[s] \cup {"read"}
    BY <1>0, <1>3, ActorTypes DEF JoinFull, Goto
  <2>2. life[s] = "live" /\ "accept" \notin ops[s]
    BY <2>1 DEF SessionInv, FreshInv, Accepting
  <2> QED
    BY <2>1, <2>2 DEF Bare, Fresh, Joining
<1>4. ASSUME NEW r \in Clients, Session(r)
      PROVE  doc'[s] = doc[s] /\ queue_'[s] = queue_[s] /\ posted'[s] = posted[s]
  <2>1. CASE OnSend(r) \/ OnWrite(r)
    <3>1. r # s
      BY <1>1, <1>2, <2>1 DEF OnSend, OnWrite
    <3> QED
      BY <1>0, <2>1, <3>1 DEF OnSend, OnWrite
  <2>2. CASE JoinFull(r)
    <3>1. r # s
      BY <1>3, <2>2
    <3> QED
      BY <1>0, <2>2, <3>1 DEF JoinFull
  <2>3. CASE \E q \in Clients : SendTo(r, q)
    <3>1. PICK q \in Clients : SendTo(r, q)
      BY <2>3
    <3>2. q # s
      BY <1>2, <3>1, ActorTypes DEF SendTo
    <3> QED
      BY <1>0, <3>1, <3>2 DEF SendTo
  <2>4. CASE \/ Run(r) \/ OnAccept(r) \/ OnRead(r) \/ OnReadError(r) \/ OnWriteError(r) \/ OnClose(r)
             \/ Leave(r) \/ JoinInsert(r) \/ JoinFetch(r) \/ JoinQuery(r) \/ JoinStore(r)
             \/ Snap(r) \/ ReadOn(r)
    BY <2>4 DEF Run, OnAccept, OnRead, OnReadError, OnWriteError, OnClose, Leave, JoinInsert,
                JoinFetch, JoinQuery, JoinStore, Snap, ReadOn
  <2> QED
    BY <1>4, <2>1, <2>2, <2>3, <2>4 DEF Session, Strand
<1>5. ASSUME Caller \/ Main \/ StopIoc \/ WorldStep \/ Signal \/ UNCHANGED vars
      PROVE  doc'[s] = doc[s] /\ queue_'[s] = queue_[s] /\ posted'[s] = posted[s]
  <2>1. CASE \E q \in Clients : SendTo("caller", q)
    <3>1. PICK q \in Clients : SendTo("caller", q)
      BY <2>1
    <3>2. q # s
      BY <1>2, <3>1, ActorTypes DEF SendTo
    <3> QED
      BY <1>0, <3>1, <3>2 DEF SendTo
  <2>2. CASE DestroyIoc
    BY <1>1, <2>2 DEF DestroyIoc
  <2>3. CASE ~DestroyIoc /\ ~(\E q \in Clients : SendTo("caller", q))
    BY <1>5, <2>3 DEF Caller, CallerCheck, CallerBump, CallerStats, CallerAssign, CallerBuild, Snap,
                CallerSent, CallerSave, Main, BeginClose, CloseOne, EndClose, Return, StopIoc,
                WorldStep, Signal, vars
  <2> QED
    BY <2>1, <2>2, <2>3
<1>6. doc'[s] = None /\ queue_'[s] = <<>> /\ posted'[s] = <<>>
  BY <1>1, <1>4, <1>5 DEF Next
<1> QED
  BY <1>6 DEF Pending

\* curr_stats, and what the caller loop is about to assign to it, are not of the
\* future.
TimeInv == curr_stats <= world /\ (pc["caller"] = "assign" => fetched <= world)

\* Every step keeps TimeInv.
LEMMA TimeStep == TypeOK /\ AnswerInv /\ TimeInv /\ [Next]_vars => TimeInv'
<1> SUFFICES ASSUME TypeOK, AnswerInv, TimeInv, [Next]_vars PROVE TimeInv'
  OBVIOUS
<1> USE DEF state, round, ending, io, env
<1>0. /\ world \in Nat /\ curr_stats \in Int /\ fetched \in Int /\ Torn \in Int /\ Torn <= world
  BY DEF TypeOK, Bodies, Torn
<1>1. CASE CallerStats
  BY <1>0, <1>1 DEF CallerStats, TimeInv
<1>2. CASE CallerAssign
  <2>1. world' = world /\ curr_stats' \in {fetched, Torn} /\ fetched <= world /\ pc'["caller"] = "build"
    BY <1>2, ActorTypes DEF CallerAssign, TimeInv, Goto
  <2> QED
    BY <1>0, <2>1 DEF TimeInv
<1>3. CASE \E s \in Clients : JoinStore(s)
  <2>1. /\ world' = world /\ curr_stats' \in {answer, Torn} /\ fetched' = fetched
        /\ pc'["caller"] = pc["caller"] /\ answer \in 1 .. world
    BY <1>3, ActorTypes DEF JoinStore, Goto, AnswerInv
  <2> QED
    BY <1>0, <2>1 DEF TimeInv
<1>4. CASE ~CallerStats /\ ~CallerAssign /\ ~\E s \in Clients : JoinStore(s)
  <2>1. UNCHANGED <<curr_stats, fetched>> /\ (world' = world \/ world' = world + 1)
    BY <1>4 DEF Next, vars, Session, Run, OnAccept, OnRead, OnReadError, OnSend, OnWrite,
         OnWriteError, OnClose, Leave, Strand, JoinInsert, JoinFetch, JoinQuery, JoinFull, Snap, SendTo,
         ReadOn, Caller, CallerCheck, CallerBump, CallerBuild, CallerSent, CallerSave, Main, BeginClose,
         CloseOne, EndClose, DestroyIoc, Return, StopIoc, WorldStep, Signal
  <2>2. \/ pc' = pc
        \/ \E a \in Casters, l \in (HandlerPCs \cup CallerPCs) \ {"assign"} : pc' = [pc EXCEPT ![a] = l]
    BY <1>4, ActorTypes DEF Next, vars, Session, Run, OnAccept, OnRead, OnReadError, OnSend, OnWrite,
         OnWriteError, OnClose, Leave, Strand, JoinInsert, JoinFetch, JoinQuery, JoinFull, Snap, SendTo,
         ReadOn, Caller, CallerCheck, CallerBump, CallerBuild, CallerSent, CallerSave, Main, BeginClose,
         CloseOne, EndClose, DestroyIoc, Return, StopIoc, WorldStep, Signal, Goto, HandlerPCs, CallerPCs
  <2>3. pc'["caller"] = "assign" => pc["caller"] = "assign"
    BY <2>2, ActorTypes
  <2> QED
    BY <1>0, <2>1, <2>3 DEF TimeInv
<1> QED
  BY <1>1, <1>2, <1>3, <1>4

\* Both always hold.
LEMMA AgeAlways == Spec => [](BareInv /\ TimeInv)
<1>1. Init => BareInv /\ TimeInv
  BY DEF Init, BareInv, TimeInv, Pending, Null
<1> QED
  BY <1>1, BareStep, TimeStep, TypeAlways, SessionAlways, FreshAlways, AnswerAlways, PTL DEF Spec, TypeInv

-----------------------------------------------------------------------------
(* What a client will have *)

\* The round that is under way has been sent to s.
Sent(s) == pc["caller"] = "save" \/ (pc["caller"] = "send" /\ s \notin vws["caller"])

\* What the round that is under way will tell.
Newest == IF pc["caller"] = "assign" THEN fetched ELSE curr_stats

\* e is the document of the last round s was sent; the next delta is made from
\* it, or from null, and leads to a later one.
Due(s, e) ==
    IF Sent(s) \/ pc["caller"] \in Before
    THEN e = curr_stats
    ELSE prev_stats \in {Null, e} /\ e <= Newest

\* What s has queued and then what is posted to it leads from the document of
\* its client to one that the next delta fits.
Chain(s) ==
    \E mid, e \in Sound :
        /\ Leads(doc[s], queue_[s], mid) /\ Leads(mid, posted[s], e)
        /\ Joined(s) /\ Lockable(s) => Due(s, e)

\* Nobody is told anything any more when ioc has stopped.
ChainInv == ~stopped => \A s \in Clients \ raced : Chain(s)

\* A session that nobody holds stays so.
LEMMA LockableStays ==
    ASSUME TypeOK, NEW r \in Clients, NEW s \in Clients, Session(s) \/ Caller \/ WorldStep \/ Signal,
           Lockable(r)'
    PROVE  Lockable(r) \/ life[r] = "new"
<1> USE DEF state, round, ending, io, env
<1>0. /\ life \in [Clients -> {"new", "live", "freed"}]
      /\ posted \in [Clients -> Seq(Messages)] /\ writes \in [Clients -> Nat]
      /\ ops \in [Clients -> SUBSET {"accept", "read", "close"}]
  BY DEF TypeOK
<1>1. CASE Run(s)
  BY <1>0, <1>1 DEF Run, Lockable, Referenced
<1>2. CASE OnAccept(s) \/ OnRead(s) \/ OnReadError(s) \/ OnSend(s) \/ OnWrite(s)
           \/ OnWriteError(s) \/ OnClose(s)
  <2>1. life' = life /\ Lockable(s)
    BY <1>2 DEF OnAccept, OnRead, OnReadError, OnSend, OnWrite, OnWriteError, OnClose, Ready,
                Lockable, Referenced
  <2>2. /\ ops' = ops \/ \E o : ops' = [ops EXCEPT ![s] = o]
        /\ pc' = pc \/ \E l : pc' = [pc EXCEPT ![s] = l]
    BY <1>2 DEF OnAccept, OnRead, OnReadError, OnSend, OnWrite, OnWriteError, OnClose, Goto, Without
  <2>3. /\ posted' = posted \/ \E o : posted' = [posted EXCEPT ![s] = o]
        /\ writes' = writes \/ \E l : writes' = [writes EXCEPT ![s] = l]
    BY <1>2 DEF OnAccept, OnRead, OnReadError, OnSend, OnWrite, OnWriteError, OnClose
  <2>4. CASE r # s
    <3>1. ops'[r] = ops[r] /\ pc'[r] = pc[r] /\ posted'[r] = posted[r] /\ writes'[r] = writes[r]
      BY <1>0, <2>2, <2>3, <2>4, ActorTypes
    <3> QED
      BY <2>1, <3>1 DEF Lockable, Referenced
  <2> QED
    BY <2>1, <2>4
<1>3. CASE Leave(s)
  BY <1>0, <1>3 DEF Leave, Lockable, Referenced
<1>4. CASE JoinInsert(s) \/ JoinFetch(s) \/ JoinQuery(s) \/ JoinStore(s) \/ JoinFull(s) \/ Snap(s) \/ ReadOn(s)
  <2>1. life' = life /\ pc[s] # "idle" /\ writes' = writes
    BY <1>4 DEF JoinInsert, JoinFetch, JoinQuery, JoinStore, JoinFull, Snap, ReadOn
  <2>2. /\ ops' = ops \/ \E o : ops' = [ops EXCEPT ![s] = o]
        /\ posted' = posted \/ \E o : posted' = [posted EXCEPT ![s] = o]
        /\ \E l : pc' = [pc EXCEPT ![s] = l]
    BY <1>4 DEF JoinInsert, JoinFetch, JoinQuery, JoinStore, JoinFull, Snap, ReadOn, Goto
  <2>3. CASE r # s
    <3>1. ops'[r] = ops[r] /\ pc'[r] = pc[r] /\ posted'[r] = posted[r]
      BY <1>0, <2>2, <2>3, ActorTypes
    <3> QED
      BY <2>1, <3>1 DEF Lockable, Referenced
  <2> QED
    BY <2>1, <2>3 DEF Lockable, Referenced
<1>5. CASE \E a \in Casters, t \in Clients : SendTo(a, t)
  BY <1>0, <1>5 DEF SendTo, Lockable, Referenced
<1>6. CASE CallerCheck \/ CallerBump \/ CallerStats \/ CallerAssign \/ CallerBuild \/ Snap("caller")
           \/ CallerSent \/ CallerSave \/ WorldStep \/ Signal
  <2>1. /\ UNCHANGED <<life, ops, writes, posted>>
        /\ pc' = pc \/ \E l : pc' = [pc EXCEPT !["caller"] = l]
    BY <1>6 DEF CallerCheck, CallerBump, CallerStats, CallerAssign, CallerBuild, Snap, CallerSent,
                CallerSave, WorldStep, Signal, Goto
  <2>2. pc'[r] = pc[r]
    BY <2>1, ActorTypes
  <2> QED
    BY <2>1, <2>2 DEF Lockable, Referenced
<1> QED
  BY <1>1, <1>2, <1>3, <1>4, <1>5, <1>6, ActorTypes DEF Session, Strand, Caller

\* A step that sends s nothing and leaves the next delta to it as it was.
LEMMA ChainKept ==
    ASSUME FreshInv, NEW s \in Clients, Chain(s),
           doc'[s] = doc[s], queue_'[s] = queue_[s], posted'[s] = posted[s],
           Lockable(s)' => Lockable(s) \/ life[s] = "new",
           Joined(s)' => Joined(s),
           \A e \in Sound : Joined(s)' /\ Lockable(s)' /\ Due(s, e) => Due(s, e)'
    PROVE  Chain(s)'
<1>1. PICK mid, e \in Sound : /\ Leads(doc[s], queue_[s], mid) /\ Leads(mid, posted[s], e)
                              /\ Joined(s) /\ Lockable(s) => Due(s, e)
  BY DEF Chain
<1>2. Joined(s)' /\ Lockable(s)' => Joined(s) /\ Lockable(s)
  BY DEF FreshInv, Fresh, Joined
<1>3. Joined(s)' /\ Lockable(s)' => Due(s, e)'
  BY <1>1, <1>2
<1>4. Leads(doc'[s], queue_'[s], mid) /\ Leads(mid, posted'[s], e)
  BY <1>1
<1> QED
  BY <1>3, <1>4 DEF Chain

\* s is sent m, which fits e and makes the next delta fit, too.
LEMMA ChainSends ==
    ASSUME TypeOK, NEW s \in Clients, NEW m \in Messages, NEW mid \in Sound, NEW e \in Sound,
           Leads(doc[s], queue_[s], mid), Leads(mid, posted[s], e),
           UNCHANGED <<doc, queue_>>, posted' = [posted EXCEPT ![s] = Append(@, m)],
           Apply(e, m) \in Sound, NEW x, x = Apply(e, m), e <= x,
           Joined(s)' /\ Lockable(s)' => Due(s, x)'
    PROVE  Chain(s)'
<1>1. posted[s] \in Seq(Messages) /\ posted'[s] = Append(posted[s], m)
  BY DEF TypeOK
<1>2. Leads(mid, Append(posted[s], m), Apply(e, m))
  BY <1>1, LeadsAppend
<1>3. Leads(doc'[s], queue_'[s], mid) /\ Leads(mid, posted'[s], x) /\ x \in Sound
  BY <1>1, <1>2
<1> QED
  BY <1>3 DEF Chain

\* Whether and what s is due, as long as the caller loop stands still.
LEMMA DueKept ==
    ASSUME NEW s \in Clients, UNCHANGED <<curr_stats, prev_stats, fetched>>,
           pc'["caller"] = pc["caller"], vws'["caller"] = vws["caller"]
    PROVE  \A e \in Sound : Due(s, e)' <=> Due(s, e)
  BY DEF Due, Sent, Newest

\* The handlers a strand starts: on_send and on_write move messages towards the
\* client.
LEMMA ChainHandler ==
    ASSUME TypeInv, FreshInv, NEW s \in Clients, Chain(s), NEW r \in Clients,
           Run(r) \/ OnAccept(r) \/ OnRead(r) \/ OnReadError(r) \/ OnSend(r)
           \/ OnWrite(r) \/ OnWriteError(r) \/ OnClose(r)
    PROVE  Chain(s)'
<1> USE DEF state, round, ending, io, env, TypeInv
<1>0. /\ posted \in [Clients -> Seq(Messages)] /\ queue_ \in [Clients -> Seq(Messages)]
      /\ writes \in [Clients -> Nat] /\ doc \in [Clients -> Docs]
  BY DEF TypeOK
<1>1. UNCHANGED <<curr_stats, prev_stats, fetched, vws, sessions_>>
  BY DEF Run, OnAccept, OnRead, OnReadError, OnSend, OnWrite, OnWriteError, OnClose
<1>2. pc' = pc \/ (pc[r] = "idle" /\ pc' = [pc EXCEPT ![r] = "join"])
               \/ (pc[r] = "idle" /\ pc' = [pc EXCEPT ![r] = "snap"])
  BY DEF Run, OnAccept, OnRead, OnReadError, OnSend, OnWrite, OnWriteError, OnClose, Goto, Ready
<1>3. pc'["caller"] = pc["caller"] /\ (pc'[s] \in Joining <=> pc[s] \in Joining)
  BY <1>2, ActorTypes DEF Joining
<1>4. (Joined(s)' => Joined(s)) /\ \A e \in Sound : Due(s, e)' <=> Due(s, e)
  <2>1. \A e \in Sound : Due(s, e)' <=> Due(s, e)
    BY <1>1, <1>3, DueKept
  <2> QED
    BY <1>1, <1>3, <2>1 DEF Joined
<1>5. Lockable(s)' => Lockable(s) \/ life[s] = "new"
  BY LockableStays DEF Session
<1>6. CASE UNCHANGED <<doc, queue_, posted>>
  BY <1>4, <1>5, <1>6, ChainKept
<1>7. ASSUME OnSend(r) \/ OnWrite(r), r # s PROVE Chain(s)'
  <2>1. doc'[s] = doc[s] /\ queue_'[s] = queue_[s] /\ posted'[s] = posted[s]
    BY <1>0, <1>7 DEF OnSend, OnWrite
  <2> QED
    BY <1>4, <1>5, <2>1, ChainKept
<1>8. PICK mid, e \in Sound : /\ Leads(doc[s], queue_[s], mid) /\ Leads(mid, posted[s], e)
                              /\ Joined(s) /\ Lockable(s) => Due(s, e)
  BY DEF Chain
<1>9. Joined(s)' /\ Lockable(s)' => Due(s, e)'
  BY <1>4, <1>5, <1>8 DEF FreshInv, Fresh, Joined
<1>10. ASSUME OnSend(r), r = s PROVE Chain(s)'
  <2>1. /\ posted[s] # <<>> /\ posted[s] \in Seq(Messages) /\ queue_[s] \in Seq(Messages)
        /\ doc' = doc /\ posted'[s] = Tail(posted[s])
        /\ queue_'[s] = Append(queue_[s], Head(posted[s]))
    BY <1>0, <1>10 DEF OnSend
  <2> DEFINE x == Apply(mid, Head(posted[s]))
  <2>2. Head(posted[s]) \in Messages
    BY <2>1
  <2>3. x \in Sound /\ Leads(x, Tail(posted[s]), e) /\ mid <= x
    BY <1>8, <2>1, LeadsTail
  <2>4. Leads(doc[s], Append(queue_[s], Head(posted[s])), x)
    BY <1>8, <2>1, <2>2, <2>3, LeadsAppend
  <2> HIDE DEF x
  <2>5. PICK y : y = x
    OBVIOUS
  <2>6. Leads(doc'[s], queue_'[s], y) /\ Leads(y, posted'[s], e) /\ y \in Sound
    BY <2>1, <2>3, <2>4, <2>5
  <2> QED
    BY <1>9, <2>6 DEF Chain
<1>11. ASSUME OnWrite(r), r = s PROVE Chain(s)'
  <2>1. queue_[s] # <<>> /\ queue_[s] \in Seq(Messages)
    BY <1>0, <1>11 DEF OnWrite, WriteExclusive
  <2>2. /\ doc'[s] = Apply(doc[s], Head(queue_[s])) /\ queue_'[s] = Tail(queue_[s])
        /\ posted' = posted
    BY <1>0, <1>11 DEF OnWrite
  <2>3. Leads(doc'[s], queue_'[s], mid) /\ Leads(mid, posted'[s], e)
    BY <1>8, <2>1, <2>2, LeadsTail
  <2> QED
    BY <1>9, <2>3 DEF Chain
<1> QED
  BY <1>6, <1>7, <1>10, <1>11 DEF Run, OnAccept, OnRead, OnReadError, OnWriteError, OnClose

\* The full document that join sends: unless the caller loop is between the
\* fetch and the copy of the list, it is the one the next delta is made from.
LEMMA ChainFull ==
    ASSUME TypeOK, SessionInv, RoundInv, FreshInv, BareInv, NEW s \in Clients, Chain(s), s \notin raced', JoinFull(s)
    PROVE  Chain(s)'
<1> USE DEF state, round, ending, io, env
<1>1. /\ UNCHANGED <<curr_stats, prev_stats, fetched, vws, sessions_, doc, queue_>>
      /\ posted' = [posted EXCEPT ![s] = Append(@, Full(sync_ver, curr_stats))]
      /\ pc[s] = "full" /\ pc'["caller"] = pc["caller"] /\ ~InRound
  BY ActorTypes DEF JoinFull, Goto
<1>2. pc["caller"] \in CallerPCs /\ pc["caller"] \notin {"assign", "build", "snap"}
  BY <1>1 DEF InRound, RoundInv, Written
<1>3. curr_stats \in Bodies /\ sync_ver \in Nat /\ curr_stats # Torn
  BY <1>2 DEF TypeOK, RoundInv, Written
<1>4. curr_stats \in Sound /\ Full(sync_ver, curr_stats) \in Messages
  BY <1>3, MessagesMade DEF Sound, Bodies
<1>5. Leads(None, queue_[s], None) /\ Leads(None, posted[s], None) /\ doc[s] = None /\ None \in Sound
  <2>1. doc[s] = None /\ queue_[s] = <<>> /\ posted[s] = <<>> /\ None \in Sound
    BY <1>1 DEF BareInv, Bare, Joining, Pending, Sound
  <2> QED
    BY <2>1, LeadsNone
<1>6. PICK m, c : m = Full(sync_ver, curr_stats) /\ c = curr_stats
  OBVIOUS
<1>7. Apply(None, m) = c /\ None <= c
  BY <1>3, <1>6 DEF Apply, Full, None, Bodies
<1>8. Due(s, c)'
  <2>1. s \notin vws["caller"]
    BY <1>1, ActorTypes DEF FreshInv, Joining
  <2>2. CASE pc["caller"] \in {"send", "save"}
    BY <1>1, <1>6, <2>1, <2>2 DEF Due, Sent
  <2>3. CASE pc["caller"] \in Before
    BY <1>1, <1>6, <2>3 DEF Due
  <2> QED
    BY <1>2, <2>2, <2>3 DEF CallerPCs, Before
<1> QED
  BY <1>1, <1>4, <1>5, <1>6, <1>7, <1>8, ChainSends

\* join, a broadcast by a client, and the destructor.
LEMMA ChainStrand ==
    ASSUME TypeOK, SessionInv, RoundInv, FreshInv, BareInv, NEW s \in Clients, Chain(s), s \notin raced',
           NEW r \in Clients, Strand(r) \/ Leave(r)
    PROVE  Chain(s)'
<1> USE DEF state, round, ending, io, env
<1>0. posted \in [Clients -> Seq(Messages)]
  BY DEF TypeOK
<1>1. Lockable(s)' => Lockable(s) \/ life[s] = "new"
  BY LockableStays DEF Session
<1>2. CASE JoinInsert(r) \/ JoinFetch(r) \/ JoinQuery(r) \/ Snap(r) \/ ReadOn(r) \/ Leave(r)
  <2>1. /\ UNCHANGED <<curr_stats, prev_stats, fetched, doc, queue_, posted>>
        /\ vws' = vws \/ \E V : vws' = [vws EXCEPT ![r] = V]
        /\ pc' = pc \/ \E l : pc' = [pc EXCEPT ![r] = l]
    BY <1>2 DEF JoinInsert, JoinFetch, JoinQuery, Snap, ReadOn, Leave, Goto
  <2>2. pc'["caller"] = pc["caller"] /\ vws'["caller"] = vws["caller"] /\ (r # s => pc'[s] = pc[s])
    BY <2>1, ActorTypes
  <2>3. \A e \in Sound : Due(s, e)' <=> Due(s, e)
    BY <2>1, <2>2, DueKept
  <2>4. /\ r # s => (s \in sessions_' => s \in sessions_)
        /\ r = s /\ ~JoinInsert(r) => (s \in sessions_' => s \in sessions_)
        /\ r = s /\ JoinInsert(r) => pc'[s] \in Joining
    BY <1>2, ActorTypes DEF JoinInsert, JoinFetch, JoinQuery, Snap, ReadOn, Leave, Goto, Joining
  <2>5. r = s /\ pc[s] \in Joining => pc'[s] \in Joining
    BY <1>2, <2>1, ActorTypes DEF JoinInsert, JoinFetch, JoinQuery, Snap, ReadOn, Leave, Referenced,
                                  Goto, Joining
  <2>6. Joined(s)' => Joined(s)
    BY <2>2, <2>4, <2>5 DEF Joined
  <2> QED
    BY <1>1, <2>1, <2>3, <2>6, ChainKept
<1>3. CASE JoinStore(r)
  <2>1. UNCHANGED <<doc, queue_, posted>>
    BY <1>3 DEF JoinStore
  <2>2. ~Joined(s)'
    <3>1. pc[r] = "store" /\ sessions_' = sessions_ /\ pc'[r] = "full" /\ (r # s => pc'[s] = pc[s])
      BY <1>3, ActorTypes DEF JoinStore, Goto
    <3>2. ~Joined(s)
      BY <3>1 DEF RoundInv, Written, Storing
    <3> QED
      BY <3>1, <3>2 DEF Joined, Joining
  <2> QED
    BY <1>1, <2>1, <2>2, ChainKept
<1>4. CASE JoinFull(r) /\ r = s
  BY <1>4, ChainFull
<1>5. CASE JoinFull(r) /\ r # s
  <2>1. /\ UNCHANGED <<curr_stats, prev_stats, fetched, vws, sessions_, doc, queue_>>
        /\ posted'[s] = posted[s] /\ pc'[s] = pc[s] /\ pc'["caller"] = pc["caller"]
    BY <1>0, <1>5, ActorTypes DEF JoinFull, Goto
  <2>2. \A e \in Sound : Due(s, e)' <=> Due(s, e)
    BY <2>1, DueKept
  <2>3. Joined(s)' => Joined(s)
    BY <2>1 DEF Joined
  <2> QED
    BY <1>1, <2>1, <2>2, <2>3, ChainKept
<1>6. CASE \E t \in Clients : SendTo(r, t)
  <2>1. PICK t \in Clients : SendTo(r, t)
    BY <1>6
  <2>2. /\ UNCHANGED <<curr_stats, prev_stats, fetched, sessions_, pc, doc, queue_>>
        /\ vws'["caller"] = vws["caller"]
        /\ posted' = IF Lockable(t) THEN [posted EXCEPT ![t] = Append(@, out[r])] ELSE posted
    BY <2>1, ActorTypes DEF SendTo
  <2>3. \A e \in Sound : Due(s, e)' <=> Due(s, e)
    BY <2>2, DueKept
  <2>4. Joined(s)' => Joined(s)
    BY <2>2 DEF Joined
  <2>5. CASE posted'[s] = posted[s]
    BY <1>1, <2>2, <2>3, <2>4, <2>5, ChainKept
  <2>6. CASE posted' = [posted EXCEPT ![s] = Append(@, out[r])]
    <3>1. PICK mid, e \in Sound : /\ Leads(doc[s], queue_[s], mid) /\ Leads(mid, posted[s], e)
                                  /\ Joined(s) /\ Lockable(s) => Due(s, e)
      BY DEF Chain
    <3>2. Joined(s)' /\ Lockable(s)' => Due(s, e)'
      BY <1>1, <2>3, <2>4, <3>1 DEF FreshInv, Fresh, Joined
    <3>3. PICK m \in Messages : m = out[r]
      BY ActorTypes
    <3>4. Apply(e, m) = e /\ e <= e
      <4>1. e \in Int
        BY DEF Sound, None
      <4> QED
        BY <3>3, <4>1 DEF RoundInv, Rounds, Apply
    <3> QED
      BY <2>2, <2>6, <3>1, <3>2, <3>3, <3>4, ChainSends
  <2> QED
    BY <1>0, <2>2, <2>5, <2>6
<1> QED
  BY <1>2, <1>3, <1>4, <1>5, <1>6 DEF Strand

\* The delta of a round reaches s: it is made from the document s is led to.
LEMMA ChainDelta ==
    ASSUME TypeOK, SessionInv, RoundInv, FreshInv, NEW s \in Clients, Chain(s), s \notin raced,
           SendTo("caller", s), Lockable(s)
    PROVE  Chain(s)'
<1> USE DEF state, round, ending, io, env
<1>1. /\ UNCHANGED <<curr_stats, prev_stats, pc, doc, queue_>>
      /\ pc["caller"] = "send" /\ s \in vws["caller"] /\ s \notin vws'["caller"]
      /\ posted' = [posted EXCEPT ![s] = Append(@, out["caller"])]
  BY ActorTypes DEF SendTo
<1>2. Joined(s)
  <2>1. life[s] = "live"
    BY DEF Lockable
  <2>2. s \in sessions_ /\ pc[s] \notin Joining
    BY <1>1, <2>1, ActorTypes DEF FreshInv
  <2> QED
    BY <2>2 DEF Joined
<1>3. PICK mid, e \in Sound : /\ Leads(doc[s], queue_[s], mid) /\ Leads(mid, posted[s], e)
                              /\ Joined(s) /\ Lockable(s) => Due(s, e)
  BY DEF Chain
<1>4. prev_stats \in {Null, e} /\ e <= curr_stats
  BY <1>1, <1>2, <1>3 DEF Due, Sent, Before, Newest
<1>5. PICK m \in Messages, c \in Bodies : m = out["caller"] /\ c = curr_stats
  BY ActorTypes DEF TypeOK
<1>6. c # Torn /\ m.kind = "delta" /\ m.from = prev_stats /\ m.to = c
  BY <1>1, <1>5 DEF RoundInv, Written, Rounds
<1>7. Apply(e, m) = c /\ c \in Sound /\ e <= c
  BY <1>4, <1>5, <1>6 DEF Apply, Sound, Bodies
<1>8. Due(s, c)'
  BY <1>1, <1>5 DEF Due, Sent
<1> QED
  BY <1>1, <1>3, <1>5, <1>7, <1>8, ChainSends

\* The caller loop.
LEMMA ChainCaller ==
    ASSUME TypeOK, SessionInv, RoundInv, FreshInv, TimeInv, NEW s \in Clients, Chain(s), s \notin raced, Caller
    PROVE  Chain(s)'
<1> USE DEF state, round, ending, io, env
<1>0. posted \in [Clients -> Seq(Messages)]
  BY DEF TypeOK
<1>1. Lockable(s)' => Lockable(s) \/ life[s] = "new"
  BY LockableStays
<1>2. UNCHANGED <<sessions_, doc, queue_>>
  BY DEF Caller, CallerCheck, CallerBump, CallerStats, CallerAssign, CallerBuild, Snap, SendTo,
         CallerSent, CallerSave
<1>3. \/ pc' = pc
      \/ \E l \in CallerPCs : pc' = [pc EXCEPT !["caller"] = l]
  BY DEF Caller, CallerCheck, CallerBump, CallerStats, CallerAssign, CallerBuild, Snap, SendTo,
         CallerSent, CallerSave, Goto, CallerPCs
<1>4. /\ pc'[s] = pc[s]
      /\ \A l : pc' = [pc EXCEPT !["caller"] = l] => pc'["caller"] = l
  BY <1>3, ActorTypes
<1>5. Joined(s)' => Joined(s)
  BY <1>2, <1>4 DEF Joined
<1>6. CASE CallerCheck \/ CallerBump \/ CallerStats \/ CallerAssign \/ CallerBuild
  <2>1. UNCHANGED <<prev_stats, posted>>
    BY <1>6 DEF CallerCheck, CallerBump, CallerStats, CallerAssign, CallerBuild
  <2>2. ASSUME CallerCheck \/ CallerBump, NEW e \in Sound, Due(s, e) PROVE Due(s, e)'
    <3>1. pc["caller"] \in Before /\ pc'["caller"] \in Before /\ curr_stats' = curr_stats
      BY <1>4, <2>2 DEF CallerCheck, CallerBump, Goto, Before
    <3> QED
      BY <2>2, <3>1 DEF Due
  <2>3. ASSUME CallerStats, NEW e \in Sound, Due(s, e) PROVE Due(s, e)'
    <3>1. pc["caller"] = "stats" /\ pc'["caller"] = "assign" /\ fetched' = world
      BY <1>4, <2>3 DEF CallerStats, Goto
    <3>2. e = curr_stats /\ prev_stats \in {Null, curr_stats} /\ curr_stats <= world
      BY <2>3, <3>1 DEF Due, Before, RoundInv, Rounds, TimeInv
    <3> QED
      BY <2>1, <3>1, <3>2 DEF Due, Before, Sent, Newest
  <2>4. ASSUME CallerAssign, NEW e \in Sound, Due(s, e), Joined(s)' PROVE Due(s, e)'
    <3>1. pc["caller"] = "assign" /\ pc'["caller"] = "build"
      BY <1>4, <2>4 DEF CallerAssign, Goto
    <3>2. \A r \in Clients : pc[r] # "store"
      BY <1>5, <2>4 DEF RoundInv, Written, Storing
    <3>3. curr_stats' = fetched
      BY <2>4, <3>2 DEF CallerAssign
    <3> QED
      BY <2>1, <2>4, <3>1, <3>3 DEF Due, Before, Sent, Newest
  <2>5. ASSUME CallerBuild, NEW e \in Sound, Due(s, e) PROVE Due(s, e)'
    <3>1. pc["caller"] = "build" /\ pc'["caller"] = "snap" /\ curr_stats' = curr_stats
      BY <1>4, <2>5 DEF CallerBuild, Goto
    <3> QED
      BY <2>1, <2>5, <3>1 DEF Due, Before, Sent, Newest
  <2>6. \A e \in Sound : Joined(s)' /\ Due(s, e) => Due(s, e)'
    BY <1>6, <2>2, <2>3, <2>4, <2>5
  <2> QED
    BY <1>1, <1>2, <1>5, <2>1, <2>6, ChainKept
<1>7. CASE Snap("caller")
  <2>1. /\ UNCHANGED <<curr_stats, prev_stats, posted>> /\ vws'["caller"] = sessions_
        /\ pc["caller"] = "snap" /\ pc'["caller"] = "send"
    BY <1>4, <1>7, ActorTypes DEF Snap, Goto
  <2>2. \A e \in Sound : Joined(s)' /\ Due(s, e) => Due(s, e)'
    BY <1>2, <2>1 DEF Due, Sent, Joined, Before, Newest
  <2> QED
    BY <1>1, <1>2, <1>5, <2>1, <2>2, ChainKept
<1>8. CASE \E r \in Clients : SendTo("caller", r)
  <2>1. PICK r \in Clients : SendTo("caller", r)
    BY <1>8
  <2>2. /\ UNCHANGED <<curr_stats, prev_stats, fetched, pc, life, ops, writes>>
        /\ vws'["caller"] = vws["caller"] \ {r}
        /\ posted' = IF Lockable(r) THEN [posted EXCEPT ![r] = Append(@, out["caller"])] ELSE posted
    BY <2>1, ActorTypes DEF SendTo
  <2>3. CASE r = s /\ Lockable(s)
    BY <2>1, <2>3, ChainDelta
  <2>4. CASE r = s /\ ~Lockable(s)
    <3>1. posted' = posted /\ ~Lockable(s)'
      BY <2>2, <2>4 DEF Lockable, Referenced
    <3> QED
      BY <1>1, <1>2, <1>5, <3>1, ChainKept
  <2>5. CASE r # s
    <3>1. posted'[s] = posted[s] /\ (s \in vws'["caller"] <=> s \in vws["caller"])
      BY <1>0, <2>2, <2>5
    <3>2. \A e \in Sound : Due(s, e) => Due(s, e)'
      BY <2>2, <3>1 DEF Due, Sent, Newest
    <3> QED
      BY <1>1, <1>2, <1>5, <3>1, <3>2, ChainKept
  <2> QED
    BY <2>3, <2>4, <2>5
<1>9. CASE CallerSent
  <2>1. /\ UNCHANGED <<curr_stats, posted>> /\ vws["caller"] = {}
        /\ pc["caller"] = "send" /\ pc'["caller"] = "save"
    BY <1>4, <1>9 DEF CallerSent, Goto
  <2>2. \A e \in Sound : Due(s, e) => Due(s, e)'
    BY <2>1 DEF Due, Sent, Before
  <2> QED
    BY <1>1, <1>2, <1>5, <2>1, <2>2, ChainKept
<1>10. CASE CallerSave
  <2>1. /\ UNCHANGED <<curr_stats, posted>> /\ prev_stats' = curr_stats
        /\ pc["caller"] = "save" /\ pc'["caller"] = "check"
    BY <1>4, <1>10 DEF CallerSave, Goto
  <2>2. \A e \in Sound : Due(s, e) => Due(s, e)'
    BY <2>1 DEF Due, Sent, Before
  <2> QED
    BY <1>1, <1>2, <1>5, <2>1, <2>2, ChainKept
<1> QED
  BY <1>6, <1>7, <1>8, <1>9, <1>10 DEF Caller

\* What the invariants before this one say of a step.
SyncInv == TypeInv /\ SessionInv /\ FirstInv /\ RoundInv /\ FreshInv /\ BareInv /\ TimeInv

\* Every step keeps ChainInv.
LEMMA ChainStep == SyncInv /\ ChainInv /\ [Next]_vars => ChainInv'
<1> SUFFICES ASSUME SyncInv, ChainInv, [Next]_vars, ~stopped', NEW s \in Clients \ raced'
             PROVE  Chain(s)'
  BY DEF ChainInv
<1> USE DEF state, round, ending, io, env, SyncInv
<1>1. raced \subseteq raced' /\ (stopped => stopped')
  BY DEF Next, vars, Session, Run, OnAccept, OnRead, OnReadError, OnSend, OnWrite, OnWriteError,
         OnClose, Leave, Strand, JoinInsert, JoinFetch, JoinQuery, JoinStore, JoinFull, Snap, SendTo,
         ReadOn, Caller, CallerCheck, CallerBump, CallerStats, CallerAssign, CallerBuild, CallerSent,
         CallerSave, Main, BeginClose, CloseOne, EndClose, DestroyIoc, Return, StopIoc, WorldStep,
         Signal
<1>2. Chain(s) /\ s \notin raced /\ ~stopped
  BY <1>1 DEF ChainInv
<1>3. CASE \E r \in Clients : Session(r)
  BY <1>2, <1>3, ChainHandler, ChainStrand DEF Session, TypeInv
<1>4. CASE Caller
  BY <1>2, <1>4, ChainCaller DEF TypeInv
<1>5. CASE Main \/ StopIoc
  BY <1>2, <1>5 DEF Main, BeginClose, CloseOne, EndClose, DestroyIoc, Return, StopIoc, FirstInv
<1>6. CASE WorldStep \/ Signal \/ UNCHANGED vars
  <2>1. UNCHANGED <<curr_stats, prev_stats, fetched, pc, vws, sessions_, life, ops, writes, posted, queue_, doc>>
    BY <1>6 DEF WorldStep, Signal, vars
  <2>2. \A e \in Sound : Due(s, e)' <=> Due(s, e)
    BY <2>1, DueKept
  <2>3. (Joined(s)' <=> Joined(s)) /\ (Lockable(s)' <=> Lockable(s))
    BY <2>1 DEF Joined, Lockable, Referenced
  <2> QED
    BY <1>2, <2>1, <2>2, <2>3, ChainKept
<1> QED
  BY <1>3, <1>4, <1>5, <1>6 DEF Next

\* The chain ends with the program, and so do the messages: no document changes
\* when ioc has stopped.
LEMMA PatchStep == SyncInv /\ ChainInv /\ PatchesFit /\ [Next]_vars /\ ChainInv' => PatchesFit'
<1> SUFFICES ASSUME SyncInv, ChainInv, PatchesFit, [Next]_vars, ChainInv', NEW s \in Clients \ raced'
             PROVE  doc'[s] \notin {Torn, Spoilt}
  BY DEF PatchesFit
<1> USE DEF state, round, ending, io, env
<1>1. raced \subseteq raced' /\ (doc' # doc => ~stopped')
  BY DEF Next, vars, Session, Run, OnAccept, OnRead, OnReadError, OnSend, OnWrite, OnWriteError,
         OnClose, Leave, Strand, JoinInsert, JoinFetch, JoinQuery, JoinStore, JoinFull, Snap, SendTo,
         ReadOn, Caller, CallerCheck, CallerBump, CallerStats, CallerAssign, CallerBuild, CallerSent,
         CallerSave, Main, BeginClose, CloseOne, EndClose, DestroyIoc, Return, StopIoc, WorldStep,
         Signal, Ready
<1>2. CASE doc' = doc
  BY <1>1, <1>2 DEF PatchesFit
<1>3. CASE ~stopped'
  <2>1. PICK mid \in Sound : Leads(doc'[s], queue_'[s], mid)
    BY <1>3 DEF ChainInv, Chain
  <2>2. TypeInv'
    BY TypeStep DEF SyncInv
  <2>3. queue_'[s] \in Seq(Messages)
    BY <2>2 DEF TypeInv, TypeOK
  <2>4. doc'[s] \in Sound
    BY <2>1, <2>3, LeadsEnds
  <2> QED
    BY <2>4 DEF Sound, None, Torn, Spoilt
<1> QED
  BY <1>1, <1>2, <1>3

\* All of them always hold.
LEMMA ChainAlways == Spec => []SyncInv /\ []ChainInv
<1>1. Init => ChainInv
  <2> SUFFICES ASSUME Init, NEW s \in Clients PROVE Chain(s)
    BY DEF ChainInv
  <2>1. /\ doc[s] = None /\ queue_[s] = <<>> /\ posted[s] = <<>> /\ sessions_ = {}
        /\ None \in Sound
    BY DEF Init, Sound
  <2>2. Leads(None, <<>>, None) /\ ~Joined(s)
    BY <2>1, LeadsNone DEF Joined
  <2> QED
    BY <2>1, <2>2 DEF Chain
<1>2. Spec => []SyncInv
  BY TypeAlways, SessionAlways, FirstAlways, RoundAlways, FreshAlways, AgeAlways, PTL DEF SyncInv
<1> QED
  BY <1>1, <1>2, ChainStep, PTL DEF Spec

\* Every delta that the caller loop broadcasts is applied to the document it was
\* made from, by every client that did not join between the fetch and the copy
\* of the list of a round, however joins, broadcasts, writes and failures
\* interleave.
THEOREM PatchesAlwaysFit == Spec => []PatchesFit
<1>1. Init => PatchesFit
  <2> SUFFICES ASSUME Init, NEW s \in Clients PROVE doc[s] \notin {Torn, Spoilt}
    BY DEF PatchesFit
  <2>1. doc[s] = None
    BY DEF Init
  <2> QED
    BY <2>1 DEF None, Torn, Spoilt
<1> QED
  BY <1>1, ChainAlways, PatchStep, PTL DEF Spec

\* No session that stays in the list misses a round of the caller loop: one that
\* has written all it was sent has, between rounds, shown its client the
\* document of the last one.  Due says which document the last message to a
\* session leads to.
THEOREM EveryoneIsUpToDate == Spec => []UpToDate
<1>1. SyncInv /\ ChainInv => UpToDate
  <2> SUFFICES ASSUME SyncInv, ChainInv, ~stopped, pc["caller"] \in Before,
                      NEW s \in sessions_ \ raced, Lockable(s), pc[s] \notin Joining, ~Pending(s)
               PROVE  doc[s] = curr_stats
    BY DEF UpToDate, Before, Joining
  <2>1. s \in Clients /\ Joined(s) /\ queue_[s] = <<>> /\ posted[s] = <<>>
    BY DEF SyncInv, TypeInv, TypeOK, Joined, Pending
  <2>2. PICK mid, e \in Sound : /\ Leads(doc[s], queue_[s], mid) /\ Leads(mid, posted[s], e)
                                /\ Due(s, e)
    BY <2>1 DEF ChainInv, Chain
  <2>3. doc[s] = e
    BY <2>1, <2>2, LeadsNowhere
  <2> QED
    BY <2>2, <2>3 DEF Due
<1> QED
  BY <1>1, ChainAlways, PTL

\* What on_write tells a client is never older than what the client has: the
\* documents along the messages that are on their way grow.
LEMMA ForwardStep ==
    ASSUME SyncInv, ChainInv, [Next]_vars, NEW s \in Clients \ raced'
    PROVE  doc[s] <= doc'[s]
<1> USE DEF state, round, ending, io, env
<1>0. doc \in [Clients -> Docs] /\ queue_ \in [Clients -> Seq(Messages)]
  BY DEF SyncInv, TypeInv, TypeOK
<1>1. raced \subseteq raced' /\ (doc' = doc \/ \E r \in Clients : OnWrite(r))
  BY DEF Next, vars, Session, Run, OnAccept, OnRead, OnReadError, OnSend, OnWrite, OnWriteError,
         OnClose, Leave, Strand, JoinInsert, JoinFetch, JoinQuery, JoinStore, JoinFull, Snap, SendTo,
         ReadOn, Caller, CallerCheck, CallerBump, CallerStats, CallerAssign, CallerBuild, CallerSent,
         CallerSave, Main, BeginClose, CloseOne, EndClose, DestroyIoc, Return, StopIoc, WorldStep,
         Signal
<1>2. CASE doc'[s] = doc[s]
  BY <1>0, <1>2 DEF Docs, Bodies, None, Torn, Spoilt
<1>3. CASE OnWrite(s)
  <2>1. ~stopped /\ doc'[s] = Apply(doc[s], Head(queue_[s])) /\ queue_[s] # <<>>
    BY <1>0, <1>3 DEF OnWrite, Ready, SyncInv, TypeInv, WriteExclusive, TypeOK
  <2>2. PICK mid \in Sound : Leads(doc[s], queue_[s], mid)
    BY <1>1, <2>1 DEF ChainInv, Chain
  <2> QED
    BY <1>0, <2>1, <2>2, LeadsTail
<1>4. CASE \E r \in Clients \ {s} : OnWrite(r)
  BY <1>0, <1>2, <1>4 DEF OnWrite
<1> QED
  BY <1>1, <1>2, <1>3, <1>4

\* The document of a client that did not join within a round only ever becomes a
\* later state of the world.
THEOREM NobodyGoesBack == Spec => NeverBackwards
<1>1. SyncInv /\ ChainInv /\ [Next]_vars => [\A s \in Clients \ raced' : doc[s] <= doc'[s]]_vars
  BY ForwardStep
<1> QED
  BY <1>1, ChainAlways, PTL DEF Spec, NeverBackwards
=============================================================================
