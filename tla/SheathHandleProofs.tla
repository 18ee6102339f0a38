-------------------------- MODULE SheathHandleProofs ------------------------
(***************************************************************************)
(* Proofs about the handles of Sheath: which of them still name a torrent, *)
(* wherever a thread, a call or an alert keeps one, and what m_all_handles *)
(* knows of the torrents.                                                  *)
(***************************************************************************)
EXTENDS SheathProofs

-----------------------------------------------------------------------------
(* Elements of a queue *)

Elements(s) == {s[i] : i \in 1 .. Len(s)}

\* The elements of a queue that gets one more.
LEMMA ElementsAppend ==
    ASSUME NEW S, NEW s \in Seq(S), NEW e \in S
    PROVE  Elements(Append(s, e)) = Elements(s) \cup {e}
<1>1. /\ Len(s) \in Nat /\ Len(Append(s, e)) = Len(s) + 1 /\ Append(s, e)[Len(s) + 1] = e
      /\ \A i \in 1 .. Len(s) : Append(s, e)[i] = s[i]
  OBVIOUS
<1>2. 1 .. Len(s) + 1 = (1 .. Len(s)) \cup {Len(s) + 1}
  BY <1>1
<1> QED
  BY <1>1, <1>2 DEF Elements

\* The elements of a queue whose first is taken.
LEMMA ElementsTail ==
    ASSUME NEW S, NEW s \in Seq(S), s # <<>>
    PROVE  /\ Elements(s) = Elements(Tail(s)) \cup {Head(s)}
           /\ Head(s) \in S
<1>1. /\ Len(s) \in Nat \ {0} /\ Len(Tail(s)) = Len(s) - 1 /\ Head(s) = s[1]
      /\ \A i \in 1 .. Len(s) - 1 : Tail(s)[i] = s[i + 1]
  OBVIOUS
<1>2. Elements(Tail(s)) \cup {Head(s)} \subseteq Elements(s)
  <2>1. \A i \in 1 .. Len(s) - 1 : i + 1 \in 1 .. Len(s)
    BY <1>1
  <2>2. 1 \in 1 .. Len(s)
    BY <1>1
  <2> QED
    BY <1>1, <2>1, <2>2 DEF Elements
<1>3. ASSUME NEW i \in 1 .. Len(s), i # 1 PROVE i - 1 \in 1 .. Len(s) - 1 /\ s[i] = Tail(s)[i - 1]
  BY <1>1, <1>3
<1>4. Elements(s) \subseteq Elements(Tail(s)) \cup {Head(s)}
  BY <1>1, <1>3 DEF Elements
<1> QED
  BY <1>1, <1>2, <1>4

\* An empty queue, and the elements of any.
LEMMA ElementsIn ==
    /\ Elements(<<>>) = {}
    /\ \A S : \A s \in Seq(S) : Elements(s) \subseteq S
    /\ \A e : Elements(<<e>>) = {e}
<1>1. Elements(<<>>) = {}
  BY DEF Elements
<1>2. \A S : \A s \in Seq(S) : Elements(s) \subseteq S
  BY DEF Elements
<1>3. ASSUME NEW e PROVE Elements(<<e>>) = {e}
  <2>1. Len(<<e>>) = 1 /\ <<e>>[1] = e
    OBVIOUS
  <2>2. 1 .. 1 = {1}
    OBVIOUS
  <2> QED
    BY <2>1, <2>2 DEF Elements
<1> QED
  BY <1>1, <1>2, <1>3

-----------------------------------------------------------------------------
(* The steps, by what they touch *)

\* What a job posted outside handle_alert carries: a save or an update, or what
\* the call of some thread was about to post.
Posted(j) ==
    \/ j.type \in {"save", "update"}
    \/ \E a \in Actors : /\ j.type = "add" /\ call[a].op = "add"
                         /\ j.t = call[a].t /\ j.params = call[a].params
    \/ \E a \in Actors : call[a].op \in HandleOps /\ j.type = call[a].op /\ j.h = call[a].h

\* What a thread may be doing next: nothing, an addition with the parameters the
\* file gives, a removal it began, or a call on the handle it found.
Begun(a, c) ==
    \/ c = Idle
    \/ c.op = "drop" /\ c.t \in dropped'
    \/ c.op = "remove" /\ call[a].op = "drop" /\ c.h[1] = call[a].t /\ IsLive(c.h)
    \/ c.op \in HandleOps \ {"remove"} /\ IsLive(c.h)
    \/ /\ c.op = "add" /\ c.t \in Torrents
       /\ \/ c.params \in {MagnetParams(c.t), FileParams(c.t), BufferParams(c.t)}
          \/ resume[c.t].file = "complete" /\ c.params = Loaded(resume[c.t].data)

\* A step that is not libtorrent's, handle_alert's, or the begin or end of a
\* process changes at most jobs, calls, the pump, the watch directory and what a
\* client drops.
Aside ==
    /\ UNCHANGED <<ltvars, alerts, m_all_handles, writing, finishing, spoiled>>
    /\ \/ UNCHANGED <<resume, dropped>>
       \/ \E w \in Workers, t \in Torrents : DropFile(w, t)
    /\ jobs' = jobs \/ \E j \in Jobs : jobs' = Append(jobs, j) /\ Posted(j)
    /\ call' = call \/ \E a \in Actors, c \in Calls : call' = [call EXCEPT ![a] = c] /\ Begun(a, c)

\* Every step is of one of six kinds.
LEMMA StepCases ==
    ASSUME TypeOK, [Next]_vars
    PROVE  \/ RunJob \/ TorrentEvent \/ HandleAlert
           \/ Start \/ (Up /\ Die)
           \/ Aside
<1> DEFINE Same == UNCHANGED <<ltvars, alerts, m_all_handles, writing, finishing, spoiled>>
           Kept == UNCHANGED <<resume, dropped>>
           Pst  == \E j \in Jobs : jobs' = Append(jobs, j) /\ Posted(j)
           Beg  == \E a \in Actors, c \in Calls : call' = [call EXCEPT ![a] = c] /\ Begun(a, c)
<1>0. /\ Same /\ Kept /\ (jobs' = jobs \/ Pst) /\ (call' = call \/ Beg) => Aside
  BY DEF Aside
<1> HIDE DEF Pst, Beg
<1>t. call \in [Actors -> Calls] /\ jobs \in Seq(Jobs) /\ gen \in [Torrents -> Nat]
      /\ live \subseteq Torrents /\ resume \in [Torrents -> Files] /\ Idle \in Calls
      /\ \A a \in Actors : call[a] \in Calls
  BY DEF TypeOK, Calls
<1>w. Workers \subseteq Actors /\ "pump" \in Actors /\ "loader" \in Actors
  BY DEF Actors
<1>i. ASSUME NEW a \in Actors, call' = [call EXCEPT ![a] = Idle] PROVE Beg
  BY <1>i, <1>t DEF Beg, Begun
<1>h. ASSUME NEW t \in live PROVE HandleOf(t) \in Handles /\ IsLive(HandleOf(t)) /\ HandleOf(t)[1] = t
  BY <1>t DEF HandleOf, Handles, IsLive
<1>b. ASSUME NEW a \in Actors, NEW t \in Torrents, NEW p,
             \/ p \in {MagnetParams(t), FileParams(t), BufferParams(t)}
             \/ resume[t].file = "complete" /\ p = Loaded(resume[t].data),
             BeginAdd(a, t, p)
      PROVE  Beg
  <2> DEFINE c == [op |-> "add", t |-> t, params |-> p]
  <2>1. p \in Params
    BY <1>b, <1>t, ParamsMade
  <2>2. c \in Calls
    BY <2>1 DEF Calls
  <2>3. Begun(a, c)
    BY <1>b DEF Begun
  <2>4. call' = [call EXCEPT ![a] = c]
    BY <1>b DEF BeginAdd
  <2> QED
    BY <2>2, <2>3, <2>4 DEF Beg
<1>1. CASE UNCHANGED vars
  BY <1>1, <1>0 DEF vars, queues, context, disk, pumping, env, calls
<1>2. ASSUME NEW a \in Actors, PostAdd(a) PROVE Aside
  <2>1. Same /\ Kept
    BY <1>2 DEF PostAdd, context, pumping, env
  <2>2. Beg
    BY <1>2, <1>i DEF PostAdd
  <2> DEFINE j == [type |-> "add", t |-> call[a].t, params |-> call[a].params]
  <2>3. jobs' = Append(jobs, j) /\ call[a].op = "add"
    BY <1>2 DEF PostAdd
  <2>4. j \in Jobs
    BY <1>t, <2>3, CallFields, JobsMade
  <2>5. Posted(j)
    BY <2>3 DEF Posted
  <2>6. Pst
    BY <2>3, <2>4, <2>5 DEF Pst
  <2> QED
    BY <1>0, <2>1, <2>2, <2>6
<1>3. ASSUME NEW w \in Workers, Worker(w) PROVE Aside
  <2>0. w \in Actors
    BY <1>w
  <2>1. CASE DropFind(w)
    <3>1. Same /\ Kept /\ jobs' = jobs
      BY <2>1 DEF DropFind, queues, context, disk, pumping, env
    <3>2. CASE call[w].t \in live
      <4> DEFINE c == [op |-> "remove", h |-> HandleOf(call[w].t)]
      <4>1. call' = [call EXCEPT ![w] = c] /\ call[w].op = "drop"
        BY <2>1, <3>2 DEF DropFind
      <4>2. c \in Calls
        BY <1>h, <3>2 DEF Calls, HandleOps
      <4>3. Begun(w, c)
        BY <1>h, <3>2, <4>1 DEF Begun
      <4>4. Beg
        BY <2>0, <4>1, <4>2, <4>3 DEF Beg
      <4> QED
        BY <1>0, <3>1, <4>4
    <3>3. CASE call[w].t \notin live
      <4>1. Beg
        BY <1>i, <2>0, <2>1, <3>3 DEF DropFind
      <4> QED
        BY <1>0, <3>1, <4>1
    <3> QED
      BY <3>2, <3>3
  <2>2. CASE PostCall(w)
    <3>1. Same /\ Kept /\ Beg
      BY <1>i, <2>0, <2>2 DEF PostCall, context, disk, pumping, env
    <3> DEFINE j == [type |-> call[w].op, h |-> call[w].h]
    <3>2. jobs' = Append(jobs, j) /\ call[w].op \in HandleOps
          /\ call[w].op \in {"remove", "pause", "unpause", "flag"}
      BY <2>2 DEF PostCall, HandleOps
    <3>3. j \in Jobs
      BY <1>t, <2>0, <3>2, CallFields, JobsMade
    <3>4. Posted(j)
      BY <2>0, <3>2 DEF Posted
    <3>5. Pst
      BY <3>2, <3>3, <3>4 DEF Pst
    <3> QED
      BY <1>0, <3>1, <3>5
  <2>3. CASE ListFiles(w)
    <3>1. Same /\ Kept /\ jobs' = jobs /\ Beg
      BY <1>i, <2>0, <2>3 DEF ListFiles, queues, context, disk, pumping, env
    <3> QED
      BY <1>0, <3>1
  <2> QED
    BY <1>2, <1>3, <2>0, <2>1, <2>2, <2>3 DEF Worker
<1>4. CASE Loader
  <2>1. ASSUME NEW t \in Torrents, LoadFile(t) PROVE Aside
    <3>1. Same /\ Kept /\ jobs' = jobs
      BY <2>1 DEF LoadFile, queues, context, disk, pumping, env
    <3>2. call' = call \/ Beg
      BY <1>b, <1>w, <2>1 DEF LoadFile
    <3> QED
      BY <1>0, <3>1, <3>2
  <2> QED
    BY <1>2, <1>4, <1>w, <2>1 DEF Loader
<1>5. CASE Pump
  <2>1. CASE PostUpdates
    <3>1. Same /\ Kept /\ call' = call /\ jobs' = Append(jobs, [type |-> "update"])
      BY <2>1 DEF PostUpdates, context, disk, calls, env
    <3>2. Pst
      BY <3>1, JobsMade DEF Pst, Posted
    <3> QED
      BY <1>0, <3>1, <3>2
  <2>2. CASE PopAlerts \/ EndPop \/ EndScan \/ PumpExit
    <3>1. Same /\ Kept /\ call' = call /\ jobs' = jobs
      BY <2>2 DEF PopAlerts, EndPop, EndScan, PumpExit, queues, context, disk, calls, env
    <3> QED
      BY <1>0, <3>1
  <2>3. ASSUME NEW t \in Torrents, ScanFile(t) PROVE Aside
    <3>1. Same /\ Kept /\ jobs' = jobs
      BY <2>3 DEF ScanFile, queues, context, disk, pumping, env
    <3>2. Beg
      BY <1>b, <1>w, <2>3 DEF ScanFile
    <3> QED
      BY <1>0, <3>1, <3>2
  <2> QED
    BY <1>2, <1>5, <1>w, <2>1, <2>2, <2>3 DEF Pump
<1>6. CASE End
  <2>1. ASSUME NEW t \in Torrents, RequestOne(t) PROVE Aside
    <3>1. Same /\ Kept /\ call' = call /\ jobs' = Append(jobs, Save(HandleOf(t), FALSE))
      BY <2>1 DEF RequestOne, RequestSave, disk, calls, env
    <3>2. HandleOf(t) \in Handles
      BY <1>t DEF HandleOf, Handles
    <3>3. Save(HandleOf(t), FALSE) \in Jobs /\ Save(HandleOf(t), FALSE).type = "save"
      BY <3>2, JobsMade DEF Save
    <3>4. Pst
      BY <3>1, <3>3 DEF Pst, Posted
    <3> QED
      BY <1>0, <3>1, <3>4
  <2>2. CASE BeginEnd \/ EndRequests \/ WaitForAlert \/ WaitDone \/ SaveSession
    <3>1. Same /\ Kept /\ call' = call /\ jobs' = jobs
      BY <2>2 DEF BeginEnd, EndRequests, WaitForAlert, WaitDone, SaveSession,
         queues, context, disk, calls, env
    <3> QED
      BY <1>0, <3>1
  <2> QED
    BY <1>6, <2>1, <2>2 DEF End
<1>7. CASE Environment
  <2>1. ASSUME NEW w \in Workers, NEW t \in Torrents, PostMagnet(w, t) \/ PostMetainfo(w, t)
        PROVE  Aside
    <3>1. Same /\ Kept /\ jobs' = jobs
      BY <2>1 DEF PostMagnet, PostMetainfo, queues, context, disk, pumping
    <3>2. Beg
      BY <1>b, <1>w, <2>1 DEF PostMagnet, PostMetainfo
    <3> QED
      BY <1>0, <3>1, <3>2
  <2>2. ASSUME NEW w \in Workers, NEW t \in Torrents, DropFile(w, t) PROVE Aside
    <3> DEFINE c == [op |-> "drop", t |-> t]
    <3>1. Same /\ jobs' = jobs
      BY <2>2 DEF DropFile, queues, context, pumping
    <3>2. call' = [call EXCEPT ![w] = c] /\ t \in dropped' /\ c \in Calls /\ w \in Actors
      BY <1>w, <2>2 DEF DropFile, Calls
    <3>3. Begun(w, c)
      BY <3>2 DEF Begun
    <3> QED
      BY <2>2, <3>1, <3>2, <3>3 DEF Aside
  <2>3. ASSUME NEW w \in Workers, NEW t \in Torrents,
               PauseResumeTorrent(w, t) \/ ResumeTorrent(w, t) \/ GetTorrent(w, t)
        PROVE  Aside
    <3>1. PICK op \in {"toggle", "start", "files"}, k \in {"pause", "unpause", "flag", "files"} :
             Found(w, op, t, k)
      BY <2>3 DEF PauseResumeTorrent, ResumeTorrent, GetTorrent
    <3> DEFINE c == [op |-> k, h |-> HandleOf(t)]
    <3>2. Same /\ Kept /\ jobs' = jobs /\ t \in live /\ call' = [call EXCEPT ![w] = c]
      BY <3>1 DEF Found, queues, context, disk, pumping
    <3>3. k \in HandleOps /\ k # "remove"
      BY DEF HandleOps
    <3>4. c \in Calls
      BY <1>h, <3>2, <3>3 DEF Calls
    <3>5. Begun(w, c)
      BY <1>h, <3>2, <3>3 DEF Begun
    <3>6. Beg
      BY <1>w, <3>2, <3>4, <3>5 DEF Beg
    <3> QED
      BY <1>0, <3>2, <3>6
  <2>4. CASE Signal \/ \E t \in Torrents : PutWatchFile(t)
    <3>1. Same /\ Kept /\ call' = call /\ jobs' = jobs
      BY <2>4 DEF Signal, PutWatchFile, queues, context, disk, pumping, calls
    <3> QED
      BY <1>0, <3>1
  <2> QED
    BY <1>7, <2>1, <2>2, <2>3, <2>4 DEF Environment, Client, Crash
<1> QED
  BY <1>1, <1>3, <1>4, <1>5, <1>6, <1>7 DEF Next, Abort

-----------------------------------------------------------------------------
(* Handles that may be called *)

\* The torrent is there, or a client asked to remove it.
Fine(h) == IsLive(h) \/ h[1] \in dropped

\* Only what a client dropped is ever removed; and wherever a handle waits for a
\* call (or its resume data for a file), it is fine.
HandleInv ==
    /\ \A j \in Elements(jobs) : j.type = "remove" => j.h[1] \in dropped
    /\ \A a \in Actors : /\ call[a].op = "drop" => call[a].t \in dropped
                         /\ call[a].op = "remove" => call[a].h[1] \in dropped
                         /\ call[a].op \in HandleOps => Fine(call[a].h)
    /\ \A a \in Elements(alerts) : a.type \in Answered \cup {"save_resume_data"} => Fine(a.h)
    /\ \A h \in Elements(finishing) : Fine(h)
    /\ \A w \in Elements(writing) : w.t \in live \cup dropped

\* What the network thread does with a job: it takes the first, and all that it
\* changes is the torrents and the alerts.
LEMMA RunJobTakes ==
    ASSUME TypeOK, RunJob
    PROVE  /\ jobs # <<>> /\ jobs' = Tail(jobs) /\ Head(jobs) \in Jobs
           /\ Elements(jobs) = Elements(jobs') \cup {Head(jobs)}
           /\ Up
           /\ UNCHANGED <<num_outstanding_resume_data, m_all_handles, resume, watch, spoiled, pump,
                          popped, writing, finishing, temp, todo, call, toLoad, proc, quit, runs,
                          requests, dropped>>
<1>1. jobs # <<>> /\ jobs' = Tail(jobs) /\ Up
  BY DEF RunJob, AddJob, RemoveJob, SaveJob, MoveJob, PauseJob, UnpauseJob, FlagJob, UpdateJob, NextJob
<1>2. UNCHANGED <<context, disk, pumping, calls, env>>
  BY DEF RunJob, AddJob, RemoveJob, SaveJob, MoveJob, PauseJob, UnpauseJob, FlagJob, UpdateJob
<1>3. jobs \in Seq(Jobs)
  BY DEF TypeOK
<1> QED
  BY <1>1, <1>2, <1>3, ElementsTail DEF context, disk, pumping, calls, env

\* What an event of a torrent changes.
LEMMA EventTouches ==
    ASSUME TorrentEvent
    PROVE  /\ Up
           /\ UNCHANGED <<live, gen, jobs, num_outstanding_resume_data, m_all_handles, resume, watch,
                          spoiled, pump, popped, writing, finishing, temp, todo, call, toLoad, proc,
                          quit, runs, requests, dropped>>
  BY DEF TorrentEvent, MetadataReceived, Finished, Progress, StorageMoved, queues, context, disk,
     pumping, calls, env

\* What handle_alert changes.
LEMMA AlertTouches ==
    ASSUME HandleAlert
    PROVE  /\ Up
           /\ UNCHANGED <<live, gen, st, changed, watch, pump, temp, todo, call, toLoad, proc, quit,
                          runs, requests, dropped>>
  BY DEF HandleAlert, OnMetadataReceived, OnAddTorrent, OnTorrentFinished, MoveFinished,
     OnSaveResumeData, WriteFile, OnSaveResumeDataFailed, OnTorrentPaused, OnStateUpdate,
     OnTorrentRemoved, NextAlert, ltvars, queues, context, disk, pumping, calls, env

\* What happens to the torrents of the session: a job may add one that is gone,
\* under the next handle, or remove one that was dropped.
LEMMA LiveSteps ==
    ASSUME TypeOK, HandleInv, RunJob \/ TorrentEvent \/ HandleAlert \/ Aside
    PROVE  \/ UNCHANGED <<live, gen>>
           \/ \E t \in Torrents : /\ t \notin live /\ live' = live \cup {t}
                                  /\ gen' = [gen EXCEPT ![t] = @ + 1] /\ dropped' = dropped
           \/ \E t \in dropped : live' = live \ {t} /\ gen' = gen /\ dropped' = dropped
<1>1. CASE TorrentEvent \/ HandleAlert \/ Aside
  BY <1>1, EventTouches, AlertTouches DEF Aside, ltvars
<1>2. CASE RunJob
  <2>1. Head(jobs) \in Jobs /\ Head(jobs) \in Elements(jobs) /\ dropped' = dropped
    BY <1>2, RunJobTakes
  <2>2. CASE AddJob
    <3>1. Head(jobs).t \in Torrents
      BY <2>1, <2>2, JobFields DEF AddJob, NextJob
    <3> QED
      BY <2>1, <2>2, <3>1 DEF AddJob, ltvars
  <2>3. CASE RemoveJob
    <3>1. Head(jobs).h[1] \in dropped
      BY <2>1, <2>3 DEF RemoveJob, NextJob, HandleInv
    <3> QED
      BY <2>1, <2>3, <3>1 DEF RemoveJob
  <2>4. CASE SaveJob \/ MoveJob \/ PauseJob \/ UnpauseJob \/ FlagJob \/ UpdateJob
    BY <2>4 DEF SaveJob, MoveJob, PauseJob, UnpauseJob, FlagJob, UpdateJob
  <2> QED
    BY <1>2, <2>2, <2>3, <2>4 DEF RunJob
<1> QED
  BY <1>1, <1>2

\* dropped only grows.
LEMMA DroppedGrows ==
    ASSUME TypeOK, RunJob \/ TorrentEvent \/ HandleAlert \/ Aside
    PROVE  dropped \subseteq dropped'
  BY RunJobTakes, EventTouches, AlertTouches DEF Aside, DropFile

\* Nothing but the end of the process makes a fine handle fail: a torrent goes
\* only when it was dropped, and comes back under a new handle only when it was
\* gone.
LEMMA FineStays ==
    ASSUME TypeOK, HandleInv, RunJob \/ TorrentEvent \/ HandleAlert \/ Aside
    PROVE  /\ \A h \in Handles : Fine(h) => Fine(h)'
           /\ live \cup dropped \subseteq live' \cup dropped'
           /\ dropped \subseteq dropped'
<1>1. dropped \subseteq dropped'
  BY DroppedGrows
<1>2. gen \in [Torrents -> Nat] /\ live \subseteq Torrents
  BY DEF TypeOK
<1>3. CASE UNCHANGED <<live, gen>>
  BY <1>1, <1>3 DEF Fine, IsLive
<1>4. ASSUME NEW t \in Torrents, t \notin live, live' = live \cup {t},
             gen' = [gen EXCEPT ![t] = @ + 1]
      PROVE  /\ \A h \in Handles : Fine(h) => Fine(h)'
             /\ live \cup dropped \subseteq live' \cup dropped'
  BY <1>1, <1>2, <1>4 DEF Fine, IsLive, Handles
<1>5. ASSUME NEW t \in dropped, live' = live \ {t}, gen' = gen
      PROVE  /\ \A h \in Handles : Fine(h) => Fine(h)'
             /\ live \cup dropped \subseteq live' \cup dropped'
  BY <1>1, <1>5 DEF Fine, IsLive
<1> QED
  BY <1>1, <1>3, <1>4, <1>5, LiveSteps

\* What the network thread reports of a job: at most one alert, which names a
\* torrent of the session whenever handle_alert will call it or save its data.
LEMMA RunJobPosts ==
    ASSUME TypeOK, RunJob
    PROVE  \/ alerts' = alerts
           \/ \E a \in Alerts : /\ alerts' = Append(alerts, a)
                                /\ a.type \in Answered \cup {"save_resume_data"} => IsLive(a.h)'
<1>1. Head(jobs) \in Jobs
  BY RunJobTakes
<1>t. gen \in [Torrents -> Nat] /\ live \subseteq Torrents /\ st \in [Torrents -> Status]
      /\ changed \subseteq live
  BY DEF TypeOK
<1>2. CASE AddJob
  <2> DEFINE t == Head(jobs).t
  <2>1. t \in Torrents
    BY <1>1, <1>2, JobFields DEF AddJob, NextJob
  <2>2. HandleOf(t) \in Handles /\ <<t, gen[t] + 1>> \in Handles
    BY <1>t, <2>1 DEF HandleOf, Handles
  <2>3. /\ [type |-> "add_torrent_error"] \in Alerts
        /\ Alert("add_torrent", HandleOf(t)) \in Alerts
        /\ Alert("add_torrent", <<t, gen[t] + 1>>) \in Alerts
    BY <2>2, AlertsMade DEF Plain
  <2>4. CASE alerts' = Append(alerts, [type |-> "add_torrent_error"])
    BY <2>3, <2>4 DEF Answered
  <2>5. CASE alerts' = Append(alerts, Alert("add_torrent", HandleOf(t))) /\ t \in live /\ UNCHANGED ltvars
    <3>1. PICK a \in Alerts : a = Alert("add_torrent", HandleOf(t))
      BY <2>3
    <3>2. IsLive(a.h)'
      BY <2>5, <3>1 DEF Alert, IsLive, HandleOf, ltvars
    <3> QED
      BY <2>5, <3>1, <3>2
  <2>6. CASE /\ alerts' = Append(alerts, Alert("add_torrent", <<t, gen[t] + 1>>))
             /\ live' = live \cup {t} /\ gen' = [gen EXCEPT ![t] = @ + 1]
    <3>1. PICK a \in Alerts : a = Alert("add_torrent", <<t, gen[t] + 1>>)
      BY <2>3
    <3>2. IsLive(a.h)'
      BY <1>t, <2>1, <2>6, <3>1 DEF Alert, IsLive
    <3> QED
      BY <2>6, <3>1, <3>2
  <2> QED
    BY <1>2, <2>4, <2>5, <2>6 DEF AddJob
<1>3. CASE RemoveJob
  <2>1. Head(jobs).h \in Handles
    BY <1>1, <1>3, JobFields DEF RemoveJob, NextJob
  <2>2. Alert("torrent_removed", Head(jobs).h) \in Alerts
        /\ Alert("torrent_removed", Head(jobs).h).type = "torrent_removed"
    BY <2>1, AlertsMade DEF Plain, Alert
  <2> QED
    BY <1>3, <2>2 DEF RemoveJob, Answered
<1>4. CASE SaveJob
  <2>1. PICK h \in Handles : h = Head(jobs).h
    BY <1>1, <1>4, JobFields DEF SaveJob, NextJob
  <2> DEFINE d == DataOf(st[h[1]])
  <2>2. d \in Data
    BY <1>t, <2>1, StatusMade DEF Handles
  <2> HIDE DEF d
  <2>3. /\ Alert("save_resume_data_failed", h) \in Alerts
        /\ Alert("save_resume_data_failed", h).type = "save_resume_data_failed"
        /\ [type |-> "save_resume_data", h |-> h, data |-> d] \in Alerts
    BY <2>1, <2>2, AlertsMade DEF Plain, Alert
  <2>4. \/ alerts' = Append(alerts, Alert("save_resume_data_failed", h))
        \/ alerts' = Append(alerts, [type |-> "save_resume_data", h |-> h, data |-> d]) /\ IsLive(h)
    BY <1>4, <2>1 DEF SaveJob, d
  <2>5. IsLive(h)' = IsLive(h)
    BY <1>4 DEF SaveJob, IsLive
  <2>6. CASE alerts' = Append(alerts, Alert("save_resume_data_failed", h))
    BY <2>3, <2>6 DEF Answered
  <2>7. CASE alerts' = Append(alerts, [type |-> "save_resume_data", h |-> h, data |-> d]) /\ IsLive(h)
    <3>1. PICK a \in Alerts : a = [type |-> "save_resume_data", h |-> h, data |-> d]
      BY <2>3
    <3>2. a.h = h
      BY <3>1
    <3> QED
      BY <2>5, <2>7, <3>1, <3>2
  <2> QED
    BY <2>4, <2>6, <2>7
<1>5. CASE PauseJob
  <2>1. PICK h \in Handles : h = Head(jobs).h
    BY <1>1, <1>5, JobFields DEF PauseJob, NextJob
  <2>2. Alert("torrent_paused", h) \in Alerts /\ Alert("torrent_paused", h).h = h
    BY <2>1, AlertsMade DEF Plain, Alert
  <2>3. IsLive(h)' = IsLive(h)
    BY <1>5 DEF PauseJob, IsLive
  <2>4. CASE alerts' = alerts
    BY <2>4
  <2>5. CASE alerts' = Append(alerts, Alert("torrent_paused", h)) /\ IsLive(h)
    <3>1. PICK a \in Alerts : a = Alert("torrent_paused", h)
      BY <2>2
    <3> QED
      BY <2>2, <2>3, <2>5, <3>1
  <2> QED
    BY <1>5, <2>1, <2>4, <2>5 DEF PauseJob
<1>6. CASE MoveJob \/ UnpauseJob \/ FlagJob
  BY <1>6 DEF MoveJob, UnpauseJob, FlagJob
<1>7. CASE UpdateJob
  <2> DEFINE S == {Entry(HandleOf(t), st[t]) : t \in changed}
  <2>1. S \in SUBSET Entries
    BY <1>t, StatusMade DEF HandleOf, Handles
  <2>2. [type |-> "state_update", status |-> S] \in Alerts
    BY <2>1, AlertsMade
  <2>3. alerts' = Append(alerts, [type |-> "state_update", status |-> S])
    BY <1>7 DEF UpdateJob
  <2> QED
    BY <2>2, <2>3 DEF Answered
<1> QED
  BY <1>2, <1>3, <1>4, <1>5, <1>6, <1>7 DEF RunJob

\* An event reports at most one alert, of a torrent of the session.
LEMMA EventPosts ==
    ASSUME TypeOK, TorrentEvent
    PROVE  \/ alerts' = alerts
           \/ \E a \in Alerts : /\ alerts' = Append(alerts, a) /\ a.type \in Answered
                                /\ a.h \in Handles /\ IsLive(a.h)
<1> PICK t \in Torrents : MetadataReceived(t) \/ Finished(t) \/ Progress(t) \/ StorageMoved(t)
  BY DEF TorrentEvent
<1>1. HandleOf(t) \in Handles
  BY DEF TypeOK, HandleOf, Handles
<1>2. /\ Alert("metadata_received", HandleOf(t)) \in Alerts
      /\ Alert("torrent_finished", HandleOf(t)) \in Alerts
  BY <1>1, AlertsMade DEF Plain
<1>3. \A k : Alert(k, HandleOf(t)).h = HandleOf(t) /\ Alert(k, HandleOf(t)).type = k
  BY DEF Alert
<1>4. t \in live => IsLive(HandleOf(t))
  BY DEF IsLive, HandleOf
<1>5. t \in live /\ (\/ alerts' = alerts
                     \/ alerts' = Append(alerts, Alert("metadata_received", HandleOf(t)))
                     \/ alerts' = Append(alerts, Alert("torrent_finished", HandleOf(t))))
  BY DEF MetadataReceived, Finished, Progress, StorageMoved, queues
<1> QED
  BY <1>1, <1>2, <1>3, <1>4, <1>5 DEF Answered

\* handle_alert takes at most one alert, the first, and posts at most one job,
\* to save or to move.
LEMMA AlertTakes ==
    ASSUME TypeOK, HandleAlert
    PROVE  /\ \/ alerts' = alerts
              \/ /\ alerts # <<>> /\ alerts' = Tail(alerts) /\ Head(alerts) \in Alerts
                 /\ Elements(alerts) = Elements(alerts') \cup {Head(alerts)}
                 /\ writing = <<>> /\ finishing = <<>>
           /\ \/ jobs' = jobs
              \/ \E j \in Jobs : jobs' = Append(jobs, j) /\ j.type \in {"save", "move"}
<1>t. alerts \in Seq(Alerts) /\ jobs \in Seq(Jobs) /\ finishing \in Seq(Handles)
      /\ popped \in Nat /\ popped <= Len(alerts)
  BY DEF TypeOK
<1> DEFINE Taken == /\ alerts # <<>> /\ alerts' = Tail(alerts) /\ Head(alerts) \in Alerts
                    /\ Elements(alerts) = Elements(alerts') \cup {Head(alerts)}
                    /\ writing = <<>> /\ finishing = <<>>
           Pst == \E j \in Jobs : jobs' = Append(jobs, j) /\ j.type \in {"save", "move"}
<1>1. ASSUME NEW k, NextAlert(k) PROVE Taken
  BY <1>1, <1>t, ElementsTail DEF NextAlert
<1>2. ASSUME NEW k \in Plain, NextAlert(k), NEW b \in BOOLEAN, RequestSave(Head(alerts).h, b) PROVE Pst
  <2>1. Head(alerts).h \in Handles
    BY <1>1, <1>2, AlertFields DEF NextAlert
  <2> QED
    BY <1>2, <2>1, JobsMade DEF RequestSave, Save
<1> HIDE DEF Taken, Pst
<1>3. CASE OnMetadataReceived \/ OnTorrentFinished \/ OnTorrentPaused
  <2>1. PICK k \in Plain : NextAlert(k) /\ RequestSave(Head(alerts).h, FALSE)
    BY <1>3 DEF OnMetadataReceived, OnTorrentFinished, OnTorrentPaused, Plain
  <2>2. Taken /\ Pst
    BY <1>1, <1>2, <2>1
  <2> QED
    BY <2>2 DEF Taken, Pst
<1>4. CASE OnAddTorrent
  <2>1. Taken /\ (Pst \/ jobs' = jobs)
    BY <1>1, <1>2, <1>4 DEF OnAddTorrent, Plain
  <2> QED
    BY <2>1 DEF Taken, Pst
<1>5. CASE OnSaveResumeData \/ OnSaveResumeDataFailed \/ OnStateUpdate \/ OnTorrentRemoved
  <2>1. Taken /\ jobs' = jobs
    BY <1>1, <1>5 DEF OnSaveResumeData, OnSaveResumeDataFailed, OnStateUpdate, OnTorrentRemoved
  <2> QED
    BY <2>1 DEF Taken, Pst
<1>6. CASE MoveFinished
  <2>1. alerts' = alerts /\ finishing # <<>>
        /\ (jobs' = jobs \/ jobs' = Append(jobs, [type |-> "move", h |-> finishing[1]]))
    BY <1>6 DEF MoveFinished
  <2>2. finishing[1] \in Handles
    BY <1>t, <2>1
  <2>3. [type |-> "move", h |-> finishing[1]] \in Jobs
    BY <2>2, JobsMade
  <2> QED
    BY <2>1, <2>3
<1>7. CASE WriteFile
  BY <1>7 DEF WriteFile, queues
<1> QED
  BY <1>3, <1>4, <1>5, <1>6, <1>7 DEF HandleAlert

\* The first process finds nothing to call, nor does one that starts or died.
LEMMA HandleForget ==
    /\ Init => HandleInv
    /\ Forget => HandleInv'
<1>1. Elements(<<>>) = {}
  BY ElementsIn
<1>2. ASSUME NEW a \in Actors PROVE [b \in Actors |-> Idle][a].op = "idle"
  BY DEF Idle
<1> QED
  BY <1>1, <1>2 DEF Init, Forget, HandleInv, HandleOps

\* The typed places that keep a handle.
LEMMA HandlesKept ==
    ASSUME TypeOK
    PROVE  /\ jobs \in Seq(Jobs) /\ alerts \in Seq(Alerts)
           /\ Elements(jobs) \subseteq Jobs /\ Elements(alerts) \subseteq Alerts
           /\ \A a \in Elements(alerts) :
                a.type \in Answered \cup {"save_resume_data"} => a.h \in Handles
           /\ \A a \in Actors : call[a] \in Calls
           /\ \A a \in Actors : call[a].op \in HandleOps => call[a].h \in Handles
           /\ Elements(finishing) \subseteq Handles
           /\ Elements(writing) \subseteq Writes
<1>1. /\ jobs \in Seq(Jobs) /\ alerts \in Seq(Alerts) /\ finishing \in Seq(Handles)
      /\ writing \in Seq(Writes) /\ \A a \in Actors : call[a] \in Calls
  BY DEF TypeOK
<1>2. /\ Elements(jobs) \subseteq Jobs /\ Elements(alerts) \subseteq Alerts
      /\ Elements(finishing) \subseteq Handles /\ Elements(writing) \subseteq Writes
  BY <1>1, ElementsIn
<1>3. \A a \in Elements(alerts) : a.type \in Answered \cup {"save_resume_data"} => a.h \in Handles
  BY <1>2, AlertFields DEF Answered, Plain
<1> QED
  BY <1>1, <1>2, <1>3, CallFields

\* The parts of HandleInv that a step leaves alone stay true.
LEMMA HandleParts ==
    ASSUME TypeOK, HandleInv, RunJob \/ TorrentEvent \/ HandleAlert \/ Aside
    PROVE  /\ \A j \in Elements(jobs) : j.type = "remove" => j.h[1] \in dropped'
           /\ \A a \in Actors : /\ call[a].op = "drop" => call[a].t \in dropped'
                                /\ call[a].op = "remove" => call[a].h[1] \in dropped'
                                /\ call[a].op \in HandleOps => \A h : h = call[a].h => Fine(h)'
           /\ \A a \in Elements(alerts) : a.type \in Answered \cup {"save_resume_data"} => Fine(a.h)'
           /\ \A h \in Elements(finishing) : Fine(h)'
           /\ \A w \in Elements(writing) : w.t \in live' \cup dropped'
<1>1. /\ \A h \in Handles : Fine(h) => Fine(h)'
      /\ live \cup dropped \subseteq live' \cup dropped'
      /\ dropped \subseteq dropped'
  BY FineStays
<1>2. \A j \in Elements(jobs) : j.type = "remove" => j.h[1] \in dropped'
  BY <1>1 DEF HandleInv
<1>3. ASSUME NEW a \in Actors
      PROVE  /\ call[a].op = "drop" => call[a].t \in dropped'
             /\ call[a].op = "remove" => call[a].h[1] \in dropped'
  BY <1>1 DEF HandleInv
<1>4. ASSUME NEW a \in Actors, call[a].op \in HandleOps, NEW h, h = call[a].h PROVE Fine(h)'
  <2>1. h \in Handles /\ Fine(h)
    BY <1>4, HandlesKept DEF HandleInv
  <2> QED
    BY <1>1, <2>1
<1>5. ASSUME NEW a \in Elements(alerts), a.type \in Answered \cup {"save_resume_data"} PROVE Fine(a.h)'
  <2>1. a.h \in Handles /\ Fine(a.h)
    BY <1>5, HandlesKept DEF HandleInv
  <2> QED
    BY <1>1, <2>1
<1>6. ASSUME NEW h \in Elements(finishing) PROVE Fine(h)'
  <2>1. h \in Handles /\ Fine(h)
    BY HandlesKept DEF HandleInv
  <2> QED
    BY <1>1, <2>1
<1>7. \A w \in Elements(writing) : w.t \in live' \cup dropped'
  BY <1>1 DEF HandleInv
<1> QED
  BY <1>2, <1>3, <1>4, <1>5, <1>6, <1>7

\* A step that leaves the calls alone keeps what HandleInv says of them.
LEMMA HandleCalls ==
    ASSUME TypeOK, HandleInv, RunJob \/ TorrentEvent \/ HandleAlert \/ Aside, call' = call
    PROVE  \A a \in Actors : /\ call'[a].op = "drop" => call'[a].t \in dropped'
                             /\ call'[a].op = "remove" => call'[a].h[1] \in dropped'
                             /\ call'[a].op \in HandleOps => Fine(call[a].h)'
<1> SUFFICES ASSUME NEW a \in Actors
             PROVE  /\ call'[a].op = "drop" => call'[a].t \in dropped'
                    /\ call'[a].op = "remove" => call'[a].h[1] \in dropped'
                    /\ call'[a].op \in HandleOps => Fine(call[a].h)'
  OBVIOUS
<1>1. call'[a].op = "drop" => call'[a].t \in dropped'
  BY HandleParts
<1>2. call'[a].op = "remove" => call'[a].h[1] \in dropped'
  BY HandleParts
<1>3. ASSUME call'[a].op \in HandleOps PROVE Fine(call[a].h)'
  <2>1. PICK h : h = call[a].h
    OBVIOUS
  <2>2. Fine(h)'
    BY <1>3, <2>1, HandleParts
  <2> QED
    BY <2>1, <2>2 DEF Fine, IsLive
<1> QED
  BY <1>1, <1>2, <1>3

\* The network thread keeps every handle fine: it removes only what was dropped.
LEMMA HandleRunJob == TypeOK /\ HandleInv /\ RunJob => HandleInv'
<1> SUFFICES ASSUME TypeOK, HandleInv, RunJob PROVE HandleInv'
  OBVIOUS
<1>1. /\ Elements(jobs') \subseteq Elements(jobs)
      /\ UNCHANGED <<writing, finishing, call, dropped>>
  BY RunJobTakes
<1>2. \A a \in Elements(alerts') : a.type \in Answered \cup {"save_resume_data"} => Fine(a.h)'
  <2>1. CASE alerts' = alerts
    BY <2>1, HandleParts
  <2>2. ASSUME NEW a \in Alerts, alerts' = Append(alerts, a),
               a.type \in Answered \cup {"save_resume_data"} => IsLive(a.h)'
        PROVE  \A b \in Elements(alerts') : b.type \in Answered \cup {"save_resume_data"} => Fine(b.h)'
    <3>1. Elements(alerts') = Elements(alerts) \cup {a}
      BY <2>2, ElementsAppend DEF TypeOK
    <3>2. a.type \in Answered \cup {"save_resume_data"} => Fine(a.h)'
      BY <2>2 DEF Fine
    <3> QED
      BY <3>1, <3>2, HandleParts
  <2> QED
    BY <2>1, <2>2, RunJobPosts
<1>3. \A h \in Elements(finishing') : Fine(h)'
  BY <1>1, HandleParts
<1>4. \A w \in Elements(writing') : w.t \in live' \cup dropped'
  BY <1>1, HandleParts
<1>5. \A j \in Elements(jobs') : j.type = "remove" => j.h[1] \in dropped'
  BY <1>1, HandleParts
<1>6. \A a \in Actors : /\ call'[a].op = "drop" => call'[a].t \in dropped'
                        /\ call'[a].op = "remove" => call'[a].h[1] \in dropped'
                        /\ call'[a].op \in HandleOps => Fine(call[a].h)'
  BY <1>1, HandleCalls
<1> QED
  BY <1>2, <1>3, <1>4, <1>5, <1>6 DEF HandleInv

\* So do the events of the torrents.
LEMMA HandleEvent == TypeOK /\ HandleInv /\ TorrentEvent => HandleInv'
<1> SUFFICES ASSUME TypeOK, HandleInv, TorrentEvent PROVE HandleInv'
  OBVIOUS
<1>1. UNCHANGED <<live, gen, jobs, writing, finishing, call, dropped>>
  BY EventTouches
<1>2. \A a \in Elements(alerts') : a.type \in Answered \cup {"save_resume_data"} => Fine(a.h)'
  <2>1. CASE alerts' = alerts
    BY <2>1, HandleParts
  <2>2. ASSUME NEW a \in Alerts, alerts' = Append(alerts, a), IsLive(a.h)
        PROVE  \A b \in Elements(alerts') : b.type \in Answered \cup {"save_resume_data"} => Fine(b.h)'
    <3>1. Elements(alerts') = Elements(alerts) \cup {a}
      BY <2>2, ElementsAppend DEF TypeOK
    <3>2. Fine(a.h)'
      BY <1>1, <2>2 DEF Fine, IsLive
    <3> QED
      BY <3>1, <3>2, HandleParts
  <2> QED
    BY <2>1, <2>2, EventPosts
<1>3. \A h \in Elements(finishing') : Fine(h)'
  BY <1>1, HandleParts
<1>4. \A w \in Elements(writing') : w.t \in live' \cup dropped'
  BY <1>1, HandleParts
<1>5. \A j \in Elements(jobs') : j.type = "remove" => j.h[1] \in dropped'
  BY <1>1, HandleParts
<1>6. \A a \in Actors : /\ call'[a].op = "drop" => call'[a].t \in dropped'
                        /\ call'[a].op = "remove" => call'[a].h[1] \in dropped'
                        /\ call'[a].op \in HandleOps => Fine(call[a].h)'
  BY <1>1, HandleCalls
<1> QED
  BY <1>2, <1>3, <1>4, <1>5, <1>6 DEF HandleInv

\* handle_alert keeps a handle only in finishing and a torrent only in writing,
\* both taken from the alert it handles.
LEMMA HandleOnAlert == TypeOK /\ HandleInv /\ HandleAlert => HandleInv'
<1> SUFFICES ASSUME TypeOK, HandleInv, HandleAlert PROVE HandleInv'
  OBVIOUS
<1>1. UNCHANGED <<live, gen, call, dropped>>
  BY AlertTouches
<1>2. Elements(alerts') \subseteq Elements(alerts)
  BY AlertTakes
<1>3. \A a \in Elements(alerts') : a.type \in Answered \cup {"save_resume_data"} => Fine(a.h)'
  BY <1>2, HandleParts
<1>4. \A j \in Elements(jobs') : j.type = "remove" => j.h[1] \in dropped'
  <2>1. CASE jobs' = jobs
    BY <2>1, HandleParts
  <2>2. ASSUME NEW j \in Jobs, jobs' = Append(jobs, j), j.type \in {"save", "move"}
        PROVE  \A k \in Elements(jobs') : k.type = "remove" => k.h[1] \in dropped'
    <3>1. Elements(jobs') = Elements(jobs) \cup {j}
      BY <2>2, ElementsAppend DEF TypeOK
    <3> QED
      BY <2>2, <3>1, HandleParts
  <2> QED
    BY <2>1, <2>2, AlertTakes
<1>5. \A a \in Actors : /\ call'[a].op = "drop" => call'[a].t \in dropped'
                        /\ call'[a].op = "remove" => call'[a].h[1] \in dropped'
                        /\ call'[a].op \in HandleOps => Fine(call[a].h)'
  BY <1>1, HandleCalls
<1>6. ASSUME NEW k, NextAlert(k) PROVE Head(alerts) \in Elements(alerts) /\ Head(alerts).type = k
  <2>1. alerts # <<>>
    BY <1>6 DEF NextAlert, TypeOK
  <2> QED
    BY <1>6, <2>1, ElementsTail DEF NextAlert, TypeOK
<1>7. \A h \in Elements(finishing') : Fine(h)'
  <2>1. CASE finishing' = finishing
    BY <2>1, HandleParts
  <2>2. CASE finishing' = <<>>
    BY <2>2, ElementsIn
  <2>3. CASE OnTorrentFinished
    <3>1. Head(alerts) \in Elements(alerts) /\ Head(alerts).type = "torrent_finished"
      BY <1>6, <2>3 DEF OnTorrentFinished
    <3>2. PICK a \in Elements(alerts) : a = Head(alerts)
      BY <3>1
    <3>3. Fine(a.h)'
      BY <3>1, <3>2, HandleParts DEF Answered
    <3>4. Elements(finishing') = {a.h}
      BY <2>3, <3>2, ElementsIn DEF OnTorrentFinished
    <3> QED
      BY <3>3, <3>4
  <2> QED
    BY <2>1, <2>2, <2>3 DEF HandleAlert, OnMetadataReceived, OnAddTorrent, MoveFinished,
       OnSaveResumeData, WriteFile, OnSaveResumeDataFailed, OnTorrentPaused, OnStateUpdate,
       OnTorrentRemoved
<1>8. \A w \in Elements(writing') : w.t \in live' \cup dropped'
  <2>1. CASE writing' = writing
    BY <2>1, HandleParts
  <2>2. CASE writing' = <<>>
    BY <2>2, ElementsIn
  <2>3. CASE OnSaveResumeData /\ writing' = <<[t |-> Head(alerts).h[1], data |-> Head(alerts).data]>>
    <3>1. Head(alerts) \in Elements(alerts) /\ Head(alerts).type = "save_resume_data"
      BY <1>6, <2>3 DEF OnSaveResumeData
    <3>2. Head(alerts).h[1] \in live \cup dropped
      BY <3>1 DEF HandleInv, Fine, IsLive
    <3>3. Elements(writing') = {[t |-> Head(alerts).h[1], data |-> Head(alerts).data]}
      BY <2>3, ElementsIn
    <3> QED
      BY <1>1, <3>2, <3>3
  <2> QED
    BY <2>1, <2>2, <2>3 DEF HandleAlert, OnMetadataReceived, OnAddTorrent, OnTorrentFinished,
       MoveFinished, OnSaveResumeData, WriteFile, OnSaveResumeDataFailed, OnTorrentPaused,
       OnStateUpdate, OnTorrentRemoved
<1> QED
  BY <1>3, <1>4, <1>5, <1>7, <1>8 DEF HandleInv

\* A thread that looks a torrent up gets a handle that is fine, and what it posts
\* is what it had.
LEMMA HandleAside == TypeOK /\ HandleInv /\ Aside => HandleInv'
<1> SUFFICES ASSUME TypeOK, HandleInv, Aside PROVE HandleInv'
  OBVIOUS
<1>1. UNCHANGED <<live, gen, alerts, writing, finishing>>
  BY DEF Aside, ltvars
<1>2. \A a \in Elements(alerts') : a.type \in Answered \cup {"save_resume_data"} => Fine(a.h)'
  BY <1>1, HandleParts
<1>3. \A h \in Elements(finishing') : Fine(h)'
  BY <1>1, HandleParts
<1>4. \A w \in Elements(writing') : w.t \in live' \cup dropped'
  BY <1>1, HandleParts
<1>5. \A j \in Elements(jobs') : j.type = "remove" => j.h[1] \in dropped'
  <2>1. CASE jobs' = jobs
    BY <2>1, HandleParts
  <2>2. ASSUME NEW j \in Jobs, jobs' = Append(jobs, j), Posted(j)
        PROVE  \A k \in Elements(jobs') : k.type = "remove" => k.h[1] \in dropped'
    <3>1. Elements(jobs') = Elements(jobs) \cup {j}
      BY <2>2, ElementsAppend DEF TypeOK
    <3>2. j.type = "remove" => j.h[1] \in dropped'
      BY <2>2, HandleParts DEF Posted
    <3> QED
      BY <3>1, <3>2, HandleParts
  <2> QED
    BY <2>1, <2>2 DEF Aside
<1>6. \A a \in Actors : /\ call'[a].op = "drop" => call'[a].t \in dropped'
                        /\ call'[a].op = "remove" => call'[a].h[1] \in dropped'
                        /\ call'[a].op \in HandleOps => Fine(call[a].h)'
  <2>1. CASE call' = call
    BY <2>1, HandleCalls
  <2>2. ASSUME NEW b \in Actors, NEW c \in Calls, call' = [call EXCEPT ![b] = c], Begun(b, c),
               NEW a \in Actors
        PROVE  /\ call'[a].op = "drop" => call'[a].t \in dropped'
               /\ call'[a].op = "remove" => call'[a].h[1] \in dropped'
               /\ call'[a].op \in HandleOps => Fine(call[a].h)'
    <3>0. call \in [Actors -> Calls]
      BY DEF TypeOK
    <3>1. CASE a # b
      <4>1. call'[a] = call[a]
        BY <2>2, <3>0, <3>1
      <4>2. ASSUME call[a].op \in HandleOps PROVE Fine(call[a].h)'
        <5>1. PICK h : h = call[a].h
          OBVIOUS
        <5>2. Fine(h)'
          BY <4>2, <5>1, HandleParts
        <5> QED
          BY <4>1, <5>1, <5>2 DEF Fine, IsLive
      <4> QED
        BY <4>1, <4>2, HandleParts
    <3>2. CASE a = b
      <4>1. call'[a] = c
        BY <2>2, <3>0, <3>2
      <4>2. c.op = "drop" => c.t \in dropped'
        BY <2>2 DEF Begun, Idle, HandleOps
      <4>3. c.op = "remove" => c.h[1] \in dropped' /\ IsLive(c.h)
        BY <2>2, HandleParts DEF Begun, Idle
      <4>4. c.op \in HandleOps => IsLive(c.h)
        BY <2>2 DEF Begun, Idle, HandleOps
      <4>5. c.op \in HandleOps => Fine(c.h)'
        BY <1>1, <4>4 DEF Fine, IsLive
      <4> QED
        BY <4>1, <4>2, <4>3, <4>5 DEF Fine, IsLive
    <3> QED
      BY <3>1, <3>2
  <2> QED
    BY <2>1, <2>2 DEF Aside
<1> QED
  BY <1>2, <1>3, <1>4, <1>5, <1>6 DEF HandleInv

\* Every step keeps it.
LEMMA HandleStep == TypeOK /\ HandleInv /\ [Next]_vars => HandleInv'
  BY StepCases, HandleRunJob, HandleEvent, HandleOnAlert, HandleAside, HandleForget DEF Start, Die

\* It always holds.
LEMMA HandleAlways == Spec => []HandleInv
<1>1. Init => HandleInv
  BY HandleForget
<1>2. TypeOK /\ HandleInv /\ [Next]_vars => HandleInv'
  BY HandleStep
<1> QED
  BY <1>1, <1>2, TypeCorrect, PTL DEF Spec

\* A call on the handle of a torrent that is gone is always the consequence of a
\* client's removal: neither an alert that waited in the queue, nor a worker
\* between find_torrent and its call, nor on_torrent_finished between the save
\* it requests and th.status() meets a dead handle otherwise.
THEOREM AbortsNeedRemovals == Spec => []AbortNeedsRemoval
<1>1. TypeOK /\ HandleInv => AbortNeedsRemoval
  <2> SUFFICES ASSUME TypeOK, HandleInv, NEW h \in Called PROVE Fine(h)
    BY DEF AbortNeedsRemoval, Fine
  <2>1. CASE \E w \in Workers : call[w].op \in HandleOps /\ h = call[w].h
    BY <2>1 DEF HandleInv, Actors
  <2>2. CASE /\ popped > 0 /\ Head(alerts).type \in Answered /\ h = Head(alerts).h
    <3>1. alerts \in Seq(Alerts) /\ alerts # <<>>
      BY <2>2 DEF TypeOK
    <3>2. Head(alerts) \in Elements(alerts)
      BY <3>1, ElementsTail
    <3> QED
      BY <2>2, <3>2 DEF HandleInv
  <2>3. CASE finishing # <<>> /\ h = finishing[1]
    <3>1. finishing[1] \in Elements(finishing)
      BY <2>3 DEF TypeOK, Elements
    <3> QED
      BY <2>3, <3>1 DEF HandleInv
  <2> QED
    BY <2>1, <2>2, <2>3 DEF Called
<1> QED
  BY <1>1, HandleAlways, TypeCorrect, PTL

-----------------------------------------------------------------------------
(* m_all_handles *)

\* A removal that was reported is of a handle the torrent no longer has.
GoneInv ==
    \A a \in Elements(alerts) : a.type = "torrent_removed" =>
        a.h[2] <= gen[a.h[1]] /\ (a.h[1] \in live => a.h[2] < gen[a.h[1]])

\* How a step of libtorrent changes the torrents and what it reports of it: a
\* torrent it removes is reported as removed, one whose status it changes will be
\* in the next update, and an update has all of those.
Reports(a) ==
    /\ a \in Alerts
    /\ \A h \in Handles : IsLive(h) => IsLive(h)' \/ (a.type = "torrent_removed" /\ a.h = h)
    /\ a.type = "torrent_removed" => /\ a.h \in Handles /\ a.h[2] <= gen'[a.h[1]]
                                     /\ a.h[1] \notin live'
    /\ a.type = "state_update" => /\ UNCHANGED <<live, gen, st>>
                                  /\ a.status = {Entry(HandleOf(t), st[t]) : t \in changed}
    /\ a.type # "state_update" => /\ \A t \in live' \ changed' : /\ t \in live \ changed
                                                                 /\ st'[t].stage = st[t].stage
                                                                 /\ st'[t].path = st[t].path

Silent ==
    /\ UNCHANGED <<live, gen>>
    /\ \A t \in live' \ changed' : /\ t \in live \ changed
                                   /\ st'[t].stage = st[t].stage
                                   /\ st'[t].path = st[t].path

\* A step of the network thread.
LEMMA RunJobReports ==
    ASSUME TypeOK, RunJob
    PROVE  /\ UNCHANGED m_all_handles
           /\ \A t \in live \cap live' : gen'[t] = gen[t]
           /\ \A t \in Torrents : gen[t] <= gen'[t] /\ (t \in live' \ live => gen[t] < gen'[t])
           /\ \/ alerts' = alerts /\ Silent
              \/ \E a : alerts' = Append(alerts, a) /\ Reports(a)
<1>0. UNCHANGED m_all_handles /\ Head(jobs) \in Jobs
  BY RunJobTakes
<1>t. gen \in [Torrents -> Nat] /\ live \subseteq Torrents /\ st \in [Torrents -> Status]
      /\ changed \subseteq live
  BY DEF TypeOK
<1>1. /\ \A t \in live \cap live' : gen'[t] = gen[t]
      /\ \A t \in Torrents : gen[t] <= gen'[t] /\ (t \in live' \ live => gen[t] < gen'[t])
  <2>1. CASE UNCHANGED <<live, gen>>
    BY <1>t, <2>1
  <2>2. CASE AddJob /\ ~UNCHANGED <<live, gen>>
    <3>1. PICK t \in Torrents : /\ t = Head(jobs).t /\ t \notin live /\ live' = live \cup {t}
                                /\ gen' = [gen EXCEPT ![t] = @ + 1]
      BY <1>0, <2>2, JobFields DEF AddJob, NextJob, ltvars
    <3> QED
      BY <1>t, <3>1
  <2>3. CASE RemoveJob
    BY <1>t, <2>3 DEF RemoveJob
  <2> QED
    BY <2>1, <2>2, <2>3 DEF RunJob, SaveJob, MoveJob, PauseJob, UnpauseJob, FlagJob, UpdateJob
<1>2. CASE AddJob
  <2>1. PICK t \in Torrents : t = Head(jobs).t
    BY <1>0, <1>2, JobFields DEF AddJob, NextJob
  <2>2. HandleOf(t) \in Handles /\ <<t, gen[t] + 1>> \in Handles
    BY <1>t, <2>1 DEF HandleOf, Handles
  <2>3. /\ [type |-> "add_torrent_error"] \in Alerts
        /\ Alert("add_torrent", HandleOf(t)) \in Alerts
        /\ Alert("add_torrent", <<t, gen[t] + 1>>) \in Alerts
    BY <2>2, AlertsMade DEF Plain
  <2>4. PICK a \in Alerts : /\ alerts' = Append(alerts, a)
                            /\ a.type \in {"add_torrent_error", "add_torrent"}
    <3>1. \A h : Alert("add_torrent", h).type = "add_torrent"
      BY DEF Alert
    <3> QED
      BY <1>2, <2>1, <2>3, <3>1 DEF AddJob
  <2>5. CASE UNCHANGED ltvars
    BY <2>4, <2>5, <1>0, <1>1 DEF Reports, ltvars, IsLive
  <2>6. CASE /\ t \notin live /\ live' = live \cup {t} /\ gen' = [gen EXCEPT ![t] = @ + 1]
             /\ st' = [st EXCEPT ![t] = NewStatus(Head(jobs).params)]
             /\ changed' = changed \cup {t}
    <3>1. \A h \in Handles : IsLive(h) => IsLive(h)'
      BY <1>t, <2>6 DEF IsLive, Handles
    <3>2. \A u \in live' \ changed' : u \in live \ changed /\ st'[u] = st[u]
      BY <1>t, <2>6
    <3> QED
      BY <1>0, <1>1, <2>4, <3>1, <3>2 DEF Reports
  <2> QED
    BY <1>2, <2>1, <2>5, <2>6 DEF AddJob
<1>3. CASE RemoveJob
  <2>1. PICK h \in Handles : h = Head(jobs).h
    BY <1>0, <1>3, JobFields DEF RemoveJob, NextJob
  <2>2. CASE IsLive(h)
    <3>1. /\ live' = live \ {h[1]} /\ gen' = gen /\ st' = [st EXCEPT ![h[1]] = Blank]
          /\ changed' = changed \ {h[1]}
          /\ alerts' = Append(alerts, Alert("torrent_removed", h))
      BY <1>3, <2>1, <2>2 DEF RemoveJob
    <3>2. PICK a \in Alerts : a = Alert("torrent_removed", h)
      BY AlertsMade DEF Plain
    <3>3. a.type = "torrent_removed" /\ a.h = h
      BY <3>2 DEF Alert
    <3>4. ASSUME NEW k \in Handles, IsLive(k) PROVE IsLive(k)' \/ k = h
      BY <2>2, <3>1, <3>4 DEF IsLive, Handles
    <3>5. h[2] <= gen'[h[1]] /\ h[1] \notin live'
      BY <1>t, <2>2, <3>1 DEF IsLive, Handles
    <3>6. \A u \in live' \ changed' : u \in live \ changed /\ st'[u] = st[u]
      BY <1>t, <3>1 DEF Handles
    <3>7. Reports(a)
      BY <3>3, <3>4, <3>5, <3>6 DEF Reports
    <3> QED
      BY <1>0, <1>1, <3>1, <3>2, <3>7
  <2>3. CASE ~IsLive(h)
    <3>1. UNCHANGED <<live, gen, st, changed, alerts>>
      BY <1>3, <2>1, <2>3 DEF RemoveJob
    <3> QED
      BY <1>0, <1>1, <3>1 DEF Silent
  <2> QED
    BY <2>2, <2>3
<1>4. CASE SaveJob
  <2>1. PICK h \in Handles : h = Head(jobs).h
    BY <1>0, <1>4, JobFields DEF SaveJob, NextJob
  <2>2. h[1] \in Torrents
    BY DEF Handles
  <2> DEFINE d == DataOf(st[h[1]])
  <2>3. d \in Data
    BY <1>t, <2>2, StatusMade
  <2> HIDE DEF d
  <2>4. /\ Alert("save_resume_data_failed", h) \in Alerts
        /\ Alert("save_resume_data_failed", h).type = "save_resume_data_failed"
        /\ [type |-> "save_resume_data", h |-> h, data |-> d] \in Alerts
    BY <2>1, <2>3, AlertsMade DEF Plain, Alert
  <2>5. /\ UNCHANGED <<live, gen>>
        /\ \/ alerts' = Append(alerts, Alert("save_resume_data_failed", h)) /\ UNCHANGED <<st, changed>>
           \/ /\ alerts' = Append(alerts, [type |-> "save_resume_data", h |-> h, data |-> d])
              /\ st' = [st EXCEPT ![h[1]].dirty = FALSE] /\ changed' = changed \cup {h[1]}
    BY <1>4, <2>1 DEF SaveJob, d
  <2>6. PICK a \in Alerts : /\ alerts' = Append(alerts, a)
                            /\ a.type \in {"save_resume_data_failed", "save_resume_data"}
    BY <2>4, <2>5
  <2>7. \A u \in live' \ changed' : u \in live \ changed /\ st'[u] = st[u]
    BY <1>t, <2>2, <2>5
  <2>8. \A k \in Handles : IsLive(k) => IsLive(k)'
    BY <2>5 DEF IsLive
  <2> QED
    BY <1>0, <1>1, <2>6, <2>7, <2>8 DEF Reports
<1>5. CASE PauseJob
  <2>1. PICK h \in Handles : h = Head(jobs).h
    BY <1>0, <1>5, JobFields DEF PauseJob, NextJob
  <2>2. h[1] \in Torrents
    BY DEF Handles
  <2>3. /\ UNCHANGED <<live, gen>>
        /\ \/ alerts' = alerts /\ UNCHANGED <<st, changed>>
           \/ /\ alerts' = Append(alerts, Alert("torrent_paused", h))
              /\ st' = [st EXCEPT ![h[1]].paused = TRUE, ![h[1]].dirty = TRUE]
              /\ changed' = changed \cup {h[1]}
    BY <1>5, <2>1 DEF PauseJob
  <2>4. CASE alerts' = alerts /\ UNCHANGED <<st, changed>>
    BY <1>0, <1>1, <2>3, <2>4 DEF Silent
  <2>5. CASE /\ alerts' = Append(alerts, Alert("torrent_paused", h))
             /\ st' = [st EXCEPT ![h[1]].paused = TRUE, ![h[1]].dirty = TRUE]
             /\ changed' = changed \cup {h[1]}
    <3>1. PICK a \in Alerts : a = Alert("torrent_paused", h)
      BY AlertsMade DEF Plain
    <3>2. a.type = "torrent_paused"
      BY <3>1 DEF Alert
    <3>3. \A u \in live' \ changed' : u \in live \ changed /\ st'[u] = st[u]
      BY <1>t, <2>2, <2>3, <2>5
    <3>4. \A k \in Handles : IsLive(k) => IsLive(k)'
      BY <2>3 DEF IsLive
    <3>5. Reports(a)
      BY <3>2, <3>3, <3>4 DEF Reports
    <3> QED
      BY <1>0, <1>1, <2>5, <3>1, <3>5
  <2> QED
    BY <2>3, <2>4, <2>5
<1>6. CASE MoveJob \/ FlagJob
  <2>1. PICK h \in Handles : h = Head(jobs).h
    BY <1>0, <1>6, JobFields DEF MoveJob, FlagJob, NextJob
  <2>2. h[1] \in Torrents
    BY DEF Handles
  <2>3. UNCHANGED <<live, gen, changed, alerts>>
    BY <1>6 DEF MoveJob, FlagJob
  <2>4. \/ st' = st \/ st' = [st EXCEPT ![h[1]].moving = TRUE] \/ st' = [st EXCEPT ![h[1]].dirty = TRUE]
    BY <1>6, <2>1 DEF MoveJob, FlagJob
  <2>5. \A u \in Torrents : st'[u].stage = st[u].stage /\ st'[u].path = st[u].path
    BY <1>t, <2>2, <2>4 DEF Status
  <2> QED
    BY <1>0, <1>1, <1>t, <2>3, <2>5 DEF Silent
<1>7. CASE UnpauseJob
  <2>1. PICK h \in Handles : h = Head(jobs).h
    BY <1>0, <1>7, JobFields DEF UnpauseJob, NextJob
  <2>2. h[1] \in Torrents
    BY DEF Handles
  <2>3. /\ UNCHANGED <<live, gen, alerts>>
        /\ \/ UNCHANGED <<st, changed>>
           \/ /\ st' = [st EXCEPT ![h[1]].paused = FALSE, ![h[1]].dirty = TRUE]
              /\ changed' = changed \cup {h[1]}
    BY <1>7, <2>1 DEF UnpauseJob
  <2>4. \A u \in live' \ changed' : u \in live \ changed /\ st'[u] = st[u]
    BY <1>t, <2>2, <2>3
  <2> QED
    BY <1>0, <1>1, <2>3, <2>4 DEF Silent
<1>8. CASE UpdateJob
  <2> DEFINE S == {Entry(HandleOf(t), st[t]) : t \in changed}
  <2>1. S \in SUBSET Entries
    BY <1>t, StatusMade DEF HandleOf, Handles
  <2>2. PICK a \in Alerts : a = [type |-> "state_update", status |-> S]
    BY <2>1, AlertsMade
  <2>3. alerts' = Append(alerts, a) /\ UNCHANGED <<live, gen, st>>
    BY <1>8, <2>2 DEF UpdateJob
  <2>4. a.type = "state_update" /\ a.status = S
    BY <2>2
  <2>5. Reports(a)
    BY <2>3, <2>4 DEF Reports, IsLive
  <2> QED
    BY <1>0, <1>1, <2>3, <2>5
<1> QED
  BY <1>2, <1>3, <1>4, <1>5, <1>6, <1>7, <1>8 DEF RunJob

\* An event of a torrent.
LEMMA EventReports ==
    ASSUME TypeOK, TorrentEvent
    PROVE  /\ UNCHANGED <<live, gen, m_all_handles>>
           /\ \/ alerts' = alerts /\ Silent
              \/ \E a : alerts' = Append(alerts, a) /\ Reports(a)
<1>0. UNCHANGED <<live, gen, m_all_handles>>
  BY EventTouches
<1>t. gen \in [Torrents -> Nat] /\ live \subseteq Torrents /\ st \in [Torrents -> Status]
      /\ changed \subseteq live
  BY DEF TypeOK
<1>1. \A u \in live' \ changed' : /\ u \in live \ changed
                                  /\ st'[u].stage = st[u].stage /\ st'[u].path = st[u].path
  <2>1. PICK t \in Torrents : MetadataReceived(t) \/ Finished(t) \/ Progress(t) \/ StorageMoved(t)
    BY DEF TorrentEvent
  <2>2. /\ \A u \in Torrents : u # t => st'[u] = st[u]
        /\ \/ changed' = changed \cup {t}
           \/ changed' = changed /\ st' = [st EXCEPT ![t].moving = FALSE]
    <3>1. CASE MetadataReceived(t)
      BY <1>t, <3>1 DEF MetadataReceived
    <3>2. CASE Finished(t)
      BY <1>t, <3>2 DEF Finished
    <3>3. CASE Progress(t)
      BY <1>t, <3>3 DEF Progress
    <3>4. CASE StorageMoved(t)
      BY <1>t, <3>4 DEF StorageMoved
    <3> QED
      BY <2>1, <3>1, <3>2, <3>3, <3>4
  <2>3. CASE changed' = changed \cup {t}
    BY <1>0, <1>t, <2>2, <2>3
  <2>4. CASE changed' = changed /\ st' = [st EXCEPT ![t].moving = FALSE]
    BY <1>0, <1>t, <2>4 DEF Status
  <2> QED
    BY <2>2, <2>3, <2>4
<1>2. CASE alerts' = alerts
  BY <1>0, <1>1, <1>2 DEF Silent
<1>3. ASSUME NEW a \in Alerts, alerts' = Append(alerts, a), a.type \in Answered
      PROVE  Reports(a)
  <2>1. a.type \notin {"torrent_removed", "state_update"}
    BY <1>3 DEF Answered
  <2>2. \A k \in Handles : IsLive(k) => IsLive(k)'
    BY <1>0 DEF IsLive
  <2> QED
    BY <1>1, <2>1, <2>2 DEF Reports
<1> QED
  BY <1>0, <1>2, <1>3, EventPosts

\* The positions of the updates and removals when libtorrent posts an alert.
LEMMA PostPositions ==
    ASSUME TypeOK, NEW a \in Alerts, alerts' = Append(alerts, a)
    PROVE  /\ Len(alerts) \in Nat /\ Len(alerts') = Len(alerts) + 1 /\ alerts'[Len(alerts) + 1] = a
           /\ \A i \in 1 .. Len(alerts) : alerts'[i] = alerts[i]
           /\ \A h : Removal(h)' = Removal(h) \cup (IF a.type = "torrent_removed" /\ a.h = h
                                                    THEN {Len(alerts) + 1} ELSE {})
           /\ \A h : Updates(h)' = Updates(h) \cup (IF a.type = "state_update" /\ h \in Keys(a.status)
                                                    THEN {Len(alerts) + 1} ELSE {})
<1>1. /\ Len(alerts) \in Nat /\ Len(alerts') = Len(alerts) + 1 /\ alerts'[Len(alerts) + 1] = a
      /\ \A i \in 1 .. Len(alerts) : alerts'[i] = alerts[i]
  <2>1. alerts \in Seq(Alerts)
    BY DEF TypeOK
  <2> QED
    BY <2>1
<1>2. 1 .. Len(alerts') = (1 .. Len(alerts)) \cup {Len(alerts) + 1}
  BY <1>1
<1>3. ASSUME NEW h
      PROVE  Removal(h)' = Removal(h) \cup (IF a.type = "torrent_removed" /\ a.h = h
                                            THEN {Len(alerts) + 1} ELSE {})
  BY <1>1, <1>2 DEF Removal
<1>4. ASSUME NEW h
      PROVE  Updates(h)' = Updates(h) \cup (IF a.type = "state_update" /\ h \in Keys(a.status)
                                            THEN {Len(alerts) + 1} ELSE {})
  BY <1>1, <1>2 DEF Updates
<1> QED
  BY <1>1, <1>3, <1>4

\* The positions when handle_alert takes the first alert.
LEMMA TakePositions ==
    ASSUME TypeOK, alerts # <<>>, alerts' = Tail(alerts)
    PROVE  /\ Len(alerts) \in Nat \ {0} /\ Len(alerts') = Len(alerts) - 1 /\ alerts[1] = Head(alerts)
           /\ \A i \in 1 .. Len(alerts') : i + 1 \in 1 .. Len(alerts) /\ alerts'[i] = alerts[i + 1]
           /\ \A i \in 1 .. Len(alerts) : i # 1 => i - 1 \in 1 .. Len(alerts') /\ alerts'[i - 1] = alerts[i]
           /\ \A h : \A i \in Removal(h) : i # 1 => i - 1 \in Removal(h)'
           /\ \A h : \A i \in Updates(h) : i # 1 => i - 1 \in Updates(h)'
           /\ \A h : \A i \in Updates(h)' : i + 1 \in Updates(h)
<1>1. /\ Len(alerts) \in Nat \ {0} /\ Len(alerts') = Len(alerts) - 1 /\ alerts[1] = Head(alerts)
      /\ \A i \in 1 .. Len(alerts) - 1 : alerts'[i] = alerts[i + 1]
  BY DEF TypeOK
<1>2. \A i \in 1 .. Len(alerts') : i + 1 \in 1 .. Len(alerts) /\ alerts'[i] = alerts[i + 1]
  BY <1>1
<1>3. ASSUME NEW i \in 1 .. Len(alerts), i # 1
      PROVE  i - 1 \in 1 .. Len(alerts') /\ alerts'[i - 1] = alerts[i]
  <2>1. i - 1 \in 1 .. Len(alerts') /\ (i - 1) + 1 = i
    BY <1>1, <1>3
  <2> QED
    BY <1>2, <2>1
<1>4. \A h : \A i \in Removal(h) : i # 1 => i - 1 \in Removal(h)'
  BY <1>3 DEF Removal
<1>5. \A h : \A i \in Updates(h) : i # 1 => i - 1 \in Updates(h)'
  BY <1>3 DEF Updates
<1>6. \A h : \A i \in Updates(h)' : i + 1 \in Updates(h)
  BY <1>2 DEF Updates
<1> QED
  BY <1>1, <1>2, <1>3, <1>4, <1>5, <1>6

\* The handles of the updates and of the mirror are handles.
LEMMA MirrorHandles ==
    ASSUME TypeOK
    PROVE  /\ Keys(m_all_handles) \subseteq Handles
           /\ \A i \in 1 .. Len(alerts) :
                 alerts[i].type = "state_update" => Keys(alerts[i].status) \subseteq Handles
<1>1. \A E \in SUBSET Entries : Keys(E) \subseteq Handles
  BY DEF Keys, Entries
<1>2. m_all_handles \in SUBSET Entries /\ \A i \in 1 .. Len(alerts) : alerts[i] \in Alerts
  BY DEF TypeOK
<1> QED
  BY <1>1, <1>2, AlertFields

\* libtorrent keeps MirrorSound: what it removes it reports after every update
\* that names it.
LEMMA SoundPosts ==
    ASSUME TypeOK, MirrorSound, UNCHANGED m_all_handles,
           NEW a, alerts' = Append(alerts, a), Reports(a)
    PROVE  MirrorSound'
<1>1. a \in Alerts
  BY DEF Reports
<1> DEFINE N == Len(alerts)
<1>2. /\ N \in Nat /\ Len(alerts') = N + 1 /\ alerts'[N + 1] = a
      /\ \A i \in 1 .. N : alerts'[i] = alerts[i]
      /\ \A h : Removal(h)' = Removal(h) \cup (IF a.type = "torrent_removed" /\ a.h = h
                                               THEN {N + 1} ELSE {})
  BY <1>1, PostPositions
<1> HIDE DEF N
<1>3. ASSUME NEW h \in Handles, IsLive(h) PROVE IsLive(h)' \/ N + 1 \in Removal(h)'
  BY <1>2, <1>3 DEF Reports
<1>4. ASSUME NEW h \in Keys(m_all_handles) PROVE IsLive(h)' \/ Removal(h)' # {}
  <2>1. h \in Handles
    BY MirrorHandles
  <2> QED
    BY <1>2, <1>3, <2>1 DEF MirrorSound
<1>5. ASSUME NEW i \in 1 .. Len(alerts'), alerts'[i].type = "state_update",
             NEW h \in Keys(alerts'[i].status)
      PROVE  IsLive(h)' \/ \E j \in Removal(h)' : j > i
  <2>1. CASE i \in 1 .. N
    <3>1. /\ alerts'[i] = alerts[i] /\ alerts[i].type = "state_update"
          /\ h \in Keys(alerts[i].status) /\ i \in 1 .. Len(alerts)
      BY <1>2, <1>5, <2>1 DEF N
    <3>2. h \in Handles /\ (IsLive(h) \/ \E j \in Removal(h) : j > i)
      BY <3>1, MirrorHandles DEF MirrorSound
    <3>3. N + 1 > i
      BY <1>2, <2>1
    <3> QED
      BY <1>2, <1>3, <3>2, <3>3
  <2>2. CASE i = N + 1
    <3>1. a.type = "state_update" /\ h \in Keys(a.status)
      BY <1>2, <1>5, <2>2
    <3>2. \E t \in changed : h = HandleOf(t)
      BY <3>1 DEF Reports, Keys, Entry
    <3>3. IsLive(h)'
      BY <3>1, <3>2 DEF Reports, IsLive, HandleOf, TypeOK
    <3> QED
      BY <3>3
  <2> QED
    BY <1>2, <2>1, <2>2
<1> QED
  BY <1>4, <1>5 DEF MirrorSound

\* A step that leaves the alerts and the mirror alone keeps it.
LEMMA SoundSilent ==
    ASSUME MirrorSound, UNCHANGED <<live, gen, alerts, m_all_handles>>
    PROVE  MirrorSound'
<1>1. \A h : IsLive(h)' = IsLive(h) /\ Removal(h)' = Removal(h)
  BY DEF IsLive, Removal
<1>2. \A h \in Keys(m_all_handles)' : IsLive(h)' \/ Removal(h)' # {}
  BY <1>1 DEF MirrorSound, Keys
<1>3. \A i \in 1 .. Len(alerts') : alerts'[i].type = "state_update" =>
         \A h \in Keys(alerts'[i].status) : IsLive(h)' \/ \E j \in Removal(h)' : j > i
  BY <1>1 DEF MirrorSound
<1> QED
  BY <1>2, <1>3 DEF MirrorSound

\* What handle_alert does to the mirror.
LEMMA AlertMirrors ==
    ASSUME TypeOK, HandleAlert
    PROVE  \/ UNCHANGED <<alerts, m_all_handles>>
           \/ /\ alerts # <<>> /\ alerts' = Tail(alerts) /\ UNCHANGED m_all_handles
              /\ Head(alerts).type \notin {"state_update", "torrent_removed"}
           \/ /\ alerts # <<>> /\ alerts' = Tail(alerts) /\ Head(alerts).type = "state_update"
              /\ m_all_handles' = {e \in m_all_handles : e.h \notin Keys(Head(alerts).status)}
                                  \cup Head(alerts).status
           \/ /\ alerts # <<>> /\ alerts' = Tail(alerts) /\ Head(alerts).type = "torrent_removed"
              /\ m_all_handles' = {e \in m_all_handles : e.h # Head(alerts).h}
<1>1. ASSUME NEW k, NextAlert(k) PROVE alerts # <<>> /\ alerts' = Tail(alerts) /\ Head(alerts).type = k
  BY <1>1 DEF NextAlert, TypeOK
<1> DEFINE Other == {"metadata_received", "add_torrent", "add_torrent_error", "torrent_finished",
                     "torrent_paused", "save_resume_data", "save_resume_data_failed"}
<1>2. CASE OnMetadataReceived \/ OnAddTorrent \/ OnTorrentFinished \/ OnTorrentPaused
  <2>1. UNCHANGED m_all_handles /\ \E k \in Other : NextAlert(k)
    BY <1>2 DEF OnMetadataReceived, OnAddTorrent, OnTorrentFinished, OnTorrentPaused
  <2> QED
    BY <1>1, <2>1
<1>3. CASE OnSaveResumeData \/ OnSaveResumeDataFailed
  <2>1. UNCHANGED m_all_handles /\ \E k \in Other : NextAlert(k)
    BY <1>3 DEF OnSaveResumeData, OnSaveResumeDataFailed
  <2> QED
    BY <1>1, <2>1
<1>4. CASE MoveFinished \/ WriteFile
  BY <1>4 DEF MoveFinished, WriteFile, context, queues
<1>5. CASE OnStateUpdate
  BY <1>1, <1>5 DEF OnStateUpdate
<1>6. CASE OnTorrentRemoved
  BY <1>1, <1>6 DEF OnTorrentRemoved
<1> QED
  BY <1>2, <1>3, <1>4, <1>5, <1>6 DEF HandleAlert

\* handle_alert keeps it: it erases an entry no earlier than it takes the alert
\* that promises to.
LEMMA SoundTakes ==
    ASSUME TypeOK, MirrorSound, HandleAlert
    PROVE  MirrorSound'
<1>0. UNCHANGED <<live, gen>>
  BY AlertTouches
<1>1. \A h : IsLive(h)' = IsLive(h)
  BY <1>0 DEF IsLive
<1>2. CASE UNCHANGED <<alerts, m_all_handles>>
  BY <1>0, <1>2, SoundSilent
<1>3. CASE alerts # <<>> /\ alerts' = Tail(alerts)
  <2>1. /\ Len(alerts) \in Nat \ {0} /\ alerts[1] = Head(alerts)
        /\ \A i \in 1 .. Len(alerts') : i + 1 \in 1 .. Len(alerts) /\ alerts'[i] = alerts[i + 1]
        /\ \A h : \A i \in Removal(h) : i # 1 => i - 1 \in Removal(h)'
    BY <1>3, TakePositions
  <2>2. ASSUME NEW i \in 1 .. Len(alerts'), alerts'[i].type = "state_update",
               NEW h \in Keys(alerts'[i].status)
        PROVE  IsLive(h)' \/ \E j \in Removal(h)' : j > i
    <3>1. /\ i + 1 \in 1 .. Len(alerts) /\ alerts[i + 1].type = "state_update"
          /\ h \in Keys(alerts[i + 1].status)
      BY <2>1, <2>2
    <3>2. IsLive(h) \/ \E j \in Removal(h) : j > i + 1
      BY <3>1 DEF MirrorSound
    <3>3. ASSUME NEW j \in Removal(h), j > i + 1 PROVE \E k \in Removal(h)' : k > i
      <4>1. j \in Nat /\ i \in Nat /\ j # 1 /\ j - 1 > i
        BY <2>1, <3>3 DEF Removal
      <4> QED
        BY <2>1, <4>1
    <3> QED
      BY <1>1, <3>2, <3>3
  <2>3. ASSUME NEW h, h \in Keys(m_all_handles) \/ \E j \in Removal(h) : j > 1,
               Head(alerts).type # "torrent_removed" \/ Head(alerts).h # h
        PROVE  IsLive(h)' \/ Removal(h)' # {}
    <3>1. 1 \notin Removal(h)
      BY <2>1, <2>3 DEF Removal
    <3>2. IsLive(h) \/ Removal(h) # {}
      BY <2>3 DEF MirrorSound
    <3> QED
      BY <1>1, <2>1, <3>1, <3>2
  <2>4. \A h \in Keys(m_all_handles)' : IsLive(h)' \/ Removal(h)' # {}
    <3>1. CASE UNCHANGED m_all_handles /\ Head(alerts).type \notin {"state_update", "torrent_removed"}
      <4>1. Keys(m_all_handles)' = Keys(m_all_handles)
        BY <3>1
      <4> QED
        BY <2>3, <3>1, <4>1
    <3>2. CASE /\ Head(alerts).type = "state_update"
               /\ m_all_handles' = {e \in m_all_handles : e.h \notin Keys(Head(alerts).status)}
                                   \cup Head(alerts).status
      <4>1. \A h \in Keys(m_all_handles)' : h \in Keys(m_all_handles) \/ h \in Keys(alerts[1].status)
        BY <2>1, <3>2 DEF Keys
      <4>2. ASSUME NEW h \in Keys(alerts[1].status) PROVE IsLive(h) \/ \E j \in Removal(h) : j > 1
        <5>1. 1 \in 1 .. Len(alerts) /\ alerts[1].type = "state_update"
          BY <2>1, <3>2
        <5> QED
          BY <5>1 DEF MirrorSound
      <4> QED
        BY <1>1, <2>3, <3>2, <4>1, <4>2
    <3>3. CASE /\ Head(alerts).type = "torrent_removed"
               /\ m_all_handles' = {e \in m_all_handles : e.h # Head(alerts).h}
      <4>1. \A h \in Keys(m_all_handles)' : h \in Keys(m_all_handles) /\ h # Head(alerts).h
        BY <3>3 DEF Keys
      <4> QED
        BY <2>3, <4>1
    <3>4. CASE UNCHANGED <<alerts, m_all_handles>>
      <4>1. Len(alerts') = Len(alerts) - 1
        BY <1>3, TakePositions
      <4> QED
        BY <2>1, <3>4, <4>1
    <3> QED
      BY <3>1, <3>2, <3>3, <3>4, AlertMirrors
  <2> QED
    BY <2>2, <2>4 DEF MirrorSound
<1> QED
  BY <1>2, <1>3, AlertMirrors

\* A process that starts or died has nothing to mirror.
LEMMA MirrorForget ==
    /\ Init => MirrorSound /\ GoneInv /\ MirrorFresh
    /\ Forget => (MirrorSound /\ GoneInv /\ MirrorFresh)'
<1>1. Elements(<<>>) = {} /\ 1 .. Len(<<>>) = {}
  BY ElementsIn
<1>2. Keys({}) = {}
  BY DEF Keys
<1> QED
  BY <1>1, <1>2 DEF Init, Forget, MirrorSound, GoneInv, MirrorFresh

\* Every step keeps MirrorSound.
LEMMA SoundStep == TypeOK /\ MirrorSound /\ [Next]_vars => MirrorSound'
<1> SUFFICES ASSUME TypeOK, MirrorSound, [Next]_vars PROVE MirrorSound'
  OBVIOUS
<1>1. CASE RunJob
  BY <1>1, RunJobReports, SoundPosts, SoundSilent DEF Silent
<1>2. CASE TorrentEvent
  BY <1>2, EventReports, SoundPosts, SoundSilent DEF Silent
<1>3. CASE HandleAlert
  BY <1>3, SoundTakes
<1>4. CASE Aside
  BY <1>4, SoundSilent DEF Aside, ltvars
<1>5. CASE Start \/ Die
  BY <1>5, MirrorForget DEF Start, Die
<1> QED
  BY <1>1, <1>2, <1>3, <1>4, <1>5, StepCases

\* No entry of m_all_handles outlives its torrent for good, and no late update
\* brings one back: the alert queue orders every update of a handle before the
\* removal of its torrent, for any number of torrents and re-additions.
THEOREM MirrorIsSound == Spec => []MirrorSound
<1>1. Init => MirrorSound
  BY MirrorForget
<1>2. TypeOK /\ MirrorSound /\ [Next]_vars => MirrorSound'
  BY SoundStep
<1> QED
  BY <1>1, <1>2, TypeCorrect, PTL DEF Spec

\* The jobs keep GoneInv: a torrent that comes back gets a new handle.
LEMMA GoneStep == TypeOK /\ GoneInv /\ [Next]_vars => GoneInv'
<1> SUFFICES ASSUME TypeOK, GoneInv, [Next]_vars PROVE GoneInv'
  OBVIOUS
<1>t. gen \in [Torrents -> Nat] /\ gen' \in [Torrents -> Nat] /\ alerts \in Seq(Alerts)
  BY TypeStep DEF TypeOK
<1> DEFINE Gone(a) == a.h[2] <= gen[a.h[1]] /\ (a.h[1] \in live => a.h[2] < gen[a.h[1]])
           Grow == \A t \in Torrents : gen[t] <= gen'[t] /\ (t \in live' \ live => gen[t] < gen'[t])
<1>1. ASSUME Grow, NEW a \in Elements(alerts), a.type = "torrent_removed" PROVE Gone(a)'
  <2>1. a.h[1] \in Torrents /\ a.h[2] \in Nat
    <3>1. a \in Alerts
      BY <1>t, ElementsIn
    <3> QED
      BY <1>1, <3>1, AlertFields DEF Plain, Handles
  <2>2. a.h[2] <= gen[a.h[1]] /\ (a.h[1] \in live => a.h[2] < gen[a.h[1]])
    BY <1>1 DEF GoneInv
  <2>3. gen[a.h[1]] <= gen'[a.h[1]] /\ (a.h[1] \in live' \ live => gen[a.h[1]] < gen'[a.h[1]])
    BY <1>1, <2>1
  <2>4. gen[a.h[1]] \in Nat /\ gen'[a.h[1]] \in Nat
    BY <1>t, <2>1
  <2> QED
    BY <2>1, <2>2, <2>3, <2>4
<1>2. ASSUME Grow, Elements(alerts') \subseteq Elements(alerts) PROVE GoneInv'
  BY <1>1, <1>2 DEF GoneInv
<1>3. ASSUME Grow, NEW a, alerts' = Append(alerts, a), Reports(a) PROVE GoneInv'
  <2>1. Elements(alerts') = Elements(alerts) \cup {a} /\ a \in Alerts
    BY <1>3, <1>t, ElementsAppend DEF Reports
  <2>2. a.type = "torrent_removed" => Gone(a)'
    BY <1>3 DEF Reports
  <2> QED
    BY <1>1, <1>3, <2>1, <2>2 DEF GoneInv
<1>4. UNCHANGED <<live, gen>> => Grow
  BY <1>t
<1>5. CASE RunJob
  BY <1>2, <1>3, <1>5, RunJobReports
<1>6. CASE TorrentEvent
  BY <1>2, <1>3, <1>4, <1>6, EventReports
<1>7. CASE HandleAlert
  BY <1>2, <1>4, <1>7, AlertTouches, AlertTakes
<1>8. CASE Aside
  BY <1>2, <1>4, <1>8 DEF Aside, ltvars
<1>9. CASE Start \/ Die
  BY <1>9, MirrorForget DEF Start, Die
<1> QED
  BY <1>5, <1>6, <1>7, <1>8, <1>9, StepCases

\* What MirrorFresh says of one torrent.
FreshOf(t) ==
    LET h == HandleOf(t)
        U == Updates(h)
    IN  IF U = {}
        THEN Entry(h, st[t]) \in m_all_handles
        ELSE \E i \in U : (\A j \in U : j <= i) /\ Entry(h, st[t]) \in alerts[i].status

\* libtorrent keeps MirrorFresh: a status that changes is in the next update, and
\* an update takes all of them.
LEMMA FreshPosts ==
    ASSUME TypeOK, MirrorFresh, UNCHANGED m_all_handles,
           \A t \in live \cap live' : gen'[t] = gen[t],
           NEW a, alerts' = Append(alerts, a), Reports(a)
    PROVE  MirrorFresh'
<1>1. a \in Alerts
  BY DEF Reports
<1> DEFINE N == Len(alerts)
<1>2. /\ N \in Nat /\ Len(alerts') = N + 1 /\ alerts'[N + 1] = a
      /\ \A i \in 1 .. N : alerts'[i] = alerts[i]
      /\ \A h : Updates(h)' = Updates(h) \cup (IF a.type = "state_update" /\ h \in Keys(a.status)
                                               THEN {N + 1} ELSE {})
  BY <1>1, PostPositions
<1>3. \A h : Updates(h) \subseteq 1 .. N
  BY DEF Updates
<1> HIDE DEF N
<1> SUFFICES ASSUME NEW t \in live' \ changed' PROVE FreshOf(t)'
  BY DEF MirrorFresh, FreshOf
<1>4. CASE t \in live \ changed /\ Entry(HandleOf(t), st[t])' = Entry(HandleOf(t), st[t])
           /\ HandleOf(t)' = HandleOf(t)
           /\ ~(a.type = "state_update" /\ HandleOf(t) \in Keys(a.status))
  <2>1. PICK h : h = HandleOf(t)
    OBVIOUS
  <2>2. Updates(h)' = Updates(h)
    BY <1>2, <1>4, <2>1
  <2>3. HandleOf(t)' = h
    BY <1>4, <2>1
  <2>4. FreshOf(t)
    BY <1>4 DEF MirrorFresh, FreshOf
  <2>5. Updates(HandleOf(t))' = Updates(h)
    BY <2>1, <2>2, <2>3 DEF Updates
  <2>6. \A i \in Updates(h) : alerts'[i] = alerts[i]
    BY <1>2, <1>3
  <2>7. PICK e : e = Entry(HandleOf(t), st[t])
    OBVIOUS
  <2>8. Entry(HandleOf(t), st[t])' = e
    BY <1>4, <2>7
  <2>9. IF Updates(h) = {} THEN e \in m_all_handles
        ELSE \E i \in Updates(h) : (\A j \in Updates(h) : j <= i) /\ e \in alerts[i].status
    BY <2>1, <2>4, <2>7 DEF FreshOf
  <2>10. IF Updates(h) = {} THEN e \in m_all_handles'
         ELSE \E i \in Updates(h) : (\A j \in Updates(h) : j <= i) /\ e \in alerts'[i].status
    BY <2>6, <2>9
  <2> QED
    BY <2>5, <2>8, <2>10 DEF FreshOf
<1>5. CASE a.type = "state_update"
  <2>1. UNCHANGED <<live, gen, st>> /\ a.status = {Entry(HandleOf(u), st[u]) : u \in changed}
    BY <1>5 DEF Reports
  <2>2. HandleOf(t)' = HandleOf(t) /\ Entry(HandleOf(t), st[t])' = Entry(HandleOf(t), st[t])
    BY <2>1 DEF HandleOf, Entry
  <2>3. CASE t \in changed
    <3>1. PICK h : h = HandleOf(t)
      OBVIOUS
    <3>2. PICK e : e = Entry(h, st[t])
      OBVIOUS
    <3>3. e \in a.status /\ h \in Keys(a.status)
      <4>1. e \in a.status
        BY <2>1, <2>3, <3>1, <3>2
      <4>2. e.h = h
        BY <3>2 DEF Entry
      <4> QED
        BY <4>1, <4>2 DEF Keys
    <3>4. Updates(h)' = Updates(h) \cup {N + 1}
      BY <1>2, <1>5, <3>3
    <3>5. \A j \in Updates(h)' : j <= N + 1
      BY <1>2, <1>3, <3>4
    <3>6. Updates(HandleOf(t))' = Updates(h)' /\ Entry(HandleOf(t), st[t])' = e
      BY <2>2, <3>1, <3>2 DEF Updates
    <3>7. N + 1 \in Updates(h)' /\ e \in alerts'[N + 1].status
      BY <1>2, <3>3, <3>4
    <3> QED
      BY <3>5, <3>6, <3>7 DEF FreshOf
  <2>4. CASE t \notin changed
    <3>1. HandleOf(t) \notin Keys(a.status)
      BY <2>1, <2>4 DEF Keys, Entry, HandleOf
    <3> QED
      BY <1>4, <2>1, <2>2, <2>4, <3>1
  <2> QED
    BY <2>3, <2>4
<1>6. CASE a.type # "state_update"
  <2>1. t \in live \ changed /\ st'[t].stage = st[t].stage /\ st'[t].path = st[t].path
    BY <1>6 DEF Reports
  <2>2. HandleOf(t)' = HandleOf(t)
    BY <2>1 DEF HandleOf
  <2>3. Entry(HandleOf(t), st[t])' = Entry(HandleOf(t), st[t])
    BY <2>1, <2>2 DEF Entry
  <2> QED
    BY <1>4, <1>6, <2>1, <2>2, <2>3
<1> QED
  BY <1>5, <1>6

\* A step that reports nothing keeps it.
LEMMA FreshSilent ==
    ASSUME MirrorFresh, UNCHANGED <<alerts, m_all_handles>>, Silent
    PROVE  MirrorFresh'
<1> SUFFICES ASSUME NEW t \in live' \ changed' PROVE FreshOf(t)'
  BY DEF MirrorFresh, FreshOf
<1>1. t \in live \ changed /\ gen' = gen /\ st'[t].stage = st[t].stage /\ st'[t].path = st[t].path
  BY DEF Silent
<1>2. HandleOf(t)' = HandleOf(t)
  BY <1>1 DEF HandleOf
<1>3. Entry(HandleOf(t), st[t])' = Entry(HandleOf(t), st[t])
  BY <1>1, <1>2 DEF Entry
<1>4. Updates(HandleOf(t))' = Updates(HandleOf(t))
  BY <1>2 DEF Updates
<1>5. FreshOf(t)
  BY <1>1 DEF MirrorFresh, FreshOf
<1> QED
  BY <1>3, <1>4, <1>5 DEF FreshOf

\* handle_alert keeps it: the update that leaves the queue is in the mirror, and
\* an entry that is erased is of a handle that is gone.
LEMMA FreshTakes ==
    ASSUME TypeOK, GoneInv, MirrorFresh, HandleAlert
    PROVE  MirrorFresh'
<1>0. UNCHANGED ltvars
  BY AlertTouches DEF ltvars
<1>1. CASE UNCHANGED <<alerts, m_all_handles>>
  BY <1>0, <1>1, FreshSilent DEF Silent, ltvars
<1>2. CASE alerts # <<>> /\ alerts' = Tail(alerts) /\ ~UNCHANGED <<alerts, m_all_handles>>
  <2> SUFFICES ASSUME NEW t \in live' \ changed' PROVE FreshOf(t)'
    BY DEF MirrorFresh, FreshOf
  <2>1. PICK h : h = HandleOf(t)
    OBVIOUS
  <2>2. PICK e : e = Entry(h, st[t])
    OBVIOUS
  <2>3. e.h = h /\ t \in live \ changed
    BY <1>0, <2>2 DEF Entry, ltvars
  <2>4. HandleOf(t)' = h /\ Entry(HandleOf(t), st[t])' = e
    BY <1>0, <2>1, <2>2 DEF HandleOf, Entry, ltvars
  <2>5. Updates(HandleOf(t))' = Updates(h)'
    BY <2>4 DEF Updates
  <2>6. IF Updates(h) = {} THEN e \in m_all_handles
        ELSE \E i \in Updates(h) : (\A j \in Updates(h) : j <= i) /\ e \in alerts[i].status
    BY <2>1, <2>2, <2>3 DEF MirrorFresh
  <2>7. SUFFICES IF Updates(h)' = {} THEN e \in m_all_handles'
                 ELSE \E i \in Updates(h)' : (\A j \in Updates(h)' : j <= i) /\ e \in alerts'[i].status
    BY <2>4, <2>5, <2>7 DEF FreshOf
  <2>8. /\ Len(alerts) \in Nat \ {0} /\ alerts[1] = Head(alerts)
        /\ \A i \in 1 .. Len(alerts) : i # 1 => i - 1 \in 1 .. Len(alerts') /\ alerts'[i - 1] = alerts[i]
        /\ \A i \in Updates(h) : i # 1 => i - 1 \in Updates(h)'
        /\ \A i \in Updates(h)' : i + 1 \in Updates(h)
        /\ Head(alerts) \in Elements(alerts)
    BY <1>2, TakePositions, ElementsTail DEF TypeOK
  <2>9. Updates(h) \subseteq 1 .. Len(alerts) /\ Updates(h)' \subseteq Nat
    BY <2>8 DEF Updates
  <2>10. CASE \E i \in Updates(h) : i # 1
    <3>1. PICK i \in Updates(h) : (\A j \in Updates(h) : j <= i) /\ e \in alerts[i].status
      BY <2>6, <2>10
    <3>2. i # 1 /\ i \in 1 .. Len(alerts)
      BY <2>8, <2>9, <2>10, <3>1
    <3>3. i - 1 \in Updates(h)' /\ alerts'[i - 1] = alerts[i]
      BY <2>8, <3>2
    <3>4. \A j \in Updates(h)' : j <= i - 1
      BY <2>8, <2>9, <3>1, <3>2
    <3> QED
      BY <3>1, <3>3, <3>4
  <2>11. CASE ~\E i \in Updates(h) : i # 1
    <3>1. Updates(h)' = {}
      <4> SUFFICES ASSUME NEW i \in Updates(h)' PROVE FALSE
        OBVIOUS
      <4>1. i + 1 \in Updates(h) /\ i \in Nat /\ i # 0
        BY <2>8 DEF Updates
      <4> QED
        BY <2>11, <4>1
    <3>2. SUFFICES e \in m_all_handles'
      BY <3>1
    <3>3. CASE 1 \in Updates(h)
      <4>1. e \in alerts[1].status /\ alerts[1].type = "state_update"
        BY <2>6, <2>11, <3>3 DEF Updates
      <4> QED
        BY <1>2, <2>8, <4>1, AlertMirrors
    <3>4. CASE 1 \notin Updates(h)
      <4>1. e \in m_all_handles
        BY <2>6, <2>11, <3>4
      <4>2. Head(alerts).type = "state_update" => h \notin Keys(Head(alerts).status)
        BY <2>8, <3>4 DEF Updates
      <4>3. Head(alerts).type = "torrent_removed" => Head(alerts).h # h
        <5> SUFFICES ASSUME Head(alerts).type = "torrent_removed", Head(alerts).h = h PROVE FALSE
          OBVIOUS
        <5>1. h[1] \in live => h[2] < gen[h[1]]
          BY <2>8 DEF GoneInv
        <5>2. h[1] = t /\ h[2] = gen[t] /\ gen[t] \in Nat
          BY <2>1, <2>3 DEF HandleOf, TypeOK
        <5> QED
          BY <2>3, <5>1, <5>2
      <4> QED
        BY <1>2, <2>3, <4>1, <4>2, <4>3, AlertMirrors
    <3> QED
      BY <3>3, <3>4
  <2> QED
    BY <2>10, <2>11
<1> QED
  BY <1>1, <1>2, AlertMirrors

\* Every step keeps MirrorFresh.
LEMMA FreshStep == TypeOK /\ GoneInv /\ MirrorFresh /\ [Next]_vars => MirrorFresh'
<1> SUFFICES ASSUME TypeOK, GoneInv, MirrorFresh, [Next]_vars PROVE MirrorFresh'
  OBVIOUS
<1>1. CASE RunJob
  BY <1>1, RunJobReports, FreshPosts, FreshSilent
<1>2. CASE TorrentEvent
  BY <1>2, EventReports, FreshPosts, FreshSilent
<1>3. CASE HandleAlert
  BY <1>3, FreshTakes
<1>4. CASE Aside
  BY <1>4, FreshSilent DEF Aside, ltvars, Silent
<1>5. CASE Start \/ Die
  BY <1>5, MirrorForget DEF Start, Die
<1> QED
  BY <1>1, <1>2, <1>3, <1>4, <1>5, StepCases

\* m_all_handles misses no status: what libtorrent has reported of a torrent of
\* the session is in the map, or is the last report in the queue, however often
\* the torrent was removed and added again.
THEOREM MirrorIsFresh == Spec => []MirrorFresh
<1>1. Init => GoneInv /\ MirrorFresh
  BY MirrorForget
<1>2. TypeOK /\ GoneInv /\ [Next]_vars => GoneInv'
  BY GoneStep
<1>3. TypeOK /\ GoneInv /\ MirrorFresh /\ [Next]_vars => MirrorFresh'
  BY FreshStep
<1> QED
  BY <1>1, <1>2, <1>3, TypeCorrect, PTL DEF Spec
=============================================================================
