------------------------- MODULE SheathStoreProofs --------------------------
(***************************************************************************)
(* Proofs about the resume files of Sheath: that the torrent manager       *)
(* implements Store, the abstract specification of them.                   *)
(***************************************************************************)
EXTENDS SheathHandleProofs

-----------------------------------------------------------------------------
(* Amounts *)

Stages == {"magnet", "partial", "checking", "seed"}

\* How much there is at each stage.
LEMMA Amounts ==
    /\ Amount["magnet"] = 1 /\ Amount["partial"] = 2
    /\ Amount["checking"] = 3 /\ Amount["seed"] = 3
    /\ \A s \in Stages : Amount[s] \in 1 .. 3
<1>1. /\ Amount["magnet"] = 1 /\ Amount["partial"] = 2
      /\ Amount["checking"] = 3 /\ Amount["seed"] = 3
  BY DEF Amount
<1>2. 1 \in 1 .. 3 /\ 2 \in 1 .. 3 /\ 3 \in 1 .. 3
  OBVIOUS
<1> QED
  BY <1>1, <1>2 DEF Stages

\* The stages of a status and of resume data, and what write_resume_data keeps.
LEMMA StagesOf ==
    /\ \A s \in Status : s.stage \in Stages /\ s.path \in Paths /\ s.dirty \in BOOLEAN
    /\ \A d \in Data : d.stage \in {"magnet", "partial", "seed"} /\ d.stage \in Stages /\ d.path \in Paths
    /\ \A s \in Status : Amount[DataOf(s).stage] = Amount[s.stage]
<1>1. \A s \in Status : s.stage \in Stages /\ s.path \in Paths /\ s.dirty \in BOOLEAN
  BY DEF Status, Stages
<1>2. \A d \in Data : d.stage \in {"magnet", "partial", "seed"} /\ d.stage \in Stages /\ d.path \in Paths
  BY DEF Data, Stages
<1>3. ASSUME NEW s \in Status PROVE Amount[DataOf(s).stage] = Amount[s.stage]
  BY <1>1, Amounts DEF DataOf, Stages
<1> QED
  BY <1>1, <1>2, <1>3

-----------------------------------------------------------------------------
(* What a step does to one torrent *)

\* Nothing that resume data would show, or only the end of a check.
Steady(t) ==
    /\ st'[t].dirty = st[t].dirty /\ st'[t].path = st[t].path
    /\ \/ st'[t].stage = st[t].stage
       \/ st[t].stage = "checking" /\ st'[t].stage = "seed"

\* Resume data of t is posted, and there is nothing to save any more.
SavePosted(t) ==
    /\ alerts' = Append(alerts, [type |-> "save_resume_data", h |-> HandleOf(t), data |-> DataOf(st[t])])
    /\ UNCHANGED <<live, gen>> /\ st' = [st EXCEPT ![t].dirty = FALSE]

\* Whatever libtorrent does to a torrent that stays, the torrent becomes dirty,
\* remains as it was, or is saved.
LEMMA StatusMoves ==
    ASSUME TypeOK, RunJob \/ TorrentEvent, NEW t \in live \cap live'
    PROVE  st'[t].dirty = TRUE \/ Steady(t) \/ SavePosted(t)
<1>t. gen \in [Torrents -> Nat] /\ live \subseteq Torrents /\ st \in [Torrents -> Status]
  BY DEF TypeOK
<1>0. st[t] \in Status /\ t \in Torrents
  BY <1>t
<1>s. st'[t] = st[t] => Steady(t)
  BY DEF Steady
<1>j. RunJob => Head(jobs) \in Jobs
  BY RunJobTakes
<1>1. CASE AddJob
  <2>1. \/ st' = st
        \/ \E u \in Torrents \ live : \E s : st' = [st EXCEPT ![u] = s]
    <3>1. Head(jobs).t \in Torrents
      BY <1>1, <1>j, JobFields DEF AddJob, NextJob, RunJob
    <3> QED
      BY <1>1, <3>1 DEF AddJob, ltvars
  <2> QED
    BY <1>0, <1>s, <1>t, <2>1
<1>2. CASE RemoveJob
  <2>1. PICK h \in Handles : h = Head(jobs).h
    BY <1>2, <1>j, JobFields DEF RemoveJob, NextJob, RunJob
  <2>2. st' = st \/ (live' = live \ {h[1]} /\ st' = [st EXCEPT ![h[1]] = Blank])
    BY <1>2, <2>1 DEF RemoveJob
  <2> QED
    BY <1>0, <1>s, <1>t, <2>2
<1>3. CASE SaveJob
  <2>1. PICK h \in Handles : h = Head(jobs).h
    BY <1>3, <1>j, JobFields DEF SaveJob, NextJob, RunJob
  <2>2. \/ st' = st
        \/ /\ IsLive(h) /\ UNCHANGED <<live, gen>> /\ st' = [st EXCEPT ![h[1]].dirty = FALSE]
           /\ alerts' = Append(alerts, [type |-> "save_resume_data", h |-> h, data |-> DataOf(st[h[1]])])
    BY <1>3, <2>1 DEF SaveJob
  <2>3. CASE h[1] = t /\ IsLive(h)
    <3>1. h = HandleOf(t)
      BY <2>3 DEF IsLive, HandleOf, Handles
    <3> QED
      BY <1>s, <2>2, <2>3, <3>1 DEF SavePosted
  <2>4. CASE h[1] # t
    BY <1>0, <1>s, <1>t, <2>2, <2>4
  <2> QED
    BY <1>s, <2>2, <2>3, <2>4
<1>4. CASE PauseJob \/ UnpauseJob
  <2>1. PICK h \in Handles : h = Head(jobs).h
    BY <1>4, <1>j, JobFields DEF PauseJob, UnpauseJob, NextJob, RunJob
  <2>2. \/ st' = st
        \/ \E b \in BOOLEAN : st' = [st EXCEPT ![h[1]].paused = b, ![h[1]].dirty = TRUE]
    BY <1>4, <2>1 DEF PauseJob, UnpauseJob
  <2>3. ASSUME NEW b \in BOOLEAN, st' = [st EXCEPT ![h[1]].paused = b, ![h[1]].dirty = TRUE]
        PROVE  st'[t].dirty = TRUE \/ st'[t] = st[t]
    BY <1>0, <1>t, <2>3 DEF Status
  <2> QED
    BY <1>s, <2>2, <2>3
<1>5. CASE MoveJob \/ FlagJob
  <2>1. PICK h \in Handles : h = Head(jobs).h
    BY <1>5, <1>j, JobFields DEF MoveJob, FlagJob, NextJob, RunJob
  <2>2. \/ st' = st
        \/ st' = [st EXCEPT ![h[1]].moving = TRUE] \/ st' = [st EXCEPT ![h[1]].dirty = TRUE]
    BY <1>5, <2>1 DEF MoveJob, FlagJob
  <2> QED
    BY <1>0, <1>s, <1>t, <2>2 DEF Status, Steady
<1>6. CASE UpdateJob
  BY <1>6, <1>s DEF UpdateJob
<1>7. CASE TorrentEvent
  <2>1. PICK u \in Torrents : MetadataReceived(u) \/ Finished(u) \/ Progress(u) \/ StorageMoved(u)
    BY <1>7 DEF TorrentEvent
  <2>2. CASE MetadataReceived(u)
    <3>1. st' = [st EXCEPT ![u].stage = "partial", ![u].dirty = TRUE]
      BY <2>2 DEF MetadataReceived
    <3> QED
      BY <1>0, <1>s, <1>t, <3>1 DEF Status
  <2>3. CASE Finished(u)
    <3>1. \/ \E all \in BOOLEAN :
               st' = [st EXCEPT ![u].stage = "seed", ![u].fetched = all, ![u].dirty = TRUE]
          \/ st[u].stage = "checking" /\ st' = [st EXCEPT ![u].stage = "seed"]
      BY <2>3 DEF Finished
    <3>2. CASE st[u].stage = "checking" /\ st' = [st EXCEPT ![u].stage = "seed"]
      BY <1>0, <1>s, <1>t, <3>2 DEF Status, Steady
    <3>3. ASSUME NEW all \in BOOLEAN,
                 st' = [st EXCEPT ![u].stage = "seed", ![u].fetched = all, ![u].dirty = TRUE]
          PROVE  st'[t].dirty = TRUE \/ Steady(t)
      BY <1>0, <1>s, <1>t, <3>3 DEF Status
    <3> QED
      BY <3>1, <3>2, <3>3
  <2>4. CASE Progress(u)
    <3>1. st' = [st EXCEPT ![u].dirty = TRUE]
      BY <2>4 DEF Progress
    <3> QED
      BY <1>0, <1>s, <1>t, <3>1 DEF Status
  <2>5. CASE StorageMoved(u)
    <3>1. \/ st' = [st EXCEPT ![u].moving = FALSE, ![u].path = "moved", ![u].dirty = TRUE]
          \/ st' = [st EXCEPT ![u].moving = FALSE]
      BY <2>5 DEF StorageMoved
    <3>2. CASE st' = [st EXCEPT ![u].moving = FALSE, ![u].path = "moved", ![u].dirty = TRUE]
      BY <1>0, <1>s, <1>t, <3>2 DEF Status
    <3>3. CASE st' = [st EXCEPT ![u].moving = FALSE]
      BY <1>0, <1>s, <1>t, <3>3 DEF Status, Steady
    <3> QED
      BY <3>1, <3>2, <3>3
  <2> QED
    BY <2>1, <2>2, <2>3, <2>4, <2>5
<1> QED
  BY <1>1, <1>2, <1>3, <1>4, <1>5, <1>6, <1>7 DEF RunJob

\* A torrent that stays never has less than it had.
LEMMA StageMoves ==
    ASSUME TypeOK, RunJob \/ TorrentEvent \/ HandleAlert \/ Aside, NEW t \in live \cap live'
    PROVE  \/ st'[t].stage = st[t].stage
           \/ st[t].stage = "checking" /\ st'[t].stage = "seed"
           \/ /\ TorrentEvent /\ UNCHANGED <<resume, writing, dropped>> /\ live' = live
              /\ \A u \in Torrents : u # t => st'[u] = st[u]
              /\ \/ st[t].stage = "magnet" /\ st'[t].stage = "partial"
                 \/ st[t].stage = "partial" /\ st'[t].stage = "seed"
<1>t. live \subseteq Torrents /\ st \in [Torrents -> Status]
  BY DEF TypeOK
<1>0. st[t] \in Status /\ t \in Torrents
  BY <1>t
<1>1. CASE HandleAlert \/ Aside
  BY <1>1, AlertTouches DEF Aside, ltvars
<1>2. CASE RunJob
  <2>1. CASE AddJob \/ RemoveJob
    <3>1. Head(jobs) \in Jobs
      BY <1>2, RunJobTakes
    <3>2. \/ st' = st
          \/ \E u \in Torrents \ live : \E s : st' = [st EXCEPT ![u] = s]
          \/ \E h \in Handles : live' = live \ {h[1]} /\ st' = [st EXCEPT ![h[1]] = Blank]
      <4>1. CASE AddJob
        <5>1. Head(jobs).t \in Torrents
          BY <3>1, <4>1, JobFields DEF AddJob, NextJob
        <5> QED
          BY <4>1, <5>1 DEF AddJob, ltvars
      <4>2. CASE RemoveJob
        <5>1. Head(jobs).h \in Handles
          BY <3>1, <4>2, JobFields DEF RemoveJob, NextJob
        <5> QED
          BY <4>2, <5>1 DEF RemoveJob
      <4> QED
        BY <2>1, <4>1, <4>2
    <3> QED
      BY <1>0, <1>t, <3>2
  <2>2. CASE SaveJob \/ MoveJob \/ PauseJob \/ UnpauseJob \/ FlagJob \/ UpdateJob
    <3>1. \/ st' = st
          \/ \E u, b : \/ st' = [st EXCEPT ![u].dirty = b] \/ st' = [st EXCEPT ![u].moving = b]
                       \/ st' = [st EXCEPT ![u].paused = b, ![u].dirty = TRUE]
      BY <2>2 DEF SaveJob, MoveJob, PauseJob, UnpauseJob, FlagJob, UpdateJob
    <3>2. ASSUME NEW u, NEW b,
                 \/ st' = [st EXCEPT ![u].dirty = b] \/ st' = [st EXCEPT ![u].moving = b]
                 \/ st' = [st EXCEPT ![u].paused = b, ![u].dirty = TRUE]
          PROVE  st'[t].stage = st[t].stage
      BY <1>0, <1>t, <3>2 DEF Status
    <3> QED
      BY <3>1, <3>2
  <2> QED
    BY <1>2, <2>1, <2>2 DEF RunJob
<1>3. CASE TorrentEvent
  <2>0. UNCHANGED <<live, resume, writing, dropped>>
    BY <1>3, EventTouches
  <2>1. PICK u \in Torrents : MetadataReceived(u) \/ Finished(u) \/ Progress(u) \/ StorageMoved(u)
    BY <1>3 DEF TorrentEvent
  <2>2. CASE MetadataReceived(u)
    <3>1. st' = [st EXCEPT ![u].stage = "partial", ![u].dirty = TRUE] /\ st[u].stage = "magnet"
      BY <2>2 DEF MetadataReceived
    <3> QED
      BY <1>0, <1>3, <1>t, <2>0, <3>1 DEF Status
  <2>3. CASE Finished(u)
    <3>1. \/ /\ st[u].stage = "partial"
             /\ \E all \in BOOLEAN :
                 st' = [st EXCEPT ![u].stage = "seed", ![u].fetched = all, ![u].dirty = TRUE]
          \/ st[u].stage = "checking" /\ st' = [st EXCEPT ![u].stage = "seed"]
      BY <2>3 DEF Finished
    <3>2. CASE st[u].stage = "checking" /\ st' = [st EXCEPT ![u].stage = "seed"]
      BY <1>0, <1>t, <3>2 DEF Status
    <3>3. ASSUME NEW all \in BOOLEAN, st[u].stage = "partial",
                 st' = [st EXCEPT ![u].stage = "seed", ![u].fetched = all, ![u].dirty = TRUE]
          PROVE  /\ \A v \in Torrents : v # u => st'[v] = st[v]
                 /\ st'[u].stage = "seed"
      BY <1>0, <1>t, <3>3 DEF Status
    <3> QED
      BY <1>0, <1>3, <2>0, <3>1, <3>2, <3>3
  <2>4. CASE Progress(u) \/ StorageMoved(u)
    <3>1. \/ st' = [st EXCEPT ![u].dirty = TRUE]
          \/ st' = [st EXCEPT ![u].moving = FALSE, ![u].path = "moved", ![u].dirty = TRUE]
          \/ st' = [st EXCEPT ![u].moving = FALSE]
      BY <2>4 DEF Progress, StorageMoved
    <3> QED
      BY <1>0, <1>t, <3>1 DEF Status
  <2> QED
    BY <2>1, <2>2, <2>3, <2>4
<1> QED
  BY <1>1, <1>2, <1>3

-----------------------------------------------------------------------------
(* Additions, saves and writes under way *)

\* d was read from a file with f: nothing of f is lost, and a move is not made up.
Same(d, f) ==
    /\ (d.stage = "seed") = (f.stage = "seed") /\ Amount[f.stage] <= Amount[d.stage]
    /\ d.path = "moved" => f.path = "moved"

\* An addition still says what the file does, or it will be refused or a client
\* removed the torrent.
AddFits(t, p) ==
    t \notin live \cup dropped =>
        /\ p.kind = "loaded" => resume[t].file = "complete" /\ Same(p.data, resume[t].data)
        /\ p.kind = "fresh" => resume[t].file # "complete"

\* The file is read long before the addition is run: whatever was read still fits.
AddInv ==
    /\ \A j \in Elements(jobs) : j.type = "add" => AddFits(j.t, j.params)
    /\ \A a \in Actors : call[a].op = "add" => AddFits(call[a].t, call[a].params)

\* The torrent has what d claims, or a client removed it.
Covered(t, d) == t \in dropped \/ (t \in live /\ Amount[d.stage] <= Amount[st[t].stage])

\* Resume data on its way never claims more than the torrent has.
SaveInv ==
    /\ \A a \in Elements(alerts) : a.type = "save_resume_data" => Covered(a.h[1], a.data)
    /\ \A w \in Elements(writing) : Covered(w.t, w.data)

\* A file that is being written was truncated, unless a client deleted it.
OpenInv == \A w \in Elements(writing) : w.t \in dropped \/ resume[w.t].file = "truncated"

\* Only the files of torrents of the session, or of dropped ones, are touched.
LEMMA FileStays ==
    ASSUME TypeOK, HandleInv, RunJob \/ TorrentEvent \/ HandleAlert \/ Aside,
           NEW t \in Torrents, t \notin live' \cup dropped'
    PROVE  t \notin live \cup dropped /\ resume'[t] = resume[t]
<1>1. t \notin live \cup dropped
  BY FineStays
<1>2. CASE UNCHANGED resume
  BY <1>1, <1>2
<1>3. CASE OnSaveResumeData
  <2>1. alerts # <<>> /\ Head(alerts).type = "save_resume_data"
    BY <1>3 DEF OnSaveResumeData, NextAlert, TypeOK
  <2>2. Head(alerts) \in Elements(alerts)
    BY <2>1, ElementsTail DEF TypeOK
  <2>3. Head(alerts).h[1] \in live \cup dropped
    BY <2>1, <2>2 DEF HandleInv, Fine, IsLive
  <2> QED
    BY <1>1, <1>3, <2>3 DEF OnSaveResumeData, TypeOK
<1>4. CASE WriteFile
  <2>1. writing[1] \in Elements(writing)
    BY <1>4 DEF WriteFile, Elements, TypeOK
  <2>2. writing[1].t \in live \cup dropped
    BY <2>1 DEF HandleInv
  <2> QED
    BY <1>1, <1>4, <2>2 DEF WriteFile, TypeOK
<1>5. ASSUME NEW w \in Workers, NEW u \in Torrents, DropFile(w, u) PROVE resume'[t] = resume[t]
  BY <1>5 DEF DropFile, TypeOK
<1> QED
  BY <1>1, <1>2, <1>3, <1>4, <1>5, RunJobTakes, EventTouches DEF HandleAlert, OnMetadataReceived,
     OnAddTorrent, OnTorrentFinished, MoveFinished, OnSaveResumeDataFailed, OnTorrentPaused,
     OnStateUpdate, OnTorrentRemoved, Aside, disk

\* So an addition that fits goes on fitting.
LEMMA AddFitsStays ==
    ASSUME TypeOK, HandleInv, RunJob \/ TorrentEvent \/ HandleAlert \/ Aside,
           NEW t \in Torrents, NEW p, AddFits(t, p)
    PROVE  AddFits(t, p)'
  BY FileStays DEF AddFits

\* What the callers read from the file fits.
LEMMA ParamsFit ==
    ASSUME TypeOK, NEW t \in Torrents, NEW p,
           \/ p \in {MagnetParams(t), FileParams(t), BufferParams(t)}
           \/ resume[t].file = "complete" /\ p = Loaded(resume[t].data)
    PROVE  AddFits(t, p)
<1>1. resume[t].file \in {"none", "truncated", "complete"} /\ resume[t].data \in Data
  BY DEF TypeOK, Files
<1>2. /\ resume[t].data.stage \in {"magnet", "partial", "seed"}
      /\ \A s \in {"magnet", "partial", "seed"} : Amount[s] <= Amount[s]
      /\ Amount["magnet"] <= Amount["partial"]
  BY <1>1, StagesOf, Amounts
<1> DEFINE d == resume[t].data
<1> HIDE DEF d
<1>3. d.stage \in {"magnet", "partial", "seed"} /\ d \in Data
  BY <1>1, <1>2 DEF d
<1>4. Same(d, d)
  BY <1>2, <1>3 DEF Same
<1>5. PICK f \in Data : f = [d EXCEPT !.stage = IF @ = "magnet" THEN "partial" ELSE @]
  BY <1>3 DEF Data
<1>6. Same(f, d)
  <2>1. f.path = d.path /\ f.stage = IF d.stage = "magnet" THEN "partial" ELSE d.stage
    BY <1>3, <1>5 DEF Data
  <2> QED
    BY <1>2, <1>3, <2>1 DEF Same
<1>7. Same([f EXCEPT !.path = "store"], d)
  <2>1. [f EXCEPT !.path = "store"].path = "store" /\ [f EXCEPT !.path = "store"].stage = f.stage
    BY DEF Data
  <2> QED
    BY <1>6, <2>1 DEF Same
<1>8. CASE p = MagnetParams(t)
  BY <1>1, <1>4, <1>8 DEF MagnetParams, Loaded, Fresh, Bad, AddFits, d
<1>9. CASE p = FileParams(t)
  BY <1>1, <1>5, <1>6, <1>9 DEF FileParams, Loaded, Fresh, AddFits, d
<1>10. CASE p = BufferParams(t)
  <2>1. CASE resume[t].file = "complete"
    <3>1. FileParams(t) = [kind |-> "loaded", data |-> f]
      BY <1>5, <2>1 DEF FileParams, Loaded, d
    <3>2. p = [kind |-> "loaded", data |-> [f EXCEPT !.path = "store"]]
      BY <1>10, <3>1 DEF BufferParams
    <3> QED
      BY <1>7, <2>1, <3>2 DEF AddFits, d
  <2>2. CASE resume[t].file # "complete"
    <3>1. FileParams(t) = Fresh("partial")
      BY <2>2 DEF FileParams
    <3>2. p.kind = "fresh"
      BY <1>10, <3>1 DEF BufferParams, Fresh
    <3> QED
      BY <2>2, <3>2 DEF AddFits
  <2> QED
    BY <2>1, <2>2
<1>11. CASE resume[t].file = "complete" /\ p = Loaded(resume[t].data)
  BY <1>4, <1>11 DEF Loaded, AddFits, d
<1> QED
  BY <1>8, <1>9, <1>10, <1>11

\* Every step keeps AddInv.
LEMMA AddStep == TypeOK /\ HandleInv /\ AddInv /\ [Next]_vars => AddInv'
<1> SUFFICES ASSUME TypeOK, HandleInv, AddInv, [Next]_vars PROVE AddInv'
  OBVIOUS
<1>1. CASE Start \/ Die
  BY <1>1, ElementsIn DEF Start, Die, Forget, AddInv, Idle
<1>2. CASE RunJob \/ TorrentEvent \/ HandleAlert \/ Aside
  <2>t. /\ jobs \in Seq(Jobs) /\ Elements(jobs) \subseteq Jobs /\ call \in [Actors -> Calls]
        /\ \A a \in Actors : call[a] \in Calls
    BY HandlesKept DEF TypeOK
  <2>1. ASSUME NEW j \in Elements(jobs), j.type = "add" PROVE AddFits(j.t, j.params)'
    <3>1. j.t \in Torrents /\ AddFits(j.t, j.params)
      BY <2>1, <2>t, JobFields DEF AddInv
    <3> QED
      BY <1>2, <3>1, AddFitsStays
  <2>2. ASSUME NEW a \in Actors, NEW t, NEW p, call[a].op = "add", t = call[a].t, p = call[a].params
        PROVE  AddFits(t, p)'
    <3>1. t \in Torrents /\ AddFits(t, p)
      BY <2>2, <2>t, CallFields DEF AddInv
    <3> QED
      BY <1>2, <3>1, AddFitsStays
  <2>3. ASSUME Elements(jobs') \subseteq Elements(jobs)
        PROVE  \A j \in Elements(jobs') : j.type = "add" => AddFits(j.t, j.params)'
    BY <2>1, <2>3
  <2>4. ASSUME NEW j \in Jobs, jobs' = Append(jobs, j), j.type = "add" => AddFits(j.t, j.params)'
        PROVE  \A k \in Elements(jobs') : k.type = "add" => AddFits(k.t, k.params)'
    <3>1. Elements(jobs') = Elements(jobs) \cup {j}
      BY <2>4, <2>t, ElementsAppend
    <3> QED
      BY <2>1, <2>4, <3>1
  <2>5. \A j \in Elements(jobs') : j.type = "add" => AddFits(j.t, j.params)'
    <3>1. CASE RunJob
      BY <2>3, <3>1, RunJobTakes
    <3>2. CASE TorrentEvent
      BY <2>3, <3>2, EventTouches
    <3>3. CASE HandleAlert
      BY <2>3, <2>4, <3>3, AlertTakes
    <3>4. CASE Aside
      <4>1. ASSUME NEW j \in Jobs, jobs' = Append(jobs, j), Posted(j), j.type = "add"
            PROVE  AddFits(j.t, j.params)'
        <5>1. PICK a \in Actors : /\ call[a].op = "add" /\ j.t = call[a].t
                                  /\ j.params = call[a].params
          BY <4>1 DEF Posted, HandleOps
        <5> QED
          BY <2>2, <5>1
      <4> QED
        BY <2>3, <2>4, <3>4, <4>1 DEF Aside
    <3> QED
      BY <1>2, <3>1, <3>2, <3>3, <3>4
  <2>6. ASSUME NEW a \in Actors, call'[a].op = "add" PROVE AddFits(call[a].t, call[a].params)'
    <3>1. CASE call'[a] = call[a]
      <4>1. PICK t, p : t = call[a].t /\ p = call[a].params
        OBVIOUS
      <4>2. AddFits(t, p)'
        BY <2>2, <2>6, <3>1, <4>1
      <4> QED
        BY <3>1, <4>1, <4>2 DEF AddFits
    <3>2. ASSUME NEW b \in Actors, NEW c \in Calls, call' = [call EXCEPT ![b] = c], Begun(b, c),
                 call'[a] # call[a]
          PROVE  AddFits(call[a].t, call[a].params)'
      <4>1. call'[a] = c
        BY <2>t, <3>2
      <4>2. /\ c.t \in Torrents
            /\ \/ c.params \in {MagnetParams(c.t), FileParams(c.t), BufferParams(c.t)}
               \/ resume[c.t].file = "complete" /\ c.params = Loaded(resume[c.t].data)
        BY <2>6, <3>2, <4>1 DEF Begun, Idle, HandleOps
      <4>3. AddFits(c.t, c.params)
        BY <4>2, ParamsFit
      <4>4. AddFits(c.t, c.params)'
        BY <1>2, <4>2, <4>3, AddFitsStays
      <4> QED
        BY <4>1, <4>4 DEF AddFits
    <3> QED
      BY <1>2, <3>1, <3>2, RunJobTakes, EventTouches, AlertTouches DEF Aside
  <2> QED
    BY <2>5, <2>6 DEF AddInv
<1> QED
  BY <1>1, <1>2, StepCases

\* What a torrent has never shrinks while it stays.
LEMMA AmountGrows ==
    ASSUME TypeOK, RunJob \/ TorrentEvent \/ HandleAlert \/ Aside, NEW t \in live \cap live'
    PROVE  Amount[st[t].stage] <= Amount[st'[t].stage]
<1>1. st[t].stage \in Stages
  BY StagesOf DEF TypeOK
<1>2. Amount[st[t].stage] \in 1 .. 3
  BY <1>1, Amounts
<1> QED
  BY <1>2, StageMoves, Amounts

\* So resume data that was covered stays covered.
LEMMA CoveredStays ==
    ASSUME TypeOK, HandleInv, RunJob \/ TorrentEvent \/ HandleAlert \/ Aside,
           NEW t, NEW d \in Data, Covered(t, d)
    PROVE  Covered(t, d)'
<1>1. CASE t \in dropped
  BY <1>1, DroppedGrows DEF Covered
<1>2. CASE t \in live /\ t \notin dropped /\ Amount[d.stage] <= Amount[st[t].stage]
  <2>1. t \in live' \/ t \in dropped'
    BY <1>2, FineStays
  <2>2. t \in live' => Amount[st[t].stage] <= Amount[st'[t].stage]
    BY <1>2, AmountGrows
  <2>3. d.stage \in Stages /\ Amount[d.stage] \in 1 .. 3
    BY StagesOf, Amounts
  <2>4. st[t].stage \in Stages /\ Amount[st[t].stage] \in 1 .. 3
    BY <1>2, StagesOf, Amounts DEF TypeOK
  <2>5. t \in live' => Amount[st'[t].stage] \in 1 .. 3
    <3>1. t \in live' => \/ st'[t].stage = st[t].stage \/ st'[t].stage \in {"partial", "seed"}
      BY <1>2, StageMoves
    <3> QED
      BY <2>4, <3>1, Amounts
  <2> QED
    BY <1>2, <2>1, <2>2, <2>3, <2>4, <2>5 DEF Covered
<1> QED
  BY <1>1, <1>2 DEF Covered

\* The alerts a step of libtorrent posts, as far as saves go.
LEMMA SavesPosted ==
    ASSUME TypeOK, RunJob \/ TorrentEvent
    PROVE  \/ alerts' = alerts
           \/ \E a \in Alerts : alerts' = Append(alerts, a) /\ a.type # "save_resume_data"
           \/ \E t \in live : SavePosted(t) /\ RunJob /\ Head(jobs).type = "save"
                              /\ Head(jobs).h = HandleOf(t)
<1>1. CASE TorrentEvent
  BY <1>1, EventPosts DEF Answered
<1>2. CASE SaveJob
  <2>1. PICK h \in Handles : h = Head(jobs).h
    BY <1>2, RunJobTakes, JobFields DEF SaveJob, NextJob, RunJob
  <2>2. Alert("save_resume_data_failed", h) \in Alerts
        /\ Alert("save_resume_data_failed", h).type = "save_resume_data_failed"
    BY AlertsMade DEF Plain, Alert
  <2>3. \/ alerts' = Append(alerts, Alert("save_resume_data_failed", h))
        \/ /\ IsLive(h) /\ UNCHANGED <<live, gen>> /\ st' = [st EXCEPT ![h[1]].dirty = FALSE]
           /\ alerts' = Append(alerts, [type |-> "save_resume_data", h |-> h, data |-> DataOf(st[h[1]])])
    BY <1>2, <2>1 DEF SaveJob
  <2>4. CASE alerts' = Append(alerts, Alert("save_resume_data_failed", h))
    BY <2>2, <2>4
  <2>5. CASE /\ IsLive(h) /\ UNCHANGED <<live, gen>> /\ st' = [st EXCEPT ![h[1]].dirty = FALSE]
             /\ alerts' = Append(alerts, [type |-> "save_resume_data", h |-> h, data |-> DataOf(st[h[1]])])
    <3>1. h[1] \in live /\ h = HandleOf(h[1])
      BY <2>5 DEF IsLive, HandleOf, Handles
    <3>2. SavePosted(h[1])
      BY <2>5, <3>1 DEF SavePosted
    <3> QED
      BY <1>2, <2>1, <3>1, <3>2 DEF RunJob, SaveJob, NextJob
  <2> QED
    BY <2>3, <2>4, <2>5
<1>3. CASE RunJob /\ ~SaveJob
  <2>1. alerts' = alerts \/ \E a : alerts' = Append(alerts, a) /\ a.type # "save_resume_data"
    <3>1. CASE AddJob
      BY <3>1 DEF AddJob, Alert
    <3>2. CASE RemoveJob \/ PauseJob
      BY <3>2 DEF RemoveJob, PauseJob, Alert
    <3>3. CASE MoveJob \/ UnpauseJob \/ FlagJob
      BY <3>3 DEF MoveJob, UnpauseJob, FlagJob
    <3>4. CASE UpdateJob
      BY <3>4 DEF UpdateJob
    <3> QED
      BY <1>3, <3>1, <3>2, <3>3, <3>4 DEF RunJob
  <2>2. \A a : alerts' = Append(alerts, a) => a \in Alerts
    <3> SUFFICES ASSUME NEW a, alerts' = Append(alerts, a) PROVE a \in Alerts
      OBVIOUS
    <3>1. alerts' \in Seq(Alerts) /\ alerts \in Seq(Alerts)
      BY <1>3, TypeRunJob DEF TypeOK
    <3>2. Len(alerts') = Len(alerts) + 1 /\ alerts'[Len(alerts) + 1] = a /\ Len(alerts) \in Nat
      BY <3>1
    <3>3. Len(alerts) + 1 \in 1 .. Len(alerts')
      BY <3>2
    <3> QED
      BY <3>1, <3>2, <3>3
  <2> QED
    BY <2>1, <2>2
<1> QED
  BY <1>1, <1>2, <1>3 DEF RunJob

\* The write handle_alert begins and ends.
LEMMA WriteSteps ==
    ASSUME TypeOK, HandleAlert
    PROVE  \/ UNCHANGED <<resume, writing, spoiled>> /\ ~OnSaveResumeData /\ ~WriteFile
           \/ /\ OnSaveResumeData /\ writing = <<>> /\ alerts # <<>> /\ alerts' = Tail(alerts)
              /\ Head(alerts).type = "save_resume_data" /\ Head(alerts) \in Elements(alerts)
              /\ Head(alerts).h \in Handles /\ Head(alerts).data \in Data
              /\ \/ /\ resume' = [resume EXCEPT ![Head(alerts).h[1]] = [file |-> "truncated", data |-> NoData]]
                    /\ writing' = <<[t |-> Head(alerts).h[1], data |-> Head(alerts).data]>>
                    /\ UNCHANGED spoiled
                 \/ /\ DiskFails
                    /\ spoiled' = spoiled \cup {Head(alerts).h[1]}
                    /\ UNCHANGED <<resume, writing>>
           \/ /\ WriteFile /\ writing # <<>> /\ writing' = <<>> /\ alerts' = alerts
              /\ writing[1] \in Elements(writing) /\ writing[1] \in Writes
<1>1. CASE OnSaveResumeData
  <2>1. /\ writing = <<>> /\ alerts # <<>> /\ alerts' = Tail(alerts)
        /\ Head(alerts).type = "save_resume_data"
    BY <1>1 DEF OnSaveResumeData, NextAlert, TypeOK
  <2>2. Head(alerts) \in Elements(alerts) /\ Head(alerts) \in Alerts
    BY <2>1, ElementsTail DEF TypeOK
  <2>3. Head(alerts).h \in Handles /\ Head(alerts).data \in Data
    BY <2>1, <2>2, AlertFields
  <2> QED
    BY <1>1, <2>1, <2>2, <2>3 DEF OnSaveResumeData
<1>2. CASE WriteFile
  <2>1. writing # <<>> /\ writing \in Seq(Writes)
    BY <1>2 DEF WriteFile, TypeOK
  <2>2. 1 \in 1 .. Len(writing) /\ writing[1] \in Writes
    BY <2>1
  <2> QED
    BY <1>2, <2>1, <2>2 DEF WriteFile, queues, Elements
<1>3. CASE ~OnSaveResumeData /\ ~WriteFile
  <2>1. UNCHANGED <<resume, writing, spoiled>>
    BY <1>3 DEF HandleAlert, OnMetadataReceived,
     OnAddTorrent, OnTorrentFinished, MoveFinished, OnSaveResumeDataFailed, OnTorrentPaused,
     OnStateUpdate, OnTorrentRemoved, disk
  <2> QED
    BY <1>3, <2>1
<1> QED
  BY <1>1, <1>2, <1>3

\* Every step keeps SaveInv.
LEMMA SaveStep == TypeOK /\ HandleInv /\ SaveInv /\ [Next]_vars => SaveInv'
<1> SUFFICES ASSUME TypeOK, HandleInv, SaveInv, [Next]_vars PROVE SaveInv'
  OBVIOUS
<1>1. CASE Start \/ Die
  BY <1>1, ElementsIn DEF Start, Die, Forget, SaveInv
<1>2. CASE RunJob \/ TorrentEvent \/ HandleAlert \/ Aside
  <2>t. /\ alerts \in Seq(Alerts) /\ Elements(alerts) \subseteq Alerts
        /\ Elements(writing) \subseteq Writes
    BY HandlesKept DEF TypeOK
  <2>1. ASSUME NEW a \in Elements(alerts), a.type = "save_resume_data" PROVE Covered(a.h[1], a.data)'
    <3>1. a.data \in Data /\ Covered(a.h[1], a.data)
      BY <2>1, <2>t, AlertFields DEF SaveInv
    <3> QED
      BY <1>2, <3>1, CoveredStays
  <2>2. ASSUME NEW w \in Elements(writing) PROVE Covered(w.t, w.data)'
    <3>1. w.data \in Data /\ Covered(w.t, w.data)
      BY <2>t DEF SaveInv, Writes
    <3> QED
      BY <1>2, <3>1, CoveredStays
  <2>3. ASSUME Elements(alerts') \subseteq Elements(alerts)
        PROVE  \A a \in Elements(alerts') : a.type = "save_resume_data" => Covered(a.h[1], a.data)'
    BY <2>1, <2>3
  <2>4. \A a \in Elements(alerts') : a.type = "save_resume_data" => Covered(a.h[1], a.data)'
    <3>1. ASSUME NEW a \in Alerts, alerts' = Append(alerts, a), a.type # "save_resume_data"
          PROVE  \A b \in Elements(alerts') : b.type = "save_resume_data" => Covered(b.h[1], b.data)'
      <4>1. Elements(alerts') = Elements(alerts) \cup {a}
        BY <2>t, <3>1, ElementsAppend
      <4> QED
        BY <2>1, <3>1, <4>1
    <3>2. ASSUME NEW t \in live, SavePosted(t)
          PROVE  \A b \in Elements(alerts') : b.type = "save_resume_data" => Covered(b.h[1], b.data)'
      <4>1. t \in Torrents /\ st[t] \in Status /\ HandleOf(t) \in Handles
        BY DEF TypeOK, HandleOf, Handles
      <4>2. PICK d \in Data : d = DataOf(st[t])
        BY <4>1, StatusMade
      <4>3. PICK a \in Alerts : a = [type |-> "save_resume_data", h |-> HandleOf(t), data |-> d]
        BY <4>1, AlertsMade
      <4>4. Elements(alerts') = Elements(alerts) \cup {a}
        BY <2>t, <3>2, <4>2, <4>3, ElementsAppend DEF SavePosted
      <4>5. a.h[1] = t /\ a.data = d
        BY <4>3 DEF HandleOf
      <4>6. Amount[d.stage] = Amount[st[t].stage]
        BY <4>1, <4>2, StagesOf
      <4>7. t \in live' /\ st'[t].stage = st[t].stage
        BY <3>2, <4>1 DEF SavePosted, Status, TypeOK
      <4>8. Amount[d.stage] \in 1 .. 3
        BY StagesOf, Amounts
      <4>9. Covered(t, d)'
        BY <4>6, <4>7, <4>8 DEF Covered
      <4> QED
        BY <2>1, <4>4, <4>5, <4>9
    <3>3. CASE RunJob \/ TorrentEvent
      BY <2>3, <3>1, <3>2, <3>3, SavesPosted
    <3>4. CASE HandleAlert
      BY <2>3, <3>4, AlertTakes
    <3>5. CASE Aside
      BY <2>3, <3>5 DEF Aside
    <3> QED
      BY <1>2, <3>3, <3>4, <3>5
  <2>5. \A w \in Elements(writing') : Covered(w.t, w.data)'
    <3>1. CASE writing' = writing
      BY <2>2, <3>1
    <3>2. CASE writing' = <<>>
      BY <3>2, ElementsIn
    <3>3. CASE /\ Head(alerts) \in Elements(alerts) /\ Head(alerts).type = "save_resume_data"
               /\ writing' = <<[t |-> Head(alerts).h[1], data |-> Head(alerts).data]>>
      <4>1. PICK a \in Elements(alerts) : a = Head(alerts)
        BY <3>3
      <4>2. Covered(a.h[1], a.data)'
        BY <2>1, <3>3, <4>1
      <4>3. Elements(writing') = {[t |-> a.h[1], data |-> a.data]}
        BY <3>3, <4>1, ElementsIn
      <4> QED
        BY <4>2, <4>3
    <3>4. CASE RunJob \/ TorrentEvent \/ Aside
      BY <3>1, <3>4, RunJobTakes, EventTouches DEF Aside
    <3>5. CASE HandleAlert
      BY <3>1, <3>2, <3>3, <3>5, WriteSteps
    <3> QED
      BY <1>2, <3>4, <3>5
  <2> QED
    BY <2>4, <2>5 DEF SaveInv
<1> QED
  BY <1>1, <1>2, StepCases

\* Every step keeps OpenInv.
LEMMA OpenStep == TypeOK /\ HandleInv /\ OpenInv /\ [Next]_vars => OpenInv'
<1> SUFFICES ASSUME TypeOK, HandleInv, OpenInv, [Next]_vars PROVE OpenInv'
  OBVIOUS
<1>1. CASE writing' = <<>>
  BY <1>1, ElementsIn DEF OpenInv
<1>2. CASE UNCHANGED <<writing, resume>> /\ dropped \subseteq dropped'
  BY <1>2 DEF OpenInv
<1>3. CASE RunJob \/ TorrentEvent
  BY <1>2, <1>3, RunJobTakes, EventTouches
<1>4. CASE HandleAlert
  <2>1. CASE OnSaveResumeData /\ ~UNCHANGED <<writing, resume>>
    <3>0. writing = <<>>
      BY <2>1 DEF OnSaveResumeData, NextAlert
    <3>1. PICK t \in Torrents : t = Head(alerts).h[1]
      BY <1>4, <2>1, <3>0, WriteSteps DEF Handles
    <3>2. /\ resume' = [resume EXCEPT ![t] = [file |-> "truncated", data |-> NoData]]
          /\ writing' = <<[t |-> t, data |-> Head(alerts).data]>>
      BY <1>4, <2>1, <3>0, <3>1, WriteSteps
    <3>3. Elements(writing') = {[t |-> t, data |-> Head(alerts).data]}
      BY <3>2, ElementsIn
    <3>4. resume'[t].file = "truncated"
      BY <3>2 DEF TypeOK
    <3> QED
      BY <3>3, <3>4 DEF OpenInv
  <2> QED
    BY <1>1, <1>2, <1>4, <2>1, WriteSteps, AlertTouches
<1>5. CASE Aside
  <2>1. CASE UNCHANGED <<resume, dropped>>
    BY <1>2, <1>5, <2>1 DEF Aside
  <2>2. ASSUME NEW w \in Workers, NEW t \in Torrents, DropFile(w, t) PROVE OpenInv'
    <3>1. resume' = [resume EXCEPT ![t] = NoFile] /\ dropped' = dropped \cup {t} /\ writing' = writing
      BY <2>2 DEF DropFile, pumping
    <3>2. Elements(writing) \subseteq Writes
      BY HandlesKept
    <3> QED
      BY <3>1, <3>2 DEF OpenInv, Writes, TypeOK
  <2> QED
    BY <1>5, <2>1, <2>2 DEF Aside
<1>6. CASE Start \/ Die
  BY <1>1, <1>6 DEF Start, Die, Forget
<1> QED
  BY <1>3, <1>4, <1>5, <1>6, StepCases

-----------------------------------------------------------------------------
(* The torrent manager implements Store *)

\* A process that is gone writes no file; of one that stopped ShutdownDrained
\* says so.
Closed == proc = "down" => writing = <<>>

\* What a step does to the process.
LEMMA ProcSteps ==
    ASSUME [Next]_vars
    PROVE  proc' = proc \/ BeginEnd \/ SaveSession \/ Start \/ (Up /\ Die)
<1>1. ASSUME NEW a, PostAdd(a) PROVE proc' = proc
  BY <1>1 DEF PostAdd, env
<1>2. CASE UNCHANGED vars
  BY <1>2 DEF vars, env
<1>3. CASE RunJob
  BY <1>3 DEF RunJob, AddJob, RemoveJob, SaveJob, MoveJob, PauseJob, UnpauseJob, FlagJob, UpdateJob, env
<1>4. ASSUME NEW w \in Workers, Worker(w) PROVE proc' = proc
  BY <1>1, <1>4 DEF Worker, DropFind, PostCall, ListFiles, env
<1>5. CASE Loader
  BY <1>1, <1>5 DEF Loader, LoadFile, env
<1>6. CASE HandleAlert
  BY <1>6, AlertTouches
<1>7. CASE Pump
  BY <1>1, <1>7 DEF Pump, PostUpdates, PopAlerts, EndPop, ScanFile, EndScan, PumpExit, env
<1>8. CASE End
  BY <1>8 DEF End, RequestOne, EndRequests, WaitForAlert, WaitDone, env
<1>9. CASE Environment
  <2>1. ASSUME NEW w \in Workers, NEW t \in Torrents,
               PostMagnet(w, t) \/ PostMetainfo(w, t) \/ DropFile(w, t) \/ PauseResumeTorrent(w, t)
               \/ ResumeTorrent(w, t) \/ GetTorrent(w, t)
        PROVE  proc' = proc
    BY <2>1 DEF PostMagnet, PostMetainfo, DropFile, PauseResumeTorrent, ResumeTorrent, GetTorrent, Found
  <2>2. CASE Signal \/ \E t \in Torrents : PutWatchFile(t)
    BY <2>2 DEF Signal, PutWatchFile
  <2>3. CASE TorrentEvent
    BY <2>3, EventTouches
  <2> QED
    BY <1>9, <2>1, <2>2, <2>3 DEF Environment, Client, Crash
<1> QED
  BY <1>2, <1>3, <1>4, <1>5, <1>6, <1>7, <1>8, <1>9 DEF Next, Abort

\* Every step keeps Closed.
LEMMA ClosedStep == TypeOK /\ Closed /\ [Next]_vars => Closed'
<1> SUFFICES ASSUME TypeOK, Closed, [Next]_vars PROVE Closed'
  OBVIOUS
<1>1. CASE Start \/ Die
  BY <1>1 DEF Start, Die, Forget, Closed
<1>2. CASE HandleAlert
  BY <1>2, AlertTouches DEF Up, Closed
<1>3. CASE (RunJob \/ TorrentEvent \/ Aside) /\ ~Start /\ ~Die
  <2>1. writing' = writing
    BY <1>3, RunJobTakes, EventTouches DEF Aside
  <2> QED
    BY <1>3, <2>1, ProcSteps DEF Closed, BeginEnd, SaveSession
<1> QED
  BY <1>1, <1>2, <1>3, StepCases

\* What Store sees of a torrent.
LEMMA Views ==
    ASSUME TypeOK
    PROVE  /\ Got \in [Torrents -> 0 .. 3] /\ Holds \in [Torrents -> 0 .. 3]
           /\ \A t \in Torrents : Got[t] = IF t \in live THEN Amount[st[t].stage] ELSE 0
           /\ \A t \in Torrents : Holds[t] = IF resume[t].file = "complete"
                                             THEN Amount[resume[t].data.stage] ELSE 0
           /\ \A t \in Torrents : t \in live => Got[t] \in 1 .. 3
           /\ \A t \in Torrents : resume[t].file = "complete" => Holds[t] \in 1 .. 3
<1>1. ASSUME NEW t \in Torrents PROVE Amount[st[t].stage] \in 1 .. 3
  BY StagesOf, Amounts DEF TypeOK
<1>2. ASSUME NEW t \in Torrents PROVE Amount[resume[t].data.stage] \in 1 .. 3
  <2>1. resume[t].data \in Data
    BY DEF TypeOK, Files
  <2> QED
    BY <2>1, StagesOf, Amounts
<1>3. /\ \A t \in Torrents : Got[t] = IF t \in live THEN Amount[st[t].stage] ELSE 0
      /\ \A t \in Torrents : Holds[t] = IF resume[t].file = "complete"
                                        THEN Amount[resume[t].data.stage] ELSE 0
  BY DEF Got, Holds
<1>4. Got \in [Torrents -> 0 .. 3]
  BY <1>1 DEF Got
<1>5. Holds \in [Torrents -> 0 .. 3]
  BY <1>2 DEF Holds
<1> QED
  BY <1>1, <1>2, <1>3, <1>4, <1>5

\* The files Store sees are told by resume and writing.
LEMMA FileViews ==
    ASSUME TypeOK
    PROVE  \A t \in Torrents :
             /\ resume[t].file = "none" => FileStates[t] = "none"
             /\ resume[t].file = "complete" => FileStates[t] = "whole"
             /\ resume[t].file = "truncated" => FileStates[t] = IF BeingWritten(t) THEN "open" ELSE "torn"
             /\ resume[t].file \in {"none", "complete", "truncated"}
             /\ FileStates[t] = "open" <=> resume[t].file = "truncated" /\ BeingWritten(t)
<1> SUFFICES ASSUME NEW t \in Torrents
             PROVE  /\ resume[t].file = "none" => FileStates[t] = "none"
                    /\ resume[t].file = "complete" => FileStates[t] = "whole"
                    /\ resume[t].file = "truncated" => FileStates[t] = IF BeingWritten(t) THEN "open" ELSE "torn"
                    /\ resume[t].file \in {"none", "complete", "truncated"}
                    /\ FileStates[t] = "open" <=> resume[t].file = "truncated" /\ BeingWritten(t)
  OBVIOUS
<1>1. resume[t].file \in {"none", "complete", "truncated"}
  BY DEF TypeOK, Files
<1>2. FileStates[t] = CASE resume[t].file = "none"      -> "none"
                        [] resume[t].file = "complete"  -> "whole"
                        [] resume[t].file = "truncated" -> IF BeingWritten(t) THEN "open" ELSE "torn"
  BY DEF FileStates, FileState
<1> QED
  BY <1>1, <1>2

\* Unchanged resume and writing are unchanged files.
LEMMA SameFiles ==
    ASSUME UNCHANGED <<resume, writing>>
    PROVE  FileStates' = FileStates /\ Holds' = Holds
  BY DEF FileStates, FileState, Holds, BeingWritten

\* One file changes when the others, and who writes them, stay.
LEMMA OneFile ==
    ASSUME TypeOK, TypeOK', NEW t \in Torrents,
           \A u \in Torrents : u # t => /\ resume'[u].file = resume[u].file
                                        /\ BeingWritten(u)' <=> BeingWritten(u)
    PROVE  /\ FileStates' = [FileStates EXCEPT ![t] = FileStates'[t]]
           /\ resume'[t].file = "none" => FileStates'[t] = "none"
           /\ resume'[t].file = "complete" => FileStates'[t] = "whole"
           /\ resume'[t].file = "truncated" /\ BeingWritten(t)' => FileStates'[t] = "open"
           /\ resume'[t].file = "truncated" /\ ~BeingWritten(t)' => FileStates'[t] = "torn"
<1>1. \A u \in Torrents :
        FileStates'[u] = CASE resume'[u].file = "none"      -> "none"
                           [] resume'[u].file = "complete"  -> "whole"
                           [] resume'[u].file = "truncated" -> IF BeingWritten(u)' THEN "open" ELSE "torn"
  BY DEF FileStates, FileState
<1>2. ASSUME NEW u \in Torrents
      PROVE  /\ resume'[u].file = "none" => FileStates'[u] = "none"
             /\ resume'[u].file = "complete" => FileStates'[u] = "whole"
             /\ resume'[u].file = "truncated" /\ BeingWritten(u)' => FileStates'[u] = "open"
             /\ resume'[u].file = "truncated" /\ ~BeingWritten(u)' => FileStates'[u] = "torn"
             /\ resume'[u].file \in {"none", "complete", "truncated"}
  <2>1. resume'[u].file \in {"none", "complete", "truncated"}
    BY DEF TypeOK, Files
  <2> QED
    BY <1>1, <2>1
<1>3. ASSUME NEW u \in Torrents, u # t PROVE FileStates'[u] = FileStates[u]
  <2>1. resume'[u].file = resume[u].file /\ (BeingWritten(u)' <=> BeingWritten(u))
    BY <1>3
  <2>2. /\ resume[u].file = "none" => FileStates[u] = "none"
        /\ resume[u].file = "complete" => FileStates[u] = "whole"
        /\ resume[u].file = "truncated" => FileStates[u] = IF BeingWritten(u) THEN "open" ELSE "torn"
    BY FileViews
  <2> QED
    BY <1>2, <2>1, <2>2
<1>4. FileStates = [u \in Torrents |-> FileStates[u]] /\ FileStates' = [u \in Torrents |-> FileStates'[u]]
  BY DEF FileStates
<1>5. [FileStates EXCEPT ![t] = FileStates'[t]] = [u \in Torrents |-> FileStates'[u]]
  BY <1>3, <1>4
<1> QED
  BY <1>2, <1>4, <1>5

\* Store sees no change of a torrent whose stage stays, or whose check ends.
LEMMA SameGot ==
    ASSUME TypeOK, live' = live,
           \A t \in live : \/ st'[t].stage = st[t].stage
                           \/ st[t].stage = "checking" /\ st'[t].stage = "seed"
    PROVE  Got' = Got
<1>1. \A t \in live : Amount[st'[t].stage] = Amount[st[t].stage]
  BY Amounts
<1> QED
  BY <1>1 DEF Got

\* An addition is Add, unless there is nothing to add.
LEMMA StoreAdd ==
    ASSUME TypeOK, TypeOK', AddInv, AddJob
    PROVE  UNCHANGED Durable!vars \/ \E t \in Torrents : Durable!Add(t)
<1>1. PICK t \in Torrents : t = Head(jobs).t
  BY RunJobTakes, JobFields DEF RunJob, AddJob, NextJob
<1>2. PICK p \in Params : p = Head(jobs).params
  BY RunJobTakes, JobFields DEF RunJob, AddJob, NextJob
<1>3. /\ UNCHANGED <<resume, writing, dropped, proc>> /\ Up
      /\ Head(jobs) \in Elements(jobs) /\ Head(jobs).type = "add"
  BY RunJobTakes DEF RunJob, AddJob, NextJob
<1>4. FileStates' = FileStates /\ Holds' = Holds /\ Up' = Up
  BY <1>3, SameFiles DEF Up
<1>5. CASE UNCHANGED ltvars
  <2>1. Got' = Got
    BY <1>5 DEF Got, ltvars
  <2> QED
    BY <1>3, <1>4, <2>1 DEF Durable!vars
<1>6. CASE /\ p.kind # "bad" /\ t \notin live /\ live' = live \cup {t}
           /\ st' = [st EXCEPT ![t] = NewStatus(p)]
  <2> DEFINE n == Got'[t]
  <2>1. /\ p.kind \in {"fresh", "loaded"} /\ p.data \in Data /\ p.data.stage \in {"magnet", "partial", "seed"}
    BY <1>6, StagesOf DEF Params
  <2>2. /\ st'[t] = NewStatus(p)
        /\ NewStatus(p).stage = IF p.data.stage = "seed" THEN "checking" ELSE p.data.stage
    BY <1>6 DEF NewStatus, Blank, TypeOK
  <2>3. n = Amount[p.data.stage] /\ n \in 1 .. 3
    BY <1>6, <2>1, <2>2, Amounts DEF Got
  <2>4. Got[t] = 0 /\ Got' = [Got EXCEPT ![t] = n]
    BY <1>6 DEF Got, TypeOK
  <2> HIDE DEF n
  <2>5. t \in dropped \/ n >= Holds[t]
    <3> SUFFICES ASSUME t \notin dropped PROVE n >= Holds[t]
      OBVIOUS
    <3>1. AddFits(t, p)
      BY <1>1, <1>2, <1>3 DEF AddInv
    <3>2. CASE p.kind = "fresh"
      <4>1. Holds[t] = 0
        BY <1>6, <3>1, <3>2, Views DEF AddFits
      <4> QED
        BY <2>3, <4>1
    <3>3. CASE p.kind = "loaded"
      <4>1. Holds[t] = Amount[resume[t].data.stage] /\ Amount[resume[t].data.stage] <= Amount[p.data.stage]
        BY <1>6, <3>1, <3>3, Views DEF AddFits, Same
      <4>2. Holds[t] \in 0 .. 3
        BY Views
      <4> QED
        BY <2>3, <4>1, <4>2
    <3> QED
      BY <2>1, <3>2, <3>3
  <2>6. Durable!Add(t)
    BY <1>3, <1>4, <2>3, <2>4, <2>5 DEF Durable!Add
  <2> QED
    BY <2>6
<1> QED
  BY <1>1, <1>2, <1>5, <1>6 DEF AddJob

\* A removal is Remove, of a torrent that a client dropped.
LEMMA StoreRemove ==
    ASSUME TypeOK, HandleInv, RemoveJob
    PROVE  UNCHANGED Durable!vars \/ \E t \in Torrents : Durable!Remove(t)
<1>1. PICK h \in Handles : h = Head(jobs).h
  BY RunJobTakes, JobFields DEF RunJob, RemoveJob, NextJob
<1>3. /\ UNCHANGED <<resume, writing, dropped, proc>> /\ Up
      /\ Head(jobs) \in Elements(jobs) /\ Head(jobs).type = "remove"
  BY RunJobTakes DEF RunJob, RemoveJob, NextJob
<1>4. FileStates' = FileStates /\ Holds' = Holds /\ Up' = Up
  BY <1>3, SameFiles DEF Up
<1>5. CASE UNCHANGED <<live, st>>
  <2>1. Got' = Got
    BY <1>5 DEF Got
  <2> QED
    BY <1>3, <1>4, <2>1 DEF Durable!vars
<1>6. CASE live' = live \ {h[1]} /\ st' = [st EXCEPT ![h[1]] = Blank]
  <2>1. h[1] \in Torrents /\ h[1] \in dropped
    BY <1>1, <1>3 DEF HandleInv, Handles
  <2>2. Got' = [Got EXCEPT ![h[1]] = 0]
    BY <1>6, <2>1 DEF Got, TypeOK
  <2>3. Durable!Remove(h[1])
    BY <1>3, <1>4, <2>1, <2>2 DEF Durable!Remove
  <2> QED
    BY <2>1, <2>3
<1> QED
  BY <1>1, <1>5, <1>6 DEF RemoveJob

\* Any other step of libtorrent is Advance, or nothing to Store.
LEMMA StoreAdvance ==
    ASSUME TypeOK, RunJob \/ TorrentEvent, live' = live
    PROVE  UNCHANGED Durable!vars \/ \E t \in Torrents : Durable!Advance(t)
<1>1. UNCHANGED <<resume, writing, dropped, proc>> /\ Up
  BY RunJobTakes, EventTouches
<1>2. FileStates' = FileStates /\ Holds' = Holds /\ Up' = Up
  BY <1>1, SameFiles DEF Up
<1>3. CASE \A t \in live : \/ st'[t].stage = st[t].stage
                           \/ st[t].stage = "checking" /\ st'[t].stage = "seed"
  BY <1>1, <1>2, <1>3, SameGot DEF Durable!vars
<1>4. ASSUME NEW t \in live, ~(\/ st'[t].stage = st[t].stage
                               \/ st[t].stage = "checking" /\ st'[t].stage = "seed")
      PROVE  \E u \in Torrents : Durable!Advance(u)
  <2>1. /\ \A u \in Torrents : u # t => st'[u] = st[u]
        /\ \/ st[t].stage = "magnet" /\ st'[t].stage = "partial"
           \/ st[t].stage = "partial" /\ st'[t].stage = "seed"
    BY <1>4, StageMoves
  <2>2. t \in Torrents /\ Got[t] = Amount[st[t].stage] /\ Got'[t] = Amount[st'[t].stage]
    BY DEF Got, TypeOK
  <2>3. Got[t] \in 1 .. 2 /\ Got'[t] = Got[t] + 1
    BY <2>1, <2>2, Amounts
  <2>4. Got' = [Got EXCEPT ![t] = Got'[t]]
    BY <2>1, <2>2 DEF Got
  <2>5. Durable!Advance(t)
    BY <1>1, <1>2, <2>2, <2>3, <2>4 DEF Durable!Advance
  <2> QED
    BY <2>2, <2>5
<1> QED
  BY <1>3, <1>4

\* handle_alert begins and ends the writes.
LEMMA StoreWrites ==
    ASSUME TypeOK, TypeOK', SaveInv, OpenInv, HandleAlert
    PROVE  \/ UNCHANGED Durable!vars
           \/ \E t \in Torrents : Durable!BeginWrite(t) \/ Durable!EndWrite(t)
<1>1. UNCHANGED <<live, st, dropped, proc>> /\ Up
  BY AlertTouches
<1>2. Got' = Got /\ Up' = Up
  BY <1>1 DEF Got, Up
<1>3. CASE UNCHANGED <<resume, writing>>
  BY <1>1, <1>2, <1>3, SameFiles DEF Durable!vars
<1>4. ASSUME NEW a, a = Head(alerts), a \in Elements(alerts), a.type = "save_resume_data",
             a.h \in Handles, a.data \in Data, writing = <<>>,
             resume' = [resume EXCEPT ![a.h[1]] = [file |-> "truncated", data |-> NoData]],
             writing' = <<[t |-> a.h[1], data |-> a.data]>>
      PROVE  \E t \in Torrents : Durable!BeginWrite(t)
  <2>1. PICK t \in Torrents : t = a.h[1]
    BY <1>4 DEF Handles
  <2>2. /\ \A u \in Torrents : ~BeingWritten(u)
        /\ \A u \in Torrents : BeingWritten(u)' <=> u = t
    BY <1>4, <2>1 DEF BeingWritten
  <2>3. /\ resume'[t].file = "truncated"
        /\ \A u \in Torrents : u # t => resume'[u] = resume[u]
    BY <1>4, <2>1 DEF TypeOK
  <2>4. FileStates' = [FileStates EXCEPT ![t] = "open"]
    BY <2>2, <2>3, OneFile
  <2>5. Holds' = [Holds EXCEPT ![t] = 0]
    BY <2>3 DEF Holds
  <2>6. \A u \in Torrents : FileStates[u] # "open"
    BY <2>2, FileViews
  <2>7. t \in dropped \/ Got[t] > 0
    <3>1. t \in dropped \/ t \in live
      BY <1>4, <2>1 DEF SaveInv, Covered
    <3>2. t \in live => Got[t] \in 1 .. 3
      BY Views
    <3> QED
      BY <3>1, <3>2
  <2>8. Durable!BeginWrite(t)
    BY <1>1, <1>2, <2>4, <2>5, <2>6, <2>7 DEF Durable!BeginWrite, Durable!NoneOpen
  <2> QED
    BY <2>8
<1>5. CASE WriteFile /\ writing # <<>> /\ writing' = <<>> /\ writing[1] \in Elements(writing)
           /\ writing[1] \in Writes
  <2>1. PICK t \in Torrents : t = writing[1].t
    BY <1>5 DEF Writes
  <2>2. PICK d \in Data : d = writing[1].data
    BY <1>5 DEF Writes
  <2>3. /\ \A u \in Torrents : BeingWritten(u) <=> u = t
        /\ \A u \in Torrents : ~BeingWritten(u)'
    BY <1>5, <2>1 DEF BeingWritten
  <2>4. t \in dropped \/ resume[t].file = "truncated"
    BY <1>5, <2>1 DEF OpenInv
  <2>5. CASE resume[t].file # "truncated"
    <3>1. resume' = resume
      BY <1>5, <2>1, <2>5 DEF WriteFile
    <3>2. FileStates' = FileStates /\ Holds' = Holds
      BY <2>3, <2>5, <3>1 DEF FileStates, FileState, Holds
    <3> QED
      BY <1>1, <1>2, <3>2 DEF Durable!vars
  <2>6. CASE resume[t].file = "truncated"
    <3>0. FileStates[t] = "open"
      BY <2>3, <2>6, FileViews
    <3>1. CASE resume' = [resume EXCEPT ![t] = [file |-> "complete", data |-> d]]
      <4>1. /\ resume'[t].file = "complete" /\ resume'[t].data = d
            /\ \A u \in Torrents : u # t => resume'[u] = resume[u]
        BY <3>1 DEF TypeOK
      <4>2. FileStates' = [FileStates EXCEPT ![t] = "whole"]
        BY <2>3, <4>1, OneFile
      <4>3. Holds' = [Holds EXCEPT ![t] = Amount[d.stage]]
        BY <4>1 DEF Holds
      <4>4. Amount[d.stage] \in 1 .. 3
        BY StagesOf, Amounts
      <4>5. t \in dropped \/ Amount[d.stage] <= Got[t]
        <5>1. t \in dropped \/ (t \in live /\ Amount[d.stage] <= Amount[st[t].stage])
          BY <1>5, <2>1, <2>2 DEF SaveInv, Covered
        <5> QED
          BY <5>1, Views
      <4>6. Durable!EndWrite(t)
        BY <1>1, <1>2, <3>0, <4>2, <4>3, <4>4, <4>5 DEF Durable!EndWrite
      <4> QED
        BY <4>6
    <3>2. CASE resume' = resume /\ DiskFails
      <4>1. FileStates' = [FileStates EXCEPT ![t] = "torn"]
        BY <2>3, <2>6, <3>2, OneFile
      <4>2. Holds' = Holds
        BY <3>2 DEF Holds
      <4>3. Durable!EndWrite(t)
        BY <1>1, <1>2, <3>0, <3>2, <4>1, <4>2 DEF Durable!EndWrite
      <4> QED
        BY <4>3
    <3> QED
      BY <1>5, <2>1, <2>2, <2>6, <3>1, <3>2 DEF WriteFile
  <2> QED
    BY <2>5, <2>6
<1> QED
  BY <1>3, <1>4, <1>5, WriteSteps

\* A client erases, the end of the program stops, and no other step beside
\* libtorrent's and handle_alert's is anything to Store.
LEMMA StoreAside ==
    ASSUME TypeOK, TypeOK', ShutdownDrained', Aside, proc' = proc \/ BeginEnd \/ SaveSession
    PROVE  UNCHANGED Durable!vars \/ Durable!Stop \/ \E t \in Torrents : Durable!Erase(t)
<1>1. UNCHANGED <<live, st, writing>>
  BY DEF Aside, ltvars
<1>2. Got' = Got
  BY <1>1 DEF Got
<1>3. CASE \E w \in Workers, t \in Torrents : DropFile(w, t)
  <2>1. PICK w \in Workers, t \in Torrents : DropFile(w, t)
    BY <1>3
  <2>2. /\ resume' = [resume EXCEPT ![t] = NoFile] /\ dropped' = dropped \cup {t} /\ proc' = proc
        /\ proc = "running"
    BY <2>1 DEF DropFile, Request, Serving
  <2>3. /\ resume'[t].file = "none"
        /\ \A u \in Torrents : u # t => resume'[u] = resume[u]
    BY <2>2 DEF TypeOK, NoFile
  <2>4. \A u \in Torrents : BeingWritten(u)' = BeingWritten(u)
    BY <1>1 DEF BeingWritten
  <2>5. FileStates' = [FileStates EXCEPT ![t] = "none"]
    BY <2>3, <2>4, OneFile
  <2>6. Holds' = [Holds EXCEPT ![t] = 0]
    BY <2>3 DEF Holds
  <2>7. Durable!Erase(t)
    BY <1>2, <2>2, <2>5, <2>6 DEF Durable!Erase, Up
  <2> QED
    BY <2>7
<1>4. CASE UNCHANGED <<resume, dropped>>
  <2>1. FileStates' = FileStates /\ Holds' = Holds
    BY <1>1, <1>4, SameFiles
  <2>2. CASE proc' = proc \/ BeginEnd
    <3>1. Up' = Up
      BY <2>2 DEF Up, BeginEnd
    <3> QED
      BY <1>2, <1>4, <2>1, <3>1 DEF Durable!vars
  <2>3. CASE SaveSession
    <3>1. proc' = "stopped" /\ proc = "ending"
      BY <2>3 DEF SaveSession
    <3>2. writing = <<>>
      BY <1>1, <3>1 DEF ShutdownDrained
    <3>3. \A t \in Torrents : FileStates[t] # "open"
      BY <3>2, FileViews DEF BeingWritten
    <3>4. Durable!Stop
      BY <1>2, <1>4, <2>1, <3>1, <3>3 DEF Durable!Stop, Durable!NoneOpen, Up
    <3> QED
      BY <3>4
  <2> QED
    BY <2>2, <2>3
<1> QED
  BY <1>3, <1>4 DEF Aside

\* A process starts with the files as they are, and dies with at most one torn.
LEMMA StoreProcess ==
    ASSUME TypeOK, ShutdownDrained, Closed, Start \/ (Up /\ Die)
    PROVE  Durable!Start \/ Durable!Die
<1>1. live' = {} /\ writing' = <<>> /\ UNCHANGED <<resume, dropped>>
  BY DEF Start, Die, Forget, disk
<1>2. Got' = [t \in Torrents |-> 0]
  BY <1>1 DEF Got
<1>3. Holds' = Holds
  BY <1>1 DEF Holds
<1>4. \A t \in Torrents : ~BeingWritten(t)'
  BY <1>1 DEF BeingWritten
<1>5. CASE Start
  <2>1. writing = <<>> /\ proc' = "running" /\ ~Up
    BY <1>5 DEF Start, ShutdownDrained, Closed, Up
  <2>2. FileStates' = FileStates
    BY <1>1, <2>1 DEF FileStates, FileState, BeingWritten
  <2>3. Durable!Start
    BY <1>1, <1>2, <1>3, <2>1, <2>2 DEF Durable!Start, Up
  <2> QED
    BY <2>3
<1>6. CASE Up /\ Die
  <2>1. proc' = "down"
    BY <1>6 DEF Die
  <2>2. FileStates' = [t \in Torrents |-> IF FileStates[t] = "open" THEN "torn" ELSE FileStates[t]]
    <3>1. FileStates' = [t \in Torrents |-> FileStates'[t]]
      BY DEF FileStates
    <3>2. ASSUME NEW t \in Torrents
          PROVE  FileStates'[t] = IF FileStates[t] = "open" THEN "torn" ELSE FileStates[t]
      <4>1. FileStates'[t] = CASE resume[t].file = "none"      -> "none"
                               [] resume[t].file = "complete"  -> "whole"
                               [] resume[t].file = "truncated" -> "torn"
        BY <1>1, <1>4 DEF FileStates, FileState
      <4> QED
        BY <4>1, FileViews
    <3> QED
      BY <3>1, <3>2
  <2>3. Durable!Die
    BY <1>1, <1>2, <1>3, <1>6, <2>1, <2>2 DEF Durable!Die, Up
  <2> QED
    BY <2>3
<1> QED
  BY <1>5, <1>6

\* What the refinement rests on.
StoreInv == AddInv /\ SaveInv /\ OpenInv /\ Closed

\* It holds at first and every step keeps it.
LEMMA StoreInvStep ==
    /\ Init => StoreInv
    /\ TypeOK /\ HandleInv /\ StoreInv /\ [Next]_vars => StoreInv'
<1>1. Init => StoreInv
  BY ElementsIn DEF Init, StoreInv, AddInv, SaveInv, OpenInv, Closed, Idle
<1>2. TypeOK /\ HandleInv /\ StoreInv /\ [Next]_vars => StoreInv'
  BY AddStep, SaveStep, OpenStep, ClosedStep DEF StoreInv
<1> QED
  BY <1>1, <1>2

\* It always holds.
LEMMA StoreInvAlways == Spec => []StoreInv
  BY StoreInvStep, HandleAlways, TypeCorrect, PTL DEF Spec

\* Every step of the program is a step of Store, or nothing to it.
LEMMA StoreStep ==
    ASSUME TypeOK, TypeOK', HandleInv, StoreInv, ShutdownDrained, ShutdownDrained', [Next]_vars
    PROVE  [Durable!Next]_(Durable!vars)
<1>1. CASE AddJob
  BY <1>1, StoreAdd DEF StoreInv, Durable!Next
<1>2. CASE RemoveJob
  BY <1>2, StoreRemove DEF Durable!Next
<1>3. CASE (RunJob \/ TorrentEvent) /\ ~AddJob /\ ~RemoveJob
  <2>1. live' = live
    BY <1>3, EventTouches DEF RunJob, SaveJob, MoveJob, PauseJob, UnpauseJob, FlagJob, UpdateJob
  <2> QED
    BY <1>3, <2>1, StoreAdvance DEF Durable!Next
<1>4. CASE HandleAlert
  BY <1>4, StoreWrites DEF StoreInv, Durable!Next
<1>5. CASE Start \/ (Up /\ Die)
  BY <1>5, StoreProcess DEF StoreInv, Durable!Next
<1>6. CASE Aside /\ ~Start /\ ~(Up /\ Die)
  BY <1>6, StoreAside, ProcSteps DEF Durable!Next
<1> QED
  BY <1>1, <1>2, <1>3, <1>4, <1>5, <1>6, StepCases

\* The torrent manager implements Store: through all the interleavings of its
\* threads, additions, saves and crashes no resume file is torn by anything but
\* a death or a failing disk, none overstates its torrent, none is deleted but
\* by a client, and no torrent is loaded as less than its file says.
THEOREM KeepsTheStore == Spec => KeepsStore
<1>1. Init => Durable!Init
  <2> SUFFICES ASSUME Init PROVE Durable!Init
    OBVIOUS
  <2>1. Got = [t \in Torrents |-> 0] /\ ~Up /\ dropped = {}
    BY DEF Init, Got, Up
  <2>2. Holds = [t \in Torrents |-> 0] /\ FileStates = [t \in Torrents |-> "none"]
    BY DEF Init, Holds, FileStates, FileState, NoFile
  <2> QED
    BY <2>1, <2>2 DEF Durable!Init
<1>2. /\ TypeOK /\ TypeOK' /\ HandleInv /\ StoreInv /\ ShutdownDrained /\ ShutdownDrained'
      /\ [Next]_vars
      => [Durable!Next]_(Durable!vars)
  BY StoreStep
<1> QED
  BY <1>1, <1>2, TypeCorrect, HandleAlways, StoreInvAlways, ShutdownIsDrained, PTL
     DEF Spec, KeepsStore, Durable!Spec
=============================================================================
