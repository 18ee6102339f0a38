---------------------------- MODULE SheathProofs ----------------------------
(***************************************************************************)
(* Proofs about Sheath, for every set of torrents and workers and every    *)
(* value of the bounds.                                                    *)
(***************************************************************************)
EXTENDS Sheath, FiniteSetTheorems, SequenceTheorems, TLAPS

-----------------------------------------------------------------------------
(* What the elements of the two queues look like. *)

\* A job has the fields its branch of the network thread reads.
LEMMA JobFields ==
    ASSUME NEW j \in Jobs
    PROVE  /\ j.type = "add" => j.t \in Torrents /\ j.params \in Params
           /\ j.type \in {"save", "remove", "move", "pause", "unpause", "flag"} => j.h \in Handles
  BY DEF Jobs

\* A call in progress has the fields its next step reads.
LEMMA CallFields ==
    ASSUME NEW c \in Calls
    PROVE  /\ c.op = "add" => c.t \in Torrents /\ c.params \in Params
           /\ c.op = "drop" => c.t \in Torrents
           /\ c.op \in HandleOps => c.h \in Handles
  BY DEF Calls, Idle, HandleOps

\* The jobs the program posts are jobs.
LEMMA JobsMade ==
    /\ \A h \in Handles, b \in BOOLEAN : Save(h, b) \in Jobs
    /\ \A t \in Torrents, p \in Params : [type |-> "add", t |-> t, params |-> p] \in Jobs
    /\ \A h \in Handles, k \in {"remove", "move", "pause", "unpause", "flag"} :
          [type |-> k, h |-> h] \in Jobs
    /\ [type |-> "update"] \in Jobs
  BY DEF Jobs, Save

\* An alert has the fields its branch of handle_alert reads.
LEMMA AlertFields ==
    ASSUME NEW a \in Alerts
    PROVE  /\ a.type \in Plain \cup {"save_resume_data"} => a.h \in Handles
           /\ a.type = "save_resume_data" => a.data \in Data
           /\ a.type = "state_update" => a.status \in SUBSET Entries
  BY DEF Alerts, Plain

\* The alerts libtorrent posts are alerts.
LEMMA AlertsMade ==
    /\ \A h \in Handles, k \in Plain : Alert(k, h) \in Alerts
    /\ \A h \in Handles, d \in Data :
          [type |-> "save_resume_data", h |-> h, data |-> d] \in Alerts
    /\ \A S \in SUBSET Entries : [type |-> "state_update", status |-> S] \in Alerts
    /\ [type |-> "add_torrent_error"] \in Alerts
  BY DEF Alerts, Alert, Plain

\* The records libtorrent builds from a status and from parameters.
LEMMA StatusMade ==
    /\ \A s \in Status : DataOf(s) \in Data
    /\ \A s \in Status, h \in Handles : Entry(h, s) \in Entries
    /\ \A p \in Params : NewStatus(p) \in Status
    /\ Blank \in Status
  BY DEF Status, Data, DataOf, Entries, Entry, Params, NewStatus, Blank, Paths

\* The ways libtorrent changes the status of a torrent.
LEMMA StatusSteps ==
    ASSUME NEW f \in [Torrents -> Status], NEW t \in Torrents, NEW b \in BOOLEAN
    PROVE  /\ [f EXCEPT ![t].dirty = FALSE] \in [Torrents -> Status]
           /\ [f EXCEPT ![t].dirty = TRUE] \in [Torrents -> Status]
           /\ [f EXCEPT ![t].paused = b, ![t].dirty = TRUE] \in [Torrents -> Status]
           /\ [f EXCEPT ![t].moving = FALSE, ![t].path = "moved", ![t].dirty = TRUE]
                 \in [Torrents -> Status]
<1>1. /\ [f EXCEPT ![t].dirty = FALSE] \in [Torrents -> Status]
      /\ [f EXCEPT ![t].dirty = TRUE] \in [Torrents -> Status]
  BY DEF Status
<1>2. [f EXCEPT ![t].paused = b, ![t].dirty = TRUE] \in [Torrents -> Status]
  BY DEF Status
<1>3. [f EXCEPT ![t].moving = FALSE, ![t].path = "moved", ![t].dirty = TRUE]
         \in [Torrents -> Status]
  <2>1. [f[t] EXCEPT !.moving = FALSE, !.path = "moved", !.dirty = TRUE] \in Status
    BY DEF Status, Paths
  <2> QED
    BY <2>1
<1> QED
  BY <1>1, <1>2, <1>3

\* Every way of adding a torrent makes parameters.
LEMMA ParamsMade ==
    ASSUME NEW t \in Torrents, resume \in [Torrents -> Files]
    PROVE  /\ MagnetParams(t) \in Params
           /\ FileParams(t) \in Params
           /\ BufferParams(t) \in Params
           /\ Loaded(resume[t].data) \in Params
  BY DEF MagnetParams, FileParams, BufferParams, Loaded, Fresh, Bad, Params, Files, Data,
         NoData, Paths

\* The head and the tail of a queue that is not empty.
LEMMA QueueTail ==
    ASSUME NEW S, NEW s \in Seq(S), s # <<>>
    PROVE  /\ Head(s) \in S /\ Tail(s) \in Seq(S)
           /\ Len(s) \in Nat /\ Len(s) > 0 /\ Len(Tail(s)) = Len(s) - 1
  OBVIOUS

\* A longer queue.
LEMMA QueueAppend ==
    ASSUME NEW S, NEW s \in Seq(S), NEW e \in S
    PROVE  Append(s, e) \in Seq(S) /\ Len(s) \in Nat /\ Len(Append(s, e)) = Len(s) + 1
  OBVIOUS

-----------------------------------------------------------------------------
(* Type correctness *)

\* A step of libtorrent's network thread keeps the types.
LEMMA TypeRunJob == TypeOK /\ RunJob => TypeOK'
<1> SUFFICES ASSUME TypeOK, RunJob PROVE TypeOK'
  OBVIOUS
<1> USE DEF context, disk, pumping, calls, env
<1>0. st \in [Torrents -> Status] /\ live \subseteq Torrents /\ changed \subseteq live
  BY DEF TypeOK
<1>1. jobs # <<>> /\ Head(jobs) \in Jobs /\ jobs' \in Seq(Jobs)
  <2>1. jobs # <<>> /\ jobs' = Tail(jobs)
    BY DEF RunJob, AddJob, RemoveJob, SaveJob, MoveJob, PauseJob, UnpauseJob, FlagJob,
       UpdateJob, NextJob
  <2>2. jobs \in Seq(Jobs)
    BY DEF TypeOK
  <2> QED
    BY <2>1, <2>2, QueueTail
<1>2. ASSUME NEW a \in Alerts PROVE Append(alerts, a) \in Seq(Alerts) /\ popped <= Len(Append(alerts, a))
  BY QueueAppend DEF TypeOK
<1>3. CASE AddJob
  <2> DEFINE t == Head(jobs).t
             p == Head(jobs).params
  <2>1. t \in Torrents /\ p \in Params
    BY <1>1, <1>3, JobFields DEF AddJob, NextJob
  <2>2. HandleOf(t) \in Handles /\ <<t, gen[t] + 1>> \in Handles /\ NewStatus(p) \in Status
    BY <2>1, StatusMade DEF TypeOK, HandleOf, Handles
  <2>3. alerts' \in Seq(Alerts) /\ popped <= Len(alerts')
    <3>1. /\ Alert("add_torrent", HandleOf(t)) \in Alerts
          /\ Alert("add_torrent", <<t, gen[t] + 1>>) \in Alerts
          /\ [type |-> "add_torrent_error"] \in Alerts
      BY <2>2, AlertsMade DEF Plain
    <3> QED
      BY <1>2, <1>3, <3>1 DEF AddJob
  <2>4. live' \subseteq Torrents /\ gen' \in [Torrents -> Nat] /\ st' \in [Torrents -> Status]
        /\ changed' \subseteq live'
    <3>1. CASE UNCHANGED ltvars
      BY <3>1 DEF TypeOK, ltvars
    <3>2. CASE /\ live' = live \cup {t} /\ gen' = [gen EXCEPT ![t] = @ + 1]
               /\ st' = [st EXCEPT ![t] = NewStatus(p)] /\ changed' = changed \cup {t}
      BY <3>2, <2>1, <2>2 DEF TypeOK
    <3> QED
      BY <1>3, <3>1, <3>2 DEF AddJob
  <2> QED
    BY <1>1, <1>3, <2>3, <2>4 DEF AddJob, TypeOK
<1>4. CASE RemoveJob
  <2>1. Head(jobs).h \in Handles
    BY <1>1, <1>4, JobFields DEF RemoveJob, NextJob
  <2>2. alerts' \in Seq(Alerts) /\ popped <= Len(alerts')
    <3>1. Alert("torrent_removed", Head(jobs).h) \in Alerts
      BY <2>1, AlertsMade DEF Plain
    <3> QED
      BY <1>2, <1>4, <3>1 DEF RemoveJob, TypeOK
  <2>3. live' \subseteq Torrents /\ st' \in [Torrents -> Status] /\ changed' \subseteq live'
    BY <1>4, <2>1, StatusMade DEF RemoveJob, TypeOK, Handles
  <2> QED
    BY <1>1, <1>4, <2>2, <2>3 DEF RemoveJob, TypeOK
<1>5. CASE SaveJob
  <2>1. Head(jobs).h \in Handles
    BY <1>1, <1>5, JobFields DEF SaveJob, NextJob
  <2>2. Head(jobs).h[1] \in Torrents /\ DataOf(st[Head(jobs).h[1]]) \in Data
    BY <2>1, StatusMade DEF TypeOK, Handles
  <2> DEFINE h == Head(jobs).h
             t == h[1]
  <2>3. \/ /\ alerts' = Append(alerts, Alert("save_resume_data_failed", h))
           /\ UNCHANGED <<st, changed>>
        \/ /\ alerts' = Append(alerts, [type |-> "save_resume_data", h |-> h,
                                         data |-> DataOf(st[t])])
           /\ t \in live
           /\ st' = [st EXCEPT ![t].dirty = FALSE]
           /\ changed' = changed \cup {t}
    BY <1>5 DEF SaveJob, IsLive
  <2>4. alerts' \in Seq(Alerts) /\ popped <= Len(alerts')
    <3>1. /\ Alert("save_resume_data_failed", h) \in Alerts
          /\ [type |-> "save_resume_data", h |-> h, data |-> DataOf(st[t])] \in Alerts
      BY <2>1, <2>2, AlertsMade DEF Plain
    <3> QED
      BY <1>2, <2>3, <3>1
  <2>5. st' \in [Torrents -> Status] /\ changed' \subseteq live
    <3>1. CASE UNCHANGED <<st, changed>>
      BY <1>0, <3>1
    <3>2. CASE t \in live /\ st' = [st EXCEPT ![t].dirty = FALSE] /\ changed' = changed \cup {t}
      BY <1>0, <2>2, <3>2, StatusSteps
    <3> QED
      BY <2>3, <3>1, <3>2
  <2> QED
    BY <1>1, <1>5, <2>4, <2>5 DEF SaveJob, TypeOK
<1>6. CASE MoveJob
  <2>1. Head(jobs).h \in Handles
    BY <1>1, <1>6, JobFields DEF MoveJob, NextJob
  <2>2. st' \in [Torrents -> Status]
    BY <1>6, <2>1 DEF MoveJob, TypeOK, Status, Handles
  <2> QED
    BY <1>1, <1>6, <2>2 DEF MoveJob, TypeOK
<1>7. CASE PauseJob
  <2>1. Head(jobs).h \in Handles
    BY <1>1, <1>7, JobFields DEF PauseJob, NextJob
  <2>2. alerts' \in Seq(Alerts) /\ popped <= Len(alerts')
    <3>1. Alert("torrent_paused", Head(jobs).h) \in Alerts
      BY <2>1, AlertsMade DEF Plain
    <3> QED
      BY <1>2, <1>7, <3>1 DEF PauseJob, TypeOK
  <2>3. st' \in [Torrents -> Status] /\ changed' \subseteq live
    <3> DEFINE t == Head(jobs).h[1]
    <3>1. \/ UNCHANGED <<st, changed>>
          \/ /\ t \in live /\ changed' = changed \cup {t}
             /\ st' = [st EXCEPT ![t].paused = TRUE, ![t].dirty = TRUE]
      BY <1>7 DEF PauseJob, IsLive
    <3>2. t \in Torrents
      BY <2>1 DEF Handles
    <3>4. CASE UNCHANGED <<st, changed>>
      BY <1>0, <3>4
    <3>5. CASE /\ t \in live /\ changed' = changed \cup {t}
               /\ st' = [st EXCEPT ![t].paused = TRUE, ![t].dirty = TRUE]
      BY <1>0, <3>2, <3>5, StatusSteps
    <3> QED
      BY <3>1, <3>4, <3>5
  <2> QED
    BY <1>1, <1>7, <2>2, <2>3 DEF PauseJob, TypeOK
<1>8. CASE UnpauseJob
  <2>1. Head(jobs).h \in Handles
    BY <1>1, <1>8, JobFields DEF UnpauseJob, NextJob
  <2>2. st' \in [Torrents -> Status] /\ changed' \subseteq live
    <3> DEFINE t == Head(jobs).h[1]
    <3>1. \/ UNCHANGED <<st, changed>>
          \/ /\ t \in live /\ changed' = changed \cup {t}
             /\ st' = [st EXCEPT ![t].paused = FALSE, ![t].dirty = TRUE]
      BY <1>8 DEF UnpauseJob, IsLive
    <3>2. t \in Torrents
      BY <2>1 DEF Handles
    <3>4. CASE UNCHANGED <<st, changed>>
      BY <1>0, <3>4
    <3>5. CASE /\ t \in live /\ changed' = changed \cup {t}
               /\ st' = [st EXCEPT ![t].paused = FALSE, ![t].dirty = TRUE]
      BY <1>0, <3>2, <3>5, StatusSteps
    <3> QED
      BY <3>1, <3>4, <3>5
  <2> QED
    BY <1>1, <1>8, <2>2 DEF UnpauseJob, TypeOK
<1>9. CASE UpdateJob
  <2>1. {Entry(HandleOf(t), st[t]) : t \in changed} \in SUBSET Entries
    BY StatusMade DEF TypeOK, HandleOf, Handles
  <2>2. alerts' \in Seq(Alerts) /\ popped <= Len(alerts')
    BY <1>2, <1>9, <2>1, AlertsMade DEF UpdateJob
  <2> QED
    BY <1>1, <1>9, <2>2 DEF UpdateJob, TypeOK
<1>10. CASE FlagJob
  <2>1. Head(jobs).h \in Handles
    BY <1>1, <1>10, JobFields DEF FlagJob, NextJob
  <2>2. Head(jobs).h[1] \in Torrents
    BY <2>1 DEF Handles
  <2>3. st' \in [Torrents -> Status]
    BY <1>0, <1>10, <2>2, StatusSteps DEF FlagJob
  <2> QED
    BY <1>1, <1>10, <2>3 DEF FlagJob, TypeOK
<1> QED
  BY <1>3, <1>4, <1>5, <1>6, <1>7, <1>8, <1>9, <1>10 DEF RunJob

\* An event of a torrent keeps the types.
LEMMA TypeTorrentEvent == TypeOK /\ TorrentEvent => TypeOK'
<1> SUFFICES ASSUME TypeOK, NEW t \in Torrents,
                    MetadataReceived(t) \/ Finished(t) \/ Progress(t) \/ StorageMoved(t)
             PROVE  TypeOK'
  BY DEF TorrentEvent
<1> USE DEF queues, context, disk, pumping, calls, env
<1>0. st \in [Torrents -> Status] /\ live \subseteq Torrents /\ changed \subseteq live
  BY DEF TypeOK
<1>1. t \in live /\ st' \in [Torrents -> Status] /\ changed' \subseteq live
  <2>1. CASE MetadataReceived(t)
    BY <2>1 DEF MetadataReceived, TypeOK, Status
  <2>2. CASE Finished(t)
    <3>1. \/ \E all \in BOOLEAN :
               st' = [st EXCEPT ![t].stage = "seed", ![t].fetched = all, ![t].dirty = TRUE]
          \/ st' = [st EXCEPT ![t].stage = "seed"]
      BY <2>2 DEF Finished
    <3>2. st' \in [Torrents -> Status]
      <4>1. \A all \in BOOLEAN :
              [st[t] EXCEPT !.stage = "seed", !.fetched = all, !.dirty = TRUE] \in Status
        BY <1>0 DEF Status
      <4>2. [st[t] EXCEPT !.stage = "seed"] \in Status
        BY <1>0 DEF Status
      <4>3. CASE st' = [st EXCEPT ![t].stage = "seed"]
        BY <1>0, <4>2, <4>3
      <4>4. ASSUME NEW all \in BOOLEAN,
                   st' = [st EXCEPT ![t].stage = "seed", ![t].fetched = all, ![t].dirty = TRUE]
            PROVE  st' \in [Torrents -> Status]
        BY <1>0, <4>1, <4>4
      <4> QED
        BY <3>1, <4>3, <4>4
    <3> QED
      BY <1>0, <2>2, <3>2 DEF Finished, TypeOK
  <2>3. CASE Progress(t)
    <3>1. st' \in [Torrents -> Status]
      BY <2>3 DEF Progress, TypeOK, Status
    <3> QED
      BY <2>3, <3>1 DEF Progress, TypeOK
  <2>4. CASE StorageMoved(t)
    <3>1. \/ st' = [st EXCEPT ![t].moving = FALSE, ![t].path = "moved", ![t].dirty = TRUE]
          \/ st' = [st EXCEPT ![t].moving = FALSE]
      BY <2>4 DEF StorageMoved
    <3>2. st' \in [Torrents -> Status]
      <4>1. CASE st' = [st EXCEPT ![t].moving = FALSE]
        BY <1>0, <4>1 DEF Status
      <4>2. CASE st' = [st EXCEPT ![t].moving = FALSE, ![t].path = "moved", ![t].dirty = TRUE]
        BY <1>0, <4>2, StatusSteps
      <4> QED
        BY <3>1, <4>1, <4>2
    <3> QED
      BY <1>0, <2>4, <3>2 DEF StorageMoved
  <2> QED
    BY <2>1, <2>2, <2>3, <2>4
<1>2. alerts' \in Seq(Alerts) /\ popped <= Len(alerts')
  <2>1. HandleOf(t) \in Handles
    BY DEF TypeOK, HandleOf, Handles
  <2>2. /\ Alert("metadata_received", HandleOf(t)) \in Alerts
        /\ Alert("torrent_finished", HandleOf(t)) \in Alerts
    BY <2>1, AlertsMade DEF Plain
  <2> QED
    <3>1. alerts \in Seq(Alerts) /\ popped \in Nat /\ popped <= Len(alerts)
      BY DEF TypeOK
    <3>2. \/ alerts' = Append(alerts, Alert("metadata_received", HandleOf(t)))
          \/ alerts' = Append(alerts, Alert("torrent_finished", HandleOf(t)))
          \/ alerts' = alerts
      BY DEF MetadataReceived, Finished, Progress, StorageMoved
    <3> QED
      BY <2>2, <3>1, <3>2, QueueAppend
<1> QED
  BY <1>1, <1>2 DEF TypeOK, MetadataReceived, Finished, Progress, StorageMoved

\* A step inside a call that adds or removes a torrent keeps the types.
LEMMA TypeCall ==
    ASSUME TypeOK, NEW a \in Actors, PostAdd(a) \/ DropFind(a) \/ PostCall(a) \/ ListFiles(a)
    PROVE  TypeOK'
<1> USE DEF ltvars, queues, context, disk, pumping, env
<1>1. call \in [Actors -> Calls] /\ call[a] \in Calls /\ jobs \in Seq(Jobs) /\ Idle \in Calls
  BY DEF TypeOK, Calls
<1>0. \A k : k \in HandleOps <=> k \in {"remove", "pause", "unpause", "flag", "files"}
  BY DEF HandleOps
<1>2. CASE PostAdd(a)
  <2>1. call[a].t \in Torrents /\ call[a].params \in Params
    BY <1>1, <1>2, CallFields DEF PostAdd
  <2>2. jobs' \in Seq(Jobs)
    BY <1>1, <1>2, <2>1, JobsMade, QueueAppend DEF PostAdd
  <2>3. call' \in [Actors -> Calls]
    BY <1>1, <1>2 DEF PostAdd
  <2> QED
    BY <1>2, <2>2, <2>3 DEF PostAdd, TypeOK
<1>3. CASE DropFind(a)
  <2>1. call[a].t \in Torrents
    BY <1>1, <1>3, CallFields DEF DropFind
  <2>2. HandleOf(call[a].t) \in Handles
    BY <2>1 DEF TypeOK, HandleOf, Handles
  <2>3. [op |-> "remove", h |-> HandleOf(call[a].t)] \in Calls
    BY <1>0, <2>2 DEF Calls
  <2>4. call' \in [Actors -> Calls]
    BY <1>1, <1>3, <2>3 DEF DropFind
  <2> QED
    BY <1>3, <2>4 DEF DropFind, TypeOK
<1>4. CASE PostCall(a)
  <2>1. call[a].h \in Handles /\ call[a].op \in {"remove", "pause", "unpause", "flag"}
    BY <1>0, <1>1, <1>4, CallFields DEF PostCall
  <2>2. [type |-> call[a].op, h |-> call[a].h] \in Jobs
    BY <2>1, JobsMade
  <2>3. jobs' \in Seq(Jobs)
    BY <1>1, <1>4, <2>2, QueueAppend DEF PostCall
  <2>4. call' \in [Actors -> Calls]
    BY <1>1, <1>4 DEF PostCall
  <2> QED
    BY <1>4, <2>3, <2>4 DEF PostCall, TypeOK
<1>5. CASE ListFiles(a)
  BY <1>1, <1>5 DEF ListFiles, TypeOK
<1> QED
  BY <1>2, <1>3, <1>4, <1>5

\* The start of a request, of a file in the watch directory or of a resume file
\* keeps the types.
LEMMA TypeBegin ==
    ASSUME TypeOK, NEW t \in Torrents, NEW w \in Actors,
           \/ PostMagnet(w, t) \/ PostMetainfo(w, t) \/ DropFile(w, t)
           \/ PauseResumeTorrent(w, t) \/ ResumeTorrent(w, t) \/ GetTorrent(w, t)
           \/ PutWatchFile(t) \/ LoadFile(t) \/ ScanFile(t)
    PROVE  TypeOK'
<1> USE DEF ltvars, queues, context, disk, pumping, calls, env
<1>1. call \in [Actors -> Calls] /\ resume \in [Torrents -> Files]
  BY DEF TypeOK
<1>2. w \in Actors /\ "loader" \in Actors /\ "pump" \in Actors
  BY DEF Actors
<1>3. ASSUME NEW a \in Actors, NEW p \in Params, BeginAdd(a, t, p)
      PROVE  call' \in [Actors -> Calls]
  <2>1. [op |-> "add", t |-> t, params |-> p] \in Calls
    BY DEF Calls
  <2> QED
    BY <1>1, <1>3, <2>1 DEF BeginAdd
<1>4. CASE PostMagnet(w, t)
  <2>1. call' \in [Actors -> Calls]
    BY <1>1, <1>2, <1>3, <1>4, ParamsMade DEF PostMagnet
  <2> QED
    BY <1>4, <2>1 DEF PostMagnet, Request, TypeOK
<1>5. CASE PostMetainfo(w, t)
  <2>1. call' \in [Actors -> Calls]
    BY <1>1, <1>2, <1>3, <1>5, ParamsMade DEF PostMetainfo
  <2> QED
    BY <1>5, <2>1 DEF PostMetainfo, Request, TypeOK
<1>6. CASE DropFile(w, t)
  <2>1. [op |-> "drop", t |-> t] \in Calls
    BY DEF Calls
  <2>2. call' \in [Actors -> Calls]
    BY <1>1, <1>2, <1>6, <2>1 DEF DropFile
  <2>3. resume' \in [Torrents -> Files]
    BY <1>1, <1>6 DEF DropFile, Files, NoFile, NoData, Data, Paths
  <2> QED
    BY <1>6, <2>2, <2>3 DEF DropFile, Request, TypeOK
<1>7. CASE PauseResumeTorrent(w, t) \/ ResumeTorrent(w, t) \/ GetTorrent(w, t)
  <2>1. PICK op \in {"toggle", "start", "files"}, k \in HandleOps : Found(w, op, t, k)
    BY <1>7 DEF PauseResumeTorrent, ResumeTorrent, GetTorrent, HandleOps
  <2>2. HandleOf(t) \in Handles
    BY DEF TypeOK, HandleOf, Handles
  <2>3. [op |-> k, h |-> HandleOf(t)] \in Calls
    BY <2>2 DEF Calls
  <2>4. call' \in [Actors -> Calls]
    BY <1>1, <1>2, <2>1, <2>3 DEF Found
  <2> QED
    BY <2>1, <2>4 DEF Found, Request, TypeOK
<1>8. CASE PutWatchFile(t)
  BY <1>8 DEF PutWatchFile, TypeOK
<1>9. CASE LoadFile(t)
  <2>1. Loaded(resume[t].data) \in Params
    BY <1>1, ParamsMade
  <2>2. call' \in [Actors -> Calls]
    BY <1>1, <1>2, <1>3, <1>9, <2>1 DEF LoadFile
  <2> QED
    BY <1>9, <2>2 DEF LoadFile, TypeOK
<1>10. CASE ScanFile(t)
  <2>1. call' \in [Actors -> Calls]
    BY <1>1, <1>2, <1>3, <1>10, ParamsMade DEF ScanFile
  <2> QED
    BY <1>10, <2>1 DEF ScanFile, TypeOK
<1> QED
  BY <1>4, <1>5, <1>6, <1>7, <1>8, <1>9, <1>10

\* handle_alert keeps the types.
LEMMA TypeHandleAlert == TypeOK /\ HandleAlert => TypeOK'
<1> SUFFICES ASSUME TypeOK, HandleAlert PROVE TypeOK'
  OBVIOUS
<1> USE DEF ltvars, queues, context, disk, calls, env
<1>1. /\ alerts \in Seq(Alerts) /\ popped \in Nat /\ popped <= Len(alerts)
      /\ jobs \in Seq(Jobs) /\ resume \in [Torrents -> Files]
      /\ num_outstanding_resume_data \in Int
  BY DEF TypeOK
<1>2. ASSUME NEW k, NextAlert(k)
      PROVE  /\ alerts # <<>> /\ Head(alerts) \in Alerts /\ Head(alerts).type = k
             /\ alerts' \in Seq(Alerts) /\ popped' \in Nat /\ popped' <= Len(alerts')
  <2>1. alerts # <<>> /\ alerts' = Tail(alerts) /\ popped' = popped - 1 /\ popped > 0
    BY <1>1, <1>2 DEF NextAlert
  <2> QED
    BY <1>1, <1>2, <2>1, QueueTail DEF NextAlert
<1>3. ASSUME NEW h \in Handles, NEW only \in BOOLEAN, RequestSave(h, only)
      PROVE  jobs' \in Seq(Jobs) /\ num_outstanding_resume_data' \in Int
  BY <1>1, <1>3, JobsMade, QueueAppend DEF RequestSave
<1>4. CASE OnMetadataReceived
  <2>1. Head(alerts).h \in Handles
    BY <1>2, <1>4, AlertFields DEF OnMetadataReceived, Plain
  <2> QED
    BY <1>2, <1>3, <1>4, <2>1 DEF OnMetadataReceived, TypeOK
<1>5. CASE OnAddTorrent
  <2>1. CASE NextAlert("add_torrent_error")
             /\ UNCHANGED <<jobs, num_outstanding_resume_data>>
    BY <1>2, <1>5, <2>1 DEF OnAddTorrent, TypeOK
  <2>2. CASE NextAlert("add_torrent") /\ RequestSave(Head(alerts).h, TRUE)
    <3>1. Head(alerts).h \in Handles
      BY <1>2, <2>2, AlertFields DEF Plain
    <3> QED
      BY <1>2, <1>3, <1>5, <2>2, <3>1 DEF OnAddTorrent, TypeOK
  <2> QED
    BY <1>5, <2>1, <2>2 DEF OnAddTorrent
<1>6. CASE OnTorrentFinished
  <2>1. Head(alerts).h \in Handles
    BY <1>2, <1>6, AlertFields DEF OnTorrentFinished, Plain
  <2>2. finishing' \in Seq(Handles) /\ Len(finishing') <= 1
    BY <1>6, <2>1 DEF OnTorrentFinished
  <2> QED
    BY <1>2, <1>3, <1>6, <2>1, <2>2 DEF OnTorrentFinished, TypeOK
<1>7. CASE MoveFinished
  <2>1. finishing[1] \in Handles
    BY <1>7 DEF MoveFinished, TypeOK
  <2>2. jobs' \in Seq(Jobs)
    BY <1>1, <1>7, <2>1, JobsMade, QueueAppend DEF MoveFinished
  <2>3. finishing' \in Seq(Handles) /\ Len(finishing') <= 1
    BY <1>7 DEF MoveFinished
  <2> QED
    BY <1>7, <2>2, <2>3 DEF MoveFinished, TypeOK
<1>8. CASE OnSaveResumeData
  <2>1. Head(alerts).h[1] \in Torrents /\ Head(alerts).data \in Data
    BY <1>2, <1>8, AlertFields DEF OnSaveResumeData, Handles
  <2> DEFINE t == Head(alerts).h[1]
  <2>5. \/ /\ resume' = [resume EXCEPT ![t] = [file |-> "truncated", data |-> NoData]]
           /\ writing' = <<[t |-> t, data |-> Head(alerts).data]>>
           /\ UNCHANGED spoiled
        \/ /\ UNCHANGED <<resume, writing>> /\ spoiled' = spoiled \cup {t}
    BY <1>8 DEF OnSaveResumeData
  <2>6. /\ writing \in Seq(Writes) /\ Len(writing) <= 1 /\ spoiled \subseteq Torrents
        /\ [file |-> "truncated", data |-> NoData] \in Files
        /\ [t |-> t, data |-> Head(alerts).data] \in Writes
    BY <2>1 DEF TypeOK, Files, NoData, Data, Paths, Writes
  <2> HIDE DEF t
  <2>2. resume' \in [Torrents -> Files]
    BY <1>1, <2>5, <2>6
  <2>3. writing' \in Seq(Writes) /\ Len(writing') <= 1 /\ spoiled' \subseteq Torrents
    <3>1. t \in Torrents
      BY <2>1 DEF t
    <3>2. CASE writing' = <<[t |-> t, data |-> Head(alerts).data]>> /\ UNCHANGED spoiled
      BY <2>6, <3>2
    <3>3. CASE UNCHANGED writing /\ spoiled' = spoiled \cup {t}
      BY <2>6, <3>1, <3>3
    <3> QED
      BY <2>5, <3>2, <3>3
  <2>4. num_outstanding_resume_data' \in Int
    BY <1>1, <1>8 DEF OnSaveResumeData
  <2> QED
    BY <1>2, <1>8, <2>2, <2>3, <2>4 DEF OnSaveResumeData, TypeOK
<1>9. CASE WriteFile
  <2>1. writing[1].t \in Torrents /\ writing[1].data \in Data
    <3>1. writing \in Seq(Writes) /\ writing # <<>>
      BY <1>9 DEF WriteFile, TypeOK
    <3>2. writing[1] \in Writes
      BY <3>1
    <3> QED
      BY <3>2 DEF Writes
  <2>2. resume' \in [Torrents -> Files]
    <3>1. \/ resume' = resume
          \/ resume' = [resume EXCEPT ![writing[1].t] = [file |-> "complete", data |-> writing[1].data]]
      BY <1>9 DEF WriteFile
    <3>2. [file |-> "complete", data |-> writing[1].data] \in Files
      BY <2>1 DEF Files
    <3> QED
      BY <1>1, <3>1, <3>2
  <2>4. spoiled' \subseteq Torrents
    BY <1>9, <2>1 DEF WriteFile, TypeOK
  <2>3. writing' \in Seq(Writes) /\ Len(writing') <= 1
    BY <1>9 DEF WriteFile
  <2> QED
    BY <1>9, <2>2, <2>3, <2>4 DEF WriteFile, TypeOK
<1>10. CASE OnSaveResumeDataFailed
  BY <1>1, <1>2, <1>10 DEF OnSaveResumeDataFailed, TypeOK
<1>11. CASE OnTorrentPaused
  <2>1. Head(alerts).h \in Handles
    BY <1>2, <1>11, AlertFields DEF OnTorrentPaused, Plain
  <2> QED
    BY <1>2, <1>3, <1>11, <2>1 DEF OnTorrentPaused, TypeOK
<1>12. CASE OnStateUpdate
  <2>1. Head(alerts).status \in SUBSET Entries
    BY <1>2, <1>12, AlertFields DEF OnStateUpdate
  <2>2. m_all_handles' \subseteq Entries
    BY <1>12, <2>1 DEF OnStateUpdate, TypeOK
  <2> QED
    BY <1>2, <1>12, <2>2 DEF OnStateUpdate, TypeOK
<1>13. CASE OnTorrentRemoved
  <2>1. m_all_handles' \subseteq Entries
    BY <1>13 DEF OnTorrentRemoved, TypeOK
  <2> QED
    BY <1>2, <1>13, <2>1 DEF OnTorrentRemoved, TypeOK
<1> QED
  BY <1>4, <1>5, <1>6, <1>7, <1>8, <1>9, <1>10, <1>11, <1>12, <1>13 DEF HandleAlert

\* The loop of the pump keeps the types.
LEMMA TypePump ==
    ASSUME TypeOK, PostUpdates \/ PopAlerts \/ EndPop \/ EndScan \/ PumpExit
    PROVE  TypeOK'
<1> USE DEF ltvars, queues, context, disk, calls, env
<1>1. jobs \in Seq(Jobs) /\ alerts \in Seq(Alerts) /\ pump \in PumpPCs
  BY DEF TypeOK
<1>2. CASE PostUpdates
  <2>1. jobs' \in Seq(Jobs)
    BY <1>1, <1>2, JobsMade, QueueAppend DEF PostUpdates
  <2> QED
    BY <1>2, <2>1 DEF PostUpdates, TypeOK, PumpPCs
<1>3. CASE PopAlerts
  BY <1>1, <1>3 DEF PopAlerts, TypeOK, PumpPCs, Popping
<1>4. CASE EndPop
  <2>1. pump' \in PumpPCs
    BY <1>4 DEF EndPop, AfterPop, PumpPCs, Popping
  <2> QED
    BY <1>4, <2>1 DEF EndPop, TypeOK
<1>5. CASE EndScan
  BY <1>5 DEF EndScan, TypeOK, PumpPCs
<1>6. CASE PumpExit
  BY <1>6 DEF PumpExit, TypeOK, PumpPCs
<1> QED
  BY <1>2, <1>3, <1>4, <1>5, <1>6

\* The end of main keeps the types.
LEMMA TypeEnd == TypeOK /\ End => TypeOK'
<1> SUFFICES ASSUME TypeOK, End PROVE TypeOK'
  OBVIOUS
<1> USE DEF ltvars, queues, context, disk, calls, env
<1>1. jobs \in Seq(Jobs) /\ alerts \in Seq(Alerts)
  BY DEF TypeOK
<1>2. CASE BeginEnd
  BY <1>2 DEF BeginEnd, TypeOK, PumpPCs
<1>3. ASSUME NEW t \in Torrents, RequestOne(t) PROVE TypeOK'
  <2>1. Save(HandleOf(t), FALSE) \in Jobs
    BY JobsMade DEF TypeOK, HandleOf, Handles
  <2>2. jobs' \in Seq(Jobs) /\ num_outstanding_resume_data' \in Int
    <3>1. /\ jobs' = Append(jobs, Save(HandleOf(t), FALSE))
          /\ num_outstanding_resume_data' = num_outstanding_resume_data + 1
      BY <1>3 DEF RequestOne, RequestSave
    <3>2. num_outstanding_resume_data \in Int
      BY DEF TypeOK
    <3>3. jobs' \in Seq(Jobs)
      BY <1>1, <2>1, <3>1, QueueAppend
    <3>4. num_outstanding_resume_data' \in Int
      BY <3>1, <3>2
    <3> QED
      BY <3>3, <3>4
  <2>3. pump' \in PumpPCs /\ popped' \in Nat /\ popped' <= Len(alerts)
    <3>1. pump \in PumpPCs /\ popped \in Nat /\ popped <= Len(alerts) /\ Len(alerts) \in Nat
      BY <1>1 DEF TypeOK
    <3>2. UNCHANGED <<pump, popped>> \/ (pump' = "request_pop" /\ popped' = Len(alerts))
      BY <1>3 DEF RequestOne
    <3>3. "request_pop" \in PumpPCs
      BY DEF PumpPCs, Popping
    <3> QED
      BY <3>1, <3>2, <3>3
  <2>4. todo' \subseteq temp
    BY <1>3 DEF RequestOne, TypeOK
  <2> QED
    BY <1>3, <2>2, <2>3, <2>4 DEF RequestOne, TypeOK
<1>4. CASE EndRequests
  BY <1>4 DEF EndRequests, TypeOK, PumpPCs
<1>5. CASE WaitForAlert
  BY <1>1, <1>5 DEF WaitForAlert, TypeOK, PumpPCs, Popping
<1>6. CASE WaitDone
  BY <1>6 DEF WaitDone, TypeOK, PumpPCs
<1>7. CASE SaveSession
  BY <1>7 DEF SaveSession, TypeOK, PumpPCs
<1> QED
  BY <1>2, <1>3, <1>4, <1>5, <1>6, <1>7 DEF End

\* A new process starts with the types.
LEMMA TypeProcess ==
    ASSUME TypeOK, Signal \/ Start \/ Crash \/ Abort
    PROVE  TypeOK'
<1>1. CASE Signal
  BY <1>1 DEF Signal, TypeOK, ltvars, queues, context, disk, pumping, calls
<1>2. ASSUME Forget
      PROVE  /\ (live = {} /\ changed = {} /\ m_all_handles = {} /\ temp = {} /\ todo = {})'
             /\ gen' \in [Torrents -> Nat] /\ st' \in [Torrents -> Status]
             /\ jobs' \in Seq(Jobs) /\ alerts' \in Seq(Alerts)
             /\ num_outstanding_resume_data' \in Int
             /\ popped' \in Nat /\ popped' <= Len(alerts')
             /\ writing' \in Seq(Writes) /\ Len(writing') <= 1
             /\ finishing' \in Seq(Handles) /\ Len(finishing') <= 1
             /\ call' \in [Actors -> Calls] /\ quit' \in BOOLEAN
  <2>1. /\ gen' = [t \in Torrents |-> 0] /\ st' = [t \in Torrents |-> Blank]
        /\ call' = [a \in Actors |-> Idle] /\ Idle \in Calls
    BY <1>2 DEF Forget, Calls
  <2>2. gen' \in [Torrents -> Nat] /\ st' \in [Torrents -> Status] /\ call' \in [Actors -> Calls]
    BY <2>1, StatusMade
  <2>3. /\ jobs' = <<>> /\ alerts' = <<>> /\ writing' = <<>> /\ finishing' = <<>> /\ popped' = 0
        /\ num_outstanding_resume_data' = 0 /\ quit' = FALSE
        /\ (live = {} /\ changed = {} /\ m_all_handles = {} /\ temp = {} /\ todo = {})'
    BY <1>2 DEF Forget
  <2>4. jobs' \in Seq(Jobs) /\ alerts' \in Seq(Alerts) /\ popped' \in Nat /\ popped' <= Len(alerts')
    BY <2>3
  <2>5. /\ writing' \in Seq(Writes) /\ Len(writing') <= 1
        /\ finishing' \in Seq(Handles) /\ Len(finishing') <= 1
    BY <2>3
  <2>6. num_outstanding_resume_data' \in Int
    BY <2>3
  <2>7. quit' \in BOOLEAN
    BY <2>3, Zenon
  <2> QED
    BY <2>2, <2>3, <2>4, <2>5, <2>6, <2>7
<1>3. CASE Start
  BY <1>2, <1>3 DEF Start, TypeOK, PumpPCs, disk
<1>4. CASE Crash \/ Abort
  BY <1>2, <1>4 DEF Crash, Abort, Die, TypeOK, PumpPCs, disk
<1> QED
  BY <1>1, <1>3, <1>4

\* Every step of the program and of its environment keeps the types.
LEMMA TypeStep == TypeOK /\ [Next]_vars => TypeOK'
<1> SUFFICES ASSUME TypeOK, [Next]_vars PROVE TypeOK'
  OBVIOUS
<1>1. CASE UNCHANGED vars
  BY <1>1 DEF TypeOK, vars, ltvars, queues, context, disk, pumping, calls, env
<1>2. CASE RunJob
  BY <1>2, TypeRunJob
<1>3. CASE \E w \in Workers : Worker(w)
  BY <1>3, TypeCall DEF Worker, Actors
<1>4. CASE Loader
  <2>1. CASE PostAdd("loader")
    BY <2>1, TypeCall DEF Actors
  <2>2. ASSUME NEW t \in Torrents, LoadFile(t) PROVE TypeOK'
    BY <2>2, TypeBegin DEF Actors
  <2> QED
    BY <1>4, <2>1, <2>2 DEF Loader
<1>5. CASE HandleAlert
  BY <1>5, TypeHandleAlert
<1>6. CASE Pump
  <2>1. CASE PostAdd("pump")
    BY <2>1, TypeCall DEF Actors
  <2>2. ASSUME NEW t \in Torrents, ScanFile(t) PROVE TypeOK'
    BY <2>2, TypeBegin DEF Actors
  <2> QED
    BY <1>6, <2>1, <2>2, TypePump DEF Pump
<1>7. CASE End
  BY <1>7, TypeEnd
<1>8. CASE Environment
  <2>1. ASSUME NEW w \in Workers, NEW t \in Torrents,
               PostMagnet(w, t) \/ PostMetainfo(w, t) \/ DropFile(w, t) \/ PauseResumeTorrent(w, t)
               \/ ResumeTorrent(w, t) \/ GetTorrent(w, t)
        PROVE  TypeOK'
    BY <2>1, TypeBegin DEF Actors
  <2>2. ASSUME NEW t \in Torrents, PutWatchFile(t) PROVE TypeOK'
    BY <2>2, TypeBegin DEF Actors
  <2> QED
    BY <1>8, <2>1, <2>2, TypeTorrentEvent, TypeProcess DEF Environment, Client
<1>9. CASE Abort
  BY <1>9, TypeProcess
<1> QED
  BY <1>1, <1>2, <1>3, <1>4, <1>5, <1>6, <1>7, <1>8, <1>9 DEF Next

\* Type correctness of the whole system.
THEOREM TypeCorrect == Spec => []TypeOK
<1>1. Init => TypeOK
  <2> SUFFICES ASSUME Init PROVE TypeOK
    OBVIOUS
  <2>1. Idle \in Calls /\ NoFile \in Files /\ Blank \in Status
    BY StatusMade DEF Calls, Files, NoFile, NoData, Data, Paths
  <2>2. /\ gen \in [Torrents -> Nat] /\ st \in [Torrents -> Status]
        /\ call \in [Actors -> Calls] /\ resume \in [Torrents -> Files]
    BY <2>1 DEF Init
  <2>3. /\ jobs \in Seq(Jobs) /\ alerts \in Seq(Alerts) /\ popped <= Len(alerts)
        /\ writing \in Seq(Writes) /\ Len(writing) <= 1
        /\ finishing \in Seq(Handles) /\ Len(finishing) <= 1
    BY DEF Init
  <2>4. /\ live = {} /\ changed = {} /\ m_all_handles = {} /\ watch = {} /\ spoiled = {}
        /\ temp = {} /\ todo = {}
        /\ toLoad = {} /\ dropped = {} /\ popped \in Nat /\ runs \in Nat /\ requests \in Nat
        /\ num_outstanding_resume_data \in Int
        /\ proc = "stopped" /\ pump \in PumpPCs
    BY DEF Init, PumpPCs
  <2>5. quit \in BOOLEAN
    BY Zenon DEF Init
  <2> QED
    BY <2>2, <2>3, <2>4, <2>5 DEF TypeOK
<1> QED
  BY <1>1, TypeStep, PTL DEF Spec

-----------------------------------------------------------------------------
(* Counting the elements of a queue *)

\* The positions NumOf counts, and their number.
Positions(s, K) == {i \in 1 .. Len(s) : s[i].type \in K}

\* The positions that NumOf counts are finitely many.
LEMMA PositionsFinite ==
    ASSUME NEW S, NEW s \in Seq(S), NEW K
    PROVE  /\ IsFiniteSet(Positions(s, K))
           /\ NumOf(s, K) = Cardinality(Positions(s, K))
           /\ NumOf(s, K) \in Nat
<1>1. IsFiniteSet(1 .. Len(s))
  BY FS_Interval
<1>2. IsFiniteSet(Positions(s, K))
  BY <1>1, FS_Subset DEF Positions
<1> QED
  BY <1>2, FS_CardinalityType DEF NumOf, Positions

\* Nothing is counted in the empty queue.
LEMMA NumOfEmpty == \A K : NumOf(<<>>, K) = 0
<1> TAKE K
<1>1. {i \in 1 .. Len(<<>>) : <<>>[i].type \in K} = {}
  OBVIOUS
<1> QED
  BY <1>1, FS_EmptySet DEF NumOf

\* A queue in which nothing is counted has no such element.
LEMMA NumOfZero ==
    ASSUME NEW S, NEW s \in Seq(S), NEW K, NumOf(s, K) = 0, NEW i \in 1 .. Len(s)
    PROVE  s[i].type \notin K
<1>1. Positions(s, K) = {}
  BY PositionsFinite, FS_EmptySet
<1> QED
  BY <1>1 DEF Positions

\* A longer queue.
LEMMA NumOfAppend ==
    ASSUME NEW S, NEW s \in Seq(S), NEW e, NEW K
    PROVE  NumOf(Append(s, e), K) = NumOf(s, K) + (IF e.type \in K THEN 1 ELSE 0)
<1> DEFINE n == Len(s) + 1
<1>1. /\ s \in Seq(S \cup {e}) /\ Append(s, e) \in Seq(S \cup {e})
      /\ n \in Nat /\ Len(Append(s, e)) = n /\ n \notin Positions(s, K)
  BY DEF Positions
<1>a. /\ IsFiniteSet(Positions(s, K)) /\ NumOf(s, K) = Cardinality(Positions(s, K))
      /\ NumOf(s, K) \in Nat
  BY PositionsFinite
<1>b. NumOf(Append(s, e), K) = Cardinality(Positions(Append(s, e), K))
  BY <1>1, PositionsFinite
<1>2. CASE e.type \in K
  <2>1. Positions(Append(s, e), K) = Positions(s, K) \cup {n}
    BY <1>1, <1>2 DEF Positions
  <2> QED
    BY <1>a, <1>b, <1>1, <1>2, <2>1, FS_AddElement
<1>3. CASE e.type \notin K
  <2>1. Positions(Append(s, e), K) = Positions(s, K)
    BY <1>1, <1>3 DEF Positions
  <2> QED
    BY <1>a, <1>b, <1>3, <2>1
<1> QED
  BY <1>2, <1>3

\* The rest of a queue: its positions are one less than those of the queue
\* that are not the first.
LEMMA NumOfTail ==
    ASSUME NEW S, NEW s \in Seq(S), s # <<>>, NEW K
    PROVE  NumOf(Tail(s), K) = NumOf(s, K) - (IF Head(s).type \in K THEN 1 ELSE 0)
<1> DEFINE P == Positions(s, K)
           T == Positions(Tail(s), K)
           R == P \ {1}
           f == [i \in T |-> i + 1]
<1>1. /\ Tail(s) \in Seq(S) /\ Len(s) \in Nat /\ Len(s) > 0 /\ Len(Tail(s)) = Len(s) - 1
      /\ \A i \in 1 .. Len(Tail(s)) : Tail(s)[i] = s[i + 1]
      /\ Head(s) = s[1]
  OBVIOUS
<1>2. IsFiniteSet(P) /\ IsFiniteSet(T)
  BY <1>1, PositionsFinite
<1>3. f \in Bijection(T, R)
  <2>1. f \in [T -> R]
    BY <1>1 DEF Positions
  <2>2. ASSUME NEW i \in T, NEW j \in T, f[i] = f[j] PROVE i = j
    BY <2>2 DEF Positions
  <2>3. ASSUME NEW r \in R PROVE \E i \in T : f[i] = r
    <3>1. r - 1 \in T
      BY <1>1 DEF Positions
    <3>2. f[r - 1] = r
      BY <3>1 DEF Positions
    <3> QED
      BY <3>1, <3>2
  <2> HIDE DEF f, T, R
  <2> QED
    BY <2>1, <2>2, <2>3 DEF Bijection, Injection, Surjection, IsInjective
<1>4. Cardinality(R) = Cardinality(T)
  BY <1>2, <1>3, FS_Bijection DEF ExistsBijection
<1>5. (1 \in P) <=> (Head(s).type \in K)
  BY <1>1 DEF Positions
<1>6. Cardinality(R) = IF 1 \in P THEN Cardinality(P) - 1 ELSE Cardinality(P)
  BY <1>2, FS_RemoveElement
<1>7. Cardinality(P) \in Nat /\ NumOf(s, K) = Cardinality(P) /\ NumOf(Tail(s), K) = Cardinality(T)
  BY <1>1, PositionsFinite
<1> HIDE DEF P, T, R
<1> QED
  BY <1>4, <1>5, <1>6, <1>7

-----------------------------------------------------------------------------
(* The count of outstanding saves *)

\* The queues after a step of the alert pump: an alert is taken off.
LEMMA TakeAlert ==
    ASSUME TypeOK, NEW k, NextAlert(k)
    PROVE  /\ NumOf(alerts', SaveResponses) =
                NumOf(alerts, SaveResponses) - (IF k \in SaveResponses THEN 1 ELSE 0)
           /\ NumOf(alerts, SaveResponses) \in Nat
           /\ NumOf(jobs, SaveRequest) \in Nat
<1>1. /\ alerts \in Seq(Alerts) /\ jobs \in Seq(Jobs) /\ alerts # <<>>
      /\ alerts' = Tail(alerts) /\ Head(alerts).type = k
  BY DEF TypeOK, NextAlert
<1> QED
  BY <1>1, NumOfTail, PositionsFinite

\* The queues after a job is posted.
LEMMA PostJob ==
    ASSUME TypeOK, NEW j
    PROVE  /\ NumOf(Append(jobs, j), SaveRequest) =
                NumOf(jobs, SaveRequest) + (IF j.type = "save" THEN 1 ELSE 0)
           /\ NumOf(jobs, SaveRequest) \in Nat
<1>1. jobs \in Seq(Jobs)
  BY DEF TypeOK
<1> QED
  BY <1>1, NumOfAppend, PositionsFinite DEF SaveRequest

\* The queues after the network thread ran a job and may have posted an alert.
LEMMA RanJob ==
    ASSUME TypeOK, NEW k, NextJob(k)
    PROVE  /\ NumOf(jobs', SaveRequest) =
                NumOf(jobs, SaveRequest) - (IF k = "save" THEN 1 ELSE 0)
           /\ NumOf(jobs, SaveRequest) \in Nat
<1>1. jobs \in Seq(Jobs) /\ jobs # <<>> /\ jobs' = Tail(jobs) /\ Head(jobs).type = k
  BY DEF TypeOK, NextJob
<1> QED
  BY <1>1, NumOfTail, PositionsFinite DEF SaveRequest

\* The queues after libtorrent posts an alert.
LEMMA PostAlert ==
    ASSUME TypeOK, NEW a
    PROVE  /\ NumOf(Append(alerts, a), SaveResponses) =
                NumOf(alerts, SaveResponses) + (IF a.type \in SaveResponses THEN 1 ELSE 0)
           /\ NumOf(alerts, SaveResponses) \in Nat
<1>1. alerts \in Seq(Alerts)
  BY DEF TypeOK
<1> QED
  BY <1>1, NumOfAppend, PositionsFinite

\* A step of the network thread: a save request becomes a response.
LEMMA OutstandingRunJob == TypeOK /\ OutstandingExact /\ RunJob => OutstandingExact'
<1> SUFFICES ASSUME TypeOK, OutstandingExact, RunJob PROVE OutstandingExact'
  OBVIOUS
<1> USE DEF context, OutstandingExact
<1>1. UNCHANGED num_outstanding_resume_data
  BY DEF RunJob, AddJob, RemoveJob, SaveJob, MoveJob, PauseJob, UnpauseJob, FlagJob,
       UpdateJob
<1>2. CASE SaveJob
  <2>1. NumOf(jobs', SaveRequest) = NumOf(jobs, SaveRequest) - 1
        /\ NumOf(jobs, SaveRequest) \in Nat
    BY <1>2, RanJob DEF SaveJob
  <2>2. \E a : alerts' = Append(alerts, a) /\ a.type \in SaveResponses
    BY <1>2 DEF SaveJob, Alert, SaveResponses
  <2>3. NumOf(alerts', SaveResponses) = NumOf(alerts, SaveResponses) + 1
        /\ NumOf(alerts, SaveResponses) \in Nat
    BY <2>2, PostAlert
  <2> QED
    BY <1>1, <2>1, <2>3
<1>3. CASE AddJob \/ RemoveJob \/ MoveJob \/ PauseJob \/ UnpauseJob \/ FlagJob \/ UpdateJob
  <2>1. NumOf(jobs', SaveRequest) = NumOf(jobs, SaveRequest) /\ NumOf(jobs, SaveRequest) \in Nat
    <3>1. PICK k \in {"add", "remove", "move", "pause", "unpause", "flag", "update"} : NextJob(k)
      BY <1>3 DEF AddJob, RemoveJob, MoveJob, PauseJob, UnpauseJob, FlagJob, UpdateJob
    <3> QED
      BY <3>1, RanJob
  <2>2. alerts' = alerts \/ \E a : alerts' = Append(alerts, a) /\ a.type \notin SaveResponses
    <3>1. CASE AddJob
      BY <3>1 DEF AddJob, Alert, SaveResponses
    <3>2. CASE RemoveJob \/ PauseJob
      BY <3>2 DEF RemoveJob, PauseJob, Alert, SaveResponses
    <3>3. CASE MoveJob \/ UnpauseJob \/ FlagJob
      BY <3>3 DEF MoveJob, UnpauseJob, FlagJob
    <3>4. CASE UpdateJob
      BY <3>4 DEF UpdateJob, SaveResponses
    <3> QED
      BY <1>3, <3>1, <3>2, <3>3, <3>4
  <2>3. NumOf(alerts', SaveResponses) = NumOf(alerts, SaveResponses)
    <3>1. CASE alerts' = alerts
      BY <3>1
    <3>2. ASSUME NEW a, alerts' = Append(alerts, a), a.type \notin SaveResponses
          PROVE  NumOf(alerts', SaveResponses) = NumOf(alerts, SaveResponses)
      BY <3>2, PostAlert
    <3> QED
      BY <2>2, <3>1, <3>2
  <2> QED
    BY <1>1, <2>1, <2>3
<1> QED
  BY <1>2, <1>3 DEF RunJob

\* handle_alert: a request is counted when it is posted, a response when it is
\* taken.
LEMMA OutstandingHandleAlert == TypeOK /\ OutstandingExact /\ HandleAlert => OutstandingExact'
<1> SUFFICES ASSUME TypeOK, OutstandingExact, HandleAlert PROVE OutstandingExact'
  OBVIOUS
<1> USE DEF OutstandingExact
<1>1. ASSUME NEW k, NEW h, NEW only, NextAlert(k), k \notin SaveResponses, RequestSave(h, only)
      PROVE  OutstandingExact'
  <2>1. NumOf(jobs', SaveRequest) = NumOf(jobs, SaveRequest) + 1
    <3>1. jobs' = Append(jobs, Save(h, only)) /\ Save(h, only).type = "save"
      BY <1>1 DEF RequestSave, Save
    <3> QED
      BY <3>1, PostJob
  <2>2. /\ NumOf(alerts', SaveResponses) = NumOf(alerts, SaveResponses)
        /\ NumOf(alerts, SaveResponses) \in Nat /\ NumOf(jobs, SaveRequest) \in Nat
    BY <1>1, TakeAlert
  <2>3. num_outstanding_resume_data' = num_outstanding_resume_data + 1
    BY <1>1 DEF RequestSave
  <2> QED
    BY <2>1, <2>2, <2>3
<1>2. ASSUME NEW k, NextAlert(k), k \notin SaveResponses,
             UNCHANGED <<jobs, num_outstanding_resume_data>>
      PROVE  OutstandingExact'
  BY <1>2, TakeAlert
<1>3. ASSUME NEW k \in SaveResponses, NextAlert(k), UNCHANGED jobs,
             num_outstanding_resume_data' = num_outstanding_resume_data - 1
      PROVE  OutstandingExact'
  BY <1>3, TakeAlert
<1>4. CASE OnMetadataReceived \/ OnTorrentFinished \/ OnTorrentPaused
  BY <1>1, <1>4 DEF OnMetadataReceived, OnTorrentFinished, OnTorrentPaused, SaveResponses
<1>5. CASE OnAddTorrent
  BY <1>1, <1>2, <1>5 DEF OnAddTorrent, SaveResponses
<1>6. CASE OnStateUpdate \/ OnTorrentRemoved
  BY <1>2, <1>6 DEF OnStateUpdate, OnTorrentRemoved, SaveResponses
<1>7. CASE OnSaveResumeData \/ OnSaveResumeDataFailed
  BY <1>3, <1>7 DEF OnSaveResumeData, OnSaveResumeDataFailed, SaveResponses
<1>8. CASE MoveFinished
  BY <1>8, PostJob DEF MoveFinished, context
<1>9. CASE WriteFile
  BY <1>9 DEF WriteFile, queues, context
<1> QED
  BY <1>4, <1>5, <1>6, <1>7, <1>8, <1>9 DEF HandleAlert

\* No other step of the program touches the count, except save_all_resume.
LEMMA OutstandingStep == TypeOK /\ OutstandingExact /\ [Next]_vars => OutstandingExact'
<1> SUFFICES ASSUME TypeOK, OutstandingExact, [Next]_vars PROVE OutstandingExact'
  OBVIOUS
<1> USE DEF OutstandingExact
<1>1. ASSUME UNCHANGED <<jobs, alerts, num_outstanding_resume_data>> PROVE OutstandingExact'
  BY <1>1
<1>2. ASSUME NEW j, j.type # "save", jobs' = Append(jobs, j),
             UNCHANGED <<alerts, num_outstanding_resume_data>>
      PROVE  OutstandingExact'
  BY <1>2, PostJob
<1>3. ASSUME NEW a, a.type \notin SaveResponses, alerts' = Append(alerts, a),
             UNCHANGED <<jobs, num_outstanding_resume_data>>
      PROVE  OutstandingExact'
  BY <1>3, PostAlert
<1>4. ASSUME NEW a, PostAdd(a) PROVE OutstandingExact'
  BY <1>2, <1>4 DEF PostAdd, context
<1>5. CASE UNCHANGED vars
  BY <1>1, <1>5 DEF vars, queues, context
<1>6. CASE RunJob
  BY <1>6, OutstandingRunJob
<1>7. ASSUME NEW w \in Workers, Worker(w) PROVE OutstandingExact'
  <2>1. CASE DropFind(w) \/ ListFiles(w)
    BY <1>1, <2>1 DEF DropFind, ListFiles, queues, context
  <2>2. CASE PostCall(w)
    BY <1>2, <2>2 DEF PostCall, HandleOps, context
  <2> QED
    BY <1>4, <1>7, <2>1, <2>2 DEF Worker
<1>8. CASE Loader
  BY <1>1, <1>4, <1>8 DEF Loader, LoadFile, queues, context
<1>9. CASE HandleAlert
  BY <1>9, OutstandingHandleAlert
<1>10. CASE Pump
  <2>1. CASE PostUpdates
    BY <1>2, <2>1 DEF PostUpdates, context
  <2>2. CASE PopAlerts \/ EndPop \/ EndScan \/ PumpExit \/ \E t \in Torrents : ScanFile(t)
    BY <1>1, <2>2 DEF PopAlerts, EndPop, EndScan, PumpExit, ScanFile, queues, context
  <2> QED
    BY <1>4, <1>10, <2>1, <2>2 DEF Pump
<1>11. CASE End
  <2>1. ASSUME NEW t \in Torrents, RequestOne(t) PROVE OutstandingExact'
    <3>1. NumOf(jobs', SaveRequest) = NumOf(jobs, SaveRequest) + 1
          /\ NumOf(jobs, SaveRequest) \in Nat
      BY <2>1, PostJob DEF RequestOne, RequestSave, Save
    <3>2. NumOf(alerts, SaveResponses) \in Nat
      BY PositionsFinite DEF TypeOK
    <3>3. /\ num_outstanding_resume_data' = num_outstanding_resume_data + 1
          /\ alerts' = alerts
      BY <2>1 DEF RequestOne, RequestSave
    <3> QED
      BY <3>1, <3>2, <3>3
  <2>2. CASE BeginEnd \/ EndRequests \/ WaitForAlert \/ WaitDone \/ SaveSession
    BY <1>1, <2>2 DEF BeginEnd, EndRequests, WaitForAlert, WaitDone, SaveSession, queues, context
  <2> QED
    BY <1>11, <2>1, <2>2 DEF End
<1>12. CASE Environment
  <2>1. ASSUME NEW t \in Torrents, MetadataReceived(t) \/ Finished(t) PROVE OutstandingExact'
    BY <1>3, <2>1 DEF MetadataReceived, Finished, Alert, SaveResponses, context
  <2>2. ASSUME NEW t \in Torrents, Progress(t) \/ StorageMoved(t) PROVE OutstandingExact'
    BY <1>1, <2>2 DEF Progress, StorageMoved, queues, context
  <2>3. ASSUME NEW t \in Torrents, NEW w \in Workers,
               PostMagnet(w, t) \/ PostMetainfo(w, t) \/ DropFile(w, t) \/ PauseResumeTorrent(w, t)
               \/ ResumeTorrent(w, t) \/ GetTorrent(w, t)
        PROVE  OutstandingExact'
    BY <1>1, <2>3 DEF PostMagnet, PostMetainfo, DropFile, PauseResumeTorrent, ResumeTorrent,
       GetTorrent, Found, queues, context
  <2>4. CASE Signal \/ \E t \in Torrents : PutWatchFile(t)
    BY <1>1, <2>4 DEF Signal, PutWatchFile, queues, context
  <2>5. CASE Start \/ Crash
    BY <2>5, NumOfEmpty DEF Start, Crash, Die, Forget
  <2> QED
    BY <1>12, <2>1, <2>2, <2>3, <2>4, <2>5 DEF Environment, Client, TorrentEvent
<1>13. CASE Abort
  BY <1>13, NumOfEmpty DEF Abort, Die, Forget
<1> QED
  BY <1>5, <1>6, <1>7, <1>8, <1>9, <1>10, <1>11, <1>12, <1>13 DEF Next

\* num_outstanding_resume_data is at every moment the number of save requests
\* without a response: handle_alert, save_all_resume and the network thread
\* keep it exact in every interleaving.
THEOREM OutstandingIsExact == Spec => []OutstandingExact
<1>1. Init => OutstandingExact
  BY NumOfEmpty DEF Init, OutstandingExact
<1>2. TypeOK /\ OutstandingExact /\ [Next]_vars => OutstandingExact'
  BY OutstandingStep
<1> QED
  BY <1>1, <1>2, TypeCorrect, PTL DEF Spec

-----------------------------------------------------------------------------
(* Shutdown *)

\* The strengthening that makes ShutdownDrained inductive: a file is being
\* written only inside pop_alerts, a stopped process has left its loop, and
\* nothing is outstanding from the moment the wait loop of save_all_resume ends.
DrainInv ==
    /\ writing # <<>> => pump \in Popping
    /\ proc = "stopped" => pump = "exit"
    /\ pump = "session" \/ proc = "stopped" => num_outstanding_resume_data = 0

\* The alert pump keeps it: save requests are made only inside pop_alerts.
LEMMA DrainHandleAlert == TypeOK /\ DrainInv /\ HandleAlert => DrainInv'
<1> SUFFICES ASSUME TypeOK, DrainInv, HandleAlert PROVE DrainInv'
  OBVIOUS
<1> USE DEF DrainInv, env
<1>1. ASSUME NEW k, NextAlert(k), UNCHANGED <<pump, proc>> PROVE DrainInv'
  BY <1>1 DEF NextAlert, Popping, Up
<1>2. CASE OnMetadataReceived \/ OnAddTorrent \/ OnTorrentFinished \/ OnTorrentPaused
  BY <1>1, <1>2 DEF OnMetadataReceived, OnAddTorrent, OnTorrentFinished, OnTorrentPaused
<1>3. CASE OnSaveResumeData \/ OnSaveResumeDataFailed \/ OnStateUpdate \/ OnTorrentRemoved
  BY <1>1, <1>3 DEF OnSaveResumeData, OnSaveResumeDataFailed, OnStateUpdate, OnTorrentRemoved
<1>4. CASE MoveFinished \/ WriteFile
  BY <1>4 DEF MoveFinished, WriteFile, context
<1> QED
  BY <1>2, <1>3, <1>4 DEF HandleAlert

\* The end of main keeps it: the wait loop ends only when nothing is outstanding.
LEMMA DrainEnd == TypeOK /\ OutstandingExact /\ DrainInv /\ End => DrainInv'
<1> SUFFICES ASSUME TypeOK, OutstandingExact, DrainInv, End PROVE DrainInv'
  OBVIOUS
<1> USE DEF DrainInv, env, Popping
<1>1. num_outstanding_resume_data \in Nat
  BY PositionsFinite DEF TypeOK, OutstandingExact
<1>2. CASE BeginEnd
  BY <1>2 DEF BeginEnd
<1>3. ASSUME NEW t \in Torrents, RequestOne(t) PROVE DrainInv'
  BY <1>3 DEF RequestOne
<1>4. CASE EndRequests \/ WaitForAlert
  BY <1>4 DEF EndRequests, WaitForAlert
<1>5. CASE WaitDone
  BY <1>1, <1>5 DEF WaitDone, context
<1>6. CASE SaveSession
  BY <1>6 DEF SaveSession, context
<1> QED
  BY <1>2, <1>3, <1>4, <1>5, <1>6 DEF End

\* Every step keeps it.
LEMMA DrainStep == TypeOK /\ OutstandingExact /\ DrainInv /\ [Next]_vars => DrainInv'
<1> SUFFICES ASSUME TypeOK, OutstandingExact, DrainInv, [Next]_vars PROVE DrainInv'
  OBVIOUS
<1> USE DEF DrainInv
<1>1. ASSUME UNCHANGED <<pump, writing, proc, num_outstanding_resume_data>> PROVE DrainInv'
  BY <1>1
<1>2. ASSUME NEW a, PostAdd(a) PROVE DrainInv'
  BY <1>1, <1>2 DEF PostAdd, context, pumping, env
<1>3. CASE UNCHANGED vars
  BY <1>1, <1>3 DEF vars, context, pumping, env
<1>4. CASE RunJob
  BY <1>1, <1>4 DEF RunJob, AddJob, RemoveJob, SaveJob, MoveJob, PauseJob, UnpauseJob, FlagJob,
       UpdateJob,
     context, pumping, env
<1>5. ASSUME NEW w \in Workers, Worker(w) PROVE DrainInv'
  BY <1>1, <1>2, <1>5 DEF Worker, DropFind, PostCall, ListFiles, context, pumping, env
<1>6. CASE Loader
  BY <1>1, <1>2, <1>6 DEF Loader, LoadFile, context, pumping, env
<1>7. CASE HandleAlert
  BY <1>7, DrainHandleAlert
<1>8. CASE Pump
  <2>1. CASE PostUpdates \/ PopAlerts \/ EndScan \/ PumpExit
    BY <2>1 DEF PostUpdates, PopAlerts, EndScan, PumpExit, env, Popping
  <2>2. CASE EndPop
    <3>1. pump' \in {"top", "scan", "request", "wait"} /\ writing' = <<>> /\ UNCHANGED proc
          /\ proc # "stopped"
      BY <2>2 DEF EndPop, AfterPop, Popping, env, Up
    <3> QED
      BY <3>1
  <2>3. ASSUME NEW t \in Torrents, ScanFile(t) PROVE DrainInv'
    BY <1>1, <2>3 DEF ScanFile, context, pumping, env
  <2> QED
    BY <1>2, <1>8, <2>1, <2>2, <2>3 DEF Pump
<1>9. CASE End
  BY <1>9, DrainEnd
<1>10. CASE Environment
  <2>1. ASSUME NEW t \in Torrents,
               MetadataReceived(t) \/ Finished(t) \/ Progress(t) \/ StorageMoved(t)
        PROVE  DrainInv'
    BY <1>1, <2>1 DEF MetadataReceived, Finished, Progress, StorageMoved, context, pumping, env
  <2>2. ASSUME NEW t \in Torrents, NEW w \in Workers,
               PostMagnet(w, t) \/ PostMetainfo(w, t) \/ DropFile(w, t) \/ PauseResumeTorrent(w, t)
               \/ ResumeTorrent(w, t) \/ GetTorrent(w, t)
        PROVE  DrainInv'
    BY <1>1, <2>2 DEF PostMagnet, PostMetainfo, DropFile, PauseResumeTorrent, ResumeTorrent,
       GetTorrent, Found, context, pumping
  <2>3. CASE Signal \/ \E t \in Torrents : PutWatchFile(t)
    BY <1>1, <2>3 DEF Signal, PutWatchFile, context, pumping
  <2>4. CASE Start \/ Crash
    BY <2>4 DEF Start, Crash, Die, Forget
  <2> QED
    BY <1>10, <2>1, <2>2, <2>3, <2>4 DEF Environment, Client, TorrentEvent
<1>11. CASE Abort
  BY <1>11 DEF Abort, Die, Forget
<1> QED
  BY <1>3, <1>4, <1>5, <1>6, <1>7, <1>8, <1>9, <1>10, <1>11 DEF Next

\* When end() has returned every save that was requested has been answered and
\* its answer handled, whatever arrived while it was waiting.
THEOREM ShutdownIsDrained == Spec => []ShutdownDrained
<1>1. Init => DrainInv
  BY DEF Init, DrainInv
<1>2. TypeOK /\ OutstandingExact /\ DrainInv /\ [Next]_vars => DrainInv'
  BY DrainStep
<1>3. TypeOK /\ OutstandingExact /\ DrainInv => ShutdownDrained
  <2> SUFFICES ASSUME TypeOK, OutstandingExact, DrainInv, proc = "stopped"
               PROVE  /\ NumOf(jobs, SaveRequest) = 0
                      /\ NumOf(alerts, SaveResponses) = 0
                      /\ writing = <<>>
    BY DEF ShutdownDrained
  <2>1. NumOf(jobs, SaveRequest) \in Nat /\ NumOf(alerts, SaveResponses) \in Nat
    BY PositionsFinite DEF TypeOK
  <2>2. NumOf(jobs, SaveRequest) + NumOf(alerts, SaveResponses) = 0
    BY DEF OutstandingExact, DrainInv
  <2>3. writing = <<>>
    BY DEF DrainInv, Popping
  <2> QED
    BY <2>1, <2>2, <2>3
<1> QED
  BY <1>1, <1>2, <1>3, TypeCorrect, OutstandingIsExact, PTL DEF Spec

=============================================================================
