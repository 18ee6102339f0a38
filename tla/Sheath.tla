------------------------------- MODULE Sheath -------------------------------
(***************************************************************************)
(* The torrent manager of kedge (sheath.cpp, sheath.hpp), the threads that *)
(* main.cpp starts around it, and the part of the disk it owns: one resume *)
(* file per torrent and a watch directory.                                 *)
(*                                                                         *)
(* Actors: the pump (thread shth_loader, later the destructor of sheath    *)
(* in the main thread), the loader (thread ctx_start_loader), the HTTP     *)
(* workers (threads in ioc.run), and libtorrent's own network thread.      *)
(* libtorrent is external: calls on a session or a handle are posted to a  *)
(* FIFO of jobs that its thread runs, and it reports through a FIFO of     *)
(* alerts that pop_alerts takes.  A synchronous call (find_torrent,        *)
(* status, get_torrent_status) waits for the jobs posted before it, so an  *)
(* action that makes one is guarded by jobs = <<>>.                        *)
(*                                                                         *)
(* A torrent is named by its info-hash; adding one creates a handle        *)
(* <<t, g>>, where g counts the additions of t in this run, since          *)
(* m_all_handles is keyed by handle and a handle outlives its torrent.     *)
(***************************************************************************)
EXTENDS Naturals, Integers, Sequences, FiniteSets

CONSTANTS
    Torrents,      \* info-hashes
    Workers,       \* threads that run ioc.run()
    Ops,           \* the kinds of request clients make
    Events,        \* the kinds of event torrents report
    MovesFinished, \* dir_moved is configured and exists
    DiskFails,     \* whether save_file may fail
    Chunk,         \* save_all_resume drains the alerts every Chunk requests
    MaxRequests,   \* bound: client requests and files put in the watch directory
    MaxUpdates,    \* bound: post_torrent_updates calls libtorrent has not run
    MaxRuns,       \* bound: times the program is started
    MayCrash       \* whether the process may die at any point

ASSUME WorkersAssumption == "pump" \notin Workers /\ "loader" \notin Workers
ASSUME OpsAssumption == Ops \subseteq {"magnet", "metainfo", "drop", "toggle", "start",
                                      "files", "watch"}
ASSUME EventsAssumption == Events \subseteq {"metadata", "finished", "progress"}
ASSUME ChunkAssumption == Chunk \in Nat \ {0}
ASSUME BoundsAssumption ==
    /\ MaxRequests \in Nat /\ MaxUpdates \in Nat \ {0} /\ MaxRuns \in Nat
    /\ MovesFinished \in BOOLEAN /\ DiskFails \in BOOLEAN /\ MayCrash \in BOOLEAN

VARIABLES
    \* libtorrent (external)
    live,     \* torrents of the session
    gen,      \* gen[t]: additions of t in this run; the handle is <<t, gen[t]>>
    st,       \* st[t]: torrent_status of a live torrent
    changed,  \* live torrents whose status the next state_update reports
    jobs,     \* calls posted to the network thread
    alerts,   \* the alert queue, popped ones not yet handled first
    \* class sheath
    num_outstanding_resume_data,
    m_all_handles,  \* a set of entries, one per handle
    \* disk
    resume,   \* resume[t]: the file <info-hash>.resume
    watch,    \* torrents with a .torrent file in the watch directory
    spoiled,  \* torrents whose last save_file failed (nobody keeps this)
    \* threads
    pump,     \* where the pump is
    popped,   \* length of the rest of the batch pop_alerts is handling
    writing,  \* the save_file in progress: <<>> or <<[t, data]>>
    finishing,\* the on_torrent_finished in progress: <<>> or <<handle>>
    call,     \* call[a]: what actor a is in the middle of
    toLoad,   \* resume files load_resumes has yet to visit
    temp,     \* the snapshot save_all_resume works through
    todo,     \* its members not yet requested
    proc,     \* the process
    quit,     \* the flag the signal handler sets
    \* bounds and history
    runs, requests,
    dropped   \* torrents some client asked to remove

ltvars  == <<live, gen, st, changed>>
queues  == <<jobs, alerts>>
context == <<num_outstanding_resume_data, m_all_handles>>
disk    == <<resume, watch, spoiled>>
pumping == <<pump, popped, writing, finishing, temp, todo>>
calls   == <<call, toLoad>>
env     == <<proc, quit, runs, requests, dropped>>
vars    == <<ltvars, queues, context, disk, pumping, calls, env>>

-----------------------------------------------------------------------------
(* Data *)

Actors  == Workers \cup {"pump", "loader"}
Handles == Torrents \X Nat

Paths  == {"store", "moved"}
\* What resume data tells apart: a magnet link without metadata, a torrent
\* with metadata, a complete one; and where its files are.
Data   == [stage : {"magnet", "partial", "seed"}, path : Paths]
NoData == [stage |-> "magnet", path |-> "store"]

\* "checking" is a complete torrent that was loaded and is not announced as
\* finished yet; fetched: everything was downloaded in this run (progress_ppm
\* and total_payload_download); dirty: need_save_resume.
Status == [stage : {"magnet", "partial", "checking", "seed"}, path : Paths,
           fetched : BOOLEAN, moving : BOOLEAN, paused : BOOLEAN, dirty : BOOLEAN]
Blank  == [stage |-> "magnet", path |-> "store", fetched |-> FALSE,
           moving |-> FALSE, paused |-> FALSE, dirty |-> FALSE]

\* What a state_update_alert and m_all_handles carry of a status.
Entries == [h : Handles, stage : {"magnet", "partial", "checking", "seed"}, path : Paths]
Entry(h, s) == [h |-> h, stage |-> s.stage, path |-> s.path]
Keys(E) == {e.h : e \in E}

\* write_resume_data
DataOf(s) == [stage |-> IF s.stage = "checking" THEN "seed" ELSE s.stage,
              path  |-> s.path]

Files  == [file : {"none", "truncated", "complete"}, data : Data]
NoFile == [file |-> "none", data |-> NoData]

\* The argument of a save_file in progress.
Writes == [t : Torrents, data : Data]

\* add_torrent_params: "bad" names no torrent, "fresh" has need_save_resume
\* set, "loaded" comes from resume data and has it cleared.
Params == [kind : {"bad", "fresh", "loaded"}, data : Data]
Fresh(stage) == [kind |-> "fresh", data |-> [stage |-> stage, path |-> "store"]]
Loaded(d)    == [kind |-> "loaded", data |-> d]
Bad          == [kind |-> "bad", data |-> NoData]

HandleOps == {"remove", "pause", "unpause", "flag", "files"}   \* calls on a handle

Idle  == [op |-> "idle"]
Calls == {Idle} \cup [op : {"drop"}, t : Torrents]
                \cup [op : {"add"}, t : Torrents, params : Params]
                \cup [op : HandleOps, h : Handles]

Jobs == [type : {"save"}, h : Handles, only_if_modified : BOOLEAN]
        \cup [type : {"add"}, t : Torrents, params : Params]
        \cup [type : {"remove", "move", "pause", "unpause", "flag"}, h : Handles]
        \cup [type : {"update"}]

Plain  == {"metadata_received", "add_torrent", "torrent_finished",
           "torrent_paused", "torrent_removed", "save_resume_data_failed"}
Answered == {"metadata_received", "add_torrent", "torrent_finished", "torrent_paused"}
Alerts == [type : Plain, h : Handles]
          \cup [type : {"save_resume_data"}, h : Handles, data : Data]
          \cup [type : {"state_update"}, status : SUBSET Entries]
          \cup [type : {"add_torrent_error"}]

SaveRequest   == {"save"}
SaveResponses == {"save_resume_data", "save_resume_data_failed"}

\* The number of elements of s whose type is in K.
NumOf(s, K) == Cardinality({i \in 1 .. Len(s) : s[i].type \in K})

HandleOf(t) == <<t, gen[t]>>
IsLive(h)   == h[1] \in live /\ gen[h[1]] = h[2]

Save(h, only) == [type |-> "save", h |-> h, only_if_modified |-> only]
Alert(type, h) == [type |-> type, h |-> h]

\* Where the pump is handling a batch of alerts.
Popping == {"pop", "request_pop", "wait_pop"}
PumpPCs == {"top", "sleep", "scan", "exit", "request", "wait", "session"}
           \cup Popping

Up == proc \in {"running", "ending"}

TypeOK ==
    /\ live \subseteq Torrents
    /\ gen \in [Torrents -> Nat]
    /\ st \in [Torrents -> Status]
    /\ changed \subseteq live
    /\ jobs \in Seq(Jobs)
    /\ alerts \in Seq(Alerts)
    /\ num_outstanding_resume_data \in Int
    /\ m_all_handles \subseteq Entries
    /\ resume \in [Torrents -> Files]
    /\ watch \subseteq Torrents /\ spoiled \subseteq Torrents
    /\ pump \in PumpPCs
    /\ popped \in Nat /\ popped <= Len(alerts)
    /\ writing \in Seq(Writes) /\ Len(writing) <= 1
    /\ finishing \in Seq(Handles) /\ Len(finishing) <= 1
    /\ call \in [Actors -> Calls]
    /\ toLoad \subseteq Torrents
    /\ temp \subseteq Torrents /\ todo \subseteq temp
    /\ proc \in {"running", "ending", "stopped", "down"}
    /\ quit \in BOOLEAN
    /\ runs \in Nat /\ requests \in Nat
    /\ dropped \subseteq Torrents

Init ==
    /\ live = {} /\ gen = [t \in Torrents |-> 0]
    /\ st = [t \in Torrents |-> Blank] /\ changed = {}
    /\ jobs = <<>> /\ alerts = <<>>
    /\ num_outstanding_resume_data = 0 /\ m_all_handles = {}
    /\ resume = [t \in Torrents |-> NoFile] /\ watch = {} /\ spoiled = {}
    /\ pump = "exit" /\ popped = 0 /\ writing = <<>> /\ finishing = <<>>
    /\ temp = {} /\ todo = {}
    /\ call = [a \in Actors |-> Idle] /\ toLoad = {}
    /\ proc = "stopped" /\ quit = FALSE
    /\ runs = 0 /\ requests = 0 /\ dropped = {}

-----------------------------------------------------------------------------
(* libtorrent's network thread (external) *)

NextJob(type) == Up /\ jobs # <<>> /\ Head(jobs).type = type /\ jobs' = Tail(jobs)

NewStatus(p) == [Blank EXCEPT
    !.stage = IF p.data.stage = "seed" THEN "checking" ELSE p.data.stage,
    !.path  = p.data.path,
    !.dirty = (p.kind = "fresh")]

\* async_add_torrent: parameters that name no torrent are reported as an error,
\* a torrent of the session as its handle, any other is added.
AddJob ==
    /\ NextJob("add")
    /\ LET t == Head(jobs).t
           p == Head(jobs).params
       IN  \/ /\ p.kind = "bad"
              /\ alerts' = Append(alerts, [type |-> "add_torrent_error"])
              /\ UNCHANGED ltvars
           \/ /\ p.kind # "bad" /\ t \in live
              /\ alerts' = Append(alerts, Alert("add_torrent", HandleOf(t)))
              /\ UNCHANGED ltvars
           \/ /\ p.kind # "bad" /\ t \notin live
              /\ live' = live \cup {t}
              /\ gen' = [gen EXCEPT ![t] = @ + 1]
              /\ st' = [st EXCEPT ![t] = NewStatus(p)]
              /\ changed' = changed \cup {t}
              /\ alerts' = Append(alerts, Alert("add_torrent", <<t, gen[t] + 1>>))
    /\ UNCHANGED <<context, disk, pumping, calls, env>>

RemoveJob ==
    /\ NextJob("remove")
    /\ LET h == Head(jobs).h
       IN  \/ /\ IsLive(h)
              /\ live' = live \ {h[1]}
              /\ st' = [st EXCEPT ![h[1]] = Blank]
              /\ changed' = changed \ {h[1]}
              /\ alerts' = Append(alerts, Alert("torrent_removed", h))
           \/ /\ ~IsLive(h)
              /\ UNCHANGED <<live, st, changed, alerts>>
    /\ UNCHANGED <<gen, context, disk, pumping, calls, env>>

\* save_resume_data: every request gets exactly one response.
SaveJob ==
    /\ NextJob("save")
    /\ LET h == Head(jobs).h
           t == h[1]
           refused == ~IsLive(h) \/ (Head(jobs).only_if_modified /\ ~st[t].dirty)
       IN  \/ /\ refused
              /\ alerts' = Append(alerts, Alert("save_resume_data_failed", h))
              /\ UNCHANGED <<st, changed>>
           \/ /\ ~refused
              /\ alerts' = Append(alerts, [type |-> "save_resume_data", h |-> h,
                                           data |-> DataOf(st[t])])
              /\ st' = [st EXCEPT ![t].dirty = FALSE]
              /\ changed' = changed \cup {t}
    /\ UNCHANGED <<live, gen, context, disk, pumping, calls, env>>

\* move_storage is handed to the disk threads; StorageMoved is its end.
MoveJob ==
    /\ NextJob("move")
    /\ LET h == Head(jobs).h
       IN  st' = IF IsLive(h) THEN [st EXCEPT ![h[1]].moving = TRUE] ELSE st
    /\ UNCHANGED <<live, gen, changed, alerts, context, disk, pumping, calls, env>>

PauseJob ==
    /\ NextJob("pause")
    /\ LET h == Head(jobs).h
       IN  \/ /\ IsLive(h) /\ ~st[h[1]].paused
              /\ st' = [st EXCEPT ![h[1]].paused = TRUE, ![h[1]].dirty = TRUE]
              /\ changed' = changed \cup {h[1]}
              /\ alerts' = Append(alerts, Alert("torrent_paused", h))
           \/ /\ ~(IsLive(h) /\ ~st[h[1]].paused)
              /\ UNCHANGED <<st, changed, alerts>>
    /\ UNCHANGED <<live, gen, context, disk, pumping, calls, env>>

UnpauseJob ==
    /\ NextJob("unpause")
    /\ LET h == Head(jobs).h
       IN  \/ /\ IsLive(h)
              /\ st' = [st EXCEPT ![h[1]].paused = FALSE, ![h[1]].dirty = TRUE]
              /\ changed' = changed \cup {h[1]}
           \/ /\ ~IsLive(h)
              /\ UNCHANGED <<st, changed>>
    /\ UNCHANGED <<live, gen, alerts, context, disk, pumping, calls, env>>

\* set_flags: auto_managed of a torrent that no client paused is inverted.
FlagJob ==
    /\ NextJob("flag")
    /\ LET h == Head(jobs).h
       IN  st' = IF IsLive(h) THEN [st EXCEPT ![h[1]].dirty = TRUE] ELSE st
    /\ UNCHANGED <<live, gen, changed, alerts, context, disk, pumping, calls, env>>

UpdateJob ==
    /\ NextJob("update")
    /\ alerts' = Append(alerts,
         [type |-> "state_update",
          status |-> {Entry(HandleOf(t), st[t]) : t \in changed}])
    /\ changed' = {}
    /\ UNCHANGED <<live, gen, st, context, disk, pumping, calls, env>>

RunJob == AddJob \/ RemoveJob \/ SaveJob \/ MoveJob \/ PauseJob \/ UnpauseJob
          \/ FlagJob \/ UpdateJob

\* Events of a live torrent.
MetadataReceived(t) ==
    /\ Up /\ "metadata" \in Events
    /\ t \in live /\ st[t].stage = "magnet" /\ ~st[t].paused
    /\ st' = [st EXCEPT ![t].stage = "partial", ![t].dirty = TRUE]
    /\ changed' = changed \cup {t}
    /\ alerts' = Append(alerts, Alert("metadata_received", HandleOf(t)))
    /\ UNCHANGED <<live, gen, jobs, context, disk, pumping, calls, env>>

\* A download ends, with all of the data or (files deselected) with a part of
\* it, or the check of a complete torrent does.
Finished(t) ==
    /\ Up /\ "finished" \in Events /\ t \in live /\ ~st[t].paused
    /\ \/ /\ st[t].stage = "partial"
          /\ \E all \in BOOLEAN :
               st' = [st EXCEPT ![t].stage = "seed", ![t].fetched = all, ![t].dirty = TRUE]
       \/ /\ st[t].stage = "checking"
          /\ st' = [st EXCEPT ![t].stage = "seed"]
    /\ changed' = changed \cup {t}
    /\ alerts' = Append(alerts, Alert("torrent_finished", HandleOf(t)))
    /\ UNCHANGED <<live, gen, jobs, context, disk, pumping, calls, env>>

\* A piece was downloaded: there is something to save, and no alert.
Progress(t) ==
    /\ Up /\ "progress" \in Events
    /\ t \in live /\ st[t].stage = "partial" /\ ~st[t].paused /\ ~st[t].dirty
    /\ st' = [st EXCEPT ![t].dirty = TRUE]
    /\ changed' = changed \cup {t}
    /\ UNCHANGED <<live, gen, queues, context, disk, pumping, calls, env>>

\* storage_moved_alert and storage_moved_failed_alert are handled by nobody.
StorageMoved(t) ==
    /\ Up /\ t \in live /\ st[t].moving
    /\ \/ /\ st' = [st EXCEPT ![t].moving = FALSE, ![t].path = "moved", ![t].dirty = TRUE]
          /\ changed' = changed \cup {t}
       \/ /\ st' = [st EXCEPT ![t].moving = FALSE]
          /\ UNCHANGED changed
    /\ UNCHANGED <<live, gen, queues, context, disk, pumping, calls, env>>

TorrentEvent == \E t \in Torrents :
    MetadataReceived(t) \/ Finished(t) \/ Progress(t) \/ StorageMoved(t)

-----------------------------------------------------------------------------
(* Adding a torrent: the resume file is read, then the call is posted.       *)

\* add_magnet: what read_resume_data returns replaces the parameters of the
\* link even when it reports an error; save_path is kept when it is set.
MagnetParams(t) ==
    CASE resume[t].file = "none"      -> Fresh("magnet")
      [] resume[t].file = "truncated" -> Bad
      [] resume[t].file = "complete"  -> Loaded(resume[t].data)

\* add_torrent(filename): ti names the torrent whatever the resume data were.
FileParams(t) ==
    IF resume[t].file = "complete"
    THEN Loaded([resume[t].data EXCEPT !.stage = IF @ = "magnet" THEN "partial" ELSE @])
    ELSE Fresh("partial")

\* add_torrent(buffer, size, save_path): as above, into the given directory.
BufferParams(t) == [FileParams(t) EXCEPT !.data.path = "store"]

BeginAdd(a, t, p) == call' = [call EXCEPT ![a] = [op |-> "add", t |-> t, params |-> p]]

\* ses_->async_add_torrent; scan_dir then removes the file from the directory.
PostAdd(a) ==
    /\ Up /\ call[a].op = "add"
    /\ jobs' = Append(jobs, [type |-> "add", t |-> call[a].t, params |-> call[a].params])
    /\ watch' = IF a = "pump" THEN watch \ {call[a].t} ELSE watch
    /\ call' = [call EXCEPT ![a] = Idle]
    /\ UNCHANGED <<ltvars, alerts, context, resume, spoiled, pumping, toLoad, env>>

-----------------------------------------------------------------------------
(* HTTP workers *)

\* ioc.run() serves requests until the pump has left its loop and stopped ioc.
Serving(w) == proc = "running" /\ pump # "exit" /\ call[w] = Idle

Request(w, op) == /\ Serving(w) /\ op \in Ops /\ requests < MaxRequests
                  /\ requests' = requests + 1

PostMagnet(w, t) ==
    /\ Request(w, "magnet")
    /\ BeginAdd(w, t, MagnetParams(t))
    /\ UNCHANGED <<ltvars, queues, context, disk, pumping, toLoad, proc, quit, runs, dropped>>

PostMetainfo(w, t) ==
    /\ Request(w, "metainfo")
    /\ BeginAdd(w, t, BufferParams(t))
    /\ UNCHANGED <<ltvars, queues, context, disk, pumping, toLoad, proc, quit, runs, dropped>>

\* drop_torrent first deletes the resume file ...
DropFile(w, t) ==
    /\ Request(w, "drop")
    /\ resume' = [resume EXCEPT ![t] = NoFile]
    /\ dropped' = dropped \cup {t}
    /\ call' = [call EXCEPT ![w] = [op |-> "drop", t |-> t]]
    /\ UNCHANGED <<ltvars, queues, context, watch, spoiled, pumping, toLoad, proc, quit, runs>>

\* ... then looks the torrent up, and removes it when there is one.
DropFind(w) ==
    /\ Up /\ call[w].op = "drop"
    /\ jobs = <<>>
    /\ LET t == call[w].t
       IN  call' = [call EXCEPT ![w] = IF t \in live THEN [op |-> "remove", h |-> HandleOf(t)]
                                                     ELSE Idle]
    /\ UNCHANGED <<ltvars, queues, context, disk, pumping, toLoad, env>>

\* A request for a torrent that find_torrent finds: what is called on its handle.
Found(w, op, t, next) ==
    /\ Request(w, op) /\ jobs = <<>> /\ t \in live
    /\ call' = [call EXCEPT ![w] = [op |-> next, h |-> HandleOf(t)]]
    /\ UNCHANGED <<ltvars, queues, context, disk, pumping, toLoad, proc, quit, runs, dropped>>

\* Mutant of PauseResumeTorrent: is_valid is not asked.
PauseResumeTorrentUnchecked(w, t) ==
    /\ Request(w, "toggle") /\ jobs = <<>>
    /\ call' = [call EXCEPT ![w] = [op |-> "pause", h |-> HandleOf(t)]]
    /\ UNCHANGED <<ltvars, queues, context, disk, pumping, toLoad, proc, quit, runs, dropped>>

\* pause_resume_torrent: a torrent that a client paused will be resumed, any
\* other paused.
PauseResumeTorrent(w, t) ==
    Found(w, "toggle", t, IF st[t].paused THEN "unpause" ELSE "pause")

\* resume_torrent: a torrent that a client paused gets auto_managed back and
\* will be resumed; of any other the flag is inverted.
ResumeTorrent(w, t) ==
    Found(w, "start", t, IF st[t].paused THEN "unpause" ELSE "flag")

\* get_torrent with query_files
GetTorrent(w, t) == Found(w, "files", t, "files")

\* The call on the handle that was found: remove_torrent, set_flags or pause.
PostCall(w) ==
    /\ Up /\ call[w].op \in HandleOps \ {"files"}
    /\ jobs' = Append(jobs, [type |-> call[w].op, h |-> call[w].h])
    /\ call' = [call EXCEPT ![w] = Idle]
    /\ UNCHANGED <<ltvars, alerts, context, disk, pumping, toLoad, env>>

\* torrent_file() is null until there is metadata, and is dereferenced.
NoMetadata(w) ==
    call[w].op = "files" /\ IsLive(call[w].h) /\ st[call[w].h[1]].stage = "magnet"

\* file_progress, file_status, torrent_file: the files are listed.
ListFiles(w) ==
    /\ Up /\ call[w].op = "files" /\ jobs = <<>> /\ ~NoMetadata(w)
    /\ call' = [call EXCEPT ![w] = Idle]
    /\ UNCHANGED <<ltvars, queues, context, disk, pumping, toLoad, env>>

Worker(w) == PostAdd(w) \/ DropFind(w) \/ PostCall(w) \/ ListFiles(w)
Client == \E w \in Workers, t \in Torrents :
    PostMagnet(w, t) \/ PostMetainfo(w, t) \/ DropFile(w, t) \/ PauseResumeTorrent(w, t)
    \/ ResumeTorrent(w, t) \/ GetTorrent(w, t)

\* Somebody puts a .torrent file in the watch directory.
PutWatchFile(t) ==
    /\ t \notin watch /\ "watch" \in Ops /\ requests < MaxRequests
    /\ requests' = requests + 1
    /\ watch' = watch \cup {t}
    /\ UNCHANGED <<ltvars, queues, context, resume, spoiled, pumping, calls, proc, quit, runs, dropped>>

-----------------------------------------------------------------------------
(* The loader: load_resumes *)

\* Mutant of LoadFile: a file that does not parse is loaded all the same.
LoadFileUnchecked(t) ==
    /\ proc = "running" /\ t \in toLoad /\ call["loader"] = Idle
    /\ toLoad' = toLoad \ {t}
    /\ \/ /\ resume[t].file # "none"
          /\ BeginAdd("loader", t, Loaded(resume[t].data))
       \/ /\ resume[t].file = "none"
          /\ UNCHANGED call
    /\ UNCHANGED <<ltvars, queues, context, disk, pumping, env>>

\* Mutant of LoadFile: of the resume data only the name of the torrent is used.
LoadFileNameOnly(t) ==
    /\ proc = "running" /\ t \in toLoad /\ call["loader"] = Idle
    /\ toLoad' = toLoad \ {t}
    /\ \/ /\ resume[t].file = "complete"
          /\ BeginAdd("loader", t, Fresh("magnet"))
       \/ /\ resume[t].file # "complete"
          /\ UNCHANGED call
    /\ UNCHANGED <<ltvars, queues, context, disk, pumping, env>>

\* A file that is gone, or that does not parse, is skipped.
LoadFile(t) ==
    /\ proc = "running" /\ t \in toLoad /\ call["loader"] = Idle
    /\ toLoad' = toLoad \ {t}
    /\ \/ /\ resume[t].file = "complete"
          /\ BeginAdd("loader", t, Loaded(resume[t].data))
       \/ /\ resume[t].file # "complete"
          /\ UNCHANGED call
    /\ UNCHANGED <<ltvars, queues, context, disk, pumping, env>>

Loader == PostAdd("loader") \/ \E t \in Torrents : LoadFile(t)

-----------------------------------------------------------------------------
(* handle_alert, one action per branch *)

\* Mutant of NextAlert: the next alert is taken while a file is being written.
NextAlertEager(type) ==
    /\ Up /\ pump \in Popping /\ popped > 0 /\ finishing = <<>>
    /\ Head(alerts).type = type
    /\ alerts' = Tail(alerts) /\ popped' = popped - 1

NextAlert(type) ==
    /\ Up /\ pump \in Popping /\ popped > 0 /\ writing = <<>> /\ finishing = <<>>
    /\ Head(alerts).type = type
    /\ alerts' = Tail(alerts) /\ popped' = popped - 1

RequestSave(h, only) ==
    /\ jobs' = Append(jobs, Save(h, only))
    /\ num_outstanding_resume_data' = num_outstanding_resume_data + 1

OnMetadataReceived ==
    /\ NextAlert("metadata_received")
    /\ RequestSave(Head(alerts).h, FALSE)
    /\ UNCHANGED <<ltvars, m_all_handles, disk, pump, writing, finishing, temp, todo, calls, env>>

\* Mutant of OnAddTorrent: a new torrent is not saved.
OnAddTorrentUnsaved ==
    /\ NextAlert("add_torrent_error") \/ NextAlert("add_torrent")
    /\ UNCHANGED <<jobs, num_outstanding_resume_data>>
    /\ UNCHANGED <<ltvars, m_all_handles, disk, pump, writing, finishing, temp, todo, calls, env>>

OnAddTorrent ==
    /\ \/ /\ NextAlert("add_torrent_error")
          /\ UNCHANGED <<jobs, num_outstanding_resume_data>>
       \/ /\ NextAlert("add_torrent")
          /\ RequestSave(Head(alerts).h, TRUE)
    /\ UNCHANGED <<ltvars, m_all_handles, disk, pump, writing, finishing, temp, todo, calls, env>>

OnTorrentFinished ==
    /\ NextAlert("torrent_finished")
    /\ RequestSave(Head(alerts).h, FALSE)
    /\ finishing' = <<Head(alerts).h>>
    /\ UNCHANGED <<ltvars, m_all_handles, disk, pump, writing, temp, todo, calls, env>>

\* on_torrent_finished: th.status() waits for the save just requested; then a
\* torrent downloaded in full in this run is moved, unless it is there already.
MoveFinished ==
    /\ Up /\ finishing # <<>>
    /\ MovesFinished => jobs = <<>>
    /\ LET h == finishing[1]
           s == st[h[1]]
       IN  jobs' = IF MovesFinished /\ IsLive(h) /\ s.fetched /\ s.path # "moved"
                   THEN Append(jobs, [type |-> "move", h |-> h])
                   ELSE jobs
    /\ finishing' = <<>>
    /\ UNCHANGED <<ltvars, alerts, context, disk, pump, popped, writing, temp, todo, calls, env>>

\* Mutant of OnSaveResumeData: what cannot be saved is saved after the others.
OnSaveResumeDataRetried ==
    /\ Up /\ pump \in Popping /\ popped > 0 /\ writing = <<>> /\ finishing = <<>>
    /\ Head(alerts).type = "save_resume_data" /\ popped' = popped - 1
    /\ LET t == Head(alerts).h[1]
       IN  \/ /\ alerts' = Tail(alerts)
              /\ num_outstanding_resume_data' = num_outstanding_resume_data - 1
              /\ resume' = [resume EXCEPT ![t] = [file |-> "truncated", data |-> NoData]]
              /\ writing' = <<[t |-> t, data |-> Head(alerts).data]>>
           \/ /\ DiskFails
              /\ alerts' = Append(Tail(alerts), Head(alerts))
              /\ UNCHANGED <<num_outstanding_resume_data, resume, writing>>
    /\ UNCHANGED <<ltvars, jobs, m_all_handles, watch, spoiled, pump, finishing, temp, todo, calls, env>>

\* save_file truncates the file, or cannot open it ...
OnSaveResumeData ==
    /\ NextAlert("save_resume_data")
    /\ num_outstanding_resume_data' = num_outstanding_resume_data - 1
    /\ LET t == Head(alerts).h[1]
       IN  \/ /\ resume' = [resume EXCEPT ![t] = [file |-> "truncated", data |-> NoData]]
              /\ writing' = <<[t |-> t, data |-> Head(alerts).data]>>
              /\ UNCHANGED spoiled
           \/ /\ DiskFails
              /\ spoiled' = spoiled \cup {t}
              /\ UNCHANGED <<resume, writing>>
    /\ UNCHANGED <<ltvars, jobs, m_all_handles, watch, pump, finishing, temp, todo, calls, env>>

\* ... and then writes it, in full or not; a file deleted in between stays
\* deleted.  handle_alert does not look at what save_file returns.
WriteFile ==
    /\ Up /\ writing # <<>>
    /\ LET t == writing[1].t
       IN  \/ /\ resume' = IF resume[t].file = "truncated"
                           THEN [resume EXCEPT ![t] = [file |-> "complete", data |-> writing[1].data]]
                           ELSE resume
              /\ spoiled' = spoiled \ {t}
           \/ /\ DiskFails
              /\ spoiled' = spoiled \cup {t}
              /\ UNCHANGED resume
    /\ writing' = <<>>
    /\ UNCHANGED <<ltvars, queues, context, watch, pump, popped, finishing, temp, todo, calls, env>>

\* Mutant of OnSaveResumeDataFailed: only a success counts as a response.
OnSaveResumeDataFailedUncounted ==
    /\ NextAlert("save_resume_data_failed")
    /\ UNCHANGED num_outstanding_resume_data
    /\ UNCHANGED <<ltvars, jobs, m_all_handles, disk, pump, writing, finishing, temp, todo, calls, env>>

OnSaveResumeDataFailed ==
    /\ NextAlert("save_resume_data_failed")
    /\ num_outstanding_resume_data' = num_outstanding_resume_data - 1
    /\ UNCHANGED <<ltvars, jobs, m_all_handles, disk, pump, writing, finishing, temp, todo, calls, env>>

OnTorrentPaused ==
    /\ NextAlert("torrent_paused")
    /\ RequestSave(Head(alerts).h, FALSE)
    /\ UNCHANGED <<ltvars, m_all_handles, disk, pump, writing, finishing, temp, todo, calls, env>>

\* Mutant of OnStateUpdate: emplace without the branch for a known handle.
OnStateUpdateAddOnly ==
    /\ NextAlert("state_update")
    /\ LET s == Head(alerts).status
       IN  m_all_handles' = m_all_handles \cup {e \in s : e.h \notin Keys(m_all_handles)}
    /\ UNCHANGED <<ltvars, jobs, num_outstanding_resume_data, disk, pump, writing, finishing,
                   temp, todo, calls, env>>

\* set_all_torrents
OnStateUpdate ==
    /\ NextAlert("state_update")
    /\ LET s == Head(alerts).status
       IN  m_all_handles' = {e \in m_all_handles : e.h \notin Keys(s)} \cup s
    /\ UNCHANGED <<ltvars, jobs, num_outstanding_resume_data, disk, pump, writing, finishing,
                   temp, todo, calls, env>>

\* Mutant of OnTorrentRemoved: only an entry of the present torrent is erased.
OnTorrentRemovedIfLive ==
    /\ NextAlert("torrent_removed")
    /\ m_all_handles' = {e \in m_all_handles : ~(e.h = Head(alerts).h /\ e.h[1] \in live)}
    /\ UNCHANGED <<ltvars, jobs, num_outstanding_resume_data, disk, pump, writing, finishing,
                   temp, todo, calls, env>>

\* remove_torrent_with_handle
OnTorrentRemoved ==
    /\ NextAlert("torrent_removed")
    /\ m_all_handles' = {e \in m_all_handles : e.h # Head(alerts).h}
    /\ UNCHANGED <<ltvars, jobs, num_outstanding_resume_data, disk, pump, writing, finishing,
                   temp, todo, calls, env>>

HandleAlert ==
    \/ OnMetadataReceived \/ OnAddTorrent \/ OnTorrentFinished \/ MoveFinished
    \/ OnSaveResumeData \/ WriteFile \/ OnSaveResumeDataFailed \/ OnTorrentPaused
    \/ OnStateUpdate \/ OnTorrentRemoved

-----------------------------------------------------------------------------
(* The pump: while (!quit) doLoop(); ioc.stop() *)

PostUpdates ==
    /\ proc = "running" /\ pump = "top" /\ ~quit
    /\ NumOf(jobs, {"update"}) < MaxUpdates
    /\ jobs' = Append(jobs, [type |-> "update"])
    /\ pump' = "sleep"
    /\ UNCHANGED <<ltvars, alerts, context, disk, popped, writing, finishing, temp, todo, calls, env>>

\* Mutant of PopAlerts: the loop runs one step too far.
PopAlertsTooFar ==
    /\ proc = "running" /\ pump = "sleep"
    /\ popped' = Len(alerts) + 1
    /\ pump' = "pop"
    /\ UNCHANGED <<ltvars, queues, context, disk, writing, finishing, temp, todo, calls, env>>

\* pop_alerts takes the alerts posted until now.
PopAlerts ==
    /\ proc = "running" /\ pump = "sleep"
    /\ popped' = Len(alerts)
    /\ pump' = "pop"
    /\ UNCHANGED <<ltvars, queues, context, disk, writing, finishing, temp, todo, calls, env>>

\* After the batch doLoop scans the watch directory or it is not time yet.
AfterPop == [pop |-> {"top", "scan"}, request_pop |-> {"request"}, wait_pop |-> {"wait"}]

EndPop ==
    /\ Up /\ pump \in Popping /\ popped = 0 /\ writing = <<>> /\ finishing = <<>>
    /\ pump' \in AfterPop[pump]
    /\ UNCHANGED <<ltvars, queues, context, disk, popped, writing, finishing, temp, todo, calls, env>>

ScanFile(t) ==
    /\ proc = "running" /\ pump = "scan" /\ call["pump"] = Idle /\ t \in watch
    /\ BeginAdd("pump", t, FileParams(t))
    /\ UNCHANGED <<ltvars, queues, context, disk, pumping, toLoad, env>>

EndScan ==
    /\ proc = "running" /\ pump = "scan" /\ call["pump"] = Idle /\ watch = {}
    /\ pump' = "top"
    /\ UNCHANGED <<ltvars, queues, context, disk, popped, writing, finishing, temp, todo, calls, env>>

PumpExit ==
    /\ proc = "running" /\ pump = "top" /\ quit
    /\ pump' = "exit"
    /\ UNCHANGED <<ltvars, queues, context, disk, popped, writing, finishing, temp, todo, calls, env>>

Pump == PostUpdates \/ PopAlerts \/ EndPop \/ PostAdd("pump")
        \/ (\E t \in Torrents : ScanFile(t)) \/ EndScan \/ PumpExit

-----------------------------------------------------------------------------
(* The end of main: all threads are joined, then ~sheath runs end().         *)

BeginEnd ==
    /\ proc = "running" /\ pump = "exit"
    /\ toLoad = {} /\ \A a \in Actors : call[a] = Idle
    /\ jobs = <<>>
    /\ proc' = "ending" /\ pump' = "request"
    /\ temp' = {t \in live : st[t].stage # "magnet" /\ st[t].dirty}
    /\ todo' = temp'
    /\ UNCHANGED <<ltvars, queues, context, disk, popped, writing, finishing, calls,
                   quit, runs, requests, dropped>>

\* Mutant of RequestOne: the request is not counted.
RequestOneUncounted(t) ==
    /\ proc = "ending" /\ pump = "request" /\ t \in todo
    /\ jobs' = Append(jobs, Save(HandleOf(t), FALSE))
    /\ todo' = todo \ {t}
    /\ \/ /\ Cardinality(temp \ todo') % Chunk = 0
          /\ pump' = "request_pop" /\ popped' = Len(alerts)
       \/ /\ Cardinality(temp \ todo') % Chunk # 0
          /\ UNCHANGED <<pump, popped>>
    /\ UNCHANGED <<ltvars, alerts, context, disk, writing, finishing, temp, calls, env>>

RequestOne(t) ==
    /\ proc = "ending" /\ pump = "request" /\ t \in todo
    /\ RequestSave(HandleOf(t), FALSE)
    /\ todo' = todo \ {t}
    /\ \/ /\ Cardinality(temp \ todo') % Chunk = 0
          /\ pump' = "request_pop" /\ popped' = Len(alerts)
       \/ /\ Cardinality(temp \ todo') % Chunk # 0
          /\ UNCHANGED <<pump, popped>>
    /\ UNCHANGED <<ltvars, alerts, m_all_handles, disk, writing, finishing, temp, calls, env>>

EndRequests ==
    /\ proc = "ending" /\ pump = "request" /\ todo = {}
    /\ pump' = "wait"
    /\ UNCHANGED <<ltvars, queues, context, disk, popped, writing, finishing, temp, todo, calls, env>>

\* while (num_outstanding_resume_data > 0) wait_for_alert, pop_alerts
WaitForAlert ==
    /\ proc = "ending" /\ pump = "wait"
    /\ num_outstanding_resume_data > 0 /\ alerts # <<>>
    /\ pump' = "wait_pop" /\ popped' = Len(alerts)
    /\ UNCHANGED <<ltvars, queues, context, disk, writing, finishing, temp, todo, calls, env>>

\* Mutant of WaitDone: the loop ends with a request outstanding.
WaitDoneEarly ==
    /\ proc = "ending" /\ pump = "wait"
    /\ num_outstanding_resume_data <= 1
    /\ pump' = "session"
    /\ UNCHANGED <<ltvars, queues, context, disk, popped, writing, finishing, temp, todo, calls, env>>

WaitDone ==
    /\ proc = "ending" /\ pump = "wait"
    /\ num_outstanding_resume_data <= 0
    /\ pump' = "session"
    /\ UNCHANGED <<ltvars, queues, context, disk, popped, writing, finishing, temp, todo, calls, env>>

\* save_session; then the session is destroyed and the process exits.
SaveSession ==
    /\ proc = "ending" /\ pump = "session"
    /\ proc' = "stopped" /\ pump' = "exit"
    /\ UNCHANGED <<ltvars, queues, context, disk, popped, writing, finishing, temp, todo, calls,
                   quit, runs, requests, dropped>>

End == BeginEnd \/ (\E t \in Torrents : RequestOne(t)) \/ EndRequests
       \/ WaitForAlert \/ WaitDone \/ SaveSession

-----------------------------------------------------------------------------
(* Environment *)

\* SIGINT or SIGTERM
Signal ==
    /\ proc = "running" /\ ~quit
    /\ quit' = TRUE
    /\ UNCHANGED <<ltvars, queues, context, disk, pumping, calls, proc, runs, requests, dropped>>

\* What a new process does not have.
Forget ==
    /\ live' = {} /\ gen' = [t \in Torrents |-> 0]
    /\ st' = [t \in Torrents |-> Blank] /\ changed' = {}
    /\ jobs' = <<>> /\ alerts' = <<>>
    /\ num_outstanding_resume_data' = 0 /\ m_all_handles' = {}
    /\ popped' = 0 /\ writing' = <<>> /\ finishing' = <<>>
    /\ temp' = {} /\ todo' = {}
    /\ call' = [a \in Actors |-> Idle] /\ quit' = FALSE

Start ==
    /\ proc \in {"stopped", "down"} /\ runs < MaxRuns
    /\ Forget
    /\ proc' = "running" /\ pump' = "top" /\ toLoad' = Torrents
    /\ runs' = runs + 1
    /\ UNCHANGED <<disk, requests, dropped>>

\* The process dies.
Die ==
    /\ Forget
    /\ proc' = "down" /\ pump' = "exit" /\ toLoad' = {}
    /\ UNCHANGED <<disk, runs, requests, dropped>>

\* It is killed.
Crash == MayCrash /\ Up /\ Die

\* The handles whose torrent a thread is about to call: a worker that found it,
\* handle_alert for the alerts it answers with a call, on_torrent_finished.
Called ==
    {call[w].h : w \in {v \in Workers : call[v].op \in HandleOps}}
    \cup (IF /\ pump \in Popping /\ popped > 0 /\ writing = <<>> /\ finishing = <<>>
             /\ Head(alerts).type \in Answered
          THEN {Head(alerts).h} ELSE {})
    \cup (IF MovesFinished /\ finishing # <<>> THEN {finishing[1]} ELSE {})

\* A call on the handle of a torrent that is gone throws, unless some operation
\* of libtorrent still keeps the object, and no thread catches it; nor is
\* anything between a null torrent_file() and its use.
Abort == /\ Up
         /\ \/ \E h \in Called : ~IsLive(h)
            \/ jobs = <<>> /\ \E w \in Workers : NoMetadata(w)
         /\ Die

Environment == Client \/ TorrentEvent \/ (\E t \in Torrents : PutWatchFile(t))
               \/ Signal \/ Start \/ Crash

Next == RunJob \/ (\E w \in Workers : Worker(w)) \/ Loader \/ HandleAlert \/ Pump \/ End
        \/ Abort \/ Environment

\* Every thread that can run does: libtorrent's, the io threads inside a
\* handler, the loader and the pump.  Nothing is assumed of the environment.
Fairness == /\ WF_vars(RunJob)
            /\ \A w \in Workers : WF_vars(Worker(w) \/ (NoMetadata(w) /\ Abort))
            /\ WF_vars(Loader)
            /\ WF_vars(HandleAlert \/ Pump \/ End)

Spec == Init /\ [][Next]_vars /\ Fairness

-----------------------------------------------------------------------------
(* Properties *)

\* num_outstanding_resume_data is what its comment says: the number of save
\* requests that have no response yet.  A request is still with libtorrent
\* (jobs) or answered by an alert that handle_alert has not taken.
OutstandingExact ==
    num_outstanding_resume_data =
        NumOf(jobs, SaveRequest) + NumOf(alerts, SaveResponses)

\* When end() has returned, no resume data is on its way: nothing libtorrent was
\* asked to save was left unwritten in a queue of the destroyed session.
ShutdownDrained ==
    proc = "stopped" => /\ NumOf(jobs, SaveRequest) = 0
                        /\ NumOf(alerts, SaveResponses) = 0
                        /\ writing = <<>>

\* What save_all_resume found unsaved is on disk when end() has returned, and it
\* has its metadata: no concurrent pop, request or write loses one of them, only
\* a save_file that failed.
SnapshotSaved ==
    proc = "stopped" =>
        \A t \in temp \ spoiled : resume[t].file = "complete" /\ resume[t].data.stage # "magnet"

\* The resume data of t is on its way to its file.
InFlight(t) == \/ \E i \in 1 .. Len(alerts) : /\ alerts[i].type = "save_resume_data"
                                             /\ alerts[i].h[1] = t
               \/ \E i \in 1 .. Len(writing) : writing[i].t = t

\* need_save_resume cleared means saved: a torrent that no client removed, with
\* nothing to save and no save in flight, has a complete resume file, which
\* says whether it is complete and, once its files were moved, where they are.
\* Saves, crashes, reloads and re-additions may come in any order.  Only a
\* save_file that failed, which handle_alert ignores, leaves it without one, and
\* until the next save at the latest.
CleanIsDurable ==
    \A t \in live \ (dropped \cup spoiled) :
        (Up /\ ~st[t].dirty /\ ~InFlight(t)) =>
            /\ resume[t].file = "complete"
            /\ (resume[t].data.stage = "seed") = (st[t].stage \in {"checking", "seed"})
            /\ st[t].path = "moved" => resume[t].data.path = "moved"

\* The handle of a torrent that is gone is called, by a worker after its
\* find_torrent or by the pump for an alert that waited, only when a client
\* removed the torrent: nothing else turns a handle into an exception.
AbortNeedsRemoval == Up => \A h \in Called : IsLive(h) \/ h[1] \in dropped

Updates(h) == {i \in 1 .. Len(alerts) : alerts[i].type = "state_update"
                                         /\ h \in Keys(alerts[i].status)}

Removal(h) == {i \in 1 .. Len(alerts) : alerts[i].type = "torrent_removed"
                                         /\ alerts[i].h = h}

\* How much of a torrent there is at a stage.
Amount == [magnet |-> 1, partial |-> 2, checking |-> 3, seed |-> 3]

BeingWritten(t) == writing # <<>> /\ writing[1].t = t

\* The torrents and their resume files as Store sees them.
Got == [t \in Torrents |-> IF t \in live THEN Amount[st[t].stage] ELSE 0]
FileState(t) ==
    CASE resume[t].file = "none"      -> "none"
      [] resume[t].file = "complete"  -> "whole"
      [] resume[t].file = "truncated" -> IF BeingWritten(t) THEN "open" ELSE "torn"
FileStates == [t \in Torrents |-> FileState(t)]
Holds == [t \in Torrents |->
    IF resume[t].file = "complete" THEN Amount[resume[t].data.stage] ELSE 0]

Durable == INSTANCE Store WITH
    up <- Up, got <- Got, file <- FileStates, holds <- Holds, erased <- dropped

\* The torrent manager implements Store: alerts, jobs, threads and crashes
\* never tear, delete or overstate a resume file, nor load a torrent as less
\* than its file says, except as Store allows.
KeepsStore == Durable!Spec

\* What is saved never goes back: unless a client removed the torrent, the resume
\* data for which save_file truncates a complete file says at least as much of
\* the torrent as the file did.  Several saves may be queued, answered while the
\* torrent advances and written late; the file may be of an earlier run, read
\* before a crash and overtaken by additions from other threads.
NeverRegresses ==
    [][\A t \in Torrents \ dropped' :
          resume[t].file = "complete" /\ resume'[t].file = "truncated" =>
              Amount[resume[t].data.stage] <= Amount[writing'[1].data.stage]]_vars

\* m_all_handles never keeps a torrent for good: an entry, or an update that
\* will make one, is of a torrent of the session or its removal is still to be
\* handled, after the update.
MirrorSound ==
    /\ \A h \in Keys(m_all_handles) : IsLive(h) \/ Removal(h) # {}
    /\ \A i \in 1 .. Len(alerts) : alerts[i].type = "state_update" =>
          \A h \in Keys(alerts[i].status) : IsLive(h) \/ \E j \in Removal(h) : j > i

\* m_all_handles misses nothing: for a torrent whose status libtorrent has
\* reported since it last changed, the last report on its way, or else the
\* entry, is its present status.
MirrorFresh ==
    \A t \in live \ changed :
        LET h == HandleOf(t)
            U == Updates(h)
        IN  IF U = {}
            THEN Entry(h, st[t]) \in m_all_handles
            ELSE \E i \in U : (\A j \in U : j <= i) /\ Entry(h, st[t]) \in alerts[i].status

\* A signal ends the program: no wait of end() is for ever.
ShutdownTerminates == quit ~> proc \in {"stopped", "down"}

\* A torrent of the session gets its resume file without anybody asking for it,
\* unless it is removed, save_file fails or the program ends first.
NewTorrentPersisted ==
    \A t \in Torrents :
        (t \in live \ dropped) ~>
            (\/ resume[t].file = "complete" \/ t \in dropped \/ t \in spoiled
             \/ quit \/ proc # "running")

Quiet == Up /\ jobs = <<>> /\ alerts = <<>> /\ writing = <<>>
         /\ finishing = <<>> /\ \A a \in Actors : call[a] = Idle

\* drop_torrent: "also delete the resume file".  Once a removed torrent is gone
\* and nothing is in flight, it has no resume file to come back from.
DroppedLeavesNoResume ==
    Quiet => \A t \in dropped \ live : resume[t].file = "none"

\* "to perform a clean shutdown": every torrent of the session that no client
\* removed comes back at the next start.
StoppedKeepsTorrents ==
    proc = "stopped" => \A t \in live \ dropped : resume[t].file = "complete"

=============================================================================
