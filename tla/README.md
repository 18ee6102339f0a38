# A TLA+ verification of kedge

kedge is a small BitTorrent daemon: libtorrent downloads and seeds, an HTTP API
controls it, and a websocket (`/api/sync`) keeps browsers up to date with JSON
patches.  Torrents survive a restart because kedge keeps one *resume file* per
torrent.  This directory models the parts of it where threads, callbacks and the
disk meet, checks them with TLC and proves with TLAPS every safety property that is not
about a recursive definition.
`PROJECT.json` is the index: which definition stands for which lines of the source,
which run checks which property, what the findings and the open hazards are.

## 1. Inventory

| Component | Source | State | Operations |
|---|---|---|---|
| torrent manager | `src/src/sheath.cpp`, `src/include/sheath.hpp` | `num_outstanding_resume_data`, `m_all_handles`, the libtorrent session | `add_magnet`, `add_torrent` (two forms), `load_resumes`, `scan_dir`, `drop_torrent`, `pause_resume_torrent`, `resume_torrent`, `handle_alert`, `pop_alerts`, `doLoop`, `save_all_resume`, `end`, read-only queries |
| resume files, watch directory | `src/src/sheath.cpp`, `src/src/util.cpp` | `<info-hash>.resume`, `*.torrent` | `load_file`, `save_file`, removal |
| process and threads | `src/src/main.cpp` | `quit`, the threads | start, signal, `ioc.stop`, joins, destruction |
| sync hub | `src/src/handlers.cpp`, `src/include/handlers.hpp` | `sessions_`, `mutex_`, `sync_ver`, `curr_stats`, `prev_stats` | `join`, `leave`, `broadcast`, `closeWS`, `doLoop` |
| websocket sessions | `src/src/http_websocket.cpp` | `queue_`, `closed`, outstanding operations, reference count | `run`, `on_accept`, `on_read`, `send`/`on_send`, `on_write`, `close`, destructor |
| JSON diff | `src/include/json_diff.hpp` | none | `json_diff` |
| listener, HTTP sessions | `src/src/listener.cpp`, `src/src/http_session.cpp` | the parser, one request at a time | accept, read, write, close, upgrade |
| routing and responses | `src/src/handlers.cpp` | none | `sbCall`, `handleTorrents`, `handleTorrent`, `make_resp` |
| statistics | `src/include/session_values.hpp` | two samples of the counters and their times | `updateCounters`, `getSessionStats` |
| options | `src/include/option.hpp` | settings | parse, defaults |
| utilities, logging | `src/src/util.cpp`, `src/include/log.hpp` | none | hex, ports, directories |

**How they interact.**  Five kinds of thread run: the *pump* (`shth_loader`), which
asks libtorrent for status updates, takes its alerts and scans the watch directory;
the *loader* (`ctx_start_loader`), which reads the resume files once; the *io threads*
in `ioc.run()`, which serve HTTP and websockets; the *caller loop* (`caller_loader`),
which broadcasts a delta every second; and libtorrent's network thread.  Calls on
libtorrent are posted to its thread and answered by alerts; a synchronous call
(`find_torrent`, `status`, `get_torrent_status`) waits for what was posted before it.
The sync hub is shared by the io threads, the caller loop and, at the end, main; its
mutex protects the list of sessions, but not `curr_stats`.

**What is hard.**  Requests for resume data and their responses pass through two
queues, and the torrent may be removed or re-added meanwhile; a clean shutdown waits
for all of them.  `save_file` truncates and then writes, and the process may die in
between.  A websocket session has no owner: it lives as long as an asynchronous
operation refers to it, while the hub has raw pointers to it.  A joining client must
not miss or repeat a delta.  The statistics are written by the pump and read by the
other threads with no lock, from time stamps that are not initialised.

**What makes a component correct.**

* *torrent manager*: what is not unsaved is on disk, and never replaced by less; a new
  torrent gets its file; the count of outstanding saves is exact; shutdown ends, and only when all saves are
  written; a removed torrent stays removed; the mirror `m_all_handles` is sound and
  up to date.
* *sync hub and sessions*: no pointer to a freed session is followed; one write at a
  time; the full document comes first and every patch fits the document it reaches;
  nobody misses a round or is taken back in time; what is sent is written; closing neither hangs nor aborts.
* *JSON diff*: the patch applied to the source is the target.
* *listener and HTTP sessions*: answers stay in step with requests, however far ahead a
  client sends; a connection is accepted; none is held for ever by a silent client.
* *routing*: the answers are those of the API list of the repository's README.
* *statistics*: a rate is the average between two samples that were taken.

## 2. Modules

| Module | Models | Proofs | Instances |
|---|---|---|---|
| `Sheath` | torrent manager, resume files, watch directory, the threads around them, libtorrent as an external service | `SheathProofs`, `SheathHandleProofs`, `SheathSaveProofs` | `MCSheath` |
| `Store` | what the torrent manager promises of its resume files (abstract) | `SheathStoreProofs` | through `Sheath` |
| `Sync` | sync hub, websocket sessions, the end of main | `SyncProofs`, `SyncPatchProofs` | `MCSync` |
| `JsonDiff` | `json_diff` and a client that applies patches | none: recursive | `MCJsonDiff` |
| `Routing` | from requests to responses; the API list of the README | `HttpServerProofs` | through `HttpServer` |
| `HttpServer` | listener, HTTP sessions, the session toggle (extends `Routing`) | `HttpServerProofs` | `MCHttp` |
| `SessionValues` | the counters, their time stamps and the rates | `SessionValuesProofs` | itself (`MCStats.cfg`) |

### Sheath

*State.*  `live`, `gen`, `st`, `changed`, `jobs` and `alerts` are libtorrent, modelled
from how kedge uses it: its torrents, their status, its queue of posted calls and its
queue of alerts.  A torrent is its info-hash; `<<t, g>>` is the handle of its `g`-th
addition in this run, because a handle outlives its torrent and `m_all_handles` is
keyed by handle.  `resume` and `watch` are the disk.  `pump`, `popped`, `writing`,
`finishing`, `call`, `toLoad`, `temp` and `todo` say where each thread is.

*Data.*  Of resume data only the stage (a magnet link without metadata, partial,
complete) and the directory are kept; of a status also `need_save_resume` (`dirty`),
whether all was downloaded in this run, and whether it is paused or being moved.  A
resume file is absent, truncated or complete.

*Actions.*  `AddJob` ... `UpdateJob` are libtorrent running a posted call, `MetadataReceived`, `Finished`, `Progress`, `StorageMoved` its own events.  A request is split
where another thread can get in: `PostMagnet`/`PostMetainfo` read the resume file and
`PostAdd` posts; `DropFile` removes the resume file, `DropFind` looks the torrent up,
`PostCall` removes it.  `OnMetadataReceived` ... `OnTorrentRemoved` are the branches of
`handle_alert`; `OnSaveResumeData` truncates the file and `WriteFile` writes it.  `Pump`
is `doLoop`; `End` is the destructor: `BeginEnd` takes the snapshot of
`save_all_resume`, `RequestOne` asks for one torrent and drains the alerts every `Chunk`
requests, `WaitForAlert`/`WaitDone` are the final loop.  `Start` and `Crash` begin and end
processes; only the disk outlives them.

*Failures.*  A handle of a destroyed torrent throws when it is called, in whatever thread
that is, and nothing in kedge catches it.  `Called` is the set of handles some thread is
about to call; when one of them is of a dead torrent, either the call gets through,
because an operation of libtorrent still keeps the object, and is answered by a failure,
or the process ends (`Abort`).  `Abort` is also what becomes of listing the files of a magnet
link without metadata (`NoMetadata`).  With `DiskFails`, `save_file` may fail to open the file
or to write it; `handle_alert` ignores that, and the history variable `spoiled` remembers it.

### Store

The promise that `Sheath` keeps, in five variables: is the program up, how much of each
torrent the session has (nothing, its name, its metadata, all of it), the state of each
resume file, how much a whole file holds, and which torrents clients removed.  One file is
written at a time; it never claims more than the torrent had; a torrent is never added
with less than its whole file holds; a file is torn only by a death of the process or a
failing disk, never by a shutdown; only a client deletes one.  `Durable` in `Sheath` is the
instance with the refinement mapping (`Got` of `live` and `st` is `got`; `FileStates` makes a
truncated file "open" while the pump writes it and "torn" otherwise; `Holds` is what the whole
files hold), and `KeepsStore` says that
every behaviour of `Sheath` is one of `Store`.

### Sync

*State.*  The variables of `httpCaller`; for each session whether it exists (`life`), its
outstanding accept, read and close operations (`ops`), its outstanding writes (`writes`,
a number, so that two at a time can be told from one), the `on_send` calls posted to its
strand, `queue_` and `closed`; for each thread where it is (`pc`, `main`).  A sync document
is the number of the state of the world it was taken from: a delta from `a` to `b` turns
`a` into `b` and spoils any other document, and a delta from null replaces it.

*Actions.*  Handlers of one session run one at a time (the strand) and start only while
`ioc` runs; `join` is split at its reads and writes of `curr_stats` and, when it finds
null there, between asking `getSyncStats` (`JoinQuery`, which keeps the `answer`) and
assigning what it returned (`JoinStore`), so that an old state may replace a newer one that
the caller loop has assigned meanwhile; `broadcast` is split at the
unlocking of the mutex and at each send.  The unguarded assignment to `curr_stats` in
`doLoop` takes two steps (`CallerStats`, which also asks for the state, and `CallerAssign`);
whoever reads it in between reads `Torn`.  `Referenced(s)` is the reference count being positive; `Leave` is the destructor,
which waits for the mutex.  `StopIoc`, `BeginClose`, `CloseOne`, `EndClose`, `DestroyIoc` and
`Return` are the end of main.  A write that fails (`OnWriteError`) leaves the message in
`queue_`; `failed` remembers the session.

### JsonDiff

`json_diff` is translated as a recursive operator on JSON values (scalars, arrays,
objects), its loops as sequences; the second increment of the index in the loop over new
array elements is kept.  `ApplyPatch` is RFC 6902, and `Round` sends one patch.

### Routing and HttpServer

`Routing` is `handle_request` and what it calls as one operator: a request (method, kind of
target, keep-alive) and an outcome (is there such a torrent, was the addition accepted, can
the file be opened) give a status, whether a body follows the header, and whether the
connection is kept.  `Apis` is the list in `src/README.md`.

`HttpServer` has one session per connection; `sess[c]` says which operation is outstanding
or which handler is running.  At most `Threads` handlers run at a time.  `timer` is the
timer of the stream: `do_read` arms it, it covers the read and the write that follows, and
`OnError` ends the session when it has expired.  The client's side is modelled too, since
the properties are about it: what it has yet to send, what is on its way (`inbox`), and
which answers it waits for (`asked`).  `toggle_pause_resume` takes three steps, as it makes
three calls into libtorrent.  An upgraded connection continues as a session of `Sync`.

### SessionValues

`updateCounters` in the four assignments a reader can see apart, `getSessionStats` in its
two reads.  A set of counters is the number of its sample, so that a rate is known by the
two samples it subtracts and the time it divides by.  The constructor leaves `m_timestamp`
uninitialised: `Init` lets both stamps be any number of `Width` bits.  Subtraction is modulo
2^`Width`, as it is of `std::uint64_t`.  `WidthAssumption` says that the clock and the window
together stay below 2^`Width`, which 64 bits of microseconds do for half a million years.

## 3. Runs

All runs set `CHECK_DEADLOCK FALSE` except those of `JsonDiff`: kedge stops after a
signal, and a process that has used up the starts and requests of the instance has
nothing left to do.

| Run | Checks | Bounds |
|---|---|---|
| `sheath_race` | `TypeOK`, `OutstandingExact`, `MirrorSound`, `AbortNeedsRemoval` | one torrent, two io threads (interchangeable), three requests of any kind but a forced start |
| `sheath_restart` | `CleanIsDurable`, `MirrorFresh`, `KeepsStore`, `NeverRegresses` | one torrent, one request or watched file, every event, a failing disk, three starts, crashes anywhere |
| `sheath_live` | `ShutdownDrained`, `SnapshotSaved`, `KeepsStore`, `ShutdownTerminates`, `NewTorrentPersisted` | two torrents, added, dropped and force-started by two requests, chunks of two, a failing disk |
| `sync_order` | `FullComesFirst`, `PatchesFit`, `UpToDate`, `NeverBackwards` | two sessions, three states of the world, rounds while the version is below five |
| `sync_live` | `TypeOK`, `SessionsExist`, `WriteExclusive`, `FailedIsSilent`, `MainEnds`, `SentIsWritten` | one session, every failure, rounds while the version is below three, a message, shutdown |
| `json_diff` | `PatchReproduces` | documents of up to three torrents with one optional member of two kinds |
| `http` | `TypeOK`, `InStep`, `AsDocumented`, `TogglesCount`, `Served`, `ConnectionsEnd` | two connections, two io threads; one client sends any one request alone, or two at once while another toggles or upgrades |
| `stats` | `TypeOK`, `RateIsAverage`, `WindowBounded`, `WarmsUp` | eight instants, stamps of four bits with any initial value, a window of two |

*Why these bounds are enough to be interesting.*  A race on one torrent needs two
actors that handle the same info-hash and a third that answers: with one torrent, two
workers and three requests a torrent is added, removed and added again while saves of
its first life are under way.  Two torrents are what it takes for the write of one file
to meet another.  Three starts are a crash, a restart on what the crash
left and a restart on what that run made of it.  Chunked requests differ from single
ones only with two torrents.  Two sessions are what a session and "all others" need, and
three states of the world what two patches in a row need; five versions are two joins and
three rounds, of which the first patches from null and fits anything.  What one session
does to itself needs no second; what two do to each other is in `sync_order` and
in the proofs, which hold for any number.  Broadcasts by
clients are in `sync_live`, and in the proof of `FullComesFirst`.  No session leaves or fails
in `sync_order`: that `PatchesFit`, `UpToDate` and `NeverBackwards` hold then, too, is what their
proofs add, with any set of `Faults`.  Three torrents of
which none or one is new cover every combination of the element, removal and addition
loops.  Requests are answered independently of each other except through the buffer of their
connection and the pause of the session: two in a row on one connection, and a toggle on
another, meet both.  Eight instants hold a stamp in the past, between samples and in the
future, and four updates more than a window apart.  `Chunk` is 32 in the code, the number of torrents has no bound; the proofs below
need no bound.

*Fairness.*  `Sheath`: libtorrent's thread, every io thread inside a handler, the loader
and the pump (which becomes main in `End`) are weakly fair: each is a thread that is never
blocked by something outside the model.  Requests, torrents' events, signals and
crashes are not.  `Sync`: a strand goes on with a handler that has started, posted
handlers run, a handshake and a write end one way or the other because
`websocket::stream_base::timeout` is set, a destructor that can take the mutex does, and
the caller loop, the pump's `ioc.stop()` and main run on.  A client need not send, close
or upgrade, and reads need not end.  That a write ends rests on the idle timeout of the
websocket, which a client that goes on sending and never reads can postpone:
`SentIsWritten` is about clients that do not.  `HttpServer`: an io thread that is free runs what is
ready, a handler that has started goes on, and 30 seconds pass.  Nothing makes a client
send, close or read what it is sent, so the completion of a write is not fair: that
connections end all the same is what the timer is for.

### Runs that disagree with what the repository says

Each checks one property that a comment or the README states and TLC refutes it; the
findings of `PROJECT.json` quote the line.

| Run | Property | What happens |
|---|---|---|
| `sheath_dropped` | `DroppedLeavesNoResume` | A save that was requested before a drop writes the resume file again after `drop_torrent` deleted it; the torrent comes back at the next start. |
| `sheath_kept` | `StoppedKeepsTorrents` | `save_all_resume` skips torrents without metadata, so a magnet link whose `add_torrent_alert` was not handled before the signal is lost by a clean shutdown. |
| `sync_close` | `CloseIsClean` | `closeWS` calls `shared_from_this` on a session whose destructor waits for the mutex `closeWS` holds; `bad_weak_ptr` ends the process before resume data are saved. |
| `json_diff_grow` | `PatchReproduces` | Of two torrents that appear in one round only the first reaches the client. |

The passing `json_diff` run shows what remains true next to the last finding: patches
are right whenever at most one torrent is new.

### What the properties exempt

Where the code does not handle a case, the property next to it says what holds in all
others, and names the exception by a history variable or a condition, so that the model
reaches the case and the property shows how far its damage goes, not that it does not
happen: `raced` (sessions that join within a round) in `PatchesFit`, `UpToDate` and
`NeverBackwards`; `spoiled` (a failed `save_file` that nobody looked at) in `CleanIsDurable` and
`SnapshotSaved`; `dropped` (torrents a client removed) in `AbortNeedsRemoval` and
`CleanIsDurable`; `skewed` (clients that were sent a body in answer to `HEAD`) in `InStep`;
`overlapped` (a toggle within a toggle) in `TogglesCount`; a failed accept in `Served`; reports
during an update, or before the samples are warm, in `RateIsAverage`.  The hazards of
`PROJECT.json` say the same at each line.

More observations are part of the models, or were met while modelling, and have no run of
their own:

* A session that joins after a round has taken its state and before it has taken the
  list of sessions is sent the new document and then the delta to it, a document
  read while it is assigned, or, if it is the first to join, an older state than the
  round has taken.  `raced` collects these sessions, and `PatchesFit`, `UpToDate`
  and `NeverBackwards` are stated for all others: without that exception TLC refutes
  `PatchesFit`.
* After a crash inside `save_file`, `add_magnet` replaces the parameters of a magnet link by
  what the truncated file yields (`Bad` in `MagnetParams`): the client is answered 204 and
  libtorrent refuses the addition.
* `doLoop` calls `sessions_.empty()` without the mutex that, by the comment in `handlers.hpp`,
  "synchronizes all access to sessions_".
* A `DELETE` and any other request for the same torrent, a second `DELETE` for example, can
  end the process: between `find_torrent` and the call on the handle the torrent goes away,
  and the exception is not caught.  The pump has the same exposure through alerts.
  `AbortNeedsRemoval` shows that nothing but a removal leads there.
* `GET /api/torrent/{infohash}/files` of a magnet link without metadata dereferences a null
  `torrent_file()`.
* `DELETE` never answers 404, which `src/README.md` lists: `handleTorrent` does not look at
  what `drop_torrent` returns.  `AsDocumented` only says that no other status occurs.
* `make_resp` puts a body in every answer but 204, to `HEAD` too: on a kept connection the
  client takes it for the beginning of the next answer.  `skewed` collects these
  clients, and `InStep` is stated for the others.
* Two overlapping `PUT /api/session/toggle` may pause the session once for both.
* After one failed `accept` the server runs on and accepts nothing more; `Served` has this
  as its exception.  The same holds when the address cannot be bound: it is only logged.
* A rate reported during an update may subtract a newer sample from an older one, and rates
  before the third sample may be garbage, or the conversion of a quotient by zero.
* `getSyncStats` leaves `isPaused` of its statistics uninitialised; `/api/session/stats` sets it.
* `save_file` looks at the stream before the destructor has flushed it, so even its result,
  which is ignored, would miss a full disk.
* `--http-addr` is declared without a variable (`option.hpp:70`), so the option and its
  environment variable have no effect; `parse_port` returns a signed 16-bit number.

## 4. Proofs

The theorems hold for all sets of torrents, workers, clients and connections and all
values of the bounds, from the named assumptions of `Sheath`, `Sync`, `HttpServer` and
`SessionValues` on the constants (the names of threads are not names of workers or clients;
`Ops`, `Events`, `Faults` are among the known ones; numbers are naturals; the clock does not
wrap).  Every invariant and every action property that a passing run checks is proved,
except `PatchReproduces`; most are not inductive, and what was added to make them so is
the content of this section.

### The torrent manager

`SheathProofs`:

* `TypeCorrect`: `Spec => []TypeOK`.  `TypeOK` is inductive; `changed \subseteq live`,
  `popped <= Len(alerts)` and `Len(writing) <= 1` are what make it so.  One lemma per
  group of actions.
* `OutstandingIsExact`: `Spec => []OutstandingExact`.  Inductive together with `TypeOK`.  The
  counting argument is in the lemmas `NumOfAppend` and `NumOfTail`: how the number of
  elements of some types changes when a queue grows at its end or loses its head.
* `ShutdownIsDrained`: `Spec => []ShutdownDrained`.  `DrainInv` adds that a file is
  being written only inside `pop_alerts`, that a stopped process has left its loop and that
  nothing is outstanding once the wait loop has ended; `OutstandingExact` then turns the
  counter into two empty counts.  Its converse half, that the
  loop does end, is the run `sheath_live`.

`SheathHandleProofs` is about handles that outlive their torrents.

* `AbortsNeedRemovals`: `Spec => []AbortNeedsRemoval`.  `HandleInv` says it of every place a
  handle can wait in (posted calls, the calls of workers, alerts, `finishing`): its torrent is
  there, or a client asked to remove it; and a removal is posted only for such a torrent.
* `MirrorIsSound`: `Spec => []MirrorSound`.  An alert about a removal is of a handle the
  torrent no longer has (`GoneInv`, with the count of additions), and the one queue orders
  it behind the updates of that handle, so an entry it removes never returns.
* `MirrorIsFresh`: `Spec => []MirrorFresh`.  The lemma `RunJobReports` says what every step of
  libtorrent does to a status and to the set `changed`: it marks what it changes, and an
  update carries everything marked.  Replacing entries in `handle_alert` then loses nothing.

`SheathStoreProofs` is the refinement.

* `KeepsTheStore`: `Spec => KeepsStore`, every behaviour of `Sheath` implements `Store`.
  `StoreInv` is what the step argument needs: an addition that was posted long after the
  resume file was read still agrees with it (`AddInv`), resume data in the queue or in hand
  claims no more than the torrent has (`SaveInv`), a file being written was truncated
  (`OpenInv`), and nobody writes in a process that is down (`Closed`).  Each of these has the
  exception of a torrent a client removed, as `Store` has.

`SheathSaveProofs` follows resume data from libtorrent to the disk.

* `CleanAreDurable`: `Spec => []CleanIsDurable`.  `CleanIsDurable` only speaks of a torrent with
  nothing in flight.  `CleanInv` says it of the newest resume data wherever it is (`Kept`): in
  the last alert, else in the file being written, else on disk.  The queue being first in,
  first out and the pump being the only writer are the argument.
* `SnapshotIsSaved`: `Spec => []SnapshotSaved`.  `SnapInv` adds that while `end()` runs no
  thread is left that removes a torrent, and that every torrent of the snapshot that is no
  longer to do has its request among the posted calls or its data in a place of `Kept`;
  `ShutdownDrained` leaves the disk as the only one.
* `FilesNeverRegress`: `Spec => NeverRegresses`, an action property.  `Store` lets a file be
  written with less than it held, as long as it claims no more than the torrent has; this
  theorem excludes it.  `OrderInv` says that, of a torrent no client removed, the file, the
  write in progress, the alerts in their order and the torrent itself say more and more.
  libtorrent appends at the upper end (`SavesGrow`: the new data is what the torrent has
  now, which `SaveInv` puts above all before), `handle_alert` takes from the lower end, and a
  crash cuts off everything above the file; an addition starts the torrent no lower than
  the file (`AddInv`).

### The sync hub and the sessions

`SyncProofs`:

* `SyncTypeCorrect` and `WritesAreExclusive`.  `TypeOK` alone is not inductive: `on_write`
  takes the front of `queue_`, so there must be one.  The invariant is `TypeInv`,
  `TypeOK` and `WriteExclusive` together.
* `SessionsAlwaysExist`: `SessionInv` adds that a session with a running handler exists,
  that whoever is inside `join` or `closeWS` is the holder of the mutex, and that what
  `closeWS` has yet to visit is in the list.  The mutex is the whole argument: the
  destructor cannot leave while somebody walks the list.
* `FullAlwaysFirst`: `FirstInv` adds that whoever a broadcast can reach was welcomed: every
  session of the list, except the one that holds the mutex in `join`, and every session that
  a broadcast has yet to visit has the full document or something on its way, the first
  of which is that document.  After `~io_context` has dropped what was posted, nobody
  broadcasts any more.
* `FailedStaysSilent`: `Spec => []FailedIsSilent`.  The lemma `SilentHandler` says of each
  handler that it keeps the equivalence for its own session, from `TypeInv`: `on_send`
  starts a write exactly when it finds the queue empty, `on_write` exactly when something is
  left, and only a failure leaves neither.

`SyncPatchProofs`:

* `PatchesAlwaysFit`: `Spec => []PatchesFit`.  Three invariants carry it.  `RoundInv` relates
  the unguarded `curr_stats` and `prev_stats` to where the caller loop is: between rounds
  `prev_stats` is null or `curr_stats`; within one the delta is made from `prev_stats` and
  leads to `curr_stats`, unless a join wrote that meanwhile, and then nobody but sessions
  that raced will get the delta; `curr_stats` is torn only until the loop or that join has
  assigned it.  `AnswerInv`, proved before it, says that what `join` is about to assign is a state
  of the world, if not the latest.  `FreshInv` says that a session is in no copy of the list before its join is
  through.  `ChainInv` says that the messages queued and then those posted lead the client, by
  sound documents only and none older than the one before, to the document the next delta
  is made from.  `Leads` states this
  with a witness, the sequence of documents, so that it needs no recursion; its lemmas
  append a message and take one off.  TLC checked the three on the instances of `sync_order`
  and `sync_live` before they were proved.
* `EveryoneIsUpToDate`: `Spec => []UpToDate`.  Between rounds `ChainInv` makes `curr_stats` the end
  of the chain (`Due`), and a session that has nothing queued or posted is at the end
  (`LeadsNowhere`).  `FreshInv` and the exception for a join under way cover the time before
  the full document.
* `NobodyGoesBack`: `Spec => NeverBackwards`, an action property.  `BareInv`: until
  `join` sends the full document, a session has nothing on its way and its client nothing,
  so that the full document cannot follow a later one.  `TimeInv`: `curr_stats`, and what the
  loop is about to assign to it, are never of the future (`AnswerInv` for what `join` assigns), so that a round's document is not
  older than the end of the chain.  The chain being nondecreasing then gives the step at
  which a client applies its next message.

### The HTTP server and the statistics

`HttpServerProofs`:

* `TypeCorrect` and `AnswersInStep`.  `TypeInv` is `TypeOK`, what a session serves (`Serving`),
  and `StepInv`: the requests waited for are the one served followed by those unread,
  for every connection and not only for clients whose answers arrive whole.
* `StatusesDocumented`: `Spec => []AsDocumented`, from the lemmas on `Routing`: the
  responses that each documented call can have.
* `TogglesAreCounted`: `Spec => []TogglesCount`.  `ToggleInv`: as long as no two calls
  overlapped there is one at a time, and what it saw is what the session is.

`SessionValuesProofs`:

* `TypeCorrect`, `RatesAreAverages`, `RatesAreRecent` and `RatesWarmUp`, from one invariant: samples
  are taken at increasing times (`Ordered`), which counters go with which stamp at each of
  the four assignments of `updateCounters` (`Paired`), and what a report has read so far
  (`Read`).  `RatesWarmUp` showed that the clock alone being below 2^`Width` is not enough: the
  difference of an uninitialised stamp and the second sample must not come out small by
  wrapping around while the window has passed, hence the window in `WidthAssumption`.

*Only model-checked:* liveness (`ShutdownTerminates`, `NewTorrentPersisted`, `MainEnds`,
`SentIsWritten`, `Served`, `ConnectionsEnd`), which needs fairness and `ENABLED`; and what
`json_diff` computes (`PatchReproduces`), a recursive definition over all JSON values, which
needs induction over data.

## 5. Not modelled

* *The wording of read-only queries*: `get_torrents`, `get_torrent` and `getSessionInfo` change
  nothing; of `get_torrent` the listing of files is modelled because it can end the process.
  `getSyncStats` is the document of `Sync`.  `dht_stats_alert` fills two fields nothing reads.
* *A full alert queue*: libtorrent's queue has no limit in `Sheath`.  Whether and which alerts
  it drops depends on its settings; a dropped response would leave `end()` waiting.
* *Requests without Content-Length*: `handleTorrents` dereferences the end of the header
  fields for its log line, and what follows is undefined.
* *Torrents without an owner thread*: what peers and trackers do is a torrent event.
* *libtorrent's automatic management, DHT state and settings*: the session file holds
  no torrents.
* *Options, logging, paths*: straight-line start-up code in one thread; which source of a
  setting wins is decided inside `boost::program_options`.

## 6. Plan

In order of importance; all but the last are done.

1. `Sheath` with its runs; `SheathProofs`: types, the exact counter, the drained shutdown.
2. `Sync` with its runs; `SyncProofs`: types, exclusive writes, lifetimes, the first message.
3. `JsonDiff`.
4. `Store`, the disk that fails, and `Sheath` shown to implement it.
5. Exceptions from dead handles, `resume_torrent` and the listing of files in `Sheath`.
6. `Routing` and `HttpServer`.
7. `SessionValues`.
8. Failing writes in `Sync`, and the proof that they silence exactly their session.
9. The handles, the mirror and the resume files: `AbortNeedsRemoval`, `MirrorSound`,
   `MirrorFresh`, the refinement of `Store`, `CleanIsDurable` and `SnapshotSaved` proved.
10. `PatchesFit`, the properties of `HttpServer` and those of `SessionValues` proved.
11. What `KeepsStore` and `PatchesFit` leave open, as properties with proofs of their own:
    `NeverRegresses`, `UpToDate` and `NeverBackwards`.
12. Left: a limit on libtorrent's alert queue in `Sheath`, should its settings be fixed, and
    lemmas on `Routing` beyond the documented statuses.
