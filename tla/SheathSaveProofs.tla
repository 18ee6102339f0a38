-------------------------- MODULE SheathSaveProofs --------------------------
(***************************************************************************)
(* Proofs about the torrent manager, continued: where the resume data of a *)
(* torrent is between libtorrent and the disk, that it gets there          *)
(* (CleanIsDurable, SnapshotSaved), and that it gets there in order        *)
(* (NeverRegresses).                                                       *)
(***************************************************************************)
EXTENDS SheathStoreProofs

-----------------------------------------------------------------------------
(* Where resume data is *)

\* The positions of the alerts that carry resume data of t.
Saves(t) == {i \in 1 .. Len(alerts) : alerts[i].type = "save_resume_data" /\ alerts[i].h[1] = t}

\* The last of them carries data in G,
Queued(t, G) == \E i \in Saves(t) : (\A j \in Saves(t) : j <= i) /\ alerts[i].data \in G
\* there is none and save_file is writing data in G,
InHand(t, G) == Saves(t) = {} /\ BeingWritten(t) /\ writing[1].data \in G
\* or there is none, nothing is being written and the file has it, or was spoiled.
OnDisk(t, G) == /\ Saves(t) = {} /\ ~BeingWritten(t)
                /\ t \in spoiled \/ (resume[t].file = "complete" /\ resume[t].data \in G)

\* The newest resume data of t, wherever it is, is in G.
Kept(t, G) == Queued(t, G) \/ InHand(t, G) \/ OnDisk(t, G)

\* Of what Kept speaks nothing changes.
LEMMA KeptSame ==
    ASSUME NEW t, NEW G, UNCHANGED <<alerts, writing, spoiled>>, resume'[t] = resume[t], Kept(t, G)
    PROVE  Kept(t, G)'
<1>1. Saves(t)' = Saves(t)
  BY DEF Saves
<1>2. BeingWritten(t)' <=> BeingWritten(t)
  BY DEF BeingWritten
<1> QED
  BY <1>1, <1>2 DEF Kept, Queued, InHand, OnDisk

\* The positions when libtorrent posts an alert.
LEMMA SavesAppend ==
    ASSUME TypeOK, NEW t, NEW a \in Alerts, alerts' = Append(alerts, a)
    PROVE  /\ Saves(t)' = Saves(t) \cup (IF a.type = "save_resume_data" /\ a.h[1] = t
                                         THEN {Len(alerts) + 1} ELSE {})
           /\ \A i \in Saves(t) : i \in Nat /\ i <= Len(alerts) /\ alerts'[i] = alerts[i]
           /\ alerts'[Len(alerts) + 1] = a /\ Len(alerts) \in Nat
<1>1. /\ Len(alerts) \in Nat /\ Len(alerts') = Len(alerts) + 1 /\ alerts'[Len(alerts) + 1] = a
      /\ \A i \in 1 .. Len(alerts) : alerts'[i] = alerts[i]
  BY PostPositions
<1>2. 1 .. Len(alerts') = (1 .. Len(alerts)) \cup {Len(alerts) + 1}
  BY <1>1
<1> QED
  BY <1>1, <1>2 DEF Saves

\* An alert that says nothing of the resume data of t.
LEMMA KeptPosts ==
    ASSUME TypeOK, NEW t, NEW G, NEW a \in Alerts, alerts' = Append(alerts, a),
           ~(a.type = "save_resume_data" /\ a.h[1] = t),
           UNCHANGED <<writing, spoiled>>, resume'[t] = resume[t], Kept(t, G)
    PROVE  Kept(t, G)'
<1>0. (IF a.type = "save_resume_data" /\ a.h[1] = t THEN {Len(alerts) + 1} ELSE {}) = {}
  OBVIOUS
<1>1. Saves(t)' = Saves(t) \cup {} /\ \A i \in Saves(t) : alerts'[i] = alerts[i]
  BY <1>0, SavesAppend
<1>2. BeingWritten(t)' <=> BeingWritten(t)
  BY DEF BeingWritten
<1> QED
  BY <1>1, <1>2 DEF Kept, Queued, InHand, OnDisk

\* New resume data of t.
LEMMA KeptSaved ==
    ASSUME TypeOK, NEW t, NEW G, NEW a \in Alerts, alerts' = Append(alerts, a),
           a.type = "save_resume_data", a.h[1] = t, a.data \in G
    PROVE  Kept(t, G)'
<1> DEFINE N == Len(alerts) + 1
<1>1. /\ Saves(t)' = Saves(t) \cup {N} /\ alerts'[N] = a
      /\ \A i \in Saves(t)' : i <= N
  BY SavesAppend
<1> QED
  BY <1>1 DEF Kept, Queued

\* The positions when handle_alert takes the first alert.
LEMMA SavesTail ==
    ASSUME TypeOK, alerts # <<>>, alerts' = Tail(alerts), NEW t
    PROVE  /\ \A i \in Saves(t) : i \in Nat /\ (i # 1 => i - 1 \in Saves(t)' /\ alerts'[i - 1] = alerts[i])
           /\ \A i \in Saves(t)' : /\ i \in Nat /\ i + 1 \in Saves(t) /\ i >= 1
                                   /\ alerts'[i] = alerts[i + 1]
           /\ 1 \in Saves(t) <=> Head(alerts).type = "save_resume_data" /\ Head(alerts).h[1] = t
           /\ alerts[1] = Head(alerts)
<1>1. /\ Len(alerts) \in Nat \ {0} /\ Len(alerts') = Len(alerts) - 1 /\ alerts[1] = Head(alerts)
      /\ \A i \in 1 .. Len(alerts') : i + 1 \in 1 .. Len(alerts) /\ alerts'[i] = alerts[i + 1]
      /\ \A i \in 1 .. Len(alerts) : i # 1 => i - 1 \in 1 .. Len(alerts') /\ alerts'[i - 1] = alerts[i]
  BY TakePositions
<1>2. \A i \in Saves(t) : i \in Nat /\ (i # 1 => i - 1 \in Saves(t)' /\ alerts'[i - 1] = alerts[i])
  BY <1>1 DEF Saves
<1>3. \A i \in Saves(t)' : i \in Nat /\ i + 1 \in Saves(t) /\ i >= 1 /\ alerts'[i] = alerts[i + 1]
  BY <1>1 DEF Saves
<1>4. 1 \in Saves(t) <=> Head(alerts).type = "save_resume_data" /\ Head(alerts).h[1] = t
  BY <1>1 DEF Saves
<1> QED
  BY <1>1, <1>2, <1>3, <1>4

\* Taking the first alert keeps the last: it is still queued, or it was the
\* first and there is no other.
LEMMA QueuedTakes ==
    ASSUME TypeOK, alerts # <<>>, alerts' = Tail(alerts), NEW t, NEW G, Queued(t, G)
    PROVE  \/ Queued(t, G)'
           \/ /\ Saves(t)' = {} /\ Head(alerts).type = "save_resume_data" /\ Head(alerts).h[1] = t
              /\ Head(alerts).data \in G
<1>1. PICK i \in Saves(t) : (\A j \in Saves(t) : j <= i) /\ alerts[i].data \in G
  BY DEF Queued
<1>2. CASE i # 1
  <2>1. i - 1 \in Saves(t)' /\ alerts'[i - 1].data \in G /\ i \in Nat
    BY <1>1, <1>2, SavesTail
  <2>2. ASSUME NEW j \in Saves(t)' PROVE j <= i - 1
    <3>1. j \in Nat /\ j + 1 \in Saves(t)
      BY SavesTail
    <3>2. j + 1 <= i
      BY <1>1, <3>1
    <3> QED
      BY <2>1, <3>1, <3>2
  <2> QED
    BY <2>1, <2>2 DEF Queued
<1>3. CASE i = 1
  <2>1. ASSUME NEW j \in Saves(t)' PROVE FALSE
    <3>1. j \in Nat /\ j + 1 \in Saves(t) /\ j >= 1
      BY SavesTail
    <3>2. j + 1 <= 1
      BY <1>1, <1>3, <3>1
    <3> QED
      BY <3>1, <3>2
  <2> QED
    BY <1>1, <1>3, <2>1, SavesTail
<1> QED
  BY <1>2, <1>3

\* An alert of another torrent, or of another kind, is taken.
LEMMA KeptTail ==
    ASSUME TypeOK, alerts # <<>>, alerts' = Tail(alerts), NEW t, NEW G,
           ~(Head(alerts).type = "save_resume_data" /\ Head(alerts).h[1] = t),
           BeingWritten(t)' <=> BeingWritten(t), BeingWritten(t) => writing' = writing,
           t \in spoiled => t \in spoiled', resume'[t] = resume[t], Kept(t, G)
    PROVE  Kept(t, G)'
<1>1. Saves(t) = {} => Saves(t)' = {}
  BY SavesTail
<1>2. Queued(t, G) => Queued(t, G)'
  BY QueuedTakes
<1>3. InHand(t, G) => InHand(t, G)'
  BY <1>1 DEF InHand
<1>4. OnDisk(t, G) => OnDisk(t, G)'
  BY <1>1 DEF OnDisk
<1> QED
  BY <1>2, <1>3, <1>4 DEF Kept

\* A branch of handle_alert that takes resume data is OnSaveResumeData.
LEMMA SaveTaken ==
    ASSUME HandleAlert, ~OnSaveResumeData, alerts' # alerts
    PROVE  Head(alerts).type # "save_resume_data"
<1>1. ASSUME NextAlert("save_resume_data") PROVE Head(alerts).type = "save_resume_data"
  BY <1>1 DEF NextAlert
<1> QED
  BY DEF HandleAlert, OnMetadataReceived, OnAddTorrent, OnTorrentFinished, MoveFinished,
     WriteFile, OnSaveResumeDataFailed, OnTorrentPaused, OnStateUpdate, OnTorrentRemoved,
     NextAlert, queues

\* handle_alert, in all of its branches, passes the newest data on.
LEMMA KeptTakes ==
    ASSUME TypeOK, HandleAlert, NEW t \in Torrents, NEW G, Kept(t, G),
           BeingWritten(t) => resume[t].file = "truncated"
    PROVE  Kept(t, G)'
<1>0. resume \in [Torrents -> Files] /\ spoiled \subseteq Torrents
  BY DEF TypeOK
<1>1. CASE UNCHANGED <<resume, writing, spoiled>> /\ ~OnSaveResumeData
  <2>1. CASE alerts' = alerts
    BY <1>1, <2>1, KeptSame
  <2>2. CASE alerts' # alerts
    <3>1. alerts # <<>> /\ alerts' = Tail(alerts) /\ Head(alerts).type # "save_resume_data"
      BY <1>1, <2>2, SaveTaken, AlertTakes
    <3>2. BeingWritten(t)' <=> BeingWritten(t)
      BY <1>1 DEF BeingWritten
    <3> QED
      BY <1>1, <3>1, <3>2, KeptTail
  <2> QED
    BY <2>1, <2>2
<1>2. CASE OnSaveResumeData
  <2>1. /\ writing = <<>> /\ alerts # <<>> /\ alerts' = Tail(alerts)
        /\ Head(alerts).type = "save_resume_data"
        /\ Head(alerts).h \in Handles /\ Head(alerts).data \in Data
        /\ \/ /\ resume' = [resume EXCEPT ![Head(alerts).h[1]] = [file |-> "truncated", data |-> NoData]]
              /\ writing' = <<[t |-> Head(alerts).h[1], data |-> Head(alerts).data]>>
              /\ UNCHANGED spoiled
           \/ /\ DiskFails
              /\ spoiled' = spoiled \cup {Head(alerts).h[1]}
              /\ UNCHANGED <<resume, writing>>
    BY <1>2, WriteSteps DEF OnSaveResumeData, NextAlert
  <2>2. PICK u \in Torrents : u = Head(alerts).h[1]
    BY <2>1 DEF Handles
  <2>3. PICK d \in Data : d = Head(alerts).data
    BY <2>1
  <2>4. ~BeingWritten(t)
    BY <2>1 DEF BeingWritten
  <2>5. CASE u # t
    <3>1. ~BeingWritten(t)' /\ resume'[t] = resume[t] /\ (t \in spoiled => t \in spoiled')
      BY <1>0, <2>1, <2>2, <2>5 DEF BeingWritten
    <3> QED
      BY <2>1, <2>2, <2>4, <2>5, <3>1, KeptTail
  <2>6. CASE u = t
    <3>1. Queued(t, G)
      <4>1. 1 \in Saves(t)
        BY <2>1, <2>2, <2>6, SavesTail
      <4> QED
        BY <4>1 DEF Kept, InHand, OnDisk
    <3>2. CASE Queued(t, G)'
      BY <3>2 DEF Kept
    <3>3. CASE Saves(t)' = {} /\ d \in G
      <4>1. CASE writing' = <<[t |-> t, data |-> d]>>
        <5>1. writing' # <<>> /\ writing'[1].t = t /\ writing'[1].data = d
          BY <4>1
        <5>2. BeingWritten(t)'
          BY <5>1 DEF BeingWritten
        <5> QED
          BY <3>3, <5>1, <5>2 DEF Kept, InHand
      <4>2. CASE spoiled' = spoiled \cup {t} /\ writing' = <<>>
        <5>1. ~BeingWritten(t)' /\ t \in spoiled'
          BY <4>2 DEF BeingWritten
        <5> QED
          BY <3>3, <5>1 DEF Kept, OnDisk
      <4> QED
        BY <2>1, <2>2, <2>3, <2>6, <4>1, <4>2
    <3> QED
      BY <2>1, <2>3, <3>1, <3>2, <3>3, QueuedTakes
  <2> QED
    BY <2>5, <2>6
<1>3. CASE WriteFile
  <2>1. writing # <<>> /\ writing' = <<>> /\ alerts' = alerts /\ writing[1] \in Writes
    BY <1>3, WriteSteps DEF OnSaveResumeData, NextAlert, WriteFile
  <2>2. PICK w \in Writes : w = writing[1]
    BY <2>1
  <2>3. /\ w.t \in Torrents /\ w.data \in Data
        /\ \/ /\ resume' = IF resume[w.t].file = "truncated"
                           THEN [resume EXCEPT ![w.t] = [file |-> "complete", data |-> w.data]]
                           ELSE resume
              /\ spoiled' = spoiled \ {w.t}
           \/ /\ spoiled' = spoiled \cup {w.t}
              /\ UNCHANGED resume
    BY <1>3, <2>2 DEF WriteFile, Writes
  <2>4. Saves(t)' = Saves(t) /\ ~BeingWritten(t)' /\ (BeingWritten(t) <=> w.t = t)
    BY <2>1, <2>2 DEF Saves, BeingWritten
  <2>5. CASE Queued(t, G)
    BY <2>1, <2>4, <2>5 DEF Queued, Kept
  <2>6. CASE InHand(t, G)
    <3>1. w.t = t /\ w.data \in G /\ resume[t].file = "truncated" /\ Saves(t)' = {}
      BY <2>2, <2>4, <2>6 DEF InHand
    <3>2. \/ resume'[t].file = "complete" /\ resume'[t].data = w.data
          \/ t \in spoiled'
      BY <1>0, <2>3, <3>1
    <3> QED
      BY <2>4, <3>1, <3>2 DEF Kept, OnDisk
  <2>7. CASE OnDisk(t, G)
    <3>1. w.t # t /\ Saves(t)' = {}
      BY <2>4, <2>7 DEF OnDisk
    <3>2. resume'[t] = resume[t] /\ (t \in spoiled => t \in spoiled')
      BY <1>0, <2>3, <3>1
    <3> QED
      BY <2>4, <2>7, <3>1, <3>2 DEF Kept, OnDisk
  <2> QED
    BY <2>5, <2>6, <2>7 DEF Kept
<1> QED
  BY <1>1, <1>2, <1>3, WriteSteps

\* What the other threads do leaves it alone, unless a client drops the torrent.
LEMMA KeptAside ==
    ASSUME TypeOK, Aside, NEW t \in Torrents \ dropped', NEW G, Kept(t, G)
    PROVE  Kept(t, G)'
<1>1. resume'[t] = resume[t]
  BY DEF Aside, DropFile, TypeOK
<1>2. UNCHANGED <<alerts, writing, spoiled>>
  BY DEF Aside
<1> QED
  BY <1>1, <1>2, KeptSame

-----------------------------------------------------------------------------
(* A torrent with nothing to save is saved *)

\* Resume data that says whether a torrent is complete, and where its files are
\* once they were moved.
Good(s) == {d \in Data : /\ (d.stage = "seed") = (s.stage \in {"checking", "seed"})
                         /\ s.path = "moved" => d.path = "moved"}

\* The newest resume data of every torrent that is not dirty is good.  This is
\* CleanIsDurable with the data on its way, which makes it inductive.
CleanInv == \A t \in live \ dropped : ~st[t].dirty => Kept(t, Good(st[t]))

\* Data written from a status is good for it, and a status that differs in
\* nothing but the end of a check has the same good data.
LEMMA GoodData ==
    ASSUME NEW s \in Status, NEW r
    PROVE  /\ DataOf(s) \in Good(s)
           /\ /\ r.path = s.path
              /\ r.stage = s.stage \/ (s.stage = "checking" /\ r.stage = "seed")
              => Good(r) = Good(s)
<1>1. DataOf(s) \in Good(s)
  <2>1. DataOf(s) \in Data /\ s.stage \in Stages
    BY StatusMade, StagesOf
  <2>2. DataOf(s).path = s.path /\ DataOf(s).stage = (IF s.stage = "checking" THEN "seed" ELSE s.stage)
    BY DEF DataOf
  <2> QED
    BY <2>1, <2>2 DEF Good, Stages
<1>2. ASSUME r.path = s.path, r.stage = s.stage \/ (s.stage = "checking" /\ r.stage = "seed")
      PROVE  Good(r) = Good(s)
  BY <1>2 DEF Good
<1> QED
  BY <1>1, <1>2

\* No resume data of a torrent that is neither there nor dropped is on its way.
LEMMA NothingOnItsWay ==
    ASSUME TypeOK, HandleInv, NEW t \in Torrents, t \notin live \cup dropped
    PROVE  Saves(t) = {} /\ ~BeingWritten(t)
<1>1. ASSUME NEW i \in Saves(t) PROVE FALSE
  <2>1. alerts[i] \in Elements(alerts) /\ alerts[i].type = "save_resume_data" /\ alerts[i].h[1] = t
    BY DEF Saves, Elements
  <2>2. Fine(alerts[i].h)
    BY <2>1 DEF HandleInv
  <2> QED
    BY <2>1, <2>2 DEF Fine, IsLive
<1>2. ASSUME BeingWritten(t) PROVE FALSE
  <2>1. writing # <<>> /\ writing[1].t = t /\ writing \in Seq(Writes)
    BY <1>2 DEF BeingWritten, TypeOK
  <2>2. writing[1] \in Elements(writing)
    BY <2>1 DEF Elements
  <2> QED
    BY <2>1, <2>2 DEF HandleInv
<1> QED
  BY <1>1, <1>2

\* A torrent that is added without anything to save was read from its file.
LEMMA CleanAdd ==
    ASSUME TypeOK, HandleInv, AddInv, RunJob,
           NEW t \in live' \ dropped, t \notin live, ~st'[t].dirty, NEW G, G = Good(st'[t])
    PROVE  Kept(t, G)'
<1>t. live \subseteq Torrents /\ st \in [Torrents -> Status] /\ gen \in [Torrents -> Nat]
  BY DEF TypeOK
<1>1. AddJob
  BY DEF RunJob, RemoveJob, SaveJob, MoveJob, PauseJob, UnpauseJob, FlagJob, UpdateJob
<1>2. Head(jobs) \in Elements(jobs) /\ Head(jobs).type = "add" /\ Head(jobs).t \in Torrents
      /\ Head(jobs).params \in Params
  BY <1>1, RunJobTakes, JobFields DEF AddJob, NextJob
<1>3. PICK p \in Params : p = Head(jobs).params
  BY <1>2
<1>4. /\ Head(jobs).t = t /\ p.kind # "bad" /\ st' = [st EXCEPT ![t] = NewStatus(p)] /\ t \in Torrents
      /\ alerts' = Append(alerts, Alert("add_torrent", <<t, gen[t] + 1>>))
  BY <1>1, <1>2, <1>3, <1>t DEF AddJob, ltvars
<1>5. st'[t] = NewStatus(p)
  BY <1>4, <1>t
<1>6. AddFits(t, p)
  BY <1>2, <1>3, <1>4 DEF AddInv
<1>7. /\ NewStatus(p).dirty = (p.kind = "fresh") /\ NewStatus(p).path = p.data.path
      /\ NewStatus(p).stage = (IF p.data.stage = "seed" THEN "checking" ELSE p.data.stage)
  BY DEF NewStatus, Blank
<1>8. p.kind = "loaded" /\ p.data \in Data /\ p.data.stage \in {"magnet", "partial", "seed"}
  BY <1>4, <1>5, <1>7 DEF Params, Data
<1>9. resume[t].file = "complete" /\ Same(p.data, resume[t].data) /\ resume[t].data \in Data
  BY <1>4, <1>6, <1>8 DEF AddFits, TypeOK, Files
<1>10. resume[t].data \in G
  BY <1>5, <1>7, <1>8, <1>9 DEF Good, Same
<1>11. OnDisk(t, G)
  BY <1>4, <1>9, <1>10, NothingOnItsWay DEF OnDisk
<1>12. PICK a \in Alerts : a = Alert("add_torrent", <<t, gen[t] + 1>>)
  BY <1>4, <1>t, AlertsMade DEF Handles, Plain
<1>13. a.type = "add_torrent"
  BY <1>12 DEF Alert
<1>14. UNCHANGED <<writing, spoiled, resume>>
  BY RunJobTakes
<1> QED
  BY <1>4, <1>11, <1>12, <1>13, <1>14, KeptPosts DEF Kept

\* What libtorrent does to a torrent that stays.
LEMMA CleanStays ==
    ASSUME TypeOK, CleanInv, RunJob \/ TorrentEvent,
           NEW t \in (live \cap live') \ dropped, ~st'[t].dirty, NEW G, G = Good(st'[t])
    PROVE  Kept(t, G)'
<1>t. live \subseteq Torrents /\ st \in [Torrents -> Status] /\ gen \in [Torrents -> Nat]
  BY DEF TypeOK
<1>0. st[t] \in Status /\ t \in Torrents
  BY <1>t
<1>1. UNCHANGED <<writing, spoiled, resume>>
  BY RunJobTakes, EventTouches
<1>2. ASSUME NEW u \in live, SavePosted(u)
      PROVE  \E a \in Alerts : /\ alerts' = Append(alerts, a) /\ a.type = "save_resume_data"
                               /\ a.h[1] = u /\ a.data = DataOf(st[u])
  <2>1. u \in Torrents /\ st[u] \in Status /\ HandleOf(u) \in Handles
    BY <1>t DEF HandleOf, Handles
  <2>2. PICK d \in Data : d = DataOf(st[u])
    BY <2>1, StatusMade
  <2>3. PICK a \in Alerts : a = [type |-> "save_resume_data", h |-> HandleOf(u), data |-> d]
    BY <2>1, AlertsMade
  <2>4. a.type = "save_resume_data" /\ a.h[1] = u /\ a.data = d
    BY <2>3 DEF HandleOf
  <2> QED
    BY <1>2, <2>2, <2>3, <2>4 DEF SavePosted
<1>3. CASE SavePosted(t)
  <2>1. PICK a \in Alerts : /\ alerts' = Append(alerts, a) /\ a.type = "save_resume_data"
                            /\ a.h[1] = t /\ a.data = DataOf(st[t])
    BY <1>2, <1>3
  <2>2. st'[t].path = st[t].path /\ st'[t].stage = st[t].stage
    BY <1>0, <1>t, <1>3 DEF SavePosted, Status
  <2>3. a.data \in G
    BY <1>0, <2>1, <2>2, GoodData
  <2> QED
    BY <2>1, <2>3, KeptSaved
<1>4. CASE Steady(t) /\ ~SavePosted(t)
  <2>1. ~st[t].dirty /\ G = Good(st[t])
    BY <1>0, <1>4, GoodData DEF Steady
  <2>2. Kept(t, G)
    BY <2>1 DEF CleanInv
  <2>3. CASE alerts' = alerts
    BY <1>1, <2>2, <2>3, KeptSame
  <2>4. ASSUME NEW a \in Alerts, alerts' = Append(alerts, a),
               ~(a.type = "save_resume_data" /\ a.h[1] = t)
        PROVE  Kept(t, G)'
    BY <1>1, <2>2, <2>4, KeptPosts
  <2>5. ASSUME NEW u \in live, SavePosted(u) PROVE Kept(t, G)'
    <3>1. PICK a \in Alerts : /\ alerts' = Append(alerts, a) /\ a.type = "save_resume_data"
                              /\ a.h[1] = u /\ a.data = DataOf(st[u])
      BY <1>2, <2>5
    <3>2. u # t
      BY <1>4, <2>5
    <3> QED
      BY <2>4, <3>1, <3>2
  <2> QED
    BY <2>3, <2>4, <2>5, SavesPosted
<1>5. st'[t].dirty # TRUE
  OBVIOUS
<1> QED
  BY <1>3, <1>4, <1>5, StatusMoves

\* A file that is being written, of a torrent no client removed, is truncated.
LEMMA OpenFile ==
    ASSUME TypeOK, OpenInv, NEW t, t \notin dropped, BeingWritten(t)
    PROVE  resume[t].file = "truncated"
<1>1. writing # <<>> /\ writing[1].t = t /\ writing \in Seq(Writes)
  BY DEF BeingWritten, TypeOK
<1>2. writing[1] \in Elements(writing)
  BY <1>1 DEF Elements
<1> QED
  BY <1>1, <1>2 DEF OpenInv

\* Every step keeps CleanInv.
LEMMA CleanStep ==
    TypeOK /\ HandleInv /\ AddInv /\ OpenInv /\ CleanInv /\ [Next]_vars => CleanInv'
<1> SUFFICES ASSUME TypeOK, HandleInv, AddInv, OpenInv, CleanInv, [Next]_vars PROVE CleanInv'
  OBVIOUS
<1>1. CASE Start \/ Die
  BY <1>1 DEF Start, Die, Forget, CleanInv
<1>2. CASE RunJob \/ TorrentEvent \/ HandleAlert \/ Aside
  <2> SUFFICES ASSUME NEW t \in live' \ dropped', ~st'[t].dirty PROVE Kept(t, Good(st[t]))'
    BY DEF CleanInv
  <2>1. PICK G : G = Good(st'[t])
    OBVIOUS
  <2>2. t \notin dropped
    BY <1>2, DroppedGrows
  <2>3. ASSUME RunJob \/ TorrentEvent PROVE Kept(t, G)'
    <3>1. TorrentEvent => t \in live
      BY EventTouches
    <3> QED
      BY <2>1, <2>2, <2>3, <3>1, CleanStays, CleanAdd
  <2>4. ASSUME HandleAlert \/ Aside PROVE Kept(t, G)'
    <3>1. live' = live /\ st' = st /\ t \in Torrents
      BY <2>4, AlertTouches DEF Aside, ltvars, TypeOK
    <3>2. Kept(t, G)
      BY <2>1, <2>2, <3>1 DEF CleanInv
    <3> QED
      BY <2>2, <2>4, <3>1, <3>2, KeptTakes, KeptAside, OpenFile
  <2>5. Kept(t, G)'
    BY <1>2, <2>3, <2>4
  <2> QED
    BY <2>1, <2>5 DEF Kept, Queued, InHand, OnDisk
<1> QED
  BY <1>1, <1>2, StepCases

\* The flag need_save_resume never lies: whatever order saves, writes, crashes,
\* reloads and re-additions come in, a torrent that no client removed and that
\* has nothing to save and nothing in flight has a complete resume file that
\* says whether it is complete and where its moved files are (handle_alert and
\* the loader of sheath.cpp), unless save_file failed.
THEOREM CleanAreDurable == Spec => []CleanIsDurable
<1>1. Init => CleanInv
  BY DEF Init, CleanInv
<1>2. TypeOK /\ HandleInv /\ StoreInv /\ CleanInv /\ [Next]_vars => CleanInv'
  BY CleanStep DEF StoreInv
<1>3. TypeOK /\ CleanInv => CleanIsDurable
  <2> SUFFICES ASSUME TypeOK, CleanInv, NEW t \in live \ (dropped \cup spoiled),
                      ~st[t].dirty, ~InFlight(t)
               PROVE  /\ resume[t].file = "complete"
                      /\ (resume[t].data.stage = "seed") = (st[t].stage \in {"checking", "seed"})
                      /\ st[t].path = "moved" => resume[t].data.path = "moved"
    BY DEF CleanIsDurable
  <2>1. Kept(t, Good(st[t]))
    BY DEF CleanInv
  <2>2. Saves(t) = {}
    BY DEF Saves, InFlight
  <2>3. ~BeingWritten(t)
    BY DEF BeingWritten, InFlight, TypeOK
  <2>4. resume[t].file = "complete" /\ resume[t].data \in Good(st[t])
    BY <2>1, <2>2, <2>3 DEF Kept, Queued, InHand, OnDisk
  <2> QED
    BY <2>4 DEF Good
<1> QED
  BY <1>1, <1>2, <1>3, TypeCorrect, HandleAlways, StoreInvAlways, PTL DEF Spec

-----------------------------------------------------------------------------
(* What end() found unsaved gets saved *)

\* Resume data with metadata.
Known == {d \in Data : d.stage # "magnet"}

\* A save of t that libtorrent will not refuse is posted.
Asked(t) == \E j \in Elements(jobs) : j.type = "save" /\ j.h = HandleOf(t) /\ ~j.only_if_modified

Stopping == proc \in {"ending", "stopped"}

\* While end() runs and after it: the threads that could remove a torrent or
\* delete a file are joined, the torrents of the snapshot stay, and what was
\* requested for each is in the queue of jobs, in that of alerts, in hand or on
\* disk.
SnapInv == Stopping =>
    /\ temp \subseteq live /\ \A t \in temp : st[t].stage # "magnet"
    /\ \A j \in Elements(jobs) : j.type # "remove"
    /\ \A a \in Actors : call[a] = Idle
    /\ \A w \in Elements(writing) : resume[w.t].file = "truncated"
    /\ \A t \in temp \ todo : Asked(t) \/ Kept(t, Known)
    /\ pump \notin {"request", "request_pop"} => todo = {}

\* The steps the program takes while it stops.
LEMMA StoppingSteps ==
    ASSUME TypeOK, SnapInv, Stopping, [Next]_vars
    PROVE  \/ RunJob \/ TorrentEvent \/ HandleAlert \/ Start \/ Die
           \/ \E t \in Torrents : RequestOne(t)
           \/ /\ UNCHANGED <<live, gen, st, jobs, alerts, writing, resume, spoiled, temp, todo, call>>
              /\ proc' \in {"ending", "stopped"}
              /\ \/ todo = {}
                 \/ pump \in {"request", "request_pop"} /\ pump' \in {"request", "request_pop"}
<1> DEFINE Rest == UNCHANGED <<live, gen, st, jobs, alerts, writing, resume, spoiled, temp, todo, call>>
           Loop == \/ todo = {}
                   \/ pump \in {"request", "request_pop"} /\ pump' \in {"request", "request_pop"}
<1>0. proc # "running" /\ proc \in {"ending", "stopped"} /\ \A a \in Actors : call[a].op = "idle"
  BY DEF Stopping, SnapInv, Idle
<1>i. pump \in {"request", "request_pop"} \/ todo = {}
  BY DEF SnapInv
<1>w. Workers \subseteq Actors /\ "pump" \in Actors /\ "loader" \in Actors
  BY DEF Actors
<1>a. ASSUME NEW a \in Actors PROVE ~PostAdd(a)
  BY <1>0 DEF PostAdd
<1>1. CASE UNCHANGED vars
  BY <1>0, <1>1, <1>i DEF vars, ltvars, queues, disk, pumping, calls, env
<1>2. ASSUME NEW w \in Workers PROVE ~Worker(w)
  BY <1>0, <1>a, <1>w DEF Worker, DropFind, PostCall, ListFiles, HandleOps
<1>3. ~Loader
  BY <1>0, <1>a, <1>w DEF Loader, LoadFile
<1>4. CASE Pump
  <2>1. EndPop
    BY <1>0, <1>4, <1>a, <1>w DEF Pump, PostUpdates, PopAlerts, ScanFile, EndScan, PumpExit
  <2>2. Rest /\ proc' = proc
    BY <2>1 DEF EndPop, ltvars, queues, disk, calls, env
  <2>3. pump = "request_pop" => pump' = "request"
    BY <2>1 DEF EndPop, AfterPop
  <2>4. pump # "request"
    BY <2>1 DEF EndPop, Popping
  <2> QED
    BY <1>0, <1>i, <2>2, <2>3, <2>4
<1>5. CASE End
  <2>1. CASE EndRequests
    BY <1>0, <2>1 DEF EndRequests, ltvars, queues, disk, calls, env
  <2>2. CASE WaitForAlert \/ WaitDone \/ SaveSession
    <3>1. Rest /\ proc' \in {"ending", "stopped"}
      BY <2>2 DEF WaitForAlert, WaitDone, SaveSession, ltvars, queues, disk, calls, env
    <3>2. pump \notin {"request", "request_pop"}
      BY <2>2 DEF WaitForAlert, WaitDone, SaveSession
    <3> QED
      BY <1>i, <3>1, <3>2
  <2> QED
    BY <1>0, <1>5, <2>1, <2>2 DEF End, BeginEnd
<1>6. CASE Abort \/ Crash
  BY <1>6 DEF Abort, Crash
<1>7. ~Client /\ ~Signal
  BY <1>0 DEF Client, PostMagnet, PostMetainfo, DropFile, PauseResumeTorrent, ResumeTorrent,
     GetTorrent, Found, Request, Serving, Signal
<1>8. ASSUME NEW t \in Torrents, PutWatchFile(t) PROVE Rest /\ proc' = proc /\ pump' = pump
  BY <1>8 DEF PutWatchFile, ltvars, queues, pumping, calls
<1>9. CASE Environment
  BY <1>0, <1>6, <1>7, <1>8, <1>9, <1>i DEF Environment
<1> QED
  BY <1>1, <1>2, <1>3, <1>4, <1>5, <1>6, <1>9 DEF Next

\* A save that is asked for stays asked for, or it is answered with data.
LEMMA SnapRunJob ==
    ASSUME TypeOK, HandleInv, SnapInv, Stopping, RunJob \/ TorrentEvent
    PROVE  /\ temp \subseteq live' /\ \A t \in temp : st'[t].stage # "magnet"
           /\ \A t \in temp \ todo : Asked(t)' \/ Kept(t, Known)'
<1>t. /\ live \subseteq Torrents /\ st \in [Torrents -> Status] /\ gen \in [Torrents -> Nat]
      /\ temp \subseteq live /\ temp \subseteq Torrents
  BY DEF TypeOK, SnapInv
<1>1. UNCHANGED <<writing, spoiled, resume>>
  BY RunJobTakes, EventTouches
<1>2. temp \subseteq live'
  <2>1. ~RemoveJob
    <3>1. RunJob => Head(jobs) \in Elements(jobs)
      BY RunJobTakes
    <3> QED
      BY <3>1 DEF RemoveJob, NextJob, SnapInv, RunJob
  <2> QED
    BY <1>t, <2>1, EventTouches DEF RunJob, AddJob, SaveJob, MoveJob, PauseJob, UnpauseJob,
       FlagJob, UpdateJob, ltvars
<1>3. ASSUME NEW t \in temp PROVE st'[t].stage # "magnet"
  <2>1. st[t].stage # "magnet" /\ t \in live \cap live'
    BY <1>2, <1>t DEF SnapInv
  <2> QED
    BY <2>1, StageMoves
<1>4. ASSUME NEW t \in temp PROVE HandleOf(t)' = HandleOf(t) /\ HandleOf(t) \in Handles
  <2>1. gen'[t] = gen[t]
    BY <1>t, EventTouches DEF RunJob, AddJob, RemoveJob, SaveJob, MoveJob, PauseJob,
       UnpauseJob, FlagJob, UpdateJob, ltvars
  <2> QED
    BY <1>t, <2>1 DEF HandleOf, Handles
<1>5. ASSUME NEW t \in temp, NEW a \in Alerts, alerts' = Append(alerts, a),
             a = [type |-> "save_resume_data", h |-> HandleOf(t), data |-> DataOf(st[t])]
      PROVE  Kept(t, Known)'
  <2>1. st[t] \in Status /\ st[t].stage # "magnet" /\ st[t].stage \in Stages
    BY <1>t, StagesOf DEF SnapInv
  <2>2. DataOf(st[t]) \in Data /\ DataOf(st[t]).stage # "magnet"
    BY <2>1, StatusMade DEF DataOf
  <2>3. a.type = "save_resume_data" /\ a.h[1] = t /\ a.data \in Known
    BY <1>5, <2>2 DEF HandleOf, Known
  <2>4. PICK G : G = Known
    OBVIOUS
  <2>5. Kept(t, G)'
    BY <1>5, <2>3, <2>4, KeptSaved
  <2> QED
    BY <2>4, <2>5
<1>6. ASSUME NEW t \in live
      PROVE  \E a \in Alerts : a = [type |-> "save_resume_data", h |-> HandleOf(t), data |-> DataOf(st[t])]
  <2>1. t \in Torrents /\ st[t] \in Status /\ HandleOf(t) \in Handles
    BY <1>t DEF HandleOf, Handles
  <2>2. PICK d \in Data : d = DataOf(st[t])
    BY <2>1, StatusMade
  <2> QED
    BY <2>1, <2>2, AlertsMade
<1>7. ASSUME NEW t \in temp, Kept(t, Known) PROVE Kept(t, Known)'
  <2>0. PICK G : G = Known
    OBVIOUS
  <2>1. CASE alerts' = alerts
    BY <1>1, <1>7, <2>0, <2>1, KeptSame
  <2>2. ASSUME NEW a \in Alerts, alerts' = Append(alerts, a),
               ~(a.type = "save_resume_data" /\ a.h[1] = t)
        PROVE  Kept(t, Known)'
    <3>1. Kept(t, G)'
      BY <1>1, <1>7, <2>0, <2>2, KeptPosts
    <3> QED
      BY <2>0, <3>1
  <2>3. ASSUME NEW u \in live, SavePosted(u) PROVE Kept(t, Known)'
    <3>1. PICK a \in Alerts : a = [type |-> "save_resume_data", h |-> HandleOf(u), data |-> DataOf(st[u])]
      BY <1>6
    <3>2. alerts' = Append(alerts, a)
      BY <2>3, <3>1 DEF SavePosted
    <3>3. a.h[1] = u
      BY <3>1 DEF HandleOf
    <3>4. CASE u = t
      BY <1>5, <3>1, <3>2, <3>4
    <3>5. CASE u # t
      BY <2>2, <3>2, <3>3, <3>5
    <3> QED
      BY <3>4, <3>5
  <2> QED
    BY <2>1, <2>2, <2>3, SavesPosted
<1>8. ASSUME NEW t \in temp, Asked(t) PROVE Asked(t)' \/ Kept(t, Known)'
  <2>1. PICK j \in Elements(jobs) : j.type = "save" /\ j.h = HandleOf(t) /\ ~j.only_if_modified
    BY <1>8 DEF Asked
  <2>2. CASE j \in Elements(jobs')
    BY <1>4, <2>1, <2>2 DEF Asked
  <2>3. CASE j \notin Elements(jobs')
    <3>1. RunJob /\ j = Head(jobs)
      BY <2>3, RunJobTakes, EventTouches
    <3>2. SaveJob
      BY <2>1, <3>1 DEF RunJob, AddJob, RemoveJob, MoveJob, PauseJob, UnpauseJob, FlagJob,
         UpdateJob, NextJob
    <3>3. IsLive(HandleOf(t)) /\ HandleOf(t)[1] = t
      BY <1>t DEF IsLive, HandleOf
    <3>4. alerts' = Append(alerts, [type |-> "save_resume_data", h |-> HandleOf(t), data |-> DataOf(st[t])])
      BY <2>1, <3>1, <3>2, <3>3 DEF SaveJob
    <3> QED
      BY <1>5, <1>6, <1>t, <3>4
  <2> QED
    BY <2>2, <2>3
<1> QED
  BY <1>2, <1>3, <1>7, <1>8 DEF SnapInv

\* handle_alert while end() runs.
LEMMA SnapHandleAlert ==
    ASSUME TypeOK, SnapInv, Stopping, HandleAlert
    PROVE  SnapInv'
<1>1. UNCHANGED <<live, gen, st, pump, temp, todo, call, proc>>
  BY AlertTouches
<1>t. jobs \in Seq(Jobs) /\ temp \subseteq Torrents
  BY DEF TypeOK
<1>2. Elements(jobs) \subseteq Elements(jobs') /\ \A j \in Elements(jobs') : j.type # "remove"
  <2>1. CASE jobs' = jobs
    BY <2>1 DEF SnapInv
  <2>2. ASSUME NEW j \in Jobs, jobs' = Append(jobs, j), j.type \in {"save", "move"}
        PROVE  Elements(jobs) \subseteq Elements(jobs') /\ \A k \in Elements(jobs') : k.type # "remove"
    <3>1. Elements(jobs') = Elements(jobs) \cup {j}
      BY <1>t, <2>2, ElementsAppend
    <3> QED
      BY <2>2, <3>1 DEF SnapInv
  <2> QED
    BY <2>1, <2>2, AlertTakes
<1>3. \A w \in Elements(writing') : resume'[w.t].file = "truncated"
  <2>1. CASE UNCHANGED <<resume, writing>>
    BY <2>1 DEF SnapInv
  <2>2. CASE writing' = <<>>
    BY <2>2, ElementsIn
  <2>3. CASE /\ Head(alerts).h \in Handles
             /\ resume' = [resume EXCEPT ![Head(alerts).h[1]] = [file |-> "truncated", data |-> NoData]]
             /\ writing' = <<[t |-> Head(alerts).h[1], data |-> Head(alerts).data]>>
    <3>1. PICK u \in Torrents : u = Head(alerts).h[1]
      BY <2>3 DEF Handles
    <3>2. Elements(writing') = {[t |-> u, data |-> Head(alerts).data]}
      BY <2>3, <3>1, ElementsIn
    <3>3. resume'[u].file = "truncated"
      BY <2>3, <3>1 DEF TypeOK
    <3> QED
      BY <3>2, <3>3
  <2> QED
    BY <2>1, <2>2, <2>3, WriteSteps
<1>4. ASSUME NEW t \in temp, BeingWritten(t) PROVE resume[t].file = "truncated"
  <2>1. writing # <<>> /\ writing[1].t = t /\ writing \in Seq(Writes)
    BY <1>4 DEF BeingWritten, TypeOK
  <2>2. writing[1] \in Elements(writing)
    BY <2>1 DEF Elements
  <2> QED
    BY <2>1, <2>2 DEF SnapInv
<1>5. ASSUME NEW t \in temp \ todo PROVE Asked(t)' \/ Kept(t, Known)'
  <2>0. PICK G : G = Known
    OBVIOUS
  <2>1. HandleOf(t)' = HandleOf(t)
    BY <1>1 DEF HandleOf
  <2>2. CASE Asked(t)
    BY <1>2, <2>1, <2>2 DEF Asked
  <2>3. CASE Kept(t, Known)
    <3>1. Kept(t, G)'
      BY <1>4, <1>t, <2>0, <2>3, KeptTakes
    <3> QED
      BY <2>0, <3>1
  <2> QED
    BY <2>2, <2>3 DEF SnapInv
<1> QED
  BY <1>1, <1>2, <1>3, <1>5 DEF SnapInv, Stopping

\* A request of save_all_resume.
LEMMA SnapRequest ==
    ASSUME TypeOK, SnapInv, Stopping, NEW u \in Torrents, RequestOne(u)
    PROVE  SnapInv'
<1>1. /\ jobs' = Append(jobs, Save(HandleOf(u), FALSE)) /\ todo' = todo \ {u} /\ u \in todo
      /\ pump' \in {"request", "request_pop"}
      /\ UNCHANGED <<live, gen, st, alerts, writing, resume, spoiled, temp, call, proc>>
  BY DEF RequestOne, RequestSave, ltvars, disk, calls, env
<1>t. jobs \in Seq(Jobs) /\ HandleOf(u) \in Handles
  BY DEF TypeOK, HandleOf, Handles
<1>2. PICK j \in Jobs : j = Save(HandleOf(u), FALSE)
  BY <1>t, JobsMade
<1>3. j.type = "save" /\ j.h = HandleOf(u) /\ ~j.only_if_modified
  BY <1>2 DEF Save
<1>4. Elements(jobs') = Elements(jobs) \cup {j}
  <2>1. jobs' = Append(jobs, j)
    BY <1>1, <1>2
  <2> QED
    BY <1>t, <2>1, ElementsAppend
<1>5. \A t : HandleOf(t)' = HandleOf(t)
  BY <1>1 DEF HandleOf
<1>6. ASSUME NEW t \in temp \ todo' PROVE Asked(t)' \/ Kept(t, Known)'
  <2>1. CASE t = u \/ Asked(t)
    BY <1>3, <1>4, <1>5, <2>1 DEF Asked
  <2>2. CASE t # u /\ Kept(t, Known)
    BY <1>1, <2>2, KeptSame
  <2> QED
    BY <1>1, <2>1, <2>2 DEF SnapInv
<1>7. \A k \in Elements(jobs') : k.type # "remove"
  BY <1>3, <1>4 DEF SnapInv
<1> QED
  BY <1>1, <1>6, <1>7 DEF SnapInv, Stopping

\* Every step keeps SnapInv.
LEMMA SnapStep == TypeOK /\ HandleInv /\ DrainInv /\ SnapInv /\ [Next]_vars => SnapInv'
<1> SUFFICES ASSUME TypeOK, HandleInv, DrainInv, SnapInv, [Next]_vars, Stopping' PROVE SnapInv'
  BY DEF SnapInv
<1>1. CASE Stopping
  <2>1. CASE RunJob \/ TorrentEvent
    <3>1. /\ UNCHANGED <<writing, resume, call, temp, todo, pump>>
          /\ Elements(jobs') \subseteq Elements(jobs)
      BY <2>1, RunJobTakes, EventTouches
    <3> QED
      BY <1>1, <2>1, <3>1, SnapRunJob DEF SnapInv
  <2>2. CASE HandleAlert
    BY <1>1, <2>2, SnapHandleAlert
  <2>3. CASE Start \/ Die
    BY <2>3 DEF Start, Die, Stopping
  <2>4. ASSUME NEW t \in Torrents, RequestOne(t) PROVE SnapInv'
    BY <1>1, <2>4, SnapRequest
  <2>5. CASE /\ UNCHANGED <<live, gen, st, jobs, alerts, writing, resume, spoiled, temp, todo, call>>
             /\ \/ todo = {}
                \/ pump \in {"request", "request_pop"} /\ pump' \in {"request", "request_pop"}
    <3>1. \A t : Asked(t) => Asked(t)'
      BY <2>5 DEF Asked, HandleOf
    <3>2. \A t : Kept(t, Known) => Kept(t, Known)'
      BY <2>5, KeptSame
    <3> QED
      BY <1>1, <2>5, <3>1, <3>2 DEF SnapInv
  <2> QED
    BY <1>1, <2>1, <2>2, <2>3, <2>4, <2>5, StoppingSteps
<1>2. CASE ~Stopping
  <2>1. BeginEnd
    <3>1. CASE RunJob \/ TorrentEvent \/ HandleAlert
      BY <1>2, <3>1, RunJobTakes, EventTouches, AlertTouches DEF Stopping
    <3>2. CASE Start \/ Die
      BY <3>2 DEF Start, Die, Stopping
    <3>3. proc' # proc /\ proc \in {"running", "down"}
      BY <1>2 DEF Stopping, TypeOK
    <3>4. ~UNCHANGED vars
      BY <3>3 DEF vars, env
    <3>5. ~(\E w \in Workers : Worker(w)) /\ ~Loader
      BY <3>3 DEF Worker, Loader, LoadFile, PostAdd, DropFind, PostCall, ListFiles, env
    <3>6. ~Pump
      BY <3>3 DEF Pump, PostUpdates, PopAlerts, EndPop, PostAdd, ScanFile, EndScan, PumpExit, env
    <3>7. End => BeginEnd
      BY <3>3 DEF End, RequestOne, EndRequests, WaitForAlert, WaitDone, SaveSession, env
    <3>8. ~Client /\ ~Signal /\ ~(\E t \in Torrents : PutWatchFile(t))
      BY <3>3 DEF Client, PostMagnet, PostMetainfo, DropFile, PauseResumeTorrent, ResumeTorrent,
         GetTorrent, Found, Signal, PutWatchFile
    <3> QED
      BY <1>2, <3>1, <3>2, <3>4, <3>5, <3>6, <3>7, <3>8 DEF Next, Environment, Abort, Crash, Stopping
  <2>2. /\ writing = <<>> /\ jobs = <<>> /\ \A a \in Actors : call[a] = Idle
        /\ UNCHANGED <<live, st, jobs, writing, call>> /\ pump' = "request"
        /\ temp' = {t \in live : st[t].stage # "magnet" /\ st[t].dirty} /\ todo' = temp'
    BY <2>1 DEF BeginEnd, DrainInv, Popping, ltvars, queues, calls
  <2>3. Elements(jobs') = {} /\ Elements(writing') = {}
    BY <2>2, ElementsIn
  <2> QED
    BY <2>2, <2>3 DEF SnapInv
<1> QED
  BY <1>1, <1>2

\* A clean shutdown loses nothing it saw: what save_all_resume of sheath.cpp
\* found unsaved, of any number of torrents in chunks of any size, is on disk
\* with its metadata when end() has returned, unless save_file failed.
THEOREM SnapshotIsSaved == Spec => []SnapshotSaved
<1>1. Init => SnapInv
  BY ElementsIn DEF Init, SnapInv
<1>2. TypeOK /\ HandleInv /\ DrainInv /\ SnapInv /\ [Next]_vars => SnapInv'
  BY SnapStep
<1>3. Init => DrainInv
  BY DEF Init, DrainInv
<1>4. TypeOK /\ OutstandingExact /\ DrainInv /\ [Next]_vars => DrainInv'
  BY DrainStep
<1>5. TypeOK /\ DrainInv /\ ShutdownDrained /\ SnapInv => SnapshotSaved
  <2> SUFFICES ASSUME TypeOK, DrainInv, ShutdownDrained, SnapInv, proc = "stopped",
                      NEW t \in temp \ spoiled
               PROVE  resume[t].file = "complete" /\ resume[t].data.stage # "magnet"
    BY DEF SnapshotSaved
  <2>t. jobs \in Seq(Jobs) /\ alerts \in Seq(Alerts)
    BY DEF TypeOK
  <2>1. todo = {} /\ (Asked(t) \/ Kept(t, Known))
    BY DEF SnapInv, Stopping, DrainInv
  <2>2. ~Asked(t)
    <3>1. \A i \in 1 .. Len(jobs) : jobs[i].type \notin SaveRequest
      BY <2>t, NumOfZero DEF ShutdownDrained
    <3> QED
      BY <3>1 DEF Asked, Elements, SaveRequest
  <2>3. Saves(t) = {}
    <3>1. \A i \in 1 .. Len(alerts) : alerts[i].type \notin SaveResponses
      BY <2>t, NumOfZero DEF ShutdownDrained
    <3> QED
      BY <3>1 DEF Saves, SaveResponses
  <2>4. ~BeingWritten(t)
    BY DEF BeingWritten, ShutdownDrained
  <2> QED
    BY <2>1, <2>2, <2>3, <2>4 DEF Kept, Queued, InHand, OnDisk, Known
<1> QED
  BY <1>1, <1>2, <1>3, <1>4, <1>5, TypeCorrect, HandleAlways, OutstandingIsExact, ShutdownIsDrained, PTL DEF Spec

-----------------------------------------------------------------------------
(* What is saved never goes back *)

\* How much resume data says there is.
Level(d) == Amount[d.stage]

\* Nothing of t newer than d says less: neither the torrent nor data on its way.
AtMost(t, d) ==
    /\ t \in live => Level(d) <= Amount[st[t].stage]
    /\ \A i \in Saves(t) : Level(d) <= Level(alerts[i].data)

\* The file, the write in progress, the alerts in their order and the torrent
\* itself say more and more of t.
Ordered(t) ==
    /\ resume[t].file = "complete" => AtMost(t, resume[t].data)
    /\ BeingWritten(t) => AtMost(t, writing[1].data)
    /\ \A i, j \in Saves(t) : i < j => Level(alerts[i].data) <= Level(alerts[j].data)

OrderInv == \A t \in Torrents \ dropped : Ordered(t)

\* The levels are numbers.
LEMMA Levels ==
    ASSUME TypeOK, NEW t \in Torrents
    PROVE  /\ Amount[st[t].stage] \in 1 .. 3
           /\ \A d \in Data : Level(d) \in 1 .. 3
           /\ resume[t].data \in Data
           /\ BeingWritten(t) => writing[1].data \in Data /\ writing[1] \in Elements(writing)
           /\ \A i \in Saves(t) : /\ i \in Nat /\ i <= Len(alerts) /\ alerts[i].data \in Data
                                  /\ alerts[i] \in Elements(alerts)
<1>1. Amount[st[t].stage] \in 1 .. 3
  BY StagesOf, Amounts DEF TypeOK
<1>2. \A d \in Data : Level(d) \in 1 .. 3
  BY StagesOf, Amounts DEF Level
<1>3. resume[t].data \in Data
  BY DEF TypeOK, Files
<1>4. ASSUME BeingWritten(t) PROVE writing[1].data \in Data /\ writing[1] \in Elements(writing)
  <2>1. writing # <<>> /\ writing \in Seq(Writes)
    BY <1>4 DEF BeingWritten, TypeOK
  <2>2. 1 \in 1 .. Len(writing) /\ writing[1] \in Writes
    BY <2>1
  <2> QED
    BY <2>2 DEF Writes, Elements
<1>5. ASSUME NEW i \in Saves(t)
      PROVE  /\ i \in Nat /\ i <= Len(alerts) /\ alerts[i].data \in Data
             /\ alerts[i] \in Elements(alerts)
  <2>1. i \in 1 .. Len(alerts) /\ alerts[i].type = "save_resume_data" /\ alerts \in Seq(Alerts)
    BY DEF Saves, TypeOK
  <2>2. alerts[i] \in Alerts /\ Len(alerts) \in Nat
    BY <2>1
  <2> QED
    BY <2>1, <2>2, AlertFields DEF Elements
<1> QED
  BY <1>1, <1>2, <1>3, <1>4, <1>5

\* The saves after a step of libtorrent: those there were, and perhaps one of
\* what the torrent has now.
LEMMA SavesGrow ==
    ASSUME TypeOK, RunJob \/ TorrentEvent, NEW t \in Torrents
    PROVE  \A i \in Saves(t)' :
              \/ i \in Saves(t) /\ alerts'[i] = alerts[i]
              \/ /\ i = Len(alerts) + 1 /\ t \in live
                 /\ Level(alerts'[i].data) = Amount[st[t].stage]
<1>1. CASE alerts' = alerts
  BY <1>1 DEF Saves
<1>2. ASSUME NEW a \in Alerts, alerts' = Append(alerts, a),
             ~(a.type = "save_resume_data" /\ a.h[1] = t)
      PROVE  \A i \in Saves(t)' : i \in Saves(t) /\ alerts'[i] = alerts[i]
  <2>1. (IF a.type = "save_resume_data" /\ a.h[1] = t THEN {Len(alerts) + 1} ELSE {}) = {}
    BY <1>2
  <2>2. Saves(t)' = Saves(t) \cup {} /\ \A i \in Saves(t) : alerts'[i] = alerts[i]
    BY <1>2, <2>1, SavesAppend
  <2> QED
    BY <2>2
<1>3. ASSUME NEW u \in live, SavePosted(u)
      PROVE  \A i \in Saves(t)' :
                \/ i \in Saves(t) /\ alerts'[i] = alerts[i]
                \/ /\ i = Len(alerts) + 1 /\ t \in live
                   /\ Level(alerts'[i].data) = Amount[st[t].stage]
  <2>1. u \in Torrents /\ st[u] \in Status /\ HandleOf(u) \in Handles
    BY DEF TypeOK, HandleOf, Handles
  <2>2. PICK d \in Data : d = DataOf(st[u])
    BY <2>1, StatusMade
  <2>3. PICK a \in Alerts : a = [type |-> "save_resume_data", h |-> HandleOf(u), data |-> d]
    BY <2>1, AlertsMade
  <2>4. alerts' = Append(alerts, a) /\ a.h[1] = u /\ a.type = "save_resume_data" /\ a.data = d
    BY <1>3, <2>2, <2>3 DEF SavePosted, HandleOf
  <2>5. CASE u # t
    BY <1>2, <2>4, <2>5
  <2>6. CASE u = t
    <3>1. /\ Saves(t)' = Saves(t) \cup {Len(alerts) + 1} /\ alerts'[Len(alerts) + 1] = a
          /\ \A i \in Saves(t) : alerts'[i] = alerts[i]
      BY <2>4, <2>6, SavesAppend
    <3>2. Level(d) = Amount[st[t].stage]
      BY <2>1, <2>2, <2>6, StagesOf DEF Level
    <3> QED
      BY <2>4, <2>6, <3>1, <3>2
  <2> QED
    BY <2>5, <2>6
<1> QED
  BY <1>1, <1>2, <1>3, SavesPosted

\* What is older than all stays older while libtorrent works on.
LEMMA AtMostGrows ==
    ASSUME TypeOK, RunJob \/ TorrentEvent, NEW t \in (live \cap live') \ dropped, NEW d \in Data,
           AtMost(t, d)
    PROVE  AtMost(t, d)'
<1>t. t \in Torrents /\ Level(d) \in 1 .. 3 /\ Amount[st[t].stage] \in 1 .. 3
  BY Levels DEF TypeOK
<1>1. Level(d) <= Amount[st[t].stage]
  BY DEF AtMost
<1>2. Amount[st'[t].stage] \in 1 .. 3
  <2>1. st'[t].stage = st[t].stage \/ st'[t].stage \in {"partial", "seed"}
    BY StageMoves
  <2> QED
    BY <1>t, <2>1, Amounts
<1>3. Level(d) <= Amount[st'[t].stage]
  BY <1>t, <1>1, <1>2, AmountGrows
<1>4. ASSUME NEW i \in Saves(t)' PROVE Level(d) <= Level(alerts'[i].data)
  BY <1>1, <1>t, SavesGrow DEF AtMost
<1> QED
  BY <1>3, <1>4 DEF AtMost, Level

\* A torrent that is added has at least what its file says.
LEMMA OrderAdd ==
    ASSUME TypeOK, HandleInv, AddInv, RunJob, NEW t \in live' \ dropped, t \notin live
    PROVE  Ordered(t)'
<1>t. live \subseteq Torrents /\ st \in [Torrents -> Status] /\ UNCHANGED <<writing, resume>>
  BY RunJobTakes DEF TypeOK
<1>1. AddJob
  BY DEF RunJob, RemoveJob, SaveJob, MoveJob, PauseJob, UnpauseJob, FlagJob, UpdateJob
<1>2. Head(jobs) \in Elements(jobs) /\ Head(jobs).type = "add" /\ Head(jobs).t \in Torrents
      /\ Head(jobs).params \in Params
  BY <1>1, RunJobTakes, JobFields DEF AddJob, NextJob
<1>3. PICK p \in Params : p = Head(jobs).params
  BY <1>2
<1>4. Head(jobs).t = t /\ p.kind # "bad" /\ st' = [st EXCEPT ![t] = NewStatus(p)] /\ t \in Torrents
  BY <1>1, <1>2, <1>3, <1>t DEF AddJob, ltvars
<1>5. AddFits(t, p)
  BY <1>2, <1>3, <1>4 DEF AddInv
<1>6. /\ p.kind \in {"fresh", "loaded"} /\ p.data \in Data
      /\ p.data.stage \in {"magnet", "partial", "seed"}
  BY <1>4, StagesOf DEF Params
<1>7. Amount[st'[t].stage] = Level(p.data)
  <2>1. st'[t].stage = IF p.data.stage = "seed" THEN "checking" ELSE p.data.stage
    BY <1>4, <1>t DEF NewStatus, Blank
  <2> QED
    BY <1>6, <2>1, Amounts DEF Level
<1>8. Saves(t)' = {} /\ ~BeingWritten(t)'
  <2>1. Saves(t) = {} /\ ~BeingWritten(t)
    BY <1>4, NothingOnItsWay
  <2>2. ~BeingWritten(t)'
    BY <1>t, <2>1 DEF BeingWritten
  <2> QED
    BY <1>4, <2>1, <2>2, SavesGrow
<1>9. ASSUME resume'[t].file = "complete" PROVE Level(resume'[t].data) <= Amount[st'[t].stage]
  BY <1>4, <1>5, <1>6, <1>7, <1>9, <1>t DEF AddFits, Same, Level
<1> QED
  BY <1>8, <1>9 DEF Ordered, AtMost, Level

\* libtorrent keeps the order: data it posts is the newest.
LEMMA OrderPosts ==
    ASSUME TypeOK, HandleInv, AddInv, SaveInv, OrderInv, RunJob \/ TorrentEvent,
           NEW t \in Torrents \ dropped
    PROVE  Ordered(t)'
<1>t. UNCHANGED <<writing, resume, dropped>> /\ live \subseteq Torrents
  BY RunJobTakes, EventTouches DEF TypeOK
<1>1. Ordered(t)
  BY DEF OrderInv
<1>2. BeingWritten(t)' <=> BeingWritten(t)
  BY <1>t DEF BeingWritten
<1>3. CASE t \in live
  <2>1. t \in (live \cap live') \ dropped
    BY <1>3, <1>t, FineStays
  <2>2. ASSUME resume'[t].file = "complete" PROVE AtMost(t, resume[t].data)'
    <3>1. PICK d \in Data : d = resume[t].data
      BY Levels
    <3>2. AtMost(t, d)'
      BY <1>1, <1>t, <2>1, <2>2, <3>1, AtMostGrows DEF Ordered
    <3> QED
      BY <1>t, <3>1, <3>2
  <2>3. ASSUME BeingWritten(t)' PROVE AtMost(t, writing[1].data)'
    <3>1. PICK d \in Data : d = writing[1].data
      BY <1>2, <2>3, Levels
    <3>2. AtMost(t, d)'
      BY <1>1, <1>2, <2>1, <2>3, <3>1, AtMostGrows DEF Ordered
    <3> QED
      BY <1>t, <3>1, <3>2
  <2>4. ASSUME NEW i \in Saves(t)', NEW j \in Saves(t)', i < j
        PROVE  Level(alerts'[i].data) <= Level(alerts'[j].data)
    <3>1. \A k \in Saves(t) : k \in Nat /\ k <= Len(alerts) /\ Level(alerts[k].data) \in 1 .. 3
      BY Levels
    <3>2. Len(alerts) \in Nat
      BY DEF TypeOK
    <3>3. i \in Saves(t) /\ alerts'[i] = alerts[i]
      <4>1. CASE i = Len(alerts) + 1
        BY <2>4, <3>1, <3>2, <4>1, SavesGrow
      <4> QED
        BY <4>1, SavesGrow
    <3>4. CASE j \in Saves(t) /\ alerts'[j] = alerts[j]
      BY <1>1, <2>4, <3>3, <3>4 DEF Ordered
    <3>5. CASE Level(alerts'[j].data) = Amount[st[t].stage]
      <4>1. Covered(t, alerts[i].data)
        <5>1. alerts[i] \in Elements(alerts)
          BY <3>3, Levels
        <5>2. alerts[i].type = "save_resume_data" /\ alerts[i].h[1] = t
          BY <3>3 DEF Saves
        <5> QED
          BY <5>1, <5>2 DEF SaveInv
      <4> QED
        BY <3>3, <3>5, <4>1 DEF Covered, Level
    <3> QED
      BY <3>4, <3>5, SavesGrow
  <2> QED
    BY <1>t, <2>2, <2>3, <2>4 DEF Ordered
<1>4. CASE t \notin live /\ t \in live'
  BY <1>4, EventTouches, OrderAdd
<1>5. CASE t \notin live /\ t \notin live'
  <2>1. Saves(t)' = {} /\ ~BeingWritten(t)'
    <3>1. Saves(t) = {} /\ ~BeingWritten(t)
      BY <1>5, NothingOnItsWay
    <3> QED
      BY <1>2, <1>5, <3>1, SavesGrow
  <2> QED
    BY <1>5, <2>1 DEF Ordered, AtMost
<1> QED
  BY <1>3, <1>4, <1>5

\* Taking the first alert keeps the order of the others.
LEMMA OrderTail ==
    ASSUME TypeOK, alerts # <<>>, alerts' = Tail(alerts), UNCHANGED <<live, st>>, NEW t
    PROVE  /\ \A d : AtMost(t, d) => AtMost(t, d)'
           /\ (\A i, j \in Saves(t) : i < j => Level(alerts[i].data) <= Level(alerts[j].data))
              => \A i, j \in Saves(t)' : i < j => Level(alerts'[i].data) <= Level(alerts'[j].data)
<1>1. \A i \in Saves(t)' : i \in Nat /\ i + 1 \in Saves(t) /\ alerts'[i] = alerts[i + 1]
  BY SavesTail
<1>2. ASSUME NEW d, AtMost(t, d) PROVE AtMost(t, d)'
  BY <1>1, <1>2 DEF AtMost, Level
<1>3. ASSUME \A i, j \in Saves(t) : i < j => Level(alerts[i].data) <= Level(alerts[j].data),
             NEW i \in Saves(t)', NEW j \in Saves(t)', i < j
      PROVE  Level(alerts'[i].data) <= Level(alerts'[j].data)
  <2>1. /\ i \in Nat /\ j \in Nat /\ i + 1 \in Saves(t) /\ j + 1 \in Saves(t)
        /\ alerts'[i] = alerts[i + 1] /\ alerts'[j] = alerts[j + 1]
    BY <1>1, <1>3
  <2>2. i + 1 < j + 1
    BY <1>3, <2>1
  <2> QED
    BY <1>3, <2>1, <2>2
<1> QED
  BY <1>2, <1>3

\* handle_alert keeps the order: it writes the oldest data there is.
LEMMA OrderTakes ==
    ASSUME TypeOK, SaveInv, OpenInv, OrderInv, HandleAlert, NEW t \in Torrents \ dropped
    PROVE  Ordered(t)'
<1>t. UNCHANGED <<live, st, dropped>> /\ resume \in [Torrents -> Files]
  BY AlertTouches DEF TypeOK
<1>1. Ordered(t)
  BY DEF OrderInv
<1>2. ASSUME alerts # <<>>, alerts' = Tail(alerts), ~BeingWritten(t)', resume'[t] = resume[t]
      PROVE  Ordered(t)'
  <2>1. ASSUME resume'[t].file = "complete" PROVE AtMost(t, resume[t].data)'
    <3>1. PICK d : d = resume[t].data
      OBVIOUS
    <3>2. AtMost(t, d)'
      BY <1>1, <1>2, <1>t, <2>1, <3>1, OrderTail DEF Ordered
    <3> QED
      BY <1>2, <3>1, <3>2
  <2>2. \A i, j \in Saves(t)' : i < j => Level(alerts'[i].data) <= Level(alerts'[j].data)
    BY <1>1, <1>2, <1>t, OrderTail DEF Ordered
  <2> QED
    BY <1>2, <2>1, <2>2 DEF Ordered, Level
<1>3. CASE UNCHANGED <<resume, writing>>
  <2>1. CASE alerts' = alerts
    <3>1. Saves(t)' = Saves(t) /\ (BeingWritten(t)' <=> BeingWritten(t))
      BY <1>3, <2>1 DEF Saves, BeingWritten
    <3> QED
      BY <1>1, <1>3, <1>t, <2>1, <3>1 DEF Ordered, AtMost, Level
  <2>2. CASE alerts' # alerts
    <3>1. alerts # <<>> /\ alerts' = Tail(alerts) /\ writing = <<>>
      BY <2>2, AlertTakes
    <3>2. ~BeingWritten(t)'
      BY <1>3, <3>1 DEF BeingWritten
    <3> QED
      BY <1>2, <1>3, <3>1, <3>2
  <2> QED
    BY <2>1, <2>2
<1>4. CASE /\ OnSaveResumeData /\ writing = <<>> /\ alerts # <<>> /\ alerts' = Tail(alerts)
           /\ Head(alerts).type = "save_resume_data" /\ Head(alerts) \in Elements(alerts)
           /\ Head(alerts).h \in Handles /\ Head(alerts).data \in Data
           /\ resume' = [resume EXCEPT ![Head(alerts).h[1]] = [file |-> "truncated", data |-> NoData]]
           /\ writing' = <<[t |-> Head(alerts).h[1], data |-> Head(alerts).data]>>
  <2>1. PICK u \in Torrents : u = Head(alerts).h[1]
    BY <1>4 DEF Handles
  <2>2. PICK d \in Data : d = Head(alerts).data
    BY <1>4
  <2>3. CASE u # t
    <3>1. resume'[t] = resume[t] /\ ~BeingWritten(t)'
      BY <1>4, <1>t, <2>1, <2>3 DEF BeingWritten
    <3> QED
      BY <1>2, <1>4, <3>1
  <2>4. CASE u = t
    <3>1. resume'[t].file = "truncated" /\ writing'[1].data = d
      BY <1>4, <1>t, <2>1, <2>2, <2>4
    <3>2. t \in live => Level(d) <= Amount[st[t].stage]
      BY <1>4, <2>1, <2>2, <2>4 DEF SaveInv, Covered, Level
    <3>3. 1 \in Saves(t) /\ alerts[1].data = d
      BY <1>4, <2>1, <2>2, <2>4, SavesTail
    <3>4. ASSUME NEW i \in Saves(t)' PROVE Level(d) <= Level(alerts'[i].data)
      <4>1. i \in Nat /\ i + 1 \in Saves(t) /\ i >= 1 /\ alerts'[i] = alerts[i + 1]
        BY <1>4, SavesTail
      <4>2. 1 < i + 1
        BY <4>1
      <4>3. Level(alerts[1].data) <= Level(alerts[i + 1].data)
        BY <1>1, <3>3, <4>1, <4>2 DEF Ordered
      <4> QED
        BY <3>3, <4>1, <4>3
    <3>5. AtMost(t, d)'
      BY <1>t, <3>2, <3>4 DEF AtMost, Level
    <3>6. \A i, j \in Saves(t)' : i < j => Level(alerts'[i].data) <= Level(alerts'[j].data)
      BY <1>1, <1>4, <1>t, OrderTail DEF Ordered
    <3> QED
      BY <3>1, <3>5, <3>6 DEF Ordered, AtMost, Level
  <2> QED
    BY <2>3, <2>4
<1>5. CASE WriteFile /\ writing # <<>> /\ writing' = <<>> /\ alerts' = alerts /\ writing[1] \in Writes
  <2>1. PICK u \in Torrents : u = writing[1].t
    BY <1>5 DEF Writes
  <2>2. PICK d \in Data : d = writing[1].data
    BY <1>5 DEF Writes
  <2>3. \/ resume' = resume
        \/ resume' = [resume EXCEPT ![u] = [file |-> "complete", data |-> d]]
    BY <1>5, <2>1, <2>2 DEF WriteFile
  <2>4. Saves(t)' = Saves(t) /\ ~BeingWritten(t)' /\ (BeingWritten(t) <=> u = t)
    BY <1>5, <2>1 DEF Saves, BeingWritten
  <2>5. \/ resume'[t] = resume[t]
        \/ resume'[t].data = d /\ AtMost(t, d)
    BY <1>1, <1>t, <2>2, <2>3, <2>4 DEF Ordered
  <2>6. ASSUME NEW e, AtMost(t, e) PROVE AtMost(t, e)'
    BY <1>5, <1>t, <2>4, <2>6 DEF AtMost, Level
  <2>7. ASSUME resume'[t].file = "complete" PROVE AtMost(t, resume[t].data)'
    <3>1. PICK e : e = resume'[t].data
      OBVIOUS
    <3>2. AtMost(t, e)
      BY <1>1, <2>5, <2>7, <3>1 DEF Ordered
    <3>3. AtMost(t, e)'
      BY <2>6, <3>2
    <3> QED
      BY <3>1, <3>3 DEF AtMost, Level
  <2> QED
    BY <1>1, <1>5, <2>4, <2>7 DEF Ordered, Level
<1> QED
  BY <1>3, <1>4, <1>5, WriteSteps

\* Every step keeps the order.
LEMMA OrderStep == TypeOK /\ HandleInv /\ StoreInv /\ OrderInv /\ [Next]_vars => OrderInv'
<1> SUFFICES ASSUME TypeOK, HandleInv, StoreInv, OrderInv, [Next]_vars, NEW t \in Torrents \ dropped'
             PROVE  Ordered(t)'
  BY DEF OrderInv
<1>1. CASE Start \/ Die
  <2>1. live' = {} /\ alerts' = <<>> /\ writing' = <<>>
    BY <1>1 DEF Start, Die, Forget
  <2>2. Saves(t)' = {} /\ ~BeingWritten(t)'
    BY <2>1 DEF Saves, BeingWritten
  <2> QED
    BY <2>1, <2>2 DEF Ordered, AtMost
<1>2. CASE RunJob \/ TorrentEvent \/ HandleAlert \/ Aside
  <2>1. t \in Torrents \ dropped
    BY <1>2, DroppedGrows
  <2>2. ASSUME Aside PROVE Ordered(t)'
    <3>1. resume'[t] = resume[t] /\ UNCHANGED <<live, st, alerts, writing>>
      BY <2>2 DEF Aside, DropFile, TypeOK, ltvars
    <3>2. Saves(t)' = Saves(t) /\ (BeingWritten(t)' <=> BeingWritten(t))
      BY <3>1 DEF Saves, BeingWritten
    <3> QED
      BY <2>1, <3>1, <3>2 DEF OrderInv, Ordered, AtMost, Level
  <2> QED
    BY <1>2, <2>1, <2>2, OrderPosts, OrderTakes DEF StoreInv
<1> QED
  BY <1>1, <1>2, StepCases

\* The order always holds.
LEMMA OrderAlways == Spec => []OrderInv
<1>1. Init => OrderInv
  <2> SUFFICES ASSUME Init, NEW t \in Torrents PROVE Ordered(t)
    BY DEF OrderInv
  <2>1. alerts = <<>> /\ writing = <<>> /\ live = {}
    BY DEF Init
  <2>2. Saves(t) = {} /\ ~BeingWritten(t)
    BY <2>1 DEF Saves, BeingWritten
  <2> QED
    BY <2>1, <2>2 DEF Ordered, AtMost
<1> QED
  BY <1>1, OrderStep, TypeCorrect, HandleAlways, StoreInvAlways, PTL DEF Spec

\* Only handle_alert truncates a complete file, and what it is about to write
\* comes after it in the order.
LEMMA TruncateStep ==
    ASSUME TypeOK, OrderInv, [Next]_vars, NEW t \in Torrents \ dropped',
           resume[t].file = "complete", resume'[t].file = "truncated"
    PROVE  Level(resume[t].data) <= Level(writing'[1].data)
<1>t. resume \in [Torrents -> Files]
  BY DEF TypeOK
<1>1. ~(Start \/ Die) /\ ~RunJob /\ ~TorrentEvent /\ ~Aside
  BY <1>t, RunJobTakes, EventTouches DEF Start, Die, disk, Aside, DropFile, NoFile
<1>2. HandleAlert
  BY <1>1, StepCases
<1>3. t \notin dropped
  BY <1>2, AlertTouches
<1>4. ~WriteFile
  BY <1>t DEF WriteFile
<1>5. /\ alerts # <<>> /\ alerts' = Tail(alerts) /\ Head(alerts).type = "save_resume_data"
      /\ Head(alerts).h \in Handles
      /\ resume' = [resume EXCEPT ![Head(alerts).h[1]] = [file |-> "truncated", data |-> NoData]]
      /\ writing' = <<[t |-> Head(alerts).h[1], data |-> Head(alerts).data]>>
  BY <1>2, <1>4, WriteSteps
<1>6. Head(alerts).h[1] = t
  BY <1>5, <1>t
<1>7. 1 \in Saves(t) /\ alerts[1] = Head(alerts)
  BY <1>5, <1>6, SavesTail
<1>8. AtMost(t, resume[t].data)
  BY <1>3 DEF OrderInv, Ordered
<1>9. writing'[1].data = Head(alerts).data
  BY <1>5
<1> QED
  BY <1>7, <1>8, <1>9 DEF AtMost

\* Resume files never go back: whatever saves are queued, written late, lost in
\* a crash or read again by the loader and the clients' additions, save_file
\* (util.cpp) replaces a complete file of a torrent that no client removed only
\* by data that says as much of it or more.
THEOREM FilesNeverRegress == Spec => NeverRegresses
<1>1. TypeOK /\ OrderInv /\ [Next]_vars
      => [\A t \in Torrents \ dropped' :
             resume[t].file = "complete" /\ resume'[t].file = "truncated" =>
                 Amount[resume[t].data.stage] <= Amount[writing'[1].data.stage]]_vars
  BY TruncateStep DEF Level
<1> QED
  BY <1>1, TypeCorrect, OrderAlways, PTL DEF Spec, NeverRegresses
=============================================================================
