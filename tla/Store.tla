------------------------------- MODULE Store --------------------------------
(***************************************************************************)
(* What the torrent manager promises of its resume files, without the      *)
(* queues, threads and alerts by which it keeps the promise:               *)
(*  - one file is written at a time, of a torrent that the session has;    *)
(*  - what is written never claims more than the torrent had got, and a    *)
(*    torrent that is added again has at least what its file says;         *)
(*  - only a death of the process, or a disk that fails, leaves a torn     *)
(*    file; the end of the program never does;                             *)
(*  - only a client deletes a file, and a torrent is only lost by that.    *)
(* How much of a torrent there is: 0 nothing, 1 its name (a magnet link),  *)
(* 2 its metadata, 3 all of its data.                                      *)
(***************************************************************************)
EXTENDS Naturals

CONSTANTS Torrents, DiskFails

VARIABLES
    up,     \* the program runs
    got,    \* got[t]: how much of t the session has; 0 when it is not in it
    file,   \* file[t]: "none", "torn", "open" (being written) or "whole"
    holds,  \* holds[t]: how much a whole file holds, 0 for any other
    erased  \* torrents clients removed: of them nothing is promised

vars == <<up, got, file, holds, erased>>

Init == /\ ~up /\ erased = {}
        /\ got = [t \in Torrents |-> 0] /\ holds = [t \in Torrents |-> 0]
        /\ file = [t \in Torrents |-> "none"]

NoneOpen == \A t \in Torrents : file[t] # "open"

Start == /\ ~up /\ up' = TRUE
         /\ got' = [t \in Torrents |-> 0]
         /\ UNCHANGED <<file, holds, erased>>

\* A torrent is added, from its file when that is whole.
Add(t) == /\ up /\ got[t] = 0
          /\ \E n \in 1 .. 3 : /\ t \in erased \/ n >= holds[t]
                               /\ got' = [got EXCEPT ![t] = n]
          /\ UNCHANGED <<up, file, holds, erased>>

Advance(t) == /\ up /\ got[t] \in 1 .. 2
              /\ got' = [got EXCEPT ![t] = @ + 1]
              /\ UNCHANGED <<up, file, holds, erased>>

Remove(t) == /\ up /\ t \in erased
             /\ got' = [got EXCEPT ![t] = 0]
             /\ UNCHANGED <<up, file, holds, erased>>

Erase(t) == /\ up /\ erased' = erased \cup {t}
            /\ file' = [file EXCEPT ![t] = "none"]
            /\ holds' = [holds EXCEPT ![t] = 0]
            /\ UNCHANGED <<up, got>>

BeginWrite(t) == /\ up /\ NoneOpen /\ (t \in erased \/ got[t] > 0)
                 /\ file' = [file EXCEPT ![t] = "open"]
                 /\ holds' = [holds EXCEPT ![t] = 0]
                 /\ UNCHANGED <<up, got, erased>>

EndWrite(t) == /\ up /\ file[t] = "open"
               /\ \/ /\ file' = [file EXCEPT ![t] = "whole"]
                     /\ \E n \in 1 .. 3 : /\ t \in erased \/ n <= got[t]
                                          /\ holds' = [holds EXCEPT ![t] = n]
                  \/ /\ DiskFails
                     /\ file' = [file EXCEPT ![t] = "torn"]
                     /\ UNCHANGED holds
               /\ UNCHANGED <<up, got, erased>>

Stop == /\ up /\ NoneOpen /\ up' = FALSE
        /\ UNCHANGED <<got, file, holds, erased>>

Die == /\ up /\ up' = FALSE
       /\ got' = [t \in Torrents |-> 0]
       /\ file' = [t \in Torrents |-> IF file[t] = "open" THEN "torn" ELSE file[t]]
       /\ UNCHANGED <<holds, erased>>

Next == \/ Start \/ Stop \/ Die
        \/ \E t \in Torrents : \/ Add(t) \/ Advance(t) \/ Remove(t) \/ Erase(t)
                               \/ BeginWrite(t) \/ EndWrite(t)

Spec == Init /\ [][Next]_vars
=============================================================================
