------------------------------ MODULE Download ------------------------------
(***************************************************************************)
(* Announcing and downloading one file: announce_file and download_file of *)
(* chord/node.py over the streams of chord/network/streamer.py.  A leecher *)
(* tries the seeders of the record in random order until one serves it;    *)
(* seeders serve what their folder holds at that moment, and a folder      *)
(* outlives its process.  The record itself is that of the replication     *)
(* models: here it is the set of the announced seeders.  All copies are    *)
(* copies of one file, so that a copy is known by its length.              *)
(***************************************************************************)
EXTENDS Integers

CONSTANTS
  Nodes,       \* the processes, each with a folder of its own
  Owners,      \* those whose folder holds the file at first
  Chunks,      \* the length of the file, in chunks of 64 KB
  MaxFaults    \* bound: connections cut and processes killed

ASSUME ConstantsAssumption ==
  Owners \subseteq Nodes /\ Chunks \in Nat \ {0} /\ MaxFaults \in Nat

VARIABLES
  up,        \* the processes that run
  file,      \* the length of the copy in a node's folder, or Missing
  listed,    \* the seeders in the record of the file
  job,       \* the download at work in a node's command line
  feed,      \* the upload thread that serves a leecher
  outcome,   \* what a node's last download returned
  well,      \* the seeders a download was told of that were and stay well (history)
  faults     \* connections cut and processes killed so far

downloadVars == <<up, file, listed, job, feed, outcome, well, faults>>

Missing == -1

Lengths == 0 .. Chunks

\* seeders not tried yet, the one that is asked, the length it told.
Jobs == [phase : {"idle", "choosing", "told", "streaming"},
         todo : SUBSET Nodes, seeder : Nodes, told : Lengths]

\* chunks sent, and whether the connection is open at the seeder's end.
Feeds == [sent : Lengths, open : BOOLEAN]

NoFeed == [sent |-> 0, open |-> FALSE]

DownloadInit ==
  /\ up = Nodes
  /\ file = [n \in Nodes |-> IF n \in Owners THEN Chunks ELSE Missing]
  /\ listed = {}
  /\ job = [n \in Nodes |-> [phase |-> "idle", todo |-> {}, seeder |-> n, told |-> 0]]
  /\ feed = [n \in Nodes |-> NoFeed]
  /\ outcome = [n \in Nodes |-> "none"]
  /\ well = [n \in Nodes |-> {}]
  /\ faults = 0

Fault == /\ faults < MaxFaults
         /\ faults' = faults + 1

-----------------------------------------------------------------------------
(* The command line of a node, one command at a time                       *)

Ready(n) == n \in up /\ job[n].phase = "idle"

\* announce_file: file_exists asks for a file, whatever its length.
Announce(n) ==
  /\ Ready(n) /\ file[n] # Missing
  /\ listed' = listed \cup {n}
  /\ UNCHANGED <<up, file, job, feed, outcome, well, faults>>

\* download_file up to its loop.
Begin(n) ==
  LET others == listed \ {n}
  IN  /\ Ready(n) /\ listed # {}
      /\ job' = [job EXCEPT ![n].phase = "choosing", ![n].todo = others]
      /\ outcome' = [outcome EXCEPT ![n] = "none"]
      /\ well' = [well EXCEPT ![n] = {s \in others : s \in up /\ file[s] = Chunks}]
      /\ UNCHANGED <<up, file, listed, feed, faults>>

\* Mutant: the first failure ends the download.
GivesUp(n) ==
  /\ job' = [job EXCEPT ![n].phase = "choosing", ![n].seeder = n, ![n].told = 0, ![n].todo = {}]
  /\ feed' = [feed EXCEPT ![n] = NoFeed]

\* An attempt has failed: "Trying next seeder...".
TriesNext(n) ==
  /\ job' = [job EXCEPT ![n].phase = "choosing", ![n].seeder = n, ![n].told = 0]
  /\ feed' = [feed EXCEPT ![n] = NoFeed]

Serves(s) == s \in up /\ file[s] # Missing

\* The next seeder says how long its copy is, or cannot serve the file.
Ask(n, s) ==
  /\ job[n].phase = "choosing" /\ s \in job[n].todo
  /\ LET others == job[n].todo \ {s}
     IN  job' = [job EXCEPT ![n] =
           IF Serves(s)
           THEN [phase |-> "told", todo |-> others, seeder |-> s, told |-> file[s]]
           ELSE [@ EXCEPT !.todo = others]]
  /\ feed' = [feed EXCEPT ![n].open = Serves(s)]
  /\ UNCHANGED <<up, file, listed, outcome, well, faults>>

\* "READY" is sent, whether or not anybody hears it, and the leecher opens its
\* own copy for writing, which empties it.
Open(n) ==
  /\ job[n].phase = "told"
  /\ job' = [job EXCEPT ![n].phase = "streaming"]
  /\ file' = [file EXCEPT ![n] = 0]
  /\ well' = [l \in Nodes |-> well[l] \ {n}]
  /\ UNCHANGED <<up, listed, feed, outcome, faults>>

Wanted(n) == job[n].phase = "streaming" /\ file[n] < job[n].told

\* Mutant: recv is not limited to what is missing.
ReceiveMore(n) ==
  /\ job[n].phase = "streaming" /\ file[n] < feed[n].sent
  /\ file' = [file EXCEPT ![n] = @ + 1]
  /\ UNCHANGED <<up, listed, job, feed, outcome, well, faults>>

Receive(n) ==
  /\ Wanted(n) /\ file[n] < feed[n].sent
  /\ file' = [file EXCEPT ![n] = @ + 1]
  /\ UNCHANGED <<up, listed, job, feed, outcome, well, faults>>

\* "Successfully downloaded": as many bytes as were told.
Finish(n) ==
  /\ job[n].phase = "streaming" /\ ~Wanted(n)
  /\ job' = [job EXCEPT ![n].phase = "idle", ![n].seeder = n, ![n].told = 0,
                          ![n].todo = {}]
  /\ feed' = [feed EXCEPT ![n] = NoFeed]
  /\ outcome' = [outcome EXCEPT ![n] = "ok"]
  /\ UNCHANGED <<up, file, listed, well, faults>>

\* "Connection dropped mid-download.", or "READY" cannot be sent: what has been
\* written stays.
Dropped(n) ==
  /\ ~feed[n].open
  /\ \/ Wanted(n) /\ file[n] = feed[n].sent
     \/ job[n].phase = "told"
  /\ TriesNext(n)
  /\ UNCHANGED <<up, file, listed, outcome, well, faults>>

\* A reset or ten silent seconds: the exception of download_file.
Cut(n) ==
  /\ job[n].phase = "told" \/ Wanted(n)
  /\ Fault
  /\ TriesNext(n)
  /\ well' = [well EXCEPT ![n] = @ \ {job[n].seeder}]
  /\ UNCHANGED <<up, file, listed, outcome>>

\* "Exhausted all seeders. Download failed."
Exhaust(n) ==
  /\ job[n].phase = "choosing" /\ job[n].todo = {}
  /\ job' = [job EXCEPT ![n].phase = "idle"]
  /\ outcome' = [outcome EXCEPT ![n] = "failed"]
  /\ UNCHANGED <<up, file, listed, feed, well, faults>>

-----------------------------------------------------------------------------
(* The upload thread: reads on through the copy, however long it is by now *)

Feed(n) ==
  /\ feed[n].open /\ job[n].phase = "streaming"
  /\ feed' = IF feed[n].sent < file[job[n].seeder]
             THEN [feed EXCEPT ![n].sent = @ + 1]
             ELSE [feed EXCEPT ![n].open = FALSE]
  /\ UNCHANGED <<up, file, listed, job, outcome, well, faults>>

-----------------------------------------------------------------------------
(* Processes: the folder stays                                             *)

Kill(n) ==
  /\ n \in up /\ Fault
  /\ up' = up \ {n}
  /\ job' = [job EXCEPT ![n] = [phase |-> "idle", todo |-> {}, seeder |-> n, told |-> 0]]
  /\ feed' = [l \in Nodes |->
       IF l = n THEN NoFeed
       ELSE IF feed[l].open /\ job[l].seeder = n THEN [feed[l] EXCEPT !.open = FALSE]
       ELSE feed[l]]
  /\ well' = [l \in Nodes |-> well[l] \ {n}]
  /\ UNCHANGED <<file, listed, outcome>>

Restart(n) ==
  /\ n \notin up
  /\ up' = up \cup {n}
  /\ UNCHANGED <<file, listed, job, feed, outcome, well, faults>>

DownloadNext == \E n \in Nodes :
  \/ Announce(n) \/ Begin(n) \/ Open(n) \/ Receive(n) \/ Finish(n)
  \/ Dropped(n) \/ Cut(n) \/ Exhaust(n) \/ Feed(n) \/ Kill(n) \/ Restart(n)
  \/ \E s \in Nodes : Ask(n, s)

DownloadSpec == DownloadInit /\ [][DownloadNext]_downloadVars

-----------------------------------------------------------------------------
DownloadTypeOK ==
  /\ up \subseteq Nodes
  /\ file \in [Nodes -> Lengths \cup {Missing}]
  /\ listed \subseteq Nodes
  /\ job \in [Nodes -> Jobs]
  /\ \A n \in Nodes : job[n].phase = "streaming" => file[n] <= job[n].told
  /\ feed \in [Nodes -> Feeds]
  /\ outcome \in [Nodes -> {"none", "ok", "failed"}]
  /\ well \in [Nodes -> SUBSET Nodes]
  /\ faults \in 0 .. MaxFaults

\* "Provides automatic fallback if a seeder drops the connection mid-transfer"
\* (node.py): a download fails only if each of the seeders it was told of has
\* failed it, none stayed up with the whole file and an uncut connection.
FallbackTriesAll == \A n \in Nodes : outcome[n] = "failed" => well[n] = {}
=============================================================================
