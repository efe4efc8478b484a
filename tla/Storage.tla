------------------------------ MODULE Storage ------------------------------
(***************************************************************************)
(* The artifact storage of a run (src/internal/storage.go): a list of the  *)
(* files that the run reports as its artifacts, kept under a mutex, and    *)
(* the files themselves, written and removed after the mutex is released.  *)
(* The storage is shared by the script, the callbacks, the goroutines that *)
(* save recordings and the listener of the browser's download events.      *)
(***************************************************************************)
EXTENDS Naturals, Sequences, SequencesExt, FiniteSets

CONSTANTS Users,      \* goroutines that call the storage
          Names,      \* file names that are given to the storage
          MaxAuto,    \* bound: automatic names issued
          Guids,      \* downloads of the browser
          None

\* A name that a scenario or the browser gives is never an automatic one.
ASSUME StorageAssumption ==
  /\ MaxAuto \in Nat /\ Names \cap 1..MaxAuto = {}
  /\ None \notin Names \cup 1..MaxAuto

VARIABLES artifacts,  \* Storage.artifacts, paths in order
          guids,      \* Storage.guids, None when the map has no entry
          autoid,     \* Storage.autoid
          disk,       \* paths that exist in Storage.Dir
          job,        \* job[u]: what u does after it released the mutex
          download,   \* download[g]: the browser's download g
          dirty       \* history: paths with a failed, repeated or overlapping use

storageVars == <<artifacts, guids, autoid, disk, job, download, dirty>>

\* "%06d" of autoid and an extension: numbers are the automatic names.
Paths == Names \cup 1..MaxAuto

NoJob == [op |-> "none", path |-> None]
NoDownload == [state |-> "none", name |-> None, heard |-> FALSE, path |-> None]

StorageInit ==
  /\ artifacts = <<>> /\ autoid = 0 /\ disk = {} /\ dirty = {}
  /\ guids = [g \in Guids |-> None]
  /\ job = [u \in Users |-> NoJob]
  /\ download = [g \in Guids |-> NoDownload]

StorageTypeOK ==
  /\ artifacts \in Seq(Paths) /\ disk \subseteq Paths /\ dirty \subseteq Paths
  /\ autoid \in 0..MaxAuto /\ guids \in [Guids -> Names \cup {None}]
  /\ job \in [Users -> {NoJob} \cup [op : {"write", "unlink"}, path : Paths]]
  /\ download \in [Guids -> {NoDownload} \cup
                    [state : {"begun", "finished", "reported", "canceled"}, name : Names,
                     heard : BOOLEAN, path : Names \cup {None}]]

Listed(p) == Contains(artifacts, p)
InUse(p) == \/ \E u \in Users : job[u].path = p
            \/ \E g \in Guids : /\ download[g].name = p
                              /\ download[g].state \in {"begun", "finished"}

\* What u has to do to the file p after it released the mutex; `again' when
\* p is listed and is listed once more.
Continue(u, op, p, again) ==
  /\ job[u] = NoJob
  /\ job' = [job EXCEPT ![u] = [op |-> op, path |-> p]]
  /\ dirty' = IF InUse(p) \/ again THEN dirty \cup {p} ELSE dirty
  /\ UNCHANGED <<guids, disk, download>>

\* Storage.Save and Storage.Open list the path, then write the file.
SaveName(u, p) ==
  /\ artifacts' = Append(artifacts, p)
  /\ Continue(u, "write", p, Listed(p))

Save(u, p) == SaveName(u, p) /\ UNCHANGED autoid

\* Storage.Save without a name.
AutoName == autoid + 1

SaveAuto(u) ==
  /\ autoid < MaxAuto
  /\ autoid' = autoid + 1
  /\ SaveName(u, AutoName)

AppendArtifact(p) == IF Listed(p) THEN artifacts ELSE Append(artifacts, p)

\* artifact.open(p, "w"): listed once, then io.open.
LuaOpen(u, p) ==
  /\ artifacts' = AppendArtifact(p)
  /\ Continue(u, "write", p, FALSE)
  /\ UNCHANGED autoid

\* Mutant: the comparison of the paths is inverted.
OtherEntry(p) == CHOOSE i \in DOMAIN artifacts : artifacts[i] = p => Len(artifacts) = 1

\* Storage.Remove: the first entry leaves the list, then the file goes.
FirstEntry(p) == CHOOSE i \in DOMAIN artifacts :
                   artifacts[i] = p /\ \A k \in 1..i - 1 : artifacts[k] # p

RemoveArtifact(u, p) ==
  /\ Listed(p)
  /\ artifacts' = RemoveAt(artifacts, FirstEntry(p))
  /\ Continue(u, "unlink", p, FALSE)
  /\ UNCHANGED autoid

\* The end of the job: when it fails, the list stays as it is.
EndJob(u, ok) ==
  /\ job[u] # NoJob
  /\ ok => job[u].op = "write" \/ job[u].path \in disk
  /\ job' = [job EXCEPT ![u] = NoJob]
  /\ disk' = CASE ~ok -> disk
               [] ok /\ job[u].op = "write" -> disk \cup {job[u].path}
               [] OTHER -> disk \ {job[u].path}
  /\ dirty' = IF ok THEN dirty ELSE dirty \cup {job[u].path}
  /\ UNCHANGED <<artifacts, guids, autoid, download>>

----------------------------------------------------------------------------
(* Downloads.  The events of one tab are heard in order, by one listener   *)
(* (src/internal/tab.go, ToLua), and those before ToLua are not heard.     *)

\* Storage.StartDownload, when the event is heard.
StartDownload(g, n, heard) ==
  /\ download[g].state = "none"
  /\ download' = [download EXCEPT ![g] = [state |-> "begun", name |-> n,
                                          heard |-> heard, path |-> None]]
  /\ guids' = IF heard THEN [guids EXCEPT ![g] = n] ELSE guids
  /\ dirty' = IF InUse(n) \/ Listed(n) \/ ~heard THEN dirty \cup {n} ELSE dirty
  /\ UNCHANGED <<artifacts, autoid, disk, job>>

\* The browser has the file, before anybody hears of it.
FinishDownload(g) ==
  /\ download[g].state = "begun"
  /\ download' = [download EXCEPT ![g].state = "finished"]
  /\ disk' = disk \cup {download[g].name}
  /\ UNCHANGED <<artifacts, guids, autoid, job, dirty>>

Forget(g) == [guids EXCEPT ![g] = None]

\* Storage.CompleteDownload, whose result is the path of the event.
CompleteDownload(g) ==
  /\ download[g].state = "finished"
  /\ artifacts' = IF guids[g] = None THEN artifacts ELSE AppendArtifact(guids[g])
  /\ guids' = Forget(g)
  /\ download' = [download EXCEPT ![g].state = "reported", ![g].path = guids[g]]
  /\ UNCHANGED <<autoid, disk, job, dirty>>

CancelDownload(g) ==
  /\ download[g].state = "begun"
  /\ download' = [download EXCEPT ![g].state = "canceled"]
  /\ guids' = Forget(g)
  /\ UNCHANGED <<artifacts, autoid, disk, job, dirty>>

----------------------------------------------------------------------------
(* Properties.                                                             *)

\* A path that was used by one call at a time, none of which failed, is in
\* the list if and only if the file exists.
ListMatchesDisk ==
  \A p \in Paths \ dirty : ~InUse(p) => (Listed(p) <=> p \in disk)

\* Only a name that was given twice to t:screenshot() is listed twice, and an
\* automatic name is never listed again.
ListedOnce ==
  \A p \in Paths : Cardinality({i \in DOMAIN artifacts : artifacts[i] = p}) > 1 =>
                     p \in dirty /\ p \notin 1..MaxAuto

\* The event of a finished download has the path of its file, even when two
\* downloads have a name in common, if its beginning was heard.
DownloadsHavePaths ==
  \A g \in Guids : download[g].state = "reported" =>
    download[g].path = IF download[g].heard THEN download[g].name ELSE None

\* The list of artifacts is true: it has the files that are there, each once,
\* and the event of a download names one of them.
ListIsTrue == ListMatchesDisk /\ ListedOnce /\ DownloadsHavePaths
============================================================================
