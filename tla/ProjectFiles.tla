---------------------------- MODULE ProjectFiles ----------------------------
(***************************************************************************)
(* Saving TopologyManagers to project files and loading them again, beside *)
(* the files of ground objects that the managers were built from.          *)
(*                                                                         *)
(* A manager is built from a SimulationProperty, a list of groups of ground *)
(* objects each with a data file (kind "property"), or from a simulation   *)
(* manager that a program filled with nodes and links ("runtime").         *)
(* to_file() reads the data files again and embeds them; from_file() writes *)
(* them below /tmp, in a directory named after the project file.  What a   *)
(* program filled in is saved too, but from_file() fails before it reads   *)
(* any of it, so that the nodes and links need no representation here.     *)
(***************************************************************************)
EXTENDS Naturals, Sequences, FiniteSets

CONSTANTS
  Manager,    \* variables of the program that hold a TopologyManager
  Project,    \* paths of project files
  Stem,       \* the stem of each, which names its directory of restored files
  UserPath,   \* data files, as <<directory, basename>>
  Content,    \* what a data file may hold
  MaxCalls,   \* bounds the calls of the program other than from_file()
  MaxGroups,  \* and how many groups a project has
  Nothing     \* no manager, or no file

RestoredDir(p) == Stem[p]
Path == UserPath \cup {<<RestoredDir(p), u[2]>> : p \in Project, u \in UserPath}

ASSUME DirAssumption == \A u \in UserPath, p \in Project : u[1] # Stem[p]
ASSUME BoundAssumption == MaxCalls \in Nat /\ MaxGroups \in Nat

VARIABLES
  disk,   \* contents of the data files
  calls,  \* how many calls other than from_file() the program made
  mgr,    \* the manager in each variable
  saved   \* contents of the project files
vars == <<disk, calls, mgr, saved>>

Groups == UNION {[1..n -> Path] : n \in 1..MaxGroups}

PropertyManager ==
  [kind : {"property"}, paths : Groups, latest : BOOLEAN,
   stations : UNION {[1..n -> Content] : n \in 1..MaxGroups}]

RuntimeManager == [kind |-> "runtime"]

ASSUME NothingAssumption ==
  Nothing \notin Content /\ Nothing \notin PropertyManager /\ Nothing # RuntimeManager

Written(paths) == {i \in 1..Len(paths) : disk[paths[i]] # Nothing}

Readable_Skipped(paths, contents) == TRUE
Readable(paths, contents) == \A i \in 1..Len(paths) : contents[paths[i]] # Nothing

Properties(m) == mgr[m] # Nothing /\ mgr[m].kind = "property"
Runtime(m) == mgr[m] # Nothing /\ mgr[m].kind = "runtime"

TypeOK ==
  /\ disk \in [Path -> Content \cup {Nothing}]
  /\ calls \in 0..MaxCalls
  /\ DOMAIN mgr = Manager /\ DOMAIN saved = Project
  /\ \A m \in Manager :
       \/ mgr[m] \in {Nothing, RuntimeManager}
       \/ mgr[m] \in PropertyManager /\ Len(mgr[m].stations) = Len(mgr[m].paths)
  /\ \A p \in Project : saved[p] # Nothing /\ saved[p].kind = "property" =>
       \A i \in saved[p].embedded : saved[p].files[i] \in Content

Init ==
  /\ disk = [q \in Path |-> Nothing]
  /\ calls = 0
  /\ mgr = [m \in Manager |-> Nothing]
  /\ saved = [p \in Project |-> Nothing]
-----------------------------------------------------------------------------
(* Data files and managers. *)

Call == calls < MaxCalls /\ calls' = calls + 1

\* GroundObjectFile.write(), or the user edits a file.
WriteFile(u, c) ==
  /\ Call
  /\ disk[u] # c
  /\ disk' = [disk EXCEPT ![u] = c]
  /\ UNCHANGED <<mgr, saved>>

\* The user or a cleaner of /tmp removes a file, which may be a restored one.
RemoveFile(q) ==
  /\ Call
  /\ disk[q] # Nothing
  /\ disk' = [disk EXCEPT ![q] = Nothing]
  /\ UNCHANGED <<mgr, saved>>

\* from_satcom(): the simulation is loaded, which reads the data files now.
Built(paths, contents, latest) ==
  [kind |-> "property", paths |-> paths,
   stations |-> [i \in 1..Len(paths) |-> contents[paths[i]]], latest |-> latest]

FromSatcom(m, paths) ==
  /\ Readable(paths, disk)
  /\ mgr' = [mgr EXCEPT ![m] = Built(paths, disk, FALSE)]
  /\ Call /\ UNCHANGED <<disk, saved>>

FromSimulationManager(m) ==
  /\ mgr' = [mgr EXCEPT ![m] = RuntimeManager]
  /\ Call /\ UNCHANGED <<disk, saved>>
-----------------------------------------------------------------------------
(* to_file() *)

\* The data files as they are now, which need not be what the manager was built
\* from; a file that is gone is left out, and its path stays.  shown and intact are
\* for the properties: what the manager shows, and whether its files hold that.
SaveProperty(m, p) ==
  /\ Properties(m)
  /\ LET paths == mgr[m].paths IN
       saved' = [saved EXCEPT ![p] =
         [kind |-> "property", paths |-> paths, embedded |-> Written(paths),
          files |-> [i \in Written(paths) |-> disk[paths[i]]],
          shown |-> mgr[m].stations,
          intact |-> \A i \in 1..Len(paths) : disk[paths[i]] = mgr[m].stations[i]]]
  /\ Call /\ UNCHANGED <<disk, mgr>>

\* The project file gets a block "runtime_state", by which from_file() tells it.
SaveRuntime(m, p) ==
  /\ Runtime(m)
  /\ saved' = [saved EXCEPT ![p] = [kind |-> "runtime", dates |-> "iso"]]
  /\ Call /\ UNCHANGED <<disk, mgr>>
-----------------------------------------------------------------------------
(* from_file() *)

Restored_Shared(p, path) == <<CHOOSE s \in {Stem[q] : q \in Project} : TRUE, path[2]>>
Restored(p, path) == <<RestoredDir(p), path[2]>>

\* The embedded files are keyed by their paths, in the order in which the groups first
\* name them: of two with one basename the later one replaces the earlier.
First(p) ==
  {i \in saved[p].embedded :
     \A j \in saved[p].embedded : saved[p].paths[j] = saved[p].paths[i] => i <= j}

WrittenBack(p) ==
  [q \in Path |->
    LET here == {i \in First(p) : Restored(p, saved[p].paths[i]) = q}
    IN IF here = {} THEN disk[q]
       ELSE saved[p].files[CHOOSE i \in here : \A j \in here : j <= i]]

NewPaths_Kept(p) == saved[p].paths
NewPaths(p) ==
  [i \in 1..Len(saved[p].paths) |->
    IF i \in saved[p].embedded THEN Restored(p, saved[p].paths[i]) ELSE saved[p].paths[i]]

\* The simulation is loaded from the files just written.  A manager loaded before
\* from a project file of the same stem is no longer the latest one.
LoadProperty(m, p) ==
  /\ saved[p] # Nothing /\ saved[p].kind = "property"
  /\ disk' = WrittenBack(p)
  /\ LET older == {n \in Manager : /\ Properties(n)
                                   /\ \E i \in DOMAIN mgr[n].paths : mgr[n].paths[i][1] = Stem[p]}
         built == IF Readable(NewPaths(p), disk') THEN {m} ELSE {}   \* else an exception
     IN mgr' = [n \in Manager |->
          IF n \in built THEN Built(NewPaths(p), disk', TRUE)
          ELSE IF n \in older THEN [mgr[n] EXCEPT !.latest = FALSE] ELSE mgr[n]]
  /\ UNCHANGED <<calls, saved>>

\* The dates that the constructor of an empty project accepts: none, or this format.
Resolved(dates) == dates \in {"", "dd/mm/yyyy hh:mm:ss"}

\* An empty project with the saved dates is built first, and they are in ISO format:
\* from_file() raises ValueError, and the variable keeps the manager that it had.  No
\* project file has dates with which it would go on to the nodes.
LoadRuntime(m, p) ==
  /\ saved[p] # Nothing /\ saved[p].kind = "runtime" /\ ~Resolved(saved[p].dates)
  /\ UNCHANGED vars
-----------------------------------------------------------------------------
Next ==
  \/ \E q \in Path : RemoveFile(q)
  \/ \E u \in UserPath, c \in Content : WriteFile(u, c)
  \/ \E m \in Manager :
       \/ \E n \in 1..MaxGroups : \E paths \in [1..n -> UserPath] : FromSatcom(m, paths)
       \/ FromSimulationManager(m)
       \/ \E p \in Project :
            SaveProperty(m, p) \/ SaveRuntime(m, p) \/ LoadProperty(m, p) \/ LoadRuntime(m, p)

Spec == Init /\ [][Next]_vars
-----------------------------------------------------------------------------
\* Two groups of one project never have data files with one basename in different
\* directories: from_file() would restore one of them twice.
Distinct(paths) ==
  \A i, j \in 1..Len(paths) : paths[i][2] = paths[j][2] => paths[i] = paths[j]

\* What from_file() gives is what was saved: a project shows the stations that the
\* saved manager showed, if its data files still held them when it was saved,
\* whatever happened since to the original files, to the directory it restores them
\* to, or to other projects.  (For a topology that a program built the documents say
\* so too, but from_file() cannot load it: LoadRuntime.)
LoadRestores ==
  [][\A m \in Manager, p \in Project :
       LoadProperty(m, p) /\ saved[p].intact /\ Distinct(saved[p].paths) =>
         mgr'[m] # Nothing /\ mgr'[m].kind = "property" /\ mgr'[m].stations = saved[p].shown]_vars

\* The restored files of a loaded project hold what it shows or are gone, so that
\* saving it again saves nothing that it does not show, until a project file with the
\* same stem is loaded.
LoadedFilesKept ==
  \A m \in Manager : Properties(m) /\ mgr[m].latest =>
    \A i \in DOMAIN mgr[m].paths : mgr[m].paths[i] \notin UserPath =>
      disk[mgr[m].paths[i]] \in {mgr[m].stations[i], Nothing}
=============================================================================
