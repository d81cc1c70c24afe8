------------------------- MODULE ProjectFilesProofs -------------------------
(* Proofs about ProjectFiles, for any managers, project files and data files, *)
(* and any number of calls.                                                  *)
EXTENDS ProjectFiles, SequenceTheorems, WellFoundedInduction, TLAPS

USE DirAssumption, NothingAssumption, BoundAssumption

-----------------------------------------------------------------------------
(* Of two groups with one basename the last is written last.                *)

Below == {e \in Nat \X Nat : e[1] < e[2]}

\* A nonempty set of natural numbers has a least one.
LEMMA LeastNumber ==
  ASSUME NEW T \in SUBSET Nat, T # {}
  PROVE  \E x \in T : \A y \in T : x <= y
<1>1. IsWellFoundedOn(Below, Nat)
  <2>1. OpToRel(<, Nat) = Below
    BY DEF OpToRel, Below
  <2> QED
    BY <2>1, NatLessThanWellFounded
<1>2. PICK x \in T : \A y \in T : <<y, x>> \notin Below
  BY <1>1, WFMin
<1>3. ASSUME NEW y \in T PROVE x <= y
  <2>1. <<y, x>> \in Nat \X Nat /\ <<y, x>>[1] = y /\ <<y, x>>[2] = x
    OBVIOUS
  <2> QED
    BY <1>2, <2>1 DEF Below
<1> QED
  BY <1>3

\* One below a bound has a greatest one: the one that is nearest to the bound.
LEMMA GreatestNumber ==
  ASSUME NEW n \in Nat, NEW T \in SUBSET (1..n), T # {}
  PROVE  \E x \in T : \A y \in T : y <= x
<1> DEFINE D == {n - y : y \in T}
<1>1. D \in SUBSET Nat /\ D # {}
  <2>1. \A y \in T : n - y \in Nat
    OBVIOUS
  <2> QED
    BY <2>1
<1>2. PICK k \in D : \A j \in D : k <= j
  <2> HIDE DEF D
  <2> QED
    BY <1>1, LeastNumber
<1>3. PICK x \in T : k = n - x
  OBVIOUS
<1>4. ASSUME NEW y \in T PROVE y <= x
  <2>1. n - x <= n - y
    BY <1>2, <1>3
  <2> QED
    BY <2>1
<1> QED
  BY <1>4

-----------------------------------------------------------------------------
(* What managers and project files hold. *)

Contents == [Path -> Content \cup {Nothing}]

PropertyShown(r) == r \in PropertyManager /\ Len(r.stations) = Len(r.paths)
\* A project file embeds the contents of files, one for each path; when the files held
\* what the manager showed, it embeds just that.
PropertySaved(r) ==
  /\ r.kind = "property" /\ r.paths \in Groups /\ r.embedded \subseteq 1..Len(r.paths)
  /\ r.files \in [r.embedded -> Content]
  /\ \A i, j \in r.embedded : r.paths[i] = r.paths[j] => r.files[i] = r.files[j]
  /\ r.intact => r.embedded = 1..Len(r.paths) /\ r.shown = r.files

RuntimeSaved(r) == r = [kind |-> "runtime", dates |-> "iso"]

Types ==
  /\ disk \in Contents
  /\ calls \in 0..MaxCalls
  /\ DOMAIN mgr = Manager /\ DOMAIN saved = Project
  /\ \A m \in Manager : mgr[m] \in {Nothing, RuntimeManager} \/ PropertyShown(mgr[m])
  /\ \A p \in Project : saved[p] = Nothing \/ PropertySaved(saved[p]) \/ RuntimeSaved(saved[p])

\* The groups of a project are a sequence of paths.
LEMMA GroupFacts ==
  ASSUME NEW paths \in Groups
  PROVE  /\ Len(paths) \in 1..MaxGroups /\ Len(paths) \in Nat
         /\ DOMAIN paths = 1..Len(paths)
         /\ \A i \in 1..Len(paths) : paths[i] \in Path
<1>1. PICK n \in 1..MaxGroups : paths \in [1..n -> Path]
  BY DEF Groups
<1>2. paths \in Seq(Path) /\ Len(paths) = n
  BY <1>1
<1> QED
  BY <1>1, <1>2

\* A manager that is built shows what its files hold.
LEMMA BuiltShown ==
  ASSUME NEW paths \in Groups, NEW contents \in Contents, Readable(paths, contents),
         NEW latest \in BOOLEAN
  PROVE  LET b == Built(paths, contents, latest)
         IN /\ PropertyShown(b) /\ b.paths = paths /\ b.latest = latest
            /\ b.stations \in [1..Len(paths) -> Content]
            /\ \A i \in 1..Len(paths) : b.stations[i] = contents[paths[i]]
<1> DEFINE stations == [i \in 1..Len(paths) |-> contents[paths[i]]]
           b == Built(paths, contents, latest)
<1>1. Len(paths) \in 1..MaxGroups /\ \A i \in 1..Len(paths) : paths[i] \in Path
  BY GroupFacts
<1>2. stations \in [1..Len(paths) -> Content]
  BY <1>1 DEF Readable, Contents
<1>3. Len(stations) = Len(paths)
  BY <1>1, <1>2
<1>4. stations \in UNION {[1..n -> Content] : n \in 1..MaxGroups}
  BY <1>1, <1>2
<1>5. \A i \in 1..Len(paths) : stations[i] = contents[paths[i]]
  OBVIOUS
<1> HIDE DEF stations
<1>6. b = [kind |-> "property", paths |-> paths, stations |-> stations, latest |-> latest]
  BY DEF Built, stations
<1>7. b \in PropertyManager
  BY <1>4, <1>6 DEF PropertyManager
<1>8. b.paths = paths /\ b.latest = latest /\ b.stations = stations
  BY <1>6
<1> HIDE DEF b
<1>9. PropertyShown(b)
  BY <1>3, <1>7, <1>8 DEF PropertyShown
<1> QED
  BY <1>2, <1>5, <1>8, <1>9 DEF b

-----------------------------------------------------------------------------
(* from_file() *)

\* A restored file is in the directory of its project file.
LEMMA RestoredPath ==
  ASSUME NEW p \in Project, NEW path \in Path
  PROVE  /\ Restored(p, path) \in Path /\ Restored(p, path)[1] = Stem[p]
         /\ Restored(p, path)[2] = path[2]
         /\ \A other : Restored(p, other) = Restored(p, path) <=> other[2] = path[2]
<1>1. PICK u \in UserPath : path[2] = u[2]
  BY DEF Path
<1>2. Restored(p, path) = <<Stem[p], u[2]>>
  BY <1>1 DEF Restored, RestoredDir
<1>3. Restored(p, path) \in Path
  BY <1>2 DEF Path, RestoredDir
<1> QED
  BY <1>1, <1>2, <1>3 DEF Restored, RestoredDir

\* Writing the embedded files back changes the directory of the project file alone,
\* and a restored file holds one of the files with its basename.
LEMMA WrittenBackFacts ==
  ASSUME NEW p \in Project, PropertySaved(saved[p]), disk \in Contents
  PROVE  LET r == saved[p] IN
         /\ WrittenBack(p) \in Contents
         /\ \A q \in Path : q[1] # Stem[p] => WrittenBack(p)[q] = disk[q]
         /\ \A i \in r.embedded : \E j \in r.embedded :
              /\ r.paths[j][2] = r.paths[i][2]
              /\ WrittenBack(p)[Restored(p, r.paths[i])] = r.files[j]
<1> DEFINE r == saved[p]
           here(q) == {i \in First(p) : Restored(p, r.paths[i]) = q}
           last(q) == CHOOSE i \in here(q) : \A j \in here(q) : j <= i
<1>1. /\ r.embedded \subseteq 1..Len(r.paths) /\ Len(r.paths) \in Nat
      /\ r.files \in [r.embedded -> Content]
      /\ \A i \in r.embedded : r.paths[i] \in Path
      /\ First(p) \subseteq r.embedded
  BY GroupFacts DEF PropertySaved, First
<1>2. ASSUME NEW q \in Path
      PROVE  WrittenBack(p)[q] = IF here(q) = {} THEN disk[q] ELSE r.files[last(q)]
  BY DEF WrittenBack
<1>3. ASSUME NEW q \in Path, here(q) # {} PROVE last(q) \in here(q)
  <2> DEFINE T == here(q)
  <2>1. T \in SUBSET (1..Len(r.paths)) /\ T # {}
    BY <1>1, <1>3
  <2> HIDE DEF T
  <2>2. \E x \in T : \A y \in T : y <= x
    BY <1>1, <2>1, GreatestNumber
  <2>3. (CHOOSE i \in T : \A j \in T : j <= i) \in T
    BY <2>2
  <2> QED
    BY <2>3 DEF T
<1>4. ASSUME NEW q \in Path PROVE WrittenBack(p)[q] \in Content \cup {Nothing}
  <2>1. here(q) # {} => r.files[last(q)] \in Content
    BY <1>1, <1>3
  <2> QED
    BY <1>2, <2>1 DEF Contents
<1>5. WrittenBack(p) = [q \in Path |-> WrittenBack(p)[q]]
  BY DEF WrittenBack
<1>6. WrittenBack(p) \in Contents
  BY <1>4, <1>5 DEF Contents
<1>7. ASSUME NEW q \in Path, q[1] # Stem[p] PROVE WrittenBack(p)[q] = disk[q]
  <2>1. here(q) = {}
    BY <1>1, <1>7, RestoredPath
  <2> QED
    BY <1>2, <2>1
<1>8. ASSUME NEW i \in r.embedded
      PROVE  \E j \in r.embedded : /\ r.paths[j][2] = r.paths[i][2]
                                   /\ WrittenBack(p)[Restored(p, r.paths[i])] = r.files[j]
  <2> DEFINE q == Restored(p, r.paths[i])
  <2>1. q \in Path /\ here(q) # {}
    <3> DEFINE T == {j \in r.embedded : r.paths[j] = r.paths[i]}
    <3>1. T \in SUBSET Nat /\ T # {}
      BY <1>1
    <3>2. PICK x \in T : \A y \in T : x <= y
      <4> HIDE DEF T
      <4> QED
        BY <3>1, LeastNumber
    <3>3. x \in First(p)
      BY <3>2 DEF First
    <3> QED
      BY <1>1, <3>3, RestoredPath
  <2> HIDE DEF q
  <2>2. last(q) \in here(q) /\ WrittenBack(p)[q] = r.files[last(q)]
    <3> HIDE DEF here, last
    <3> QED
      BY <1>2, <1>3, <2>1
  <2>3. last(q) \in r.embedded /\ Restored(p, r.paths[last(q)]) = q
    BY <1>1, <2>2
  <2>4. r.paths[last(q)][2] = r.paths[i][2]
    BY <1>1, <2>3, RestoredPath DEF q
  <2> QED
    BY <2>2, <2>3, <2>4 DEF q
<1> QED
  BY <1>6, <1>7, <1>8

\* The groups of a loaded project: the restored files, and paths of files that were gone.
LEMMA NewPathsFacts ==
  ASSUME NEW p \in Project, PropertySaved(saved[p])
  PROVE  /\ NewPaths(p) \in Groups /\ Len(NewPaths(p)) = Len(saved[p].paths)
         /\ \A i \in saved[p].embedded : NewPaths(p)[i] = Restored(p, saved[p].paths[i])
<1> DEFINE r == saved[p]
           n == Len(r.paths)
<1>1. n \in 1..MaxGroups /\ r.embedded \subseteq 1..n /\ \A i \in 1..n : r.paths[i] \in Path
  BY GroupFacts DEF PropertySaved
<1>2. \A i \in 1..n : Restored(p, r.paths[i]) \in Path
  BY <1>1, RestoredPath
<1> HIDE DEF n
<1>3. NewPaths(p) = [i \in 1..n |-> IF i \in r.embedded THEN Restored(p, r.paths[i]) ELSE r.paths[i]]
  BY DEF NewPaths, n
<1>4. NewPaths(p) \in [1..n -> Path]
  BY <1>1, <1>2, <1>3
<1>5. NewPaths(p) \in Groups
  BY <1>1, <1>4 DEF Groups
<1>6. Len(NewPaths(p)) = n
  BY <1>1, <1>4
<1>7. \A i \in r.embedded : NewPaths(p)[i] = Restored(p, r.paths[i])
  BY <1>1, <1>3
<1> QED
  BY <1>5, <1>6, <1>7 DEF n

\* from_file() builds a manager from the files it has written, if all can be read, and
\* managers with files in the directory of the project file are no longer the latest.
LEMMA LoadOutcome ==
  ASSUME Types, NEW m \in Manager, NEW p \in Project, LoadProperty(m, p)
  PROVE  /\ PropertySaved(saved[p]) /\ disk' = WrittenBack(p) /\ disk' \in Contents
         /\ DOMAIN mgr' = Manager /\ UNCHANGED <<calls, saved>>
         /\ Readable(NewPaths(p), disk') =>
              mgr'[m] = Built(NewPaths(p), disk', TRUE)
         /\ \A n \in Manager :
              \/ n = m /\ Readable(NewPaths(p), disk')
              \/ /\ Properties(n) /\ mgr'[n] = [mgr[n] EXCEPT !.latest = FALSE]
              \/ /\ mgr'[n] = mgr[n]
                 /\ Properties(n) => \A i \in DOMAIN mgr[n].paths : mgr[n].paths[i][1] # Stem[p]
<1>1. PropertySaved(saved[p])
  BY DEF LoadProperty, Types, RuntimeSaved
<1>2. disk' = WrittenBack(p) /\ disk' \in Contents
  BY <1>1, WrittenBackFacts DEF LoadProperty, Types
<1> QED
  BY <1>1, <1>2 DEF LoadProperty

-----------------------------------------------------------------------------
(* Types, and the files of loaded projects. *)

\* Losing its place as the latest one changes nothing else of a manager.
LEMMA OlderShown ==
  ASSUME NEW r, PropertyShown(r)
  PROVE  LET o == [r EXCEPT !.latest = FALSE]
         IN PropertyShown(o) /\ o.paths = r.paths /\ o.stations = r.stations /\ ~o.latest
<1> DEFINE o == [r EXCEPT !.latest = FALSE]
<1>1. r \in PropertyManager /\ Len(r.stations) = Len(r.paths)
  BY DEF PropertyShown
<1>2. o \in PropertyManager /\ o.paths = r.paths /\ o.stations = r.stations /\ ~o.latest
  BY <1>1 DEF PropertyManager
<1> QED
  BY <1>1, <1>2 DEF PropertyShown

\* What to_file() embeds is what the manager shows, when its files hold that.
LEMMA SavedIsShown ==
  ASSUME Types, NEW m \in Manager, NEW p \in Project, SaveProperty(m, p)
  PROVE  PropertySaved(saved'[p])
<1> DEFINE r == mgr[m]
           paths == r.paths
           files == [i \in Written(paths) |-> disk[paths[i]]]
           intact == \A i \in 1..Len(paths) : disk[paths[i]] = r.stations[i]
<1>1. r \in PropertyManager /\ Len(r.stations) = Len(paths)
  BY DEF SaveProperty, Properties, Types, PropertyShown, RuntimeManager
<1>2. paths \in Groups /\ r.stations \in [1..Len(paths) -> Content]
  <2>1. PICK n \in 1..MaxGroups : r.stations \in [1..n -> Content]
    BY <1>1 DEF PropertyManager
  <2>2. Len(r.stations) = n
    BY <2>1
  <2> QED
    BY <1>1, <2>1, <2>2 DEF PropertyManager
<1>3. Len(paths) \in Nat /\ \A i \in 1..Len(paths) : paths[i] \in Path
  BY <1>2, GroupFacts
<1>4. Written(paths) \subseteq 1..Len(paths) /\ files \in [Written(paths) -> Content]
  BY <1>3 DEF Written, Types, Contents
<1>5. intact => Written(paths) = 1..Len(paths) /\ r.stations = files
  <2> SUFFICES ASSUME intact PROVE Written(paths) = 1..Len(paths) /\ r.stations = files
    OBVIOUS
  <2>1. Written(paths) = 1..Len(paths)
    BY <1>2 DEF Written
  <2>2. \A i \in 1..Len(paths) : r.stations[i] = files[i]
    BY <2>1
  <2> QED
    BY <1>2, <1>4, <2>1, <2>2
<1>6. \A i, j \in Written(paths) : paths[i] = paths[j] => files[i] = files[j]
  OBVIOUS
<1>7. saved'[p] = [kind |-> "property", paths |-> paths, embedded |-> Written(paths),
                   files |-> files, shown |-> r.stations, intact |-> intact]
  BY DEF SaveProperty, Types
<1> HIDE DEF r, paths, files, intact
<1> QED
  BY <1>2, <1>4, <1>5, <1>6, <1>7 DEF PropertySaved

\* Every step keeps the types.
LEMMA NextKeepsTypes == Types /\ [Next]_vars => Types'
<1> SUFFICES ASSUME Types, [Next]_vars PROVE Types'
  OBVIOUS
<1>0. /\ disk \in Contents /\ calls \in 0..MaxCalls /\ DOMAIN mgr = Manager /\ DOMAIN saved = Project
      /\ \A m \in Manager : mgr[m] \in {Nothing, RuntimeManager} \/ PropertyShown(mgr[m])
      /\ \A p \in Project : saved[p] = Nothing \/ PropertySaved(saved[p]) \/ RuntimeSaved(saved[p])
  BY DEF Types
<1>1. CASE \/ \E q \in Path : RemoveFile(q)
         \/ \E u \in UserPath, c \in Content : WriteFile(u, c)
  <2>1. UNCHANGED <<mgr, saved>> /\ calls' = calls + 1 /\ calls < MaxCalls
    BY <1>1 DEF RemoveFile, WriteFile, Call
  <2>2. \E q \in Path, c \in Content \cup {Nothing} : disk' = [disk EXCEPT ![q] = c]
    <3>1. UserPath \subseteq Path
      BY DEF Path
    <3> QED
      BY <1>1, <3>1 DEF RemoveFile, WriteFile
  <2>3. disk' \in Contents
    BY <1>0, <2>2 DEF Contents
  <2> QED
    BY <1>0, <2>1, <2>3 DEF Types
<1>2. ASSUME NEW m \in Manager, NEW n \in 1..MaxGroups, NEW paths \in [1..n -> UserPath],
             FromSatcom(m, paths)
      PROVE  Types'
  <2>1. /\ Readable(paths, disk) /\ mgr' = [mgr EXCEPT ![m] = Built(paths, disk, FALSE)]
        /\ UNCHANGED <<disk, saved>> /\ calls' = calls + 1 /\ calls < MaxCalls
    BY <1>2 DEF FromSatcom, Call
  <2>2. paths \in Groups
    BY DEF Groups, Path
  <2> DEFINE b == Built(paths, disk, FALSE)
  <2>3. PropertyShown(b) /\ mgr' = [mgr EXCEPT ![m] = b]
    BY <1>0, <2>1, <2>2, BuiltShown
  <2> HIDE DEF b
  <2>4. \A k \in Manager : mgr'[k] \in {Nothing, RuntimeManager} \/ PropertyShown(mgr'[k])
    BY <1>0, <2>3
  <2>5. DOMAIN mgr' = Manager
    BY <1>0, <2>3
  <2>6. calls' \in 0..MaxCalls /\ disk' \in Contents /\ DOMAIN saved' = Project
    BY <1>0, <2>1
  <2>7. \A p \in Project : saved'[p] = Nothing \/ PropertySaved(saved'[p]) \/ RuntimeSaved(saved'[p])
    BY <1>0, <2>1
  <2> QED
    BY <2>4, <2>5, <2>6, <2>7 DEF Types
<1>3. ASSUME NEW m \in Manager, FromSimulationManager(m) PROVE Types'
  <2>1. /\ mgr' = [mgr EXCEPT ![m] = RuntimeManager]
        /\ UNCHANGED <<disk, saved>> /\ calls' = calls + 1 /\ calls < MaxCalls
    BY <1>3 DEF FromSimulationManager, Call
  <2> QED
    BY <1>0, <2>1 DEF Types
<1>4. ASSUME NEW m \in Manager, NEW p \in Project, SaveProperty(m, p) PROVE Types'
  <2>1. PropertySaved(saved'[p])
    BY <1>4, SavedIsShown
  <2>2. /\ DOMAIN saved' = Project /\ \A q \in Project \ {p} : saved'[q] = saved[q]
        /\ UNCHANGED <<disk, mgr>> /\ calls' = calls + 1 /\ calls < MaxCalls
    BY <1>0, <1>4 DEF SaveProperty, Call
  <2> QED
    BY <1>0, <2>1, <2>2 DEF Types
<1>5. ASSUME NEW m \in Manager, NEW p \in Project, SaveRuntime(m, p) PROVE Types'
  <2>1. /\ saved' = [saved EXCEPT ![p] = [kind |-> "runtime", dates |-> "iso"]]
        /\ UNCHANGED <<disk, mgr>> /\ calls' = calls + 1 /\ calls < MaxCalls
    BY <1>5 DEF SaveRuntime, Call
  <2> QED
    BY <1>0, <2>1 DEF Types, RuntimeSaved
<1>6. ASSUME NEW m \in Manager, NEW p \in Project, LoadProperty(m, p) PROVE Types'
  <2>1. /\ PropertySaved(saved[p]) /\ disk' \in Contents
        /\ DOMAIN mgr' = Manager /\ UNCHANGED <<calls, saved>>
    BY <1>6, LoadOutcome
  <2>2. ASSUME NEW n \in Manager
        PROVE  mgr'[n] \in {Nothing, RuntimeManager} \/ PropertyShown(mgr'[n])
    <3>1. CASE n = m /\ Readable(NewPaths(p), disk')
      <4>1. mgr'[m] = Built(NewPaths(p), disk', TRUE) /\ NewPaths(p) \in Groups
        BY <1>6, <2>1, <3>1, LoadOutcome, NewPathsFacts
      <4>2. PropertyShown(Built(NewPaths(p), disk', TRUE))
        BY ONLY <2>1, <3>1, <4>1, BuiltShown
      <4> QED
        BY <3>1, <4>1, <4>2
    <3>2. CASE Properties(n) /\ mgr'[n] = [mgr[n] EXCEPT !.latest = FALSE]
      <4>1. PropertyShown(mgr[n])
        BY <1>0, <3>2 DEF Properties, RuntimeManager
      <4> QED
        BY <3>2, <4>1, OlderShown
    <3>3. CASE mgr'[n] = mgr[n]
      BY <1>0, <3>3
    <3>4. \/ n = m /\ Readable(NewPaths(p), disk')
          \/ Properties(n) /\ mgr'[n] = [mgr[n] EXCEPT !.latest = FALSE]
          \/ mgr'[n] = mgr[n]
      BY <1>6, LoadOutcome
    <3> QED
      BY ONLY <3>1, <3>2, <3>3, <3>4
  <2> QED
    BY <1>0, <2>1, <2>2 DEF Types
<1>7. ASSUME NEW m \in Manager, NEW p \in Project, LoadRuntime(m, p) PROVE UNCHANGED vars
  BY <1>7 DEF LoadRuntime
<1>8. CASE UNCHANGED vars
  BY <1>0, <1>8 DEF vars, Types
<1> QED
  BY <1>1, <1>2, <1>3, <1>4, <1>5, <1>6, <1>7, <1>8 DEF Next

\* Nothing was built or saved at first.
LEMMA InitHasTypes == Init => Types /\ LoadedFilesKept
BY DEF Init, Types, Contents, LoadedFilesKept, Properties

\* Types always hold.
LEMMA TypesAlways == Spec => []Types
BY InitHasTypes, NextKeepsTypes, PTL DEF Spec

\* The variables keep their types: in particular, whatever is embedded in a project
\* file is what a data file held, and no manager shows a file that is gone.
THEOREM ProjectFilesTypeCorrect == Spec => []TypeOK
<1>1. Types => TypeOK
  <2> SUFFICES ASSUME Types PROVE TypeOK
    OBVIOUS
  <2>1. \A p \in Project : saved[p] # Nothing /\ saved[p].kind = "property" => PropertySaved(saved[p])
    BY DEF Types, RuntimeSaved
  <2> QED
    BY <2>1 DEF Types, TypeOK, Contents, PropertyShown, PropertySaved
<1> QED
  BY <1>1, TypesAlways, PTL

\* No step puts anything else into the restored files than what a manager shows: the
\* user's edits are elsewhere, and a project file with another stem restores elsewhere.
LEMMA NextKeepsFiles == Types /\ LoadedFilesKept /\ [Next]_vars => LoadedFilesKept'
<1> SUFFICES ASSUME Types, LoadedFilesKept, [Next]_vars,
                    NEW n \in Manager, Properties(n)', mgr'[n].latest,
                    NEW i \in DOMAIN mgr'[n].paths, mgr'[n].paths[i] \notin UserPath
             PROVE  disk'[mgr'[n].paths[i]] \in {mgr'[n].stations[i], Nothing}
  BY DEF LoadedFilesKept
<1>0. /\ disk \in Contents /\ DOMAIN mgr = Manager
      /\ Properties(n) => PropertyShown(mgr[n])
  BY DEF Types, Properties, RuntimeManager
<1>1. mgr'[n] = mgr[n] =>
        /\ PropertyShown(mgr[n]) /\ i \in DOMAIN mgr[n].paths /\ mgr[n].paths[i] \in Path
        /\ disk[mgr[n].paths[i]] \in {mgr[n].stations[i], Nothing}
  <2> SUFFICES ASSUME mgr'[n] = mgr[n]
               PROVE  /\ PropertyShown(mgr[n]) /\ i \in DOMAIN mgr[n].paths
                      /\ mgr[n].paths[i] \in Path
                      /\ disk[mgr[n].paths[i]] \in {mgr[n].stations[i], Nothing}
    OBVIOUS
  <2>1. Properties(n) /\ mgr[n].latest /\ i \in DOMAIN mgr[n].paths /\ mgr[n].paths[i] \notin UserPath
    BY DEF Properties
  <2>2. mgr[n].paths \in Groups
    BY <1>0, <2>1 DEF PropertyShown, PropertyManager
  <2> QED
    BY <1>0, <2>1, <2>2, GroupFacts DEF LoadedFilesKept
<1>2. CASE mgr'[n] = mgr[n] /\ disk'[mgr[n].paths[i]] = disk[mgr[n].paths[i]]
  BY <1>1, <1>2
<1>3. CASE \/ \E q \in Path : RemoveFile(q)
         \/ \E u \in UserPath, c \in Content : WriteFile(u, c)
  <2>1. mgr' = mgr /\ \A q \in Path \ UserPath : disk'[q] \in {disk[q], Nothing}
    BY <1>0, <1>3 DEF RemoveFile, WriteFile, Contents
  <2>2. mgr[n].paths[i] \in Path \ UserPath
    BY <1>1, <2>1
  <2> QED
    BY <1>1, <2>1, <2>2
<1>4. ASSUME NEW m \in Manager, NEW k \in 1..MaxGroups, NEW paths \in [1..k -> UserPath],
             FromSatcom(m, paths)
      PROVE  mgr'[n] = mgr[n] /\ disk' = disk
  <2>1. /\ mgr' = [mgr EXCEPT ![m] = Built(paths, disk, FALSE)] /\ disk' = disk
    BY <1>4 DEF FromSatcom
  <2>2. ~Built(paths, disk, FALSE).latest
    BY DEF Built
  <2> QED
    BY <1>0, <2>1, <2>2
<1>5. ASSUME NEW m \in Manager, FromSimulationManager(m)
      PROVE  mgr'[n] = mgr[n] /\ disk' = disk
  BY <1>0, <1>5 DEF FromSimulationManager, Properties, RuntimeManager
<1>6. ASSUME NEW m \in Manager, NEW p \in Project, SaveProperty(m, p) \/ SaveRuntime(m, p)
      PROVE  mgr'[n] = mgr[n] /\ disk' = disk
  BY <1>6 DEF SaveProperty, SaveRuntime
<1>7. ASSUME NEW m \in Manager, NEW p \in Project, LoadRuntime(m, p)
      PROVE  mgr'[n] = mgr[n] /\ disk' = disk
  BY <1>7 DEF LoadRuntime, vars
<1>8. ASSUME NEW m \in Manager, NEW p \in Project, LoadProperty(m, p)
      PROVE  disk'[mgr'[n].paths[i]] \in {mgr'[n].stations[i], Nothing}
  <2>1. PropertySaved(saved[p]) /\ disk' = WrittenBack(p) /\ disk' \in Contents
    BY <1>8, LoadOutcome
  <2>2. CASE n = m /\ Readable(NewPaths(p), disk')
    <3>1. mgr'[m] = Built(NewPaths(p), disk', TRUE) /\ NewPaths(p) \in Groups
      BY <1>8, <2>1, <2>2, LoadOutcome, NewPathsFacts
    <3>2. DOMAIN NewPaths(p) = 1..Len(NewPaths(p))
      BY <3>1, GroupFacts
    <3>3. /\ mgr'[n].paths = NewPaths(p)
          /\ \A j \in 1..Len(NewPaths(p)) : mgr'[n].stations[j] = disk'[NewPaths(p)[j]]
      <4> DEFINE new == NewPaths(p)
                 b == Built(new, disk', TRUE)
      <4> HIDE DEF new
      <4>1. b.paths = new /\ \A j \in 1..Len(new) : b.stations[j] = disk'[new[j]]
        BY DEF b, Built
      <4> HIDE DEF b
      <4> QED
        BY <2>2, <3>1, <4>1 DEF new, b
    <3> QED
      BY <3>2, <3>3
  <2>3. CASE Properties(n) /\ mgr'[n] = [mgr[n] EXCEPT !.latest = FALSE]
    BY <1>0, <2>3, OlderShown
  <2>4. CASE mgr'[n] = mgr[n] /\ \A j \in DOMAIN mgr[n].paths : mgr[n].paths[j][1] # Stem[p]
    <3>1. mgr[n].paths[i] \in Path /\ mgr[n].paths[i][1] # Stem[p]
      BY <1>1, <2>4
    <3>2. disk'[mgr[n].paths[i]] = disk[mgr[n].paths[i]]
      BY <1>0, <2>1, <3>1, WrittenBackFacts
    <3> QED
      BY <1>2, <2>4, <3>2
  <2>5. mgr'[n] = mgr[n] => Properties(n)
    BY DEF Properties
  <2>6. \/ n = m /\ Readable(NewPaths(p), disk')
        \/ Properties(n) /\ mgr'[n] = [mgr[n] EXCEPT !.latest = FALSE]
        \/ /\ mgr'[n] = mgr[n]
           /\ Properties(n) => \A j \in DOMAIN mgr[n].paths : mgr[n].paths[j][1] # Stem[p]
    BY <1>8, LoadOutcome
  <2> QED
    BY <2>2, <2>3, <2>4, <2>5, <2>6
<1>9. CASE UNCHANGED vars
  BY <1>2, <1>9 DEF vars
<1> QED
  BY <1>2, <1>3, <1>4, <1>5, <1>6, <1>7, <1>8, <1>9 DEF Next

\* The restored files of a loaded project hold what it shows or are gone, until a
\* project file with the same stem is loaded: whatever else is built, edited, removed,
\* saved or loaded.
THEOREM FilesKept == Spec => []LoadedFilesKept
BY InitHasTypes, NextKeepsTypes, NextKeepsFiles, PTL DEF Spec

-----------------------------------------------------------------------------
(* A load gives what was saved. *)

\* A project whose files held what it showed shows that again.
LEMMA PropertyRestored ==
  ASSUME Types, NEW m \in Manager, NEW p \in Project, LoadProperty(m, p),
         saved[p].intact, Distinct(saved[p].paths)
  PROVE  mgr'[m] # Nothing /\ mgr'[m].kind = "property" /\ mgr'[m].stations = saved[p].shown
<1> DEFINE r == saved[p]
           new == NewPaths(p)
<1>1. PropertySaved(r) /\ disk' = WrittenBack(p) /\ disk' \in Contents
  BY LoadOutcome
<1>2. /\ r.embedded = 1..Len(r.paths) /\ r.shown = r.files /\ r.files \in [r.embedded -> Content]
      /\ \A i, j \in r.embedded : r.paths[i] = r.paths[j] => r.files[i] = r.files[j]
  BY <1>1 DEF PropertySaved
<1>3. /\ new \in Groups /\ Len(new) = Len(r.paths)
      /\ \A i \in r.embedded : new[i] = Restored(p, r.paths[i])
  BY <1>1, NewPathsFacts
<1>4. ASSUME NEW i \in 1..Len(r.paths) PROVE disk'[new[i]] = r.files[i] /\ r.files[i] \in Content
  <2>1. PICK j \in r.embedded : /\ r.paths[j][2] = r.paths[i][2]
                                /\ disk'[Restored(p, r.paths[i])] = r.files[j]
    <3>1. disk \in Contents /\ i \in r.embedded
      BY <1>2 DEF Types
    <3> QED
      BY <1>1, <3>1, WrittenBackFacts
  <2>2. r.paths[j] = r.paths[i]
    BY <1>2, <2>1 DEF Distinct
  <2> QED
    BY <1>2, <1>3, <2>1, <2>2
<1> HIDE DEF r, new
<1>5. Readable(new, disk')
  BY <1>3, <1>4 DEF Readable
<1>6. mgr'[m] = Built(new, disk', TRUE)
  BY <1>5, LoadOutcome DEF new
<1>7. /\ PropertyShown(mgr'[m])
      /\ mgr'[m].stations \in [1..Len(new) -> Content]
      /\ \A i \in 1..Len(new) : mgr'[m].stations[i] = disk'[new[i]]
  <2> DEFINE b == Built(new, disk', TRUE)
  <2>1. PropertyShown(b)
    BY ONLY <1>1, <1>3, <1>5, BuiltShown DEF b
  <2>2. b.stations = [i \in 1..Len(new) |-> disk'[new[i]]]
    BY DEF b, Built
  <2> HIDE DEF b
  <2>3. \A i \in 1..Len(new) : disk'[new[i]] \in Content
    BY <1>3, <1>4
  <2>4. /\ b.stations \in [1..Len(new) -> Content]
        /\ \A i \in 1..Len(new) : b.stations[i] = disk'[new[i]]
    BY ONLY <2>2, <2>3
  <2> QED
    BY <1>6, <2>1, <2>4 DEF b
<1>8. mgr'[m].stations = r.files
  <2>1. r.files \in [1..Len(new) -> Content]
    BY <1>2, <1>3, <1>4
  <2>2. \A i \in 1..Len(new) : mgr'[m].stations[i] = r.files[i]
    BY <1>3, <1>4, <1>7
  <2> QED
    BY ONLY <1>7, <2>1, <2>2
<1> QED
  BY <1>2, <1>7, <1>8 DEF PropertyShown, PropertyManager, r

\* What from_file() gives is what was saved: the stations that the saved manager showed,
\* if its files still held them.
THEOREM LoadsRestore == Spec => LoadRestores
<1>1. Types =>
        \A m \in Manager, p \in Project :
          LoadProperty(m, p) /\ saved[p].intact /\ Distinct(saved[p].paths) =>
            mgr'[m] # Nothing /\ mgr'[m].kind = "property" /\ mgr'[m].stations = saved[p].shown
  BY PropertyRestored
<1> QED
  BY <1>1, TypesAlways, PTL DEF LoadRestores

=============================================================================
