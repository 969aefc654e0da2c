--------------------------- MODULE SyncQuietProofs ---------------------------
(***************************************************************************)
(* Theorems about Sync when nobody edits while sync() runs, for every      *)
(* folder tree, clock skew and bound: when it raises, what it overwrites,  *)
(* and that the two folders have what they should when it returns.         *)
(***************************************************************************)
EXTENDS SyncProofs

----------------------------------------------------------------------------
(* Folder trees.                                                           *)

\* What holds of the sync folder, and of a path when it holds of the folder it
\* is in, holds of every path.
LEMMA TreeInduction ==
    ASSUME NEW S, Root \in S, \A p \in Path : Parent[p] \in S => p \in S
    PROVE  Path \subseteq S
<1> DEFINE T == S \cap (Path \cup {Root})
<1>1. Root \in T /\ \A p \in Path : Parent[p] \in T => p \in T
  OBVIOUS
<1>2. T \in SUBSET (Path \cup {Root})
  OBVIOUS
<1> HIDE DEF T
<1>3. Path \subseteq T
  BY <1>1, <1>2, TreeAssumption
<1>4. QED
  BY <1>3 DEF T

\* The folders above a path.
LEMMA AboveOf ==
    ASSUME NEW p \in Path
    PROVE  /\ Above[p] \subseteq Path /\ Root \notin Path
           /\ Parent[p] = Root => Above[p] = {}
           /\ Parent[p] # Root => /\ Parent[p] \in Path
                                  /\ Above[p] = Above[Parent[p]] \cup {Parent[p]}
           /\ Parent[p] \in Above[p] \cup {Root}
BY ConstantAssumption

\* The folders above a folder above a path are above the path.
LEMMA AboveUp ==
    ASSUME NEW p \in Path, NEW q \in Above[p]
    PROVE  Above[q] \subseteq Above[p]
<1> DEFINE S == {Root} \cup {x \in Path : \A y \in Above[x] : Above[y] \subseteq Above[x]}
<1>1. ASSUME NEW x \in Path, Parent[x] \in S
      PROVE  x \in S
  <2>1. CASE Parent[x] = Root
    BY <2>1, AboveOf
  <2>2. CASE Parent[x] # Root
    BY <1>1, <2>2, AboveOf
  <2>3. QED
    BY <2>1, <2>2
<1>2. Root \in S
  OBVIOUS
<1> HIDE DEF S
<1>3. p \in S
  BY <1>1, <1>2, TreeInduction
<1>4. QED
  BY <1>3, AboveOf DEF S

\* Between a path and a folder above it, the folder has an entry.
LEMMA NextBelow ==
    ASSUME NEW p \in Path, NEW f \in Above[p] \cup {Root}, f # Parent[p]
    PROVE  \E q \in Above[p] : Parent[q] = f
<1> DEFINE S == {Root} \cup {x \in Path : \A g \in Above[x] \cup {Root} :
                                g # Parent[x] => \E q \in Above[x] : Parent[q] = g}
<1>1. ASSUME NEW x \in Path, Parent[x] \in S
      PROVE  x \in S
  <2>1. CASE Parent[x] = Root
    BY <2>1, AboveOf
  <2>2. CASE Parent[x] # Root
    <3>1. PICK r : r = Parent[x]
      OBVIOUS
    <3>2. r \in Path /\ Above[x] = Above[r] \cup {r} /\ r # Root
      BY <2>2, <3>1, AboveOf
    <3>3. ASSUME NEW g \in Above[x] \cup {Root}, g # r
          PROVE  \E q \in Above[x] : Parent[q] = g
      <4>1. g \in Above[r] \cup {Root}
        BY <3>2, <3>3
      <4>2. CASE g = Parent[r]
        BY <3>2, <4>2
      <4>3. CASE g # Parent[r]
        BY <1>1, <3>1, <3>2, <4>1, <4>3
      <4>4. QED
        BY <4>2, <4>3
    <3>4. QED
      BY <3>1, <3>3
  <2>3. QED
    BY <2>1, <2>2
<1>2. Root \in S
  OBVIOUS
<1> HIDE DEF S
<1>3. p \in S
  BY <1>1, <1>2, TreeInduction
<1>4. QED
  BY <1>3, AboveOf DEF S

----------------------------------------------------------------------------
(* What the steps do to the disk.                                          *)

\* The side that is read and the side that is written.
LEMMA TwoSides ==
    ASSUME leg \in Sides
    PROVE  /\ Other(leg) \in Sides /\ Other(leg) # leg
           /\ leg = "remote" => Other(leg) = "local"
           /\ leg = "local" => Other(leg) = "remote"
           /\ \A s \in Sides : s = leg \/ s = Other(leg)
           /\ "local" \in Sides /\ "remote" \in Sides
BY DEF Other, Sides

\* mkdir() makes one folder on the server.
LEMMA MakeEffect ==
    ASSUME TypeOK, MakeFolder
    PROVE  /\ cur \in Path /\ leg = "local" /\ leg' = "local"
           /\ \A s \in Sides, q \in Path :
                 disk'[s][q] = IF s = "remote" /\ q = cur THEN Node("dir") ELSE disk[s][q]
           /\ disk["remote"][cur].kind = "none" /\ IsFolder("remote", Parent[cur])
<1>1. cur \in Path /\ leg = "local"
  BY DEF MakeFolder, TypeOK, Calls
<1>2. leg' = "local"
  BY <1>1 DEF MakeFolder
<1>3. \A s \in Sides, q \in Path :
         disk'[s][q] = IF s = "remote" /\ q = cur THEN Node("dir") ELSE disk[s][q]
  BY <1>1, PutEffect DEF MakeFolder, Sides
<1>4. QED
  BY <1>1, <1>2, <1>3 DEF MakeFolder, CanMakeFolder

\* makedirs() makes the folders above a path in the local folder.
LEMMA MakesEffect ==
    ASSUME TypeOK, MakeFolders
    PROVE  /\ cur \in Path /\ leg = "remote"
           /\ \A s \in Sides, q \in Path :
                 disk'[s][q] = IF s = "local" /\ q \in Above[cur]
                               THEN Node("dir") ELSE disk[s][q]
           /\ \A q \in Above[cur] : disk["local"][q].kind \in {"none", "dir"}
<1>1. cur \in Path /\ leg = "remote"
  BY DEF MakeFolders, TypeOK, Calls
<1>2. disk \in [Sides -> [Path -> Entry]]
  BY DEF TypeOK
<1>3. QED
  BY <1>1, <1>2 DEF MakeFolders, MakeDirs, CanMakeDirs, Sides

\* A copy has the content of its source.
LEMMA CopyEffect ==
    ASSUME TypeOK, Copy
    PROVE  /\ cur \in Path /\ leg \in Sides /\ disk[leg][cur].kind = "file"
           /\ \A s \in Sides, q \in Path :
                 s # Other(leg) \/ q # cur => disk'[s][q] = disk[s][q]
           /\ disk'[Other(leg)][cur].kind = "file"
           /\ SameContent(disk'[Other(leg)][cur], disk[leg][cur])
           /\ disk[Other(leg)][cur].kind \in {"none", "file"}
           /\ IsFolder(Other(leg), Parent[cur])
<1>1. cur \in Path /\ leg \in Sides /\ disk[leg][cur].kind = "file"
  BY DEF Copy, TypeOK, Calls
<1>2. Other(leg) \in Sides
  BY <1>1, TwoSides
<1> DEFINE e == [disk[leg][cur] EXCEPT !.mtime = Stamp(Other(leg))]
<1>3. e.kind = "file" /\ SameContent(e, disk[leg][cur])
  BY <1>1, DiskType DEF Entry, SameContent
<1> HIDE DEF e
<1>4. \A s \in Sides, q \in Path :
         disk'[s][q] = IF s = Other(leg) /\ q = cur THEN e ELSE disk[s][q]
  BY <1>1, <1>2, PutEffect DEF Copy, e
<1>5. disk'[Other(leg)][cur] = e
  BY <1>1, <1>2, <1>4
<1>6. disk[Other(leg)][cur].kind \in {"none", "file"} /\ IsFolder(Other(leg), Parent[cur])
  BY DEF Copy, Openable
<1>7. QED
  BY <1>1, <1>3, <1>4, <1>5, <1>6

\* utime() changes one modification time.
LEMMA TimeEffect ==
    ASSUME TypeOK, SetTime
    PROVE  /\ cur \in Path /\ leg \in Sides
           /\ \A s \in Sides, q \in Path :
                 /\ disk'[s][q].kind = disk[s][q].kind
                 /\ SameContent(disk'[s][q], disk[s][q])
                 /\ s # Other(leg) \/ q # cur => disk'[s][q] = disk[s][q]
           /\ disk[Other(leg)][cur].kind = "file" =>
                 disk'[Other(leg)][cur].mtime = TimeOfCopy
<1>1. cur \in Path /\ leg \in Sides
  BY DEF SetTime, TypeOK, Calls
<1>2. Other(leg) \in Sides
  BY <1>1, TwoSides
<1>3. CASE disk[Other(leg)][cur].kind # "file"
  BY <1>1, <1>2, <1>3 DEF SetTime, SameContent
<1>4. CASE disk[Other(leg)][cur].kind = "file"
  <2>1. PICK t : t = TimeOfCopy
    OBVIOUS
  <2>2. disk' = [disk EXCEPT ![Other(leg)][cur].mtime = t]
    BY <1>4, <2>1 DEF SetTime
  <2>3. \A s \in Sides, q \in Path :
           disk'[s][q] = IF s = Other(leg) /\ q = cur THEN [disk[s][q] EXCEPT !.mtime = t]
                         ELSE disk[s][q]
    BY <1>1, <1>2, <2>2 DEF TypeOK
  <2>4. \A e \in Entry : /\ [e EXCEPT !.mtime = t].kind = e.kind
                         /\ [e EXCEPT !.mtime = t].mtime = t
                         /\ SameContent([e EXCEPT !.mtime = t], e)
    BY DEF Entry, SameContent
  <2>5. \A s \in Sides, q \in Path : disk[s][q] \in Entry
    BY DiskType
  <2>6. ASSUME NEW s \in Sides, NEW q \in Path
        PROVE  /\ disk'[s][q].kind = disk[s][q].kind
               /\ SameContent(disk'[s][q], disk[s][q])
               /\ s # Other(leg) \/ q # cur => disk'[s][q] = disk[s][q]
               /\ s = Other(leg) /\ q = cur => disk'[s][q].mtime = t
    <3>1. CASE s = Other(leg) /\ q = cur
      <4>1. PICK e \in Entry : e = disk[s][q]
        BY <2>5
      <4>2. disk'[s][q] = [e EXCEPT !.mtime = t]
        BY <2>3, <3>1, <4>1
      <4>3. QED
        BY <2>4, <3>1, <4>1, <4>2
    <3>2. CASE s # Other(leg) \/ q # cur
      BY <2>3, <3>2 DEF SameContent
    <3>3. QED
      BY <3>1, <3>2
  <2>7. QED
    BY <1>1, <1>2, <2>1, <2>6
<1>5. QED
  BY <1>3, <1>4

\* The other steps of sync() leave the disk alone, but for a broken transfer.
LEMMA SyncSteps ==
    ASSUME SyncStep
    PROVE  \/ MakeFolder \/ MakeFolders \/ Copy \/ SetTime \/ CopyBreaks
           \/ /\ UNCHANGED disk
              /\ \/ SyncStart \/ ListNames \/ NextFolder \/ FindFolder \/ EndLeg \/ Finish
                 \/ \E p \in Path : EnterFolder(p) \/ FindCopy(p) \/ LeaveFile(p) \/ TakeFile(p)
                 \/ Raise
BY DEF SyncStep, SyncStart, ListNames, NextFolder, FindFolder, EndLeg, Finish, EnterFolder,
       FindCopy, LeaveFile, TakeFile, Fail, Abort, ListingFails, MkdirFails, StatFails,
       MakedirsFails, CopyRefused, SetTimeFails

----------------------------------------------------------------------------
(* Between two calls of sync(), and time.                                  *)

RestInv ==
    /\ pc = "idle" => leg = "remote" /\ stack = <<>> /\ todo = {}
    /\ pc \in {"idle", "visit", "list"} => cur = Root
    /\ pc # "idle" => ~clean
    /\ now >= Start /\ lastSync <= now

\* sync() starts from nothing, and the clock does not go back.
LEMMA RestInductive == TypeOK /\ RestInv /\ [Next]_vars => RestInv'
<1> SUFFICES ASSUME TypeOK, RestInv, [Next]_vars PROVE RestInv'
  OBVIOUS
<1> USE DEF walk, copying, history
<1>0. now \in Nat /\ lastSync \in Nat /\ Start \in Nat
  BY ConstantAssumption DEF TypeOK
<1>1. CASE SyncStep
  <2>1. now' = now
    BY <1>1 DEF SyncStep
  <2>2. CASE Leave /\ clean' \in BOOLEAN /\ lastSync' \in {lastSync, now}
    BY <1>0, <2>1, <2>2 DEF Leave, RestInv
  <2>3. CASE CopyBreaks \/ Finish \/ Raise
    BY <2>2, <2>3 DEF CopyBreaks, Finish, Raise
  <2>4. CASE SyncStart \/ ListNames \/ NextFolder \/ EndLeg \/ SetTime \/ Copy
    BY <2>1, <2>4 DEF SyncStart, ListNames, FolderDone, NextFolder, AsksServer, EndLeg, SetTime,
       Copy, RestInv
  <2>5. CASE \/ MakeFolder \/ MakeFolders \/ FindFolder
             \/ \E p \in Path : EnterFolder(p) \/ FindCopy(p) \/ TakeFile(p) \/ LeaveFile(p)
    BY <2>1, <2>5 DEF MakeFolder, MakeFolders, FindFolder, EnterFolder, FindCopy, TakeFile,
       LeaveFile, Compared, Passes, RestInv
  <2>6. QED
    BY <1>1, <2>3, <2>4, <2>5, SyncSteps
<1>2. CASE NewProcess
  BY <1>0, <1>2 DEF NewProcess, Idle, RestInv
<1>3. CASE Tick
  BY <1>0, <1>3 DEF Tick, Idle, RestInv
<1>4. CASE Edit
  BY <1>0, <1>4 DEF Edit, WriteFile, MakeNode, RemoveNode, Edited, Idle, RestInv
<1>5. CASE UNCHANGED vars
  BY <1>5 DEF vars, RestInv
<1>6. QED
  BY <1>1, <1>2, <1>3, <1>4, <1>5 DEF Next

----------------------------------------------------------------------------
(* Both sides are trees.                                                   *)

\* What exists is in folders that exist.
TreeInv ==
    \A s \in Sides, p \in Path :
        disk[s][p].kind # "none" => \A q \in Above[p] : disk[s][q].kind = "dir"

\* An entry that is in a folder has the folders above it.
LEMMA FolderAbove ==
    ASSUME TreeInv, NEW s \in Sides, NEW p \in Path, IsFolder(s, Parent[p])
    PROVE  \A q \in Above[p] : disk[s][q].kind = "dir"
BY AboveOf DEF TreeInv, IsFolder

\* A new entry in a folder that is there, or a new kind for one that is no folder,
\* leaves a tree.
LEMMA TreePut ==
    ASSUME TypeOK, TreeInv, NEW s \in Sides, NEW p \in Path, IsFolder(s, Parent[p]),
           disk[s][p].kind # "dir",
           \A t \in Sides, q \in Path : t # s \/ q # p => disk'[t][q].kind = disk[t][q].kind
    PROVE  TreeInv'
<1>1. ASSUME NEW t \in Sides, NEW q \in Path, disk'[t][q].kind # "none", NEW r \in Above[q]
      PROVE  disk'[t][r].kind = "dir"
  <2>1. r \in Path
    BY AboveOf
  <2>2. disk[t][r].kind = "dir"
    BY <1>1, FolderAbove DEF TreeInv
  <2>3. QED
    BY <1>1, <2>1, <2>2
<1>2. QED
  BY <1>1 DEF TreeInv

\* No step breaks the tree, not even one that is interrupted.
LEMMA TreeInductive == TypeOK /\ TreeInv /\ [Next]_vars => TreeInv'
<1> SUFFICES ASSUME TypeOK, TreeInv, [Next]_vars PROVE TreeInv'
  OBVIOUS
<1>0. leg \in Sides /\ "local" \in Sides /\ "remote" \in Sides
  BY TwoSides DEF TypeOK
<1>1. CASE disk' = disk
  BY <1>1 DEF TreeInv
<1>2. CASE MakeFolder
  <2>1. \A t \in Sides, q \in Path : t # "remote" \/ q # cur => disk'[t][q] = disk[t][q]
    BY <1>2, MakeEffect
  <2>2. /\ cur \in Path /\ disk["remote"][cur].kind # "dir"
        /\ IsFolder("remote", Parent[cur])
    BY <1>2, MakeEffect
  <2>3. QED
    BY <1>0, <2>1, <2>2, TreePut
<1>3. CASE MakeFolders
  <2>1. ASSUME NEW s \in Sides, NEW q \in Path, disk'[s][q].kind # "none", NEW r \in Above[q]
        PROVE  disk'[s][r].kind = "dir"
    <3>1. r \in Path /\ Node("dir").kind = "dir" /\ cur \in Path
      BY <1>3, AboveOf, MakesEffect DEF Node
    <3>2. CASE s = "local" /\ q \in Above[cur]
      <4>1. r \in Above[cur]
        BY <3>1, <3>2, AboveUp
      <4>2. QED
        BY <1>3, <3>1, <3>2, <4>1, MakesEffect
    <3>3. CASE ~(s = "local" /\ q \in Above[cur])
      <4>1. disk[s][r].kind = "dir"
        BY <1>3, <2>1, <3>3, MakesEffect DEF TreeInv
      <4>2. QED
        BY <1>3, <3>1, <4>1, MakesEffect
    <3>4. QED
      BY <3>2, <3>3
  <2>2. QED
    BY <2>1 DEF TreeInv
<1>4. CASE Copy
  <2>1. Other(leg) \in Sides
    BY <1>0, TwoSides
  <2>2. QED
    BY <1>4, <2>1, CopyEffect, TreePut
<1>5. CASE SetTime
  BY <1>5, TimeEffect, AboveOf DEF TreeInv
<1>6. CASE CopyBreaks
  <2>1. cur \in Path /\ Other(leg) \in Sides
    BY <1>0, <1>6, TwoSides DEF CopyBreaks, TypeOK, Calls
  <2>2. IsFolder(Other(leg), Parent[cur]) /\ disk[Other(leg)][cur].kind # "dir"
    BY <1>6 DEF CopyBreaks, Openable
  <2>3. \A t \in Sides, q \in Path : t # Other(leg) \/ q # cur => disk'[t][q] = disk[t][q]
    BY <1>6, <2>1, PutEffect DEF CopyBreaks
  <2>4. QED
    BY <2>1, <2>2, <2>3, TreePut
<1>7. ASSUME NEW s \in Sides, NEW p \in Path,
             \/ WriteFile(s, p)
             \/ MakeNode(s, p, "mkdir", "dir") \/ MakeNode(s, p, "socket", "socket")
      PROVE  TreeInv'
  <2>1. IsFolder(s, Parent[p]) /\ disk[s][p].kind # "dir"
    BY <1>7 DEF WriteFile, MakeNode, Openable
  <2>2. \A t \in Sides, q \in Path : t # s \/ q # p => disk'[t][q] = disk[t][q]
    BY <1>7, PutEffect DEF WriteFile, MakeNode
  <2>3. QED
    BY <2>1, <2>2, TreePut
<1>8. ASSUME NEW s \in Sides, NEW p \in Path, RemoveNode(s, p) PROVE TreeInv'
  <2>1. /\ \A t \in Sides, q \in Path :
              disk'[t][q] = IF t = s /\ q = p THEN Absent ELSE disk[t][q]
        /\ \A q \in Path : Parent[q] = p => disk[s][q].kind = "none"
        /\ Absent.kind = "none"
    BY <1>8, PutEffect DEF RemoveNode, Absent, Node
  <2>2. ASSUME NEW t \in Sides, NEW q \in Path, disk'[t][q].kind # "none", NEW r \in Above[q]
        PROVE  disk'[t][r].kind = "dir"
    <3>1. disk[t][q].kind # "none" /\ \A x \in Above[q] : x \in Path /\ disk[t][x].kind = "dir"
      BY <2>1, <2>2, AboveOf DEF TreeInv
    <3>2. t # s \/ r # p
      <4>1. SUFFICES ASSUME t = s, r = p PROVE FALSE
        OBVIOUS
      <4>2. Parent[q] # p
        BY <2>1, <3>1, <4>1
      <4>3. PICK x \in Above[q] : Parent[x] = p
        BY <4>1, <4>2, <2>2, NextBelow
      <4>4. QED
        BY <2>1, <3>1, <4>1, <4>3
    <3>3. QED
      BY <2>1, <3>1, <3>2
  <2>3. QED
    BY <2>2 DEF TreeInv
<1>9. CASE SyncStep
  BY <1>1, <1>2, <1>3, <1>4, <1>5, <1>6, <1>9, SyncSteps
<1>10. CASE NewProcess \/ Tick \/ UNCHANGED vars
  BY <1>1, <1>10 DEF NewProcess, Tick, vars
<1>11. CASE Edit
  BY <1>7, <1>8, <1>11 DEF Edit
<1>12. QED
  BY <1>9, <1>10, <1>11 DEF Next

----------------------------------------------------------------------------
(* The walk, when nobody edits meanwhile.                                  *)

\* A folder the walk may come to: one on the side it walks, and on the server
\* with the folders above it.
Walkable(f) ==
    f # Root => IsDir(disk[leg][f]) /\ \A q \in Above[f] \cup {f} : IsDir(disk["remote"][q])

\* What the listing says of an entry it has not come to is still true.
Ready(p) ==
    /\ Walkable(Parent[p]) /\ IsFolder("remote", Parent[p])
    /\ leg = "local" => IsFolder("local", Parent[p])
    /\ disk[leg][p].kind # "none"
    /\ p # cur \/ leg = "remote" => listed[p] = disk["remote"][p]

\* What the next call finds.
CallInv ==
    /\ pc \in Calls => cur \in todo
    /\ pc = "mkdir" => IsDir(disk["local"][cur]) /\ ~IsDir(disk["remote"][cur])
    /\ pc \in {"stat", "dirs", "make", "copy", "utime"} => disk[leg][cur].kind = "file"
    /\ pc = "stat" => disk["local"][cur].kind = "file"
    /\ pc = "make" => ~IsFolder("local", Parent[cur])
    /\ pc \in {"copy", "utime"} => IsFolder(Other(leg), Parent[cur])
    /\ pc = "utime" => disk[Other(leg)][cur].kind = "file"

WalkInv ==
    /\ \A i \in DOMAIN stack : Walkable(stack[i])
    /\ IF pc = "list" THEN IsFolder("local", Top) /\ todo = Names(Top)
       ELSE \A p \in todo : Ready(p)
    /\ CallInv

\* The walk makes folders, and no folder ceases to be one.
LEMMA StaysWalkable ==
    ASSUME NEW f \in Path \cup {Root}, Walkable(f), leg' = leg, leg \in Sides,
           \A s \in Sides, q \in Path : IsDir(disk[s][q]) => IsDir(disk'[s][q])
    PROVE  Walkable(f)'
<1>1. CASE f = Root
  BY <1>1 DEF Walkable
<1>2. CASE f # Root
  <2>1. f \in Path /\ Above[f] \subseteq Path /\ "remote" \in Sides
    BY <1>2, AboveOf DEF Sides
  <2>2. IsDir(disk'[leg][f]) /\ \A q \in Above[f] \cup {f} : IsDir(disk'["remote"][q])
    BY <1>2, <2>1 DEF Walkable
  <2>3. QED
    BY <1>2, <2>2 DEF Walkable
<1>3. QED
  BY <1>1, <1>2

\* An entry stays ready while the walk is busy with another.
LEMMA StaysReady ==
    ASSUME NEW p \in Path, Ready(p), leg' = leg, leg \in Sides,
           \A s \in Sides, q \in Path : /\ IsDir(disk[s][q]) => IsDir(disk'[s][q])
                                        /\ disk[s][q].kind = "dir" => disk'[s][q].kind = "dir",
           disk'[leg][p].kind = disk[leg][p].kind,
           (p # cur \/ leg = "remote" => listed[p] = disk["remote"][p]) =>
               (p # cur' \/ leg = "remote" => listed'[p] = disk'["remote"][p])
    PROVE  Ready(p)'
<1>1. Walkable(Parent[p]) /\ Parent[p] \in Path \cup {Root} /\ "local" \in Sides /\ "remote" \in Sides
  BY AboveOf DEF Ready, Sides
<1>2. Walkable(Parent[p])'
  <2>1. PICK f \in Path \cup {Root} : f = Parent[p]
    BY <1>1
  <2>2. Walkable(f)'
    BY <1>1, <2>1, StaysWalkable
  <2>3. QED
    BY <2>1, <2>2
<1>3. \A s \in Sides : IsFolder(s, Parent[p]) => IsFolder(s, Parent[p])'
  BY <1>1 DEF IsFolder
<1>4. QED
  BY <1>1, <1>2, <1>3 DEF Ready

\* An entry that is handled is no longer waited for.
LEMMA HandledEffect ==
    ASSUME TypeOK, NEW p \in Path, Handled(p)
    PROVE  /\ todo' = todo \ {p} /\ listed'[p] = Absent
           /\ \A q \in Path : q # p => listed'[q] = listed[q]
BY DEF Handled, TypeOK

\* Walkable() after the step.
WalkableThen(f) ==
    f # Root => IsDir(disk'[leg'][f]) /\ \A q \in Above[f] \cup {f} : IsDir(disk'["remote"][q])

\* A folder whose names have been listed is still one.
LEMMA WalkNames ==
    ASSUME TypeOK, WalkInv, ListNames
    PROVE  WalkInv'
<1>1. /\ IsFolder("local", Top) /\ todo' = Names(Top) /\ pc' = "list" /\ pc = "visit"
      /\ UNCHANGED <<disk, leg, stack, listed, cur>>
  BY DEF ListNames, FolderDone, copying
<1>2. \A i \in DOMAIN stack' : Walkable(stack[i])'
  BY <1>1 DEF WalkInv, Walkable
<1>3. (IsFolder("local", Top) /\ todo = Names(Top))'
  BY <1>1 DEF IsFolder, Names, Top
<1>4. CallInv'
  BY <1>1 DEF CallInv, Calls
<1>5. QED
  BY <1>1, <1>2, <1>3, <1>4 DEF WalkInv, Walkable

\* A folder that is popped is on the server, and its entries are waited for.
LEMMA PopEffect ==
    ASSUME TypeOK, WalkInv, NextFolder
    PROVE  /\ stack # <<>> /\ IsFolder("remote", Top) /\ (leg = "local" => IsFolder("local", Top))
           /\ stack' = SubSeq(stack, 1, Len(stack) - 1)
           /\ listed' = Listing(Top) /\ todo' = Names(Top) /\ pc' = "visit"
           /\ pc = "list" => todo' = todo
           /\ pc # "list" => todo = {}
           /\ UNCHANGED <<disk, leg, cur>>
<1>1. leg = "remote" \/ leg = "local"
  BY DEF TypeOK, Sides
<1>2. /\ IsFolder("remote", Top) /\ stack' = SubSeq(stack, 1, Len(stack) - 1)
      /\ listed' = Listing(Top) /\ pc' = "visit" /\ UNCHANGED <<disk, leg, cur>>
  BY DEF NextFolder, copying
<1>3. CASE leg = "remote"
  BY <1>2, <1>3 DEF NextFolder, AsksServer, FolderDone
<1>4. CASE leg = "local"
  <2>1. pc = "list" /\ todo' = todo
    BY <1>4 DEF NextFolder, AsksServer
  <2>2. stack # <<>> /\ todo = Names(Top) /\ IsFolder("local", Top)
    BY <2>1 DEF TypeOK, WalkInv
  <2>3. QED
    BY <1>2, <1>4, <2>1, <2>2
<1>5. QED
  BY <1>1, <1>3, <1>4

\* The entries of a folder that has been listed are ready.
LEMMA WalkList ==
    ASSUME TypeOK, RestInv, WalkInv, NextFolder
    PROVE  WalkInv'
<1>1. PICK f : f = Top
  OBVIOUS
<1>2. /\ stack # <<>> /\ IsFolder("remote", f) /\ (leg = "local" => IsFolder("local", f))
      /\ stack' = SubSeq(stack, 1, Len(stack) - 1)
      /\ listed' = Listing(f) /\ todo' = Names(f) /\ pc' = "visit"
      /\ UNCHANGED <<disk, leg, cur>>
  BY <1>1, PopEffect
<1>3. /\ \A i \in DOMAIN stack' : i \in DOMAIN stack /\ stack'[i] = stack[i]
      /\ Len(stack) \in DOMAIN stack
  BY <1>2, StackItems DEF TypeOK
<1>4. Walkable(f)
  BY <1>1, <1>3 DEF WalkInv, Top
<1>5. \A g : Walkable(g) => Walkable(g)'
  BY <1>2 DEF Walkable
<1>6. ASSUME NEW p \in todo'
      PROVE  Ready(p)'
  <2>1. p \in Path /\ Parent[p] = f /\ disk[leg][p].kind # "none"
    BY <1>2, <1>6 DEF Names
  <2>2. listed'[p] = disk["remote"][p]
    BY <1>2, <2>1 DEF Listing
  <2>3. \A s : IsFolder(s, f) => IsFolder(s, f)'
    BY <1>2 DEF IsFolder
  <2>4. Walkable(f)' /\ disk'[leg'][p].kind # "none" /\ listed'[p] = disk'["remote"][p]
    BY <1>2, <1>4, <1>5, <2>1, <2>2
  <2>5. QED
    BY <1>2, <2>1, <2>3, <2>4 DEF Ready
<1>7. \A i \in DOMAIN stack' : Walkable(stack[i])
  BY <1>3 DEF WalkInv
<1>8. \A i \in DOMAIN stack' : WalkableThen(stack'[i])
  BY <1>2, <1>3, <1>7 DEF Walkable, WalkableThen
<1>9. CallInv'
  BY <1>2 DEF CallInv, Calls
<1>10. QED
  BY <1>2, <1>6, <1>8, <1>9 DEF WalkInv, Walkable, WalkableThen

\* The walk goes on with what is left of its entries, and its folders.
LEMMA WalkOn ==
    ASSUME TypeOK, WalkInv, pc # "list", leg' = leg,
           \A s \in Sides, q \in Path : /\ IsDir(disk[s][q]) => IsDir(disk'[s][q])
                                        /\ disk[s][q].kind = "dir" => disk'[s][q].kind = "dir",
           \A i \in DOMAIN stack' :
               WalkableThen(stack'[i]) \/ \E j \in DOMAIN stack : stack'[i] = stack[j],
           todo' \subseteq todo,
           \A p \in todo' :
               /\ disk'[leg][p].kind = disk[leg][p].kind
               /\ (p # cur \/ leg = "remote" => listed[p] = disk["remote"][p]) =>
                      (p # cur' \/ leg = "remote" => listed'[p] = disk'["remote"][p])
    PROVE  /\ \A i \in DOMAIN stack' : WalkableThen(stack'[i])
           /\ \A p \in todo' : Ready(p)'
<1>0. leg \in Sides /\ todo \subseteq Path
  BY DEF TypeOK
<1>1. \A j \in DOMAIN stack : stack[j] \in Path \cup {Root}
  BY ElementOfSeq, LenProperties DEF TypeOK
<1>2. ASSUME NEW f \in Path \cup {Root}, Walkable(f)
      PROVE  WalkableThen(f)
  <2>1. Walkable(f)'
    BY <1>0, <1>2, StaysWalkable
  <2>2. QED
    BY <2>1 DEF Walkable, WalkableThen
<1>3. \A i \in DOMAIN stack' : WalkableThen(stack'[i])
  BY <1>1, <1>2 DEF WalkInv
<1>4. ASSUME NEW p \in todo'
      PROVE  Ready(p)'
  <2>1. p \in Path /\ Ready(p)
    BY <1>0, <1>4 DEF WalkInv
  <2>2. QED
    BY <1>0, <1>4, <2>1, StaysReady
<1>5. QED
  BY <1>3, <1>4

\* WalkInv after the step, from its parts.
LEMMA WalkParts ==
    ASSUME \A i \in DOMAIN stack' : WalkableThen(stack'[i]), \A p \in todo' : Ready(p)',
           pc' # "list", CallInv'
    PROVE  WalkInv'
BY DEF WalkInv, Walkable, WalkableThen

\* A step that looks at one entry, and neither changes a folder nor leaves the
\* entry.
LEMMA WalkLook ==
    ASSUME TypeOK, WalkInv, pc # "list", pc' # "list", CallInv',
           UNCHANGED <<disk, leg, stack, listed, todo>>,
           cur' = cur \/ (leg = "local" => cur = Root)
    PROVE  WalkInv'
<1>0. todo \subseteq Path /\ Root \notin Path /\ (leg = "local" \/ leg = "remote")
  BY ConstantAssumption DEF TypeOK, Sides
<1>1. \A q \in todo : (q # cur \/ leg = "remote") \/ ~(q # cur' \/ leg = "remote")
  BY <1>0
<1>2. /\ \A i \in DOMAIN stack' : WalkableThen(stack'[i])
      /\ \A q \in todo' : Ready(q)'
  <2>1. \A q \in todo' :
           (q # cur \/ leg = "remote" => listed[q] = disk["remote"][q]) =>
               (q # cur' \/ leg = "remote" => listed'[q] = disk'["remote"][q])
    BY <1>1
  <2>2. QED
    BY <2>1, WalkOn
<1>3. QED
  BY <1>2, WalkParts

\* An entry the walk comes to is what the listing said.
LEMMA Visited ==
    ASSUME TypeOK, RestInv, WalkInv, NEW p \in todo, pc = "visit" \/ (pc = "stat" /\ p = cur)
    PROVE  /\ p \in Path /\ leg \in Sides /\ Root \notin Path /\ Ready(p)
           /\ listed[p] = disk["remote"][p] /\ SourceEntry(p) = disk[leg][p]
<1>1. p \in Path /\ leg \in Sides /\ Root \notin Path
  BY ConstantAssumption DEF TypeOK
<1>2. Ready(p)
  BY DEF WalkInv
<1>3. p # cur \/ leg = "remote"
  BY <1>1 DEF RestInv, TypeOK
<1>4. listed[p] = disk["remote"][p]
  BY <1>2, <1>3 DEF Ready
<1>5. QED
  BY <1>1, <1>2, <1>4 DEF SourceEntry, Sides

\* The walk goes on when a folder is on the stack, or is not walked.
LEMMA WalkPush ==
    ASSUME TypeOK, WalkInv, pc # "list", leg' = leg, NEW p \in Path, Handled(p),
           stack' = StackWith(p), recursive => WalkableThen(p), pc' = "visit",
           \A s \in Sides, q \in Path : /\ IsDir(disk[s][q]) => IsDir(disk'[s][q])
                                        /\ disk[s][q].kind = "dir" => disk'[s][q].kind = "dir",
           \A q \in Path : q # p => /\ disk'[leg][q].kind = disk[leg][q].kind
                                    /\ disk'["remote"][q] = disk["remote"][q],
           leg = "local" => cur \in {p, Root}
    PROVE  WalkInv'
<1>0. todo \subseteq Path /\ stack \in Seq(Path \cup {Root}) /\ Root \notin Path
      /\ (leg = "local" \/ leg = "remote")
  BY ConstantAssumption DEF TypeOK, Sides
<1>1. todo' \subseteq todo /\ \A q \in todo' : q # p /\ listed'[q] = listed[q]
  BY <1>0, HandledEffect
<1>2. \A i \in DOMAIN stack' :
         WalkableThen(stack'[i]) \/ \E j \in DOMAIN stack : stack'[i] = stack[j]
  <2>1. CASE recursive
    BY <1>0, <2>1, StackItems DEF StackWith
  <2>2. CASE ~recursive
    BY <2>2 DEF StackWith
  <2>3. QED
    BY <2>1, <2>2
<1>3. \A q \in todo' : /\ disk'[leg][q].kind = disk[leg][q].kind
                       /\ disk'["remote"][q] = disk["remote"][q]
  BY <1>0, <1>1
<1>4. \A q \in todo' :
         (q # cur \/ leg = "remote" => listed[q] = disk["remote"][q]) =>
             (q # cur' \/ leg = "remote" => listed'[q] = disk'["remote"][q])
  BY <1>0, <1>1, <1>3
<1>5. /\ \A i \in DOMAIN stack' : WalkableThen(stack'[i])
      /\ \A q \in todo' : Ready(q)'
  BY <1>1, <1>2, <1>3, <1>4, WalkOn
<1>6. CallInv'
  BY DEF CallInv, Calls
<1>7. QED
  BY <1>5, <1>6, WalkParts

\* A folder that is met becomes one the walk may come to.
LEMMA WalkEnter ==
    ASSUME TypeOK, RestInv, WalkInv, NEW p \in Path, EnterFolder(p)
    PROVE  WalkInv'
<1>0. /\ pc = "visit" /\ p \in todo /\ cur = Root /\ UNCHANGED <<disk, leg>>
      /\ IsDir(SourceEntry(p))
  BY DEF EnterFolder, RestInv
<1>1. /\ leg \in Sides /\ Ready(p) /\ listed[p] = disk["remote"][p]
      /\ SourceEntry(p) = disk[leg][p]
  BY <1>0, Visited
<1>2. CASE leg = "local" /\ recursive /\ ~IsDir(listed[p])
  <2>1. pc' = "mkdir" /\ cur' = p /\ UNCHANGED <<stack, listed, todo>>
    BY <1>2 DEF EnterFolder
  <2>2. CallInv'
    BY <1>0, <1>1, <1>2, <2>1 DEF CallInv
  <2>3. QED
    BY <1>0, <2>1, <2>2, WalkLook
<1>3. CASE ~(leg = "local" /\ recursive /\ ~IsDir(listed[p]))
  <2>1. stack' = StackWith(p) /\ Handled(p) /\ UNCHANGED <<pc, cur>>
    BY <1>3 DEF EnterFolder
  <2>2. ASSUME recursive PROVE WalkableThen(p)
    <3>1. IsDir(disk["remote"][p]) /\ IsDir(disk[leg][p])
      BY <1>0, <1>1, <1>3, <2>2 DEF Sides
    <3>2. \A q \in Above[p] : IsDir(disk["remote"][q])
      BY <1>1, AboveOf DEF Ready, Walkable
    <3>3. QED
      BY <1>0, <3>1, <3>2 DEF WalkableThen
  <2>3. QED
    BY <1>0, <2>1, <2>2, WalkPush
<1>4. QED
  BY <1>2, <1>3

\* So does a folder that is made on the server.
LEMMA WalkMake ==
    ASSUME TypeOK, RestInv, WalkInv, MakeFolder
    PROVE  WalkInv'
<1>0. /\ cur \in Path /\ cur \in todo /\ leg = "local" /\ leg' = "local" /\ pc = "mkdir"
      /\ stack' = StackWith(cur) /\ Handled(cur) /\ pc' = "visit" /\ IsDir(disk["local"][cur])
  BY MakeEffect DEF MakeFolder, WalkInv, CallInv, Calls
<1>1. Node("dir").kind = "dir" /\ Ready(cur)
  BY <1>0 DEF Node, WalkInv
<1>2. \A s \in Sides, q \in Path : s = "local" \/ q # cur => disk'[s][q] = disk[s][q]
  BY MakeEffect
<1>3. IsDir(disk'["remote"][cur])
  BY <1>0, <1>1, MakeEffect DEF IsDir, Sides
<1>4. \A s \in Sides, q \in Path : /\ IsDir(disk[s][q]) => IsDir(disk'[s][q])
                                   /\ disk[s][q].kind = "dir" => disk'[s][q].kind = "dir"
  BY <1>1, MakeEffect DEF IsDir
<1>5. WalkableThen(cur)
  <2>1. \A q \in Above[cur] : q \in Path /\ IsDir(disk["remote"][q])
    BY <1>0, <1>1, AboveOf DEF Ready, Walkable
  <2>2. \A q \in Above[cur] : IsDir(disk'["remote"][q])
    BY <1>4, <2>1 DEF Sides
  <2>3. IsDir(disk'["local"][cur])
    BY <1>0, <1>4 DEF Sides
  <2>4. QED
    BY <1>0, <1>3, <2>2, <2>3 DEF WalkableThen
<1>6. \A q \in Path : q # cur => /\ disk'[leg][q].kind = disk[leg][q].kind
                                /\ disk'["remote"][q] = disk["remote"][q]
  BY <1>0, <1>2 DEF Sides
<1>7. QED
  BY <1>0, <1>4, <1>5, <1>6, WalkPush

\* What is looked up for a file leaves the walk where it is.
LEMMA WalkFile ==
    ASSUME TypeOK, RestInv, WalkInv, NEW p \in Path, FindCopy(p) \/ TakeFile(p)
    PROVE  WalkInv'
<1>0. /\ p \in todo /\ (pc = "visit" \/ (pc = "stat" /\ p = cur)) /\ SourceEntry(p).kind = "file"
      /\ UNCHANGED <<disk, leg, stack, listed, todo>> /\ cur' = p
      /\ \/ pc' = "stat" /\ disk["local"][p].kind = "file"
         \/ pc' = "dirs" /\ leg = "remote"
         \/ pc' = "copy" /\ leg # "remote"
  BY DEF FindCopy, TakeFile, Compared, walk
<1>1. /\ leg \in Sides /\ Ready(p) /\ disk[leg][p].kind = "file"
      /\ pc = "visit" => cur = Root
  BY <1>0, Visited DEF RestInv
<1>2. leg # "remote" => leg = "local" /\ Other(leg)' = "remote"
  BY <1>0, <1>1 DEF Other, Sides
<1>3. leg # "remote" => IsFolder("remote", Parent[p])'
  BY <1>0, <1>1 DEF Ready, IsFolder
<1>4. CallInv'
  BY <1>0, <1>1, <1>2, <1>3 DEF CallInv
<1>5. QED
  BY <1>0, <1>1, <1>4, WalkLook

\* isdir() sends the walk to makedirs() where there is no folder.
LEMMA WalkFind ==
    ASSUME TypeOK, WalkInv, FindFolder
    PROVE  WalkInv'
<1>0. /\ pc = "dirs" /\ leg = "remote" /\ cur \in todo /\ disk[leg][cur].kind = "file"
      /\ UNCHANGED <<disk, leg, stack, listed, todo, cur>>
      /\ pc' = IF IsFolder("local", Parent[cur]) THEN "copy" ELSE "make"
  BY DEF FindFolder, TypeOK, WalkInv, CallInv, Calls, walk, copying
<1>1. Other(leg)' = "local" /\ (IsFolder("local", Parent[cur])' <=> IsFolder("local", Parent[cur]))
  BY <1>0 DEF Other, IsFolder
<1>2. CallInv'
  BY <1>0, <1>1 DEF CallInv
<1>3. QED
  BY <1>0, <1>2, WalkLook

\* makedirs() makes the folder the copy goes to.
LEMMA WalkMakes ==
    ASSUME TypeOK, WalkInv, MakeFolders
    PROVE  WalkInv'
<1>0. /\ pc = "make" /\ leg = "remote" /\ cur \in todo /\ cur \in Path /\ todo \subseteq Path
      /\ disk[leg][cur].kind = "file" /\ pc' = "copy" /\ Root \notin Path
      /\ UNCHANGED <<leg, stack, listed, todo, cur>>
  BY ConstantAssumption DEF MakeFolders, TypeOK, WalkInv, CallInv, Calls, walk, copying
<1>1. Node("dir").kind = "dir" /\ \A q \in Above[cur] : q \in Path
  BY <1>0, AboveOf DEF Node
<1>2. \A s \in Sides, q \in Path : /\ IsDir(disk[s][q]) => IsDir(disk'[s][q])
                                   /\ disk[s][q].kind = "dir" => disk'[s][q].kind = "dir"
  BY <1>1, MakesEffect DEF IsDir
<1>3. \A q \in Path : disk'["remote"][q] = disk["remote"][q]
  BY MakesEffect DEF Sides
<1>4. /\ \A i \in DOMAIN stack' : WalkableThen(stack'[i])
      /\ \A q \in todo' : Ready(q)'
  BY <1>0, <1>2, <1>3, WalkOn
<1>5. IsFolder(Other(leg), Parent[cur])'
  <2>1. \A q \in Above[cur] : disk'["local"][q].kind = "dir"
    BY <1>1, MakesEffect DEF Sides
  <2>2. Other(leg)' = "local"
    BY <1>0 DEF Other
  <2>3. QED
    BY <1>0, <2>1, <2>2, AboveOf DEF IsFolder
<1>6. CallInv'
  BY <1>0, <1>3, <1>5 DEF CallInv
<1>7. QED
  BY <1>0, <1>4, <1>6, WalkParts

\* A copy takes the place of a file, or of nothing.
LEMMA WalkCopy ==
    ASSUME TypeOK, RestInv, WalkInv, Copy
    PROVE  WalkInv'
<1> USE DEF walk, copying, history
<1>0. /\ leg \in Sides /\ pc = "copy" /\ cur \in Path /\ cur \in todo /\ todo \subseteq Path
      /\ UNCHANGED <<leg, stack, listed, todo, cur>> /\ Other(leg) \in Sides /\ Other(leg) # leg
      /\ Parent[cur] \in Path \cup {Root}
  BY TwoSides, AboveOf DEF Copy, TypeOK, WalkInv, CallInv, Calls
<1>1. \A s \in Sides, q \in Path : /\ IsDir(disk[s][q]) => IsDir(disk'[s][q])
                                   /\ disk[s][q].kind = "dir" => disk'[s][q].kind = "dir"
  <2>1. \A s \in Sides, q \in Path : ~(s = Other(leg) /\ q = cur) => disk'[s][q] = disk[s][q]
    BY CopyEffect
  <2>2. ~IsDir(disk[Other(leg)][cur]) /\ disk[Other(leg)][cur].kind # "dir"
    BY CopyEffect DEF IsDir
  <2>3. QED
    BY <2>1, <2>2
<1>2. \A q \in Path : disk'[leg][q] = disk[leg][q]
  BY <1>0, CopyEffect
<1>3. \A q \in Path : leg = "remote" \/ q # cur => disk'["remote"][q] = disk["remote"][q]
  BY <1>0, <1>2, CopyEffect, TwoSides
<1>4. /\ \A i \in DOMAIN stack' : WalkableThen(stack'[i])
      /\ \A q \in todo' : Ready(q)'
  BY <1>0, <1>1, <1>2, <1>3, WalkOn
<1>5. IsFolder(Other(leg), Parent[cur])'
  BY <1>0, <1>1, CopyEffect DEF IsFolder, Other
<1>6. disk'[leg][cur].kind = "file" /\ disk'[Other(leg)][cur].kind = "file"
  BY <1>0, <1>2, CopyEffect
<1>7. Other(leg)' = Other(leg)
  BY <1>0 DEF Other
<1>8. pc' = "utime"
  BY DEF Copy
<1>9. CallInv'
  BY <1>0, <1>5, <1>6, <1>7, <1>8 DEF CallInv
<1>10. QED
  BY <1>4, <1>8, <1>9, WalkParts

\* The walk meets folders, files and what the copies need, as long as nobody
\* edits while sync() runs.
LEMMA WalkInductive ==
    Quiet /\ TypeOK /\ RestInv /\ WalkInv /\ [Next]_vars => WalkInv'
<1> SUFFICES ASSUME Quiet, TypeOK, RestInv, WalkInv, [Next]_vars PROVE WalkInv'
  OBVIOUS
<1> USE DEF walk, copying, history
<1>0. leg \in Sides /\ todo \subseteq Path /\ Root \notin Path
  BY AboveOf, ConstantAssumption DEF TypeOK
<1>1. CASE stack' \in {<<>>, <<Root>>} /\ todo' = {} /\ pc' \in {"idle", "visit"}
  <2>1. \A i \in DOMAIN stack' : stack'[i] = Root
    BY <1>1
  <2>2. CallInv'
    BY <1>1 DEF CallInv, Calls
  <2>3. QED
    BY <1>1, <2>1, <2>2, WalkParts DEF WalkableThen
<1>2. CASE SyncStart \/ EndLeg
  BY <1>1, <1>2 DEF SyncStart, EndLeg, RestInv
<1>3. CASE Raise \/ Finish \/ CopyBreaks
  BY <1>1, <1>3 DEF Raise, Finish, CopyBreaks, Leave
<1>4. ASSUME NEW p \in Path, LeaveFile(p) PROVE WalkInv'
  <2>1. /\ UNCHANGED <<disk, leg, stack>> /\ pc' = "visit" /\ cur' = Root /\ Handled(p)
        /\ pc \in {"visit", "stat"}
    BY <1>4 DEF LeaveFile, Passes, Compared
  <2>2. todo' \subseteq todo /\ \A q \in todo' : listed'[q] = listed[q]
    BY <1>0, <2>1, HandledEffect
  <2>3. (pc = "visit" => cur = Root) /\ (pc = "stat" => leg = "remote")
    BY DEF RestInv, TypeOK
  <2>4. /\ \A i \in DOMAIN stack' : WalkableThen(stack'[i])
        /\ \A q \in todo' : Ready(q)'
    BY <1>0, <2>1, <2>2, <2>3, WalkOn
  <2>5. CallInv'
    BY <2>1 DEF CallInv, Calls
  <2>6. QED
    BY <2>1, <2>4, <2>5, WalkParts
<1>5. CASE SetTime
  <2>1. /\ UNCHANGED <<leg, stack>> /\ pc = "utime" /\ pc' = "visit" /\ Handled(cur)
    BY <1>5 DEF SetTime
  <2>2. todo' \subseteq todo /\ \A q \in todo' : q # cur /\ listed'[q] = listed[q]
    BY <1>0, <1>5, <2>1, HandledEffect, TimeEffect
  <2>3. \A s \in Sides, q \in Path : /\ disk'[s][q].kind = disk[s][q].kind
                                     /\ q # cur => disk'[s][q] = disk[s][q]
    BY <1>5, TimeEffect
  <2>4. \A q \in todo' : disk'["remote"][q] = disk["remote"][q] /\ disk'[leg][q].kind = disk[leg][q].kind
    BY <1>0, <2>2, <2>3 DEF Sides
  <2>5. /\ \A i \in DOMAIN stack' : WalkableThen(stack'[i])
        /\ \A q \in todo' : Ready(q)'
    BY <1>0, <2>1, <2>2, <2>3, <2>4, WalkOn DEF IsDir
  <2>6. CallInv'
    BY <2>1 DEF CallInv, Calls
  <2>7. QED
    BY <2>1, <2>5, <2>6, WalkParts
<1>6. CASE SyncStep
  BY <1>2, <1>3, <1>4, <1>5, <1>6, SyncSteps, WalkNames, WalkList, WalkEnter, WalkMake, WalkFile,
     WalkFind, WalkMakes, WalkCopy
<1>7. CASE Edit
  <2>1. pc = "idle" /\ UNCHANGED <<stack, todo, pc>>
    BY <1>7 DEF Edit, WriteFile, MakeNode, RemoveNode, MayEdit, Edited, Idle
  <2>2. QED
    BY <1>1, <2>1 DEF RestInv
<1>8. CASE NewProcess \/ Tick \/ UNCHANGED vars
  <2>1. UNCHANGED <<disk, pc, leg, stack, todo, listed, cur>>
    BY <1>8 DEF NewProcess, Tick, Idle, vars
  <2>2. CallInv'
    BY <2>1 DEF CallInv, WalkInv, Other, IsFolder
  <2>3. CASE pc = "list"
    <3>1. (IsFolder("local", Top) /\ todo = Names(Top))'
      BY <2>1, <2>3 DEF WalkInv, IsFolder, Names, Top
    <3>2. \A i \in DOMAIN stack' : Walkable(stack[i])'
      BY <2>1 DEF WalkInv, Walkable
    <3>3. QED
      BY <2>1, <2>2, <2>3, <3>1, <3>2 DEF WalkInv, Walkable
  <2>4. CASE pc # "list"
    BY <2>1, <2>2, <2>4, WalkLook
  <2>5. QED
    BY <2>3, <2>4
<1>9. QED
  BY <1>6, <1>7, <1>8 DEF Next

\* What holds of a behaviour in which nobody edits while sync() runs.
QuietInv == TypeOK /\ RestInv /\ WalkInv

\* The walk has nothing in hand when it begins.
LEMMA QuietStart == Init => TypeOK /\ RestInv /\ TreeInv /\ WalkInv
<1> SUFFICES ASSUME Init PROVE TypeOK /\ RestInv /\ TreeInv /\ WalkInv
  OBVIOUS
<1>1. TypeOK
  BY InitType
<1>2. RestInv
  BY ConstantAssumption DEF Init, RestInv
<1>3. TreeInv
  BY DEF Init, TreeInv, NoEntries, Absent, Node
<1>4. WalkInv
  BY DEF Init, WalkInv, CallInv, Calls
<1>5. QED
  BY <1>1, <1>2, <1>3, <1>4

\* A path that looks like a folder and is none makes a conflict.
LEMMA LooksLikeFolder ==
    ASSUME NEW s \in Sides, NEW p \in Path, IsDir(disk[s][p]), disk[s][p].kind # "dir"
    PROVE  Conflict
BY DEF Conflict

\* A call that raises has met a path that is a folder on one side only.
LEMMA FailsOnConflict ==
    ASSUME QuietInv, Fail
    PROVE  Conflict
<1>0. /\ leg \in Sides /\ Other(leg) \in Sides /\ "local" \in Sides /\ "remote" \in Sides
      /\ todo \subseteq Path /\ stack \in Seq(Path \cup {Root}) /\ Other(Other(leg)) = leg
      /\ Other("local") = "remote" /\ Other("remote") = "local"
  BY DEF QuietInv, TypeOK, Sides, Other
<1>1. \A s \in Sides, p \in Path : disk[s][p].kind \in {"none", "file", "dir", "socket"}
  BY DiskType DEF Entry, Kinds, QuietInv
<1>2. CASE ListingFails
  <2>1. PICK f : f = Top
    OBVIOUS
  <2>2. stack # <<>>
    BY <1>2 DEF ListingFails, AsksServer, FolderDone, QuietInv, TypeOK
  <2>3. Len(stack) \in DOMAIN stack /\ f \in Path \cup {Root}
    BY <1>0, <2>1, <2>2, StackItems DEF Top
  <2>4. Walkable(f) /\ (~IsFolder("remote", f) \/ (leg = "local" /\ ~IsFolder("local", f)))
    BY <1>2, <2>1, <2>3 DEF ListingFails, QuietInv, WalkInv, Top
  <2>5. f # Root
    BY <2>4 DEF IsFolder
  <2>6. f \in Path /\ IsDir(disk[leg][f]) /\ IsDir(disk["remote"][f])
    BY <2>3, <2>4, <2>5 DEF Walkable
  <2>7. disk["remote"][f].kind # "dir" \/ disk[leg][f].kind # "dir"
    BY <2>4 DEF IsFolder
  <2>8. QED
    BY <1>0, <2>6, <2>7, LooksLikeFolder
<1>3. CASE MkdirFails
  <2>1. /\ cur \in Path /\ leg = "local" /\ Ready(cur)
        /\ IsDir(disk["local"][cur]) /\ ~IsDir(disk["remote"][cur])
    BY <1>3 DEF MkdirFails, QuietInv, TypeOK, WalkInv, CallInv, Calls
  <2>2. disk["remote"][cur].kind # "none"
    BY <1>3, <2>1 DEF MkdirFails, CanMakeFolder, Ready
  <2>3. disk["remote"][cur].kind = "file"
    BY <1>0, <1>1, <2>1, <2>2 DEF IsDir
  <2>4. QED
    BY <1>0, <2>1, <2>3 DEF Conflict
<1>4. CASE StatFails
  <2>1. CASE pc = "stat" /\ disk["local"][cur].kind = "none"
    BY <2>1 DEF QuietInv, WalkInv, CallInv
  <2>2. ASSUME pc = "visit", NEW p \in todo, SourceEntry(p).kind = "none" PROVE FALSE
    BY <2>2, Visited DEF QuietInv, Ready
  <2>3. QED
    BY <1>4, <2>1, <2>2 DEF StatFails
<1>8. CASE MakedirsFails
  <2>1. pc = "make" /\ leg = "remote" /\ cur \in Path /\ Ready(cur)
        /\ ~IsFolder("local", Parent[cur])
    BY <1>8 DEF MakedirsFails, QuietInv, TypeOK, WalkInv, CallInv, Calls
  <2>2. Parent[cur] # Root /\ Parent[cur] \in Above[cur] /\ disk["local"][Parent[cur]].kind # "dir"
    BY <2>1, AboveOf DEF IsFolder
  <2>3. \/ disk["local"][Parent[cur]].kind # "none"
        \/ \E q \in Above[cur] : disk["local"][q].kind \notin {"none", "dir"}
    BY <1>8 DEF MakedirsFails, CanMakeDirs
  <2>4. PICK q \in Above[cur] : disk["local"][q].kind \notin {"none", "dir"}
    BY <2>2, <2>3
  <2>5. q \in Path /\ q \in Above[Parent[cur]] \cup {Parent[cur]}
    BY <2>1, <2>2, AboveOf
  <2>6. IsDir(disk["remote"][q])
    BY <2>1, <2>2, <2>5 DEF Ready, Walkable
  <2>7. CASE disk["local"][q].kind = "file"
    BY <1>0, <2>5, <2>6, <2>7 DEF Conflict
  <2>8. CASE disk["local"][q].kind = "socket"
    BY <1>0, <2>5, <2>8, LooksLikeFolder DEF IsDir
  <2>9. QED
    BY <1>0, <1>1, <2>4, <2>5, <2>7, <2>8
<1>5. CASE CopyRefused
  <2>1. /\ pc = "copy" /\ cur \in Path /\ disk[leg][cur].kind = "file"
        /\ IsFolder(Other(leg), Parent[cur])
    BY <1>5 DEF CopyRefused, QuietInv, WalkInv, CallInv, TypeOK, Calls
  <2>2. ~Openable(Other(leg), cur)
    BY <1>5, <2>1 DEF CopyRefused
  <2>3. IsDir(disk[Other(leg)][cur])
    BY <1>0, <1>1, <2>1, <2>2 DEF Openable, IsDir
  <2>4. QED
    BY <1>0, <2>1, <2>3 DEF Conflict
<1>6. CASE SetTimeFails
  BY <1>6 DEF SetTimeFails, QuietInv, WalkInv, CallInv
<1>7. QED
  BY <1>2, <1>3, <1>4, <1>5, <1>6, <1>8 DEF Fail

\* As long as the connection lasts and nobody edits meanwhile, sync() raises
\* only where a path is a folder on one side and none on the other
\* (sync.py:182-208, 217-245).
THEOREM RaisesForAReason == Quiet => (Spec => RaisesOnlyOnConflict)
<1> SUFFICES ASSUME Quiet PROVE Spec => RaisesOnlyOnConflict
  OBVIOUS
<1>1. Init => QuietInv
  BY QuietStart DEF QuietInv
<1>2. QuietInv /\ [Next]_vars => QuietInv'
  BY TypeInductive, RestInductive, WalkInductive DEF QuietInv
<1>3. QuietInv /\ [Next]_vars => [Fail => Conflict]_vars
  BY FailsOnConflict
<1>4. QED
  BY <1>1, <1>2, <1>3, PTL DEF Spec, RaisesOnlyOnConflict

----------------------------------------------------------------------------
(* Modification times tell when the content was written.                   *)

\* A second, rounded down to a second, is that second.
LEMMA SecOfFloor == \A t \in Int : Sec(t) \in Int /\ Sec(Floor(t)) = Sec(t)
<1>1. ASSUME NEW r \in Nat \ {0}, NEW t \in Int
      PROVE  t \div r \in Int /\ (r * (t \div r)) \div r = t \div r
  <2>1. PICK q \in Int : q = t \div r
    OBVIOUS
  <2>2. r * q = q * r
    BY <2>1
  <2>3. (r * q) \div r = q
    BY <2>1
  <2>4. QED
    BY <2>1, <2>3
<1>2. QED
  BY <1>1, ConstantAssumption DEF Sec, Floor

\* No second before the first.
LEMMA SecPositive == \A t \in Int : t >= Res => Sec(t) >= 1
<1>1. ASSUME NEW r \in Nat \ {0}, NEW t \in Int, t >= r PROVE t \div r >= 1
  BY <1>1
<1>2. QED
  BY <1>1, ConstantAssumption DEF Sec

\* A file has a writer and a time of writing.
Authored(e) == e.kind = "file" => e.by \in Sides /\ Written(e) >= 1

\* Its modification time is the second in which it was written.
Timed(e) == e.kind = "file" => Sec(e.mtime) = Written(e)

TimeInv ==
    /\ \A s \in Sides, p \in Path :
          /\ Authored(disk[s][p])
          /\ Timed(disk[s][p]) \/ (pc = "utime" /\ p = cur /\ s = Other(leg))
    /\ pc \in {"dirs", "make", "copy", "utime"} => stat = disk[leg][cur].mtime
    /\ pc \in {"dirs", "make", "copy"} /\ disk[Other(leg)][cur].kind = "file"
          => Sec(stat) > Sec(disk[Other(leg)][cur].mtime)
    /\ pc = "utime" => SameContent(disk[leg][cur], disk[Other(leg)][cur])

\* The same content was written at the same time.
LEMMA SameWritten ==
    ASSUME NEW d, NEW e, SameContent(d, e)
    PROVE  Written(d) = Written(e)
BY DEF SameContent, Written

\* Between two transfers only the files on the disks matter.
LEMMA TimeBetween ==
    ASSUME TimeInv, pc # "utime", pc' \notin {"dirs", "make", "copy", "utime"},
           \A s \in Sides, p \in Path :
              disk'[s][p].kind = "file" => disk'[s][p] = disk[s][p]
    PROVE  TimeInv'
<1>1. \A s \in Sides, p \in Path : Authored(disk'[s][p]) /\ Timed(disk'[s][p])
  BY DEF TimeInv, Authored, Timed
<1>2. QED
  BY <1>1 DEF TimeInv, Authored, Timed, Written, Sec

\* A copy is asked for only where the source was written in a later second.
LEMMA TimeTake ==
    ASSUME TypeOK, RestInv, WalkInv, TimeInv, NEW p \in Path, TakeFile(p)
    PROVE  TimeInv'
<1> USE DEF walk, history
<1>0. /\ p \in todo /\ (pc = "visit" \/ (pc = "stat" /\ p = cur)) /\ UNCHANGED <<disk, leg>>
      /\ cur' = p /\ pc' \in {"dirs", "copy"} /\ stat' = SourceEntry(p).mtime
      /\ Newer(p) \/ IsDir(TargetEntry(p))
      /\ pc = "visit" /\ leg = "remote" => disk["local"][p].kind # "file"
      /\ pc = "stat" => leg = "remote"
  BY DEF TakeFile, Compared, TypeOK
<1>1. /\ listed[p] = disk["remote"][p] /\ SourceEntry(p) = disk[leg][p]
      /\ leg \in Sides /\ Other(leg)' = Other(leg)
  BY <1>0, Visited DEF Other
<1>2. \A s \in Sides, q \in Path : Authored(disk[s][q]) /\ Timed(disk[s][q])
  BY <1>0 DEF TimeInv
<1>3. ASSUME disk[Other(leg)][p].kind = "file"
      PROVE  Sec(stat') > Sec(disk[Other(leg)][p].mtime)
  <2>1. TargetEntry(p) = disk[Other(leg)][p]
    BY <1>0, <1>1, <1>3 DEF TargetEntry, Other, Sides
  <2>2. ~IsDir(TargetEntry(p))
    BY <1>3, <2>1 DEF IsDir
  <2>3. QED
    BY <1>0, <2>1, <2>2 DEF Newer
<1>4. QED
  BY <1>0, <1>1, <1>2, <1>3 DEF TimeInv, Authored, Timed, Written, Sec

\* It stays asked for while its folder is looked for.
LEMMA TimeFind ==
    ASSUME TimeInv, FindFolder
    PROVE  TimeInv'
<1>1. UNCHANGED <<disk, leg, cur, stat>> /\ pc = "dirs" /\ pc' \in {"copy", "make"}
  BY DEF FindFolder, walk, copying
<1>2. Other(leg)' = Other(leg)
  BY <1>1 DEF Other
<1>3. QED
  BY <1>1, <1>2 DEF TimeInv, Authored, Timed, Written, Sec

\* And while its folder is made.
LEMMA TimeMakes ==
    ASSUME TypeOK, TimeInv, MakeFolders
    PROVE  TimeInv'
<1>1. UNCHANGED <<leg, cur, stat>> /\ pc = "make" /\ pc' = "copy" /\ leg = "remote" /\ cur \in Path
  BY MakesEffect DEF MakeFolders, walk, copying
<1>2. Other(leg) = "local" /\ Other(leg)' = "local" /\ "local" \in Sides /\ "remote" \in Sides
  BY <1>1 DEF Other, Sides
<1>3. Node("dir").kind = "dir"
  BY DEF Node
<1>4. \A s \in Sides, q \in Path : disk'[s][q] = disk[s][q] \/ disk'[s][q].kind = "dir"
  BY <1>3, MakesEffect
<1>5. \A s \in Sides, q \in Path : Authored(disk'[s][q]) /\ Timed(disk'[s][q])
  BY <1>1, <1>4 DEF TimeInv, Authored, Timed
<1>6. disk'["remote"][cur] = disk["remote"][cur]
  BY <1>1, <1>2, MakesEffect
<1>7. stat = disk["remote"][cur].mtime
  BY <1>1 DEF TimeInv
<1>8. ASSUME disk'["local"][cur].kind = "file" PROVE Sec(stat) > Sec(disk'["local"][cur].mtime)
  <2>1. disk'["local"][cur] = disk["local"][cur]
    BY <1>1, <1>2, <1>4, <1>8
  <2>2. QED
    BY <1>1, <1>2, <1>8, <2>1 DEF TimeInv
<1>9. QED
  BY <1>1, <1>2, <1>5, <1>6, <1>7, <1>8 DEF TimeInv, Authored, Timed, Written, Sec

\* A copy waits for its time.
LEMMA TimeCopy ==
    ASSUME TypeOK, TimeInv, Copy
    PROVE  TimeInv'
<1> USE DEF walk, copying, history
<1>0. /\ leg \in Sides /\ Other(leg) \in Sides /\ Other(leg) # leg /\ cur \in Path
      /\ pc = "copy" /\ pc' = "utime" /\ UNCHANGED <<leg, cur, stat>>
  BY CopyEffect, TwoSides DEF Copy
<1>1. Other(leg)' = Other(leg)
  BY <1>0 DEF Other
<1>2. \A s \in Sides, q \in Path :
         s # Other(leg) \/ q # cur => disk'[s][q] = disk[s][q]
  BY CopyEffect
<1>3. disk'[leg][cur] = disk[leg][cur] /\ disk[leg][cur].kind = "file"
  BY <1>0, <1>2, CopyEffect
<1>4. PICK d : d = disk'[Other(leg)][cur]
  OBVIOUS
<1>5. PICK e : e = disk[leg][cur]
  OBVIOUS
<1>6. SameContent(d, e)
  BY <1>4, <1>5, CopyEffect
<1>7. Authored(e) /\ e.kind = "file"
  BY <1>0, <1>3, <1>5 DEF TimeInv
<1>8. Authored(d)
  BY <1>6, <1>7, SameWritten DEF Authored, SameContent
<1>9. \A s \in Sides, q \in Path :
         /\ Authored(disk'[s][q])
         /\ Timed(disk'[s][q]) \/ (q = cur /\ s = Other(leg))
  BY <1>0, <1>2, <1>4, <1>8 DEF TimeInv, Authored, Timed
<1>10. stat' = disk'[leg][cur].mtime
  BY <1>0, <1>3 DEF TimeInv
<1>11. SameContent(disk'[leg][cur], disk'[Other(leg)][cur])
  BY <1>3, <1>4, <1>5, <1>6 DEF SameContent
<1>12. QED
  BY <1>0, <1>1, <1>9, <1>10, <1>11 DEF TimeInv, Authored, Timed, Written, Sec, SameContent

\* utime() gives the copy the second in which its content was written.
LEMMA TimeSet ==
    ASSUME TypeOK, WalkInv, TimeInv, SetTime
    PROVE  TimeInv'
<1> USE DEF history
<1>0. /\ leg \in Sides /\ Other(leg) \in Sides /\ Other(leg) # leg /\ cur \in Path
      /\ pc = "utime" /\ pc' = "visit"
  BY TimeEffect, TwoSides DEF SetTime
<1>1. disk[leg][cur].kind = "file" /\ disk[Other(leg)][cur].kind = "file"
  BY <1>0 DEF WalkInv, CallInv
<1>2. PICK d : d = disk'[Other(leg)][cur]
  OBVIOUS
<1>3. PICK e \in Entry : e = disk[leg][cur]
  BY <1>0, DiskType
<1>4. d.mtime = StampOf(Other(leg), stat) /\ stat = e.mtime
  BY <1>0, <1>1, <1>2, <1>3, TimeEffect DEF TimeOfCopy, TimeInv
<1>5. Sec(d.mtime) = Sec(e.mtime)
  <2>1. e.mtime \in Int
    BY <1>3 DEF Entry
  <2>2. QED
    BY <1>4, <2>1, SecOfFloor DEF StampOf
<1>6. Sec(e.mtime) = Written(e)
  BY <1>0, <1>1, <1>3 DEF TimeInv, Timed
<1>7. SameContent(d, disk[Other(leg)][cur]) /\ SameContent(e, disk[Other(leg)][cur])
  BY <1>0, <1>2, <1>3, TimeEffect DEF TimeInv, SameContent
<1>8. Written(d) = Written(e)
  BY <1>7, SameWritten
<1>9. Timed(d)
  BY <1>5, <1>6, <1>8 DEF Timed
<1>10. Authored(disk[Other(leg)][cur])
  BY <1>0 DEF TimeInv
<1>11. Authored(d)
  BY <1>1, <1>7, <1>10, SameWritten DEF Authored, SameContent
<1>12. \A s \in Sides, q \in Path : Authored(disk'[s][q]) /\ Timed(disk'[s][q])
  BY <1>0, <1>2, <1>9, <1>11, TimeEffect DEF TimeInv
<1>13. QED
  BY <1>0, <1>12 DEF TimeInv, Authored, Timed, Written, Sec

\* Nobody edits while sync() runs, and what is written then is stamped with the
\* present.  That is not before the end of the last sync(), but for a file of the
\* server that is late.
LEMMA QuietEdit ==
    ASSUME Quiet, TypeOK, RestInv, Edit
    PROVE  \E s \in Sides, p \in Path, e \in Entry :
              /\ Put(s, p, e) /\ Edited /\ pc = "idle"
              /\ e.kind = "file" => /\ Authored(e) /\ Timed(e)
                                    /\ e.mtime >= lastSync \/ (s = "remote" /\ p \in late')
              /\ e.kind # "file" => "remove" \in Edits \/ (disk[s][p].kind = "none" /\ IsDir(e))
              /\ e.kind # "file" \/ s = "local" => late' = late
              /\ \A q \in Path : q # p => (q \in late <=> q \in late')
<1>0. /\ now \in Nat /\ now >= Res /\ now + Skew >= Res /\ Skew \in Int /\ now \in Int
      /\ now >= lastSync
  BY ConstantAssumption DEF RestInv, TypeOK
<1>1. PICK s \in Sides, p \in Path :
         \/ WriteFile(s, p) \/ MakeNode(s, p, "mkdir", "dir")
         \/ MakeNode(s, p, "socket", "socket") \/ RemoveNode(s, p)
  BY DEF Edit
<1>2. pc = "idle" /\ Edited
  BY <1>1 DEF WriteFile, MakeNode, RemoveNode, MayEdit
<1>3. CASE WriteFile(s, p)
  <2>1. PICK e : e = [kind |-> "file", by |-> s, at |-> now, mtime |-> Stamp(s)]
    OBVIOUS
  <2>2. /\ e \in Entry /\ e.kind = "file" /\ e.by = s /\ e.at = now /\ e.mtime = Stamp(s)
        /\ e.mtime \in Int /\ lastSync \in Int
    BY <1>0, <2>1, TimeType DEF Entry, Kinds, TypeOK
  <2>3. Put(s, p, e) /\ Lateness(s, p)
    BY <1>3, <2>1 DEF WriteFile
  <2>4. \A q \in Path : q # p => (q \in late <=> q \in late')
    BY <2>3 DEF Lateness
  <2>5. CASE s = "remote"
    <3>1. Written(e) = Sec(now + Skew) /\ e.mtime = Floor(now + Skew)
      BY <2>2, <2>5 DEF Written, Stamp
    <3>2. now + Skew \in Int
      BY <1>0
    <3>3. Authored(e) /\ Timed(e)
      BY <1>0, <2>2, <3>1, <3>2, SecOfFloor, SecPositive DEF Authored, Timed
    <3>4. e.mtime >= lastSync \/ p \in late'
      BY <2>2, <2>3, <2>5 DEF Lateness
    <3>5. QED
      BY <1>2, <2>2, <2>3, <2>4, <2>5, <3>3, <3>4
  <2>6. CASE s # "remote"
    <3>1. Written(e) = Sec(now) /\ e.mtime = now /\ s = "local"
      BY <2>2, <2>6 DEF Written, Stamp, Sides
    <3>2. Authored(e) /\ Timed(e) /\ e.mtime >= lastSync
      BY <1>0, <2>2, <3>1, SecPositive DEF Authored, Timed
    <3>3. late' = late
      BY <2>3, <3>1 DEF Lateness
    <3>4. QED
      BY <1>2, <2>2, <2>3, <2>4, <3>2, <3>3
  <2>7. QED
    BY <2>5, <2>6
<1>4. CASE ~WriteFile(s, p)
  <2>1. PICK e \in {Node("dir"), Node("socket"), Absent} :
           /\ Put(s, p, e) /\ (e # Absent => disk[s][p].kind = "none")
           /\ (e = Absent => "remove" \in Edits) /\ late' = late
    BY <1>1, <1>4 DEF MakeNode, RemoveNode, Node, Absent
  <2>2. e \in Entry /\ e.kind # "file" /\ (e # Absent => IsDir(e))
    BY <2>1, EntryType DEF Node, Absent, Kinds, IsDir
  <2>3. QED
    BY <1>2, <2>1, <2>2
<1>5. QED
  BY <1>3, <1>4

\* An edit is written now.
LEMMA TimeEdit ==
    ASSUME Quiet, TypeOK, RestInv, TimeInv, Edit
    PROVE  TimeInv'
<1>1. PICK s \in Sides, p \in Path, e \in Entry :
         /\ Put(s, p, e) /\ Edited /\ pc = "idle"
         /\ e.kind = "file" => Authored(e) /\ Timed(e)
  BY QuietEdit
<1>2. \A t \in Sides, q \in Path :
         disk'[t][q] = IF t = s /\ q = p THEN e ELSE disk[t][q]
  BY <1>1, PutEffect
<1>3. Authored(e) /\ Timed(e)
  BY <1>1 DEF Authored, Timed
<1>4. \A t \in Sides, q \in Path : Authored(disk'[t][q]) /\ Timed(disk'[t][q])
  BY <1>1, <1>2, <1>3 DEF TimeInv
<1>5. pc' = "idle"
  BY <1>1 DEF Edited, Idle
<1>6. QED
  BY <1>4, <1>5 DEF TimeInv, Authored, Timed, Written, Sec

\* While no transfer breaks, every modification time is the second in which the
\* content was written.
LEMMA TimeInductive ==
    Quiet /\ QuietInv /\ (~broken => TimeInv) /\ [Next]_vars => (~broken => TimeInv)'
<1> SUFFICES ASSUME Quiet, QuietInv, TimeInv, [Next]_vars, ~broken' PROVE TimeInv'
  BY BrokenStays
<1> USE DEF walk, copying, history
<1>0. TypeOK /\ RestInv /\ WalkInv
  BY DEF QuietInv
<1>1. CASE \/ SyncStart \/ ListNames \/ NextFolder \/ EndLeg \/ Finish
           \/ \E p \in Path : LeaveFile(p) \/ EnterFolder(p) \/ FindCopy(p)
  <2>1. UNCHANGED disk /\ pc # "utime" /\ pc' \in {"idle", "visit", "list", "mkdir", "stat"}
    BY <1>0, <1>1 DEF SyncStart, ListNames, NextFolder, AsksServer, FolderDone, EndLeg, Finish,
       Leave, LeaveFile, Passes, Compared, EnterFolder, FindCopy
  <2>2. QED
    BY <2>1, TimeBetween
<1>2. CASE Fail \/ Abort
  <2>1. pc # "utime"
    <3>1. CASE Abort
      BY <3>1 DEF Abort
    <3>2. CASE Fail
      BY <1>0, <3>2 DEF Fail, ListingFails, AsksServer, FolderDone, MkdirFails, StatFails,
                        MakedirsFails, CopyRefused, SetTimeFails, WalkInv, CallInv
    <3>3. QED
      BY <1>2, <3>1, <3>2
  <2>2. UNCHANGED disk /\ pc' = "idle"
    BY <1>2 DEF Fail, ListingFails, MkdirFails, StatFails, MakedirsFails, CopyRefused,
                SetTimeFails, Abort, Raise, Leave
  <2>3. QED
    BY <2>1, <2>2, TimeBetween
<1>3. CASE MakeFolder
  <2>1. pc = "mkdir" /\ pc' = "visit"
    BY <1>3 DEF MakeFolder
  <2>2. Node("dir").kind # "file"
    BY DEF Node
  <2>3. \A s \in Sides, q \in Path : disk'[s][q].kind = "file" => disk'[s][q] = disk[s][q]
    BY <1>0, <1>3, <2>2, MakeEffect
  <2>4. QED
    BY <2>1, <2>3, TimeBetween
<1>4. CASE SyncStep
  BY <1>0, <1>1, <1>2, <1>3, <1>4, TimeTake, TimeFind, TimeMakes, TimeCopy, TimeSet
  DEF SyncStep, CopyBreaks
<1>5. CASE NewProcess \/ Tick \/ UNCHANGED vars
  <2>1. UNCHANGED <<disk, pc, leg, cur, stat>>
    BY <1>5 DEF NewProcess, Tick, Idle, vars
  <2>2. QED
    BY <2>1 DEF TimeInv, Authored, Timed, Written, Sec, SameContent, Other
<1>6. CASE Edit
  BY <1>0, <1>6, TimeEdit
<1>7. QED
  BY <1>4, <1>5, <1>6 DEF Next

\* sync() replaces the content of a file by content written in a later second.
LEMMA OverwritesOlder ==
    ASSUME QuietInv, ~broken => TimeInv, SyncStep, ~broken, ~broken',
           NEW s \in Sides, NEW p \in Path, disk[s][p].kind = "file"
    PROVE  SameContent(disk[s][p], disk'[s][p]) \/ Written(disk'[s][p]) > Written(disk[s][p])
<1>0. TypeOK /\ TimeInv
  BY DEF QuietInv
<1>1. CASE disk'[s][p] = disk[s][p]
  BY <1>1 DEF SameContent
<1>2. CASE MakeFolder
  BY <1>0, <1>1, <1>2, MakeEffect
<1>3. CASE MakeFolders
  BY <1>0, <1>1, <1>3, MakesEffect DEF Sides
<1>4. CASE SetTime
  <2>1. SameContent(disk'[s][p], disk[s][p])
    BY <1>0, <1>4, TimeEffect
  <2>2. QED
    BY <2>1 DEF SameContent
<1>5. CASE Copy
  <2>1. CASE s # Other(leg) \/ p # cur
    BY <1>0, <1>1, <1>5, <2>1, CopyEffect
  <2>2. CASE s = Other(leg) /\ p = cur
    <3>1. pc = "copy" /\ leg \in Sides /\ cur \in Path
      BY <1>0, <1>5, CopyEffect DEF Copy
    <3>2. Sec(disk[leg][cur].mtime) > Sec(disk[s][p].mtime)
      BY <1>0, <2>2, <3>1 DEF TimeInv
    <3>3. Timed(disk[leg][cur]) /\ Timed(disk[s][p]) /\ disk[leg][cur].kind = "file"
      BY <1>0, <1>5, <3>1, CopyEffect DEF TimeInv
    <3>4. Written(disk[leg][cur]) > Written(disk[s][p])
      BY <3>2, <3>3 DEF Timed
    <3>5. PICK d : d = disk'[s][p]
      OBVIOUS
    <3>6. PICK e : e = disk[leg][cur]
      OBVIOUS
    <3>7. Written(d) = Written(e)
      BY <1>0, <1>5, <2>2, <3>5, <3>6, CopyEffect, SameWritten
    <3>8. QED
      BY <3>4, <3>5, <3>6, <3>7
  <2>3. QED
    BY <2>1, <2>2
<1>6. CASE CopyBreaks
  BY <1>6 DEF CopyBreaks
<1>7. QED
  BY <1>1, <1>2, <1>3, <1>4, <1>5, <1>6, SyncSteps

\* As long as nobody edits meanwhile, sync() replaces the content of a file only
\* by content written in a later second (sync.py:203, 233).
THEOREM NewestContentWins == Quiet => (Spec => NewestWins)
<1> SUFFICES ASSUME Quiet PROVE Spec => NewestWins
  OBVIOUS
<1> DEFINE I == QuietInv /\ (~broken => TimeInv)
<1>1. Init => I
  <2>1. SUFFICES ASSUME Init PROVE TimeInv
    BY QuietStart DEF QuietInv
  <2>2. \A s \in Sides, p \in Path : disk[s][p].kind = "none"
    BY <2>1 DEF Init, NoEntries, Absent, Node
  <2>3. QED
    BY <2>1, <2>2 DEF Init, TimeInv, Authored, Timed
<1>2. I /\ [Next]_vars => I'
  BY TypeInductive, RestInductive, WalkInductive, TimeInductive DEF QuietInv
<1>3. I /\ [Next]_vars => [SyncStep /\ ~broken' => \A s \in Sides, p \in Path :
             LET old == disk[s][p]
                 new == disk'[s][p]
             IN  old.kind = "file" =>
                   SameContent(old, new) \/ Written(new) > Written(old)]_vars
  BY OverwritesOlder, BrokenStays
<1>4. QED
  BY <1>1, <1>2, <1>3, PTL DEF Spec, NewestWins

----------------------------------------------------------------------------
(* What has been delivered stays delivered while sync() runs.              *)

\* Where nothing is, there is no modification time either.
BlankInv == \A s \in Sides, p \in Path : disk[s][p].kind = "none" => disk[s][p] = Absent

\* A path holds nothing until something is put there, and after it is removed.
LEMMA BlankInductive == TypeOK /\ BlankInv /\ [Next]_vars => BlankInv'
<1> SUFFICES ASSUME TypeOK, BlankInv, [Next]_vars PROVE BlankInv'
  OBVIOUS
<1>0. \A kind : Node(kind).kind = kind
  BY DEF Node
<1>1. CASE \A s \in Sides, p \in Path :
              disk'[s][p] \in {disk[s][p], Absent} \/ disk'[s][p].kind # "none"
  BY <1>1 DEF BlankInv
<1>2. CASE SyncStep
  <2>1. CASE MakeFolder
    BY <1>0, <1>1, <2>1, MakeEffect
  <2>2. CASE MakeFolders
    BY <1>0, <1>1, <2>2, MakesEffect
  <2>3. CASE Copy
    BY <1>1, <2>3, CopyEffect
  <2>4. CASE SetTime
    <3>1. \A s \in Sides, p \in Path :
             \/ disk'[s][p] = disk[s][p]
             \/ /\ s = Other(leg) /\ p = cur /\ disk'[s][p].kind = disk[s][p].kind
                /\ disk[s][p].kind # "none"
      BY <2>4, TimeEffect DEF SetTime
    <3>2. QED
      BY <1>1, <3>1
  <2>5. CASE CopyBreaks
    <3>1. cur \in Path /\ Other(leg) \in Sides
      BY <2>5, TwoSides DEF CopyBreaks, TypeOK, Calls
    <3>2. Torn(Stamp(Other(leg))).kind = "file"
      BY <1>0 DEF Torn, Node
    <3>3. QED
      BY <1>1, <2>5, <3>1, <3>2, PutEffect DEF CopyBreaks
  <2>6. QED
    BY <1>1, <1>2, <2>1, <2>2, <2>3, <2>4, <2>5, SyncSteps
<1>3. CASE NewProcess \/ Tick \/ UNCHANGED vars
  BY <1>1, <1>3 DEF NewProcess, Tick, vars
<1>4. ASSUME NEW s \in Sides, NEW p \in Path, NEW e,
             e = Absent \/ e.kind # "none", Put(s, p, e)
      PROVE  BlankInv'
  BY <1>1, <1>4, PutEffect
<1>5. CASE Edit
  <2>1. PICK s \in Sides, p \in Path :
           \/ WriteFile(s, p) \/ MakeNode(s, p, "mkdir", "dir")
           \/ MakeNode(s, p, "socket", "socket") \/ RemoveNode(s, p)
    BY <1>5 DEF Edit
  <2>2. PICK e : e = [kind |-> "file", by |-> s, at |-> now, mtime |-> Stamp(s)]
    OBVIOUS
  <2>3. e.kind = "file"
    BY <2>2
  <2>4. \E x \in {Node("dir"), Node("socket"), Absent, e} : Put(s, p, x)
    BY <2>1, <2>2 DEF WriteFile, MakeNode, RemoveNode
  <2>5. QED
    BY <1>0, <1>4, <2>3, <2>4
<1>6. QED
  BY <1>2, <1>3, <1>5 DEF Next

\* The file d stands for the file e.
Stands(d, e) == d.kind = "file" /\ (SameContent(d, e) \/ Written(d) >= Written(e))

\* It does so whatever their modification times.
LEMMA StandsStays ==
    ASSUME NEW d, NEW e, NEW d1, NEW e1, Stands(d, e),
           d1.kind = d.kind, SameContent(d1, d), SameContent(e1, e)
    PROVE  Stands(d1, e1)
BY DEF Stands, SameContent, Written

\* Every file of the server has a file that stands for it in the local folder,
\* unless it is late, and every local file, but for those that are left out, has
\* one on the server.
Fetched(p) ==
    InScope(p) /\ disk["remote"][p].kind = "file" /\ p \notin late => Delivered("remote", p)
Sent(p) ==
    InScope(p) /\ disk["local"][p].kind = "file" /\ p \notin Excluded \cup late
        => Delivered("local", p) \/ IsDir(disk["remote"][p])

\* Every local folder is on the server.
Made(p) == recursive /\ disk["local"][p].kind = "dir" => disk["remote"][p].kind = "dir"

\* A step that changes no content and no kind at a path changes none of this.
LEMMA KeepsSame ==
    ASSUME NEW p, recursive' = recursive, p \in late => p \in late',
           \A s \in Sides : disk'[s][p].kind = disk[s][p].kind
                            /\ SameContent(disk'[s][p], disk[s][p])
    PROVE  (Fetched(p) => Fetched(p)') /\ (Sent(p) => Sent(p)') /\ (Made(p) => Made(p)')
<1>0. "local" \in Sides /\ "remote" \in Sides
  BY DEF Sides
<1>1. PICK l : l = disk["local"][p]
  OBVIOUS
<1>2. PICK r : r = disk["remote"][p]
  OBVIOUS
<1>3. PICK l1 : l1 = disk'["local"][p]
  OBVIOUS
<1>4. PICK r1 : r1 = disk'["remote"][p]
  OBVIOUS
<1>5. l1.kind = l.kind /\ r1.kind = r.kind /\ SameContent(l1, l) /\ SameContent(r1, r)
  BY <1>0, <1>1, <1>2, <1>3, <1>4
<1>6. /\ Delivered("remote", p) <=> Stands(l, r)
      /\ Delivered("local", p) <=> Stands(r, l)
  BY <1>1, <1>2 DEF Delivered, Stands, Other
<1>7. /\ Delivered("remote", p)' <=> Stands(l1, r1)
      /\ Delivered("local", p)' <=> Stands(r1, l1)
  BY <1>3, <1>4 DEF Delivered, Stands, Other, SameContent, Written, Sec
<1>8. (Stands(l, r) => Stands(l1, r1)) /\ (Stands(r, l) => Stands(r1, l1))
  BY <1>5, StandsStays
<1>9. QED
  BY <1>1, <1>2, <1>3, <1>4, <1>5, <1>6, <1>7, <1>8
  DEF Fetched, Sent, Made, InScope, IsDir

\* Both sides have a file of the same content.
LEMMA KeepsCopy ==
    ASSUME NEW p, disk'["local"][p].kind = "file", disk'["remote"][p].kind = "file",
           \/ SameContent(disk'["local"][p], disk'["remote"][p])
           \/ SameContent(disk'["remote"][p], disk'["local"][p])
    PROVE  Fetched(p)' /\ Sent(p)' /\ Made(p)'
<1>1. Delivered("remote", p)' /\ Delivered("local", p)'
  BY DEF Delivered, Other, SameContent
<1>2. QED
  BY <1>1 DEF Fetched, Sent, Made

\* A path where a step of sync() changes the modification time has been
\* delivered, and what was delivered stays delivered.
KeepsAt(p) ==
    /\ Fetched(p) \/ disk'["remote"][p].mtime # disk["remote"][p].mtime => Fetched(p)'
    /\ Sent(p) \/ disk'["local"][p].mtime # disk["local"][p].mtime => Sent(p)'
    /\ leg = "local" /\ Made(p) => Made(p)'

\* Where a step changes nothing, this is clear.
LEMMA KeepsUnchanged ==
    ASSUME NEW p, recursive' = recursive, late' = late,
           \A s \in Sides : disk'[s][p] = disk[s][p]
    PROVE  KeepsAt(p)
<1>1. (Fetched(p) => Fetched(p)') /\ (Sent(p) => Sent(p)') /\ (Made(p) => Made(p)')
  BY KeepsSame DEF SameContent
<1>2. QED
  BY <1>1 DEF KeepsAt, Sides

\* Only the first sync() of a process looks again at what was late.
LEMMA LateStays == SyncStep => SyncStart \/ late' = late
BY DEF SyncStep, SyncStart, ListNames, NextFolder, MakeFolder, EnterFolder, FindCopy, LeaveFile,
   TakeFile, FindFolder, MakeFolders, Copy, CopyBreaks, SetTime, EndLeg, Finish, Fail, Abort,
   ListingFails, MkdirFails, StatFails, MakedirsFails, CopyRefused, SetTimeFails, Raise, history

\* A folder that is created on the server stands for what is there.
LEMMA KeepsMake ==
    ASSUME TypeOK, SyncStep, MakeFolder, late' = late, NEW p \in Path
    PROVE  KeepsAt(p)
<1>0. recursive' = recursive /\ "local" \in Sides /\ "remote" \in Sides
  BY DEF SyncStep, options, Sides
<1>1. CASE \A s \in Sides : disk'[s][p] = disk[s][p]
  BY <1>0, <1>1, KeepsUnchanged
<1>2. CASE ~\A s \in Sides : disk'[s][p] = disk[s][p]
  <2>1. disk'["remote"][p] = Node("dir") /\ disk'["local"][p] = disk["local"][p]
    BY <1>0, <1>2, MakeEffect DEF Sides
  <2>2. disk'["remote"][p].kind = "dir"
    BY <2>1 DEF Node
  <2>3. Fetched(p)' /\ Sent(p)' /\ Made(p)'
    BY <2>2 DEF Fetched, Sent, Made, IsDir
  <2>4. QED
    BY <2>3 DEF KeepsAt
<1>3. QED
  BY <1>1, <1>2

\* A folder that is created for a copy takes the place of no file.
LEMMA KeepsMakes ==
    ASSUME TypeOK, SyncStep, MakeFolders, late' = late, NEW p \in Path
    PROVE  KeepsAt(p)
<1>0. recursive' = recursive /\ "local" \in Sides /\ "remote" \in Sides
  BY DEF SyncStep, options, Sides
<1>1. CASE \A s \in Sides : disk'[s][p] = disk[s][p]
  BY <1>0, <1>1, KeepsUnchanged
<1>2. CASE ~\A s \in Sides : disk'[s][p] = disk[s][p]
  <2>1. /\ leg = "remote" /\ p \in Above[cur]
        /\ disk'["local"][p] = Node("dir") /\ disk'["remote"][p] = disk["remote"][p]
    BY <1>0, <1>2, MakesEffect DEF Sides
  <2>2. disk'["local"][p].kind = "dir" /\ disk["local"][p].kind # "file"
    BY <2>1, MakesEffect DEF Node
  <2>3. Sent(p)'
    BY <2>2 DEF Sent
  <2>4. ASSUME Fetched(p) PROVE Fetched(p)'
    <3>1. ~Delivered("remote", p)
      BY <2>2 DEF Delivered, Other
    <3>2. ~(InScope(p) /\ disk["remote"][p].kind = "file" /\ p \notin late)
      BY <2>4, <3>1 DEF Fetched
    <3>3. QED
      BY <1>0, <2>1, <3>2 DEF Fetched, InScope
  <2>5. QED
    BY <2>1, <2>3, <2>4 DEF KeepsAt
<1>3. QED
  BY <1>1, <1>2

\* A file that is copied is delivered.
LEMMA KeepsTransfer ==
    ASSUME TypeOK, WalkInv, TimeInv, SyncStep, late' = late, Copy \/ SetTime, NEW p \in Path
    PROVE  KeepsAt(p) /\ (p = cur => Fetched(p)' /\ Sent(p)')
<1>0. /\ recursive' = recursive /\ leg \in Sides /\ Other(leg) \in Sides /\ cur \in Path
      /\ \A s \in Sides : s = leg \/ s = Other(leg)
      /\ disk[leg][cur].kind = "file"
  BY CopyEffect, TimeEffect, TwoSides DEF SyncStep, options, WalkInv, CallInv, SetTime
<1>1. CASE p # cur
  BY <1>0, <1>1, CopyEffect, TimeEffect, KeepsUnchanged
<1>2. CASE p = cur
  <2>1. disk'[leg][p].kind = "file" /\ SameContent(disk'[leg][p], disk[leg][p])
    BY <1>0, <1>2, CopyEffect, TimeEffect, TwoSides DEF SameContent
  <2>2. /\ disk'[Other(leg)][p].kind = "file"
        /\ SameContent(disk'[Other(leg)][p], disk[leg][p])
    <3>1. CASE Copy
      BY <1>2, <3>1, CopyEffect
    <3>2. CASE SetTime
      <4>1. disk[Other(leg)][p].kind = "file" /\ SameContent(disk[leg][p], disk[Other(leg)][p])
        BY <1>2, <3>2 DEF SetTime, WalkInv, CallInv, TimeInv
      <4>2. SameContent(disk'[Other(leg)][p], disk[Other(leg)][p])
            /\ disk'[Other(leg)][p].kind = "file"
        BY <1>0, <3>2, <4>1, TimeEffect
      <4>3. QED
        BY <4>1, <4>2 DEF SameContent
    <3>3. QED
      BY <3>1, <3>2
  <2>3. SameContent(disk'[leg][p], disk'[Other(leg)][p])
        /\ SameContent(disk'[Other(leg)][p], disk'[leg][p])
    BY <2>1, <2>2 DEF SameContent
  <2>4. Fetched(p)' /\ Sent(p)' /\ Made(p)'
    <3>1. CASE leg = "local"
      BY <2>1, <2>2, <2>3, <3>1, KeepsCopy DEF Other
    <3>2. CASE leg = "remote"
      BY <2>1, <2>2, <2>3, <3>2, KeepsCopy DEF Other
    <3>3. QED
      BY <1>0, <3>1, <3>2 DEF Sides
  <2>5. QED
    BY <2>4 DEF KeepsAt
<1>3. QED
  BY <1>1, <1>2

\* Every step of sync() but a broken transfer keeps what has been delivered.
LEMMA KeepsSync ==
    ASSUME TypeOK, WalkInv, TimeInv, SyncStep, pc # "idle", ~broken', NEW p \in Path
    PROVE  KeepsAt(p) /\ late' = late
<1>0. late' = late
  BY LateStays DEF SyncStart
<1>1. CASE UNCHANGED disk
  BY <1>0, <1>1, KeepsUnchanged DEF SyncStep, options
<1>2. CASE CopyBreaks
  BY <1>2 DEF CopyBreaks
<1>3. QED
  BY <1>0, <1>1, <1>2, KeepsMake, KeepsMakes, KeepsTransfer, SyncSteps

----------------------------------------------------------------------------
(* The walk comes to everything.                                           *)

\* The walk has still to come to a path, or to a folder above it.
Pending(p) ==
    \/ todo \cap (Above[p] \cup {p}) # {}
    \/ \E i \in DOMAIN stack : stack[i] \in Above[p] \cup {Root}

\* Handling an entry that is not above a path, or that is pushed, changes
\* nothing for the path.
LEMMA PendingHandled ==
    ASSUME NEW p \in Path, NEW x, Pending(p), todo' = todo \ {x},
           \A j \in DOMAIN stack : \E i \in DOMAIN stack' : stack'[i] = stack[j],
           x \in Above[p] => \E i \in DOMAIN stack' : stack'[i] = x
    PROVE  Pending(p)' \/ (p \in todo /\ p \notin todo')
<1>1. CASE \E j \in DOMAIN stack : stack[j] \in Above[p] \cup {Root}
  BY <1>1 DEF Pending
<1>2. CASE \E y \in todo : y \in Above[p] \cup {p}
  BY <1>2 DEF Pending
<1>3. QED
  BY <1>1, <1>2 DEF Pending

\* So does pushing it.
LEMMA PendingPushed ==
    ASSUME TypeOK, NEW p \in Path, InScope(p), Pending(p), NEW x \in Path, Handled(x),
           stack' = StackWith(x)
    PROVE  Pending(p)' \/ (p \in todo /\ p \notin todo')
<1>0. stack \in Seq(Path \cup {Root}) /\ todo' = todo \ {x}
  BY DEF TypeOK, Handled
<1>1. \A j \in DOMAIN stack : \E i \in DOMAIN stack' : stack'[i] = stack[j]
  BY <1>0, AppendProperties, LenProperties DEF StackWith
<1>2. ASSUME x \in Above[p] PROVE \E i \in DOMAIN stack' : stack'[i] = x
  <2>1. recursive
    BY <1>2, AboveOf DEF InScope
  <2>2. stack' = Append(stack, x)
    BY <2>1 DEF StackWith
  <2>3. QED
    BY <1>0, <2>2, AppendProperties, LenProperties
<1>3. QED
  BY <1>0, <1>1, <1>2, PendingHandled

\* A folder that is listed has an entry for the path, or for a folder above it.
LEMMA PendingList ==
    ASSUME TypeOK, TreeInv, WalkInv, NextFolder, NEW p \in Path, disk[leg][p].kind # "none",
           Pending(p)
    PROVE  Pending(p)'
<1>1. PICK f : f = Top
  OBVIOUS
<1>0. /\ leg \in Sides /\ stack \in Seq(Path \cup {Root}) /\ stack # <<>>
      /\ stack' = SubSeq(stack, 1, Len(stack) - 1) /\ todo' = Names(f)
      /\ todo \subseteq todo'
  BY <1>1, PopEffect DEF TypeOK
<1>2. CASE todo \cap (Above[p] \cup {p}) # {}
  BY <1>0, <1>2 DEF Pending
<1>3. ASSUME NEW j \in DOMAIN stack, stack[j] \in Above[p] \cup {Root}
      PROVE  Pending(p)'
  <2>1. CASE j # Len(stack)
    <3>1. /\ Len(stack) \in Nat /\ DOMAIN stack = 1 .. Len(stack)
          /\ j \in 1 .. (Len(stack) - 1) /\ Len(stack) - 1 \in 0 .. Len(stack)
      BY <1>0, <2>1, LenProperties
    <3>2. j \in DOMAIN stack' /\ stack'[j] = stack[j]
      BY <1>0, <3>1, SubSeqProperties
    <3>3. QED
      BY <1>3, <3>2 DEF Pending
  <2>2. CASE j = Len(stack)
    <3>1. f \in Above[p] \cup {Root}
      BY <1>1, <1>3, <2>2 DEF Top
    <3>2. CASE f = Parent[p]
      BY <1>0, <3>2 DEF Names, Pending
    <3>3. CASE f # Parent[p]
      <4>1. PICK q \in Above[p] : Parent[q] = f
        BY <3>1, <3>3, NextBelow
      <4>2. q \in Path /\ disk[leg][q].kind = "dir"
        BY <1>0, AboveOf DEF TreeInv
      <4>3. q \in Names(f)
        BY <4>1, <4>2 DEF Names
      <4>4. QED
        BY <1>0, <4>3 DEF Pending
    <3>4. QED
      BY <3>2, <3>3
  <2>3. QED
    BY <2>1, <2>2
<1>4. QED
  BY <1>2, <1>3 DEF Pending

\* A path that is in the scope of sync() waits until the walk comes to it.
LEMMA PendingStays ==
    ASSUME QuietInv, TreeInv, SyncStep, leg' = leg, pc' # "idle", NEW p \in Path,
           InScope(p), disk[leg][p].kind # "none", Pending(p)
    PROVE  Pending(p)' \/ (p \in todo /\ p \notin todo')
<1> USE DEF walk, copying, history
<1>0. /\ TypeOK /\ RestInv /\ WalkInv /\ leg \in Sides /\ todo \subseteq Path
      /\ stack \in Seq(Path \cup {Root}) /\ Root \notin Path
      /\ \A q \in Above[p] : q \in Path /\ disk[leg][q].kind = "dir"
  BY AboveOf, ConstantAssumption DEF QuietInv, TypeOK, TreeInv
<1>1. CASE SyncStart
  <2>1. stack' = <<Root>> /\ 1 \in DOMAIN stack' /\ stack'[1] = Root
    BY <1>1 DEF SyncStart
  <2>2. QED
    BY <2>1 DEF Pending
<1>2. CASE NextFolder
  BY <1>0, <1>2, PendingList
<1>3. ASSUME NEW x \in Path, Handled(x), stack' = StackWith(x)
      PROVE  Pending(p)' \/ (p \in todo /\ p \notin todo')
  BY <1>0, <1>3, PendingPushed
<1>4. ASSUME NEW x \in Path, LeaveFile(x)
      PROVE  Pending(p)' \/ (p \in todo /\ p \notin todo')
  <2>1. /\ x \in todo /\ todo' = todo \ {x} /\ stack' = stack
        /\ SourceEntry(x).kind = "file" /\ (pc = "visit" \/ (pc = "stat" /\ x = cur))
    BY <1>4 DEF LeaveFile, Passes, Compared, Handled
  <2>2. disk[leg][x].kind = "file"
    BY <1>0, <2>1, Visited
  <2>3. QED
    BY <1>0, <2>1, <2>2, PendingHandled
<1>5. CASE UNCHANGED <<todo, stack>>
  BY <1>5 DEF Pending
<1>6. CASE SetTime
  <2>1. todo' = todo \ {cur} /\ stack' = stack /\ disk[leg][cur].kind = "file"
    BY <1>0, <1>6 DEF SetTime, Handled, WalkInv, CallInv
  <2>2. QED
    BY <1>0, <2>1, PendingHandled
<1>7. CASE ListNames
  BY <1>7 DEF ListNames, FolderDone, Pending
<1>8. CASE EndLeg \/ CopyBreaks \/ Finish \/ Fail \/ Abort
  BY <1>8 DEF EndLeg, HasSecondLeg, CopyBreaks, Finish, Fail, Abort, ListingFails, MkdirFails,
              StatFails, MakedirsFails, CopyRefused, SetTimeFails, Raise, Leave
<1>9. CASE MakeFolder \/ \E x \in Path : EnterFolder(x)
  <2>1. UNCHANGED <<todo, stack>> \/ \E x \in Path : Handled(x) /\ stack' = StackWith(x)
    BY <1>0, <1>9, MakeEffect DEF MakeFolder, EnterFolder
  <2>2. QED
    BY <1>3, <1>5, <2>1
<1>10. CASE FindFolder \/ MakeFolders \/ Copy \/ \E x \in Path : FindCopy(x) \/ TakeFile(x)
  BY <1>5, <1>10 DEF FindFolder, MakeFolders, Copy, FindCopy, TakeFile
<1>11. QED
  BY <1>1, <1>2, <1>4, <1>6, <1>7, <1>8, <1>9, <1>10 DEF SyncStep

\* Seconds keep the order of times.
LEMMA SecMonotone ==
    /\ \A t, u \in Int : t <= u => Sec(t) <= Sec(u)
    /\ \A t \in Int : Sec(t) >= 1 => t > 0
    /\ Sec(0) = 0
<1>1. ASSUME NEW r \in Nat \ {0}
      PROVE  /\ \A t, u \in Int : t <= u => t \div r <= u \div r
             /\ \A t \in Int : t \div r >= 1 => t > 0
             /\ 0 \div r = 0
  OBVIOUS
<1>2. QED
  BY <1>1, ConstantAssumption DEF Sec

\* A file that is not newer than another is not written later, and is there.
LEMMA NotNewerStands ==
    ASSUME NEW e, NEW d, e.kind = "file", Authored(e), Timed(e), Timed(d),
           d.kind \in {"none", "file"}, d.kind = "none" => d = Absent,
           e.mtime \in Int, d.mtime \in Int, ~(Sec(e.mtime) > Sec(d.mtime))
    PROVE  Stands(d, e)
<1>1. Written(e) = Sec(e.mtime) /\ Written(e) >= 1
  BY DEF Authored, Timed
<1>2. Sec(d.mtime) >= 1 /\ Sec(d.mtime) >= Sec(e.mtime)
  BY <1>1, SecOfFloor
<1>3. d.kind = "file"
  BY <1>2, SecMonotone DEF Absent, Node
<1>4. QED
  BY <1>1, <1>2, <1>3 DEF Timed, Stands

\* An entry that has been handled was a folder, a file that stays, or a copy.
LEMMA WasHandled ==
    ASSUME QuietInv, SyncStep, pc' # "idle", NEW p \in todo, p \notin todo'
    PROVE  /\ p \in Path /\ pc # "idle" /\ leg' = leg
           /\ \/ IsDir(disk[leg][p]) /\ stack' = StackWith(p)
              \/ /\ LeaveFile(p) /\ disk[leg][p].kind = "file" /\ SourceEntry(p) = disk[leg][p]
                 /\ listed[p] = disk["remote"][p]
              \/ SetTime /\ p = cur /\ disk[leg][p].kind = "file"
<1> USE DEF walk, copying, history
<1>0. TypeOK /\ RestInv /\ WalkInv /\ leg \in Sides /\ p \in Path /\ Root \notin Path
  BY ConstantAssumption DEF QuietInv, TypeOK
<1>1. CASE EnterFolder(p) /\ Handled(p) /\ stack' = StackWith(p)
  <2>1. pc = "visit" /\ IsDir(SourceEntry(p)) /\ leg' = leg
    BY <1>1 DEF EnterFolder
  <2>2. QED
    BY <1>0, <1>1, <2>1, Visited
<1>2. CASE MakeFolder /\ p = cur
  BY <1>0, <1>2, MakeEffect DEF MakeFolder, WalkInv, CallInv
<1>3. CASE LeaveFile(p)
  <2>1. /\ SourceEntry(p).kind = "file" /\ (pc = "visit" \/ (pc = "stat" /\ p = cur))
        /\ leg' = leg
    BY <1>3 DEF LeaveFile, Passes, Compared
  <2>2. QED
    BY <1>0, <1>3, <2>1, Visited
<1>4. CASE SetTime /\ p = cur
  BY <1>0, <1>4 DEF SetTime, WalkInv, CallInv
<1>5. CASE \/ SyncStart \/ EndLeg \/ CopyBreaks \/ Finish \/ Fail \/ Abort
           \/ ListNames \/ NextFolder
  <2>1. pc' = "idle" \/ todo' = todo \/ todo = {}
    BY <1>0, <1>5, PopEffect DEF SyncStart, EndLeg, CopyBreaks, Finish, Fail, Abort, ListingFails,
       MkdirFails, StatFails, MakedirsFails, CopyRefused, SetTimeFails, Raise, Leave, ListNames,
       FolderDone, RestInv
  <2>2. QED
    BY <2>1
<1>6. CASE FindFolder \/ MakeFolders \/ Copy \/ \E x \in Path : FindCopy(x) \/ TakeFile(x)
  BY <1>6 DEF FindFolder, MakeFolders, Copy, FindCopy, TakeFile
<1>7. ASSUME NEW x \in Path, EnterFolder(x) \/ LeaveFile(x)
      PROVE  (EnterFolder(p) /\ Handled(p) /\ stack' = StackWith(p)) \/ LeaveFile(p)
  <2>1. todo' = todo \/ (Handled(x) /\ (LeaveFile(x) \/ stack' = StackWith(x)))
    BY <1>7 DEF EnterFolder, LeaveFile
  <2>2. x = p
    BY <2>1 DEF Handled
  <2>3. QED
    BY <1>7, <2>1, <2>2
<1>8. CASE MakeFolder \/ SetTime
  BY <1>2, <1>4, <1>8 DEF MakeFolder, SetTime, Handled
<1>9. QED
  BY <1>1, <1>3, <1>5, <1>6, <1>7, <1>8 DEF SyncStep

----------------------------------------------------------------------------
(* When sync() returns, the local folder has every file of the server.     *)

\* The files that are old enough to be skipped have been fetched.  So have,
\* during the first walk, those it has come past, and all when it is over.
PullInv ==
    /\ \A p \in Path : disk["remote"][p].mtime < lastSync => Fetched(p)
    /\ pc # "idle" => \A p \in Path : Fetched(p) \/ (leg = "remote" /\ Pending(p))
    /\ clean => \A p \in Path : Fetched(p)

\* When nothing is left to walk, no path is pending.
LEMMA NothingPending ==
    ASSUME todo = {}, stack = <<>>
    PROVE  \A p : ~Pending(p)
BY DEF Pending

\* What a step of sync() does to its place, to _last_sync and to the history.
LEMMA SyncShape ==
    ASSUME TypeOK, RestInv, SyncStep
    PROVE  /\ recursive' = recursive /\ bi_directional' = bi_directional
           /\ \/ /\ Finish /\ lastSync' = now /\ pc' = "idle" /\ pc # "idle" /\ ~HasSecondLeg
                 /\ UNCHANGED disk /\ todo = {} /\ stack = <<>>
              \/ /\ EndLeg /\ lastSync' = lastSync /\ ~clean' /\ pc # "idle" /\ leg = "remote"
                 /\ leg' = "local" /\ stack' = <<Root>> /\ todo = {} /\ stack = <<>>
              \/ /\ SyncStart /\ lastSync' = lastSync /\ ~clean' /\ pc = "idle" /\ leg = "remote"
                 /\ leg' = "remote" /\ stack' = <<Root>> /\ UNCHANGED disk
                 /\ late' = late \/ lastSync = 0
              \/ lastSync' = lastSync /\ ~clean' /\ pc # "idle" /\ pc' = "idle" /\ leg' = "remote"
              \/ lastSync' = lastSync /\ ~clean' /\ pc # "idle" /\ leg' = leg
<1> USE DEF walk, copying, history, options
<1>0. recursive' = recursive /\ bi_directional' = bi_directional
  BY DEF SyncStep
<1>1. CASE SyncStart
  BY <1>0, <1>1 DEF SyncStart, RestInv
<1>2. CASE EndLeg
  BY <1>0, <1>2 DEF EndLeg, HasSecondLeg, RestInv
<1>3. CASE Finish
  BY <1>0, <1>3 DEF Finish, Leave
<1>4. CASE CopyBreaks \/ Fail \/ Abort
  <2>1. Raise /\ pc # "idle"
    BY <1>4 DEF CopyBreaks, Fail, Abort, ListingFails, AsksServer, FolderDone, MkdirFails,
       StatFails, MakedirsFails, CopyRefused, SetTimeFails
  <2>2. QED
    BY <1>0, <2>1 DEF Raise, Leave
<1>5. CASE \/ ListNames \/ NextFolder \/ MakeFolder \/ FindFolder \/ MakeFolders \/ Copy \/ SetTime
           \/ \E p \in Path : EnterFolder(p) \/ FindCopy(p) \/ LeaveFile(p) \/ TakeFile(p)
  <2>1. lastSync' = lastSync /\ leg' = leg /\ clean' = clean /\ pc # "idle"
    BY <1>5 DEF ListNames, NextFolder, AsksServer, FolderDone, MakeFolder, FindFolder, MakeFolders,
       Copy, SetTime, EnterFolder, FindCopy, LeaveFile, TakeFile, Passes, Compared
  <2>2. QED
    BY <1>0, <2>1 DEF RestInv
<1>6. QED
  BY <1>1, <1>2, <1>3, <1>4, <1>5 DEF SyncStep

\* A file of the server that is left as it is has been fetched.
LEMMA LeftIsFetched ==
    ASSUME TypeOK, TimeInv, BlankInv, PullInv, WalkInv, leg = "remote",
           NEW p \in Path, LeaveFile(p), disk["remote"][p].kind = "file",
           SourceEntry(p) = disk["remote"][p]
    PROVE  Fetched(p)
<1>1. CASE disk["remote"][p].mtime < lastSync
  BY <1>1 DEF PullInv
<1>2. CASE ~(disk["remote"][p].mtime < lastSync)
  <2>1. PICK e \in Entry : e = disk["remote"][p]
    BY DiskType DEF Sides
  <2>2. PICK d : d = TargetEntry(p)
    OBVIOUS
  <2>3. Compared(p) /\ (~Newer(p) \/ IsDir(d))
    BY <1>2, <2>2 DEF LeaveFile, Passes, Skipped, IsExcluded
  <2>4. d = IF pc = "stat" THEN disk["local"][p] ELSE Absent
    BY <2>2 DEF TargetEntry
  <2>5. Absent \in Entry /\ Absent.kind = "none" /\ (pc = "stat" => disk["local"][p].kind = "file")
    BY <2>3, EntryType DEF Absent, Node, WalkInv, CallInv, Compared
  <2>6. d \in Entry /\ d.kind \in {"none", "file"} /\ (d.kind = "none" => d = Absent)
    BY <2>4, <2>5, DiskType DEF Sides
  <2>7. pc # "utime"
    BY <2>3 DEF Compared
  <2>8. Authored(e) /\ Timed(e) /\ Timed(d)
    BY <2>1, <2>4, <2>5, <2>7 DEF TimeInv, Timed, Sides
  <2>9. ~(Sec(e.mtime) > Sec(d.mtime))
    BY <2>1, <2>2, <2>3, <2>6 DEF Newer, IsDir
  <2>10. Stands(d, e)
    BY <2>1, <2>6, <2>8, <2>9, NotNewerStands DEF Entry
  <2>11. Delivered("remote", p)
    BY <2>1, <2>4, <2>5, <2>10 DEF Stands, Delivered, Other
  <2>12. QED
    BY <2>11 DEF Fetched
<1>3. QED
  BY <1>1, <1>2

\* What the first walk has handled has been fetched.
LEMMA HandledIsFetched ==
    ASSUME QuietInv, TimeInv, BlankInv, PullInv, SyncStep, ~broken', pc' # "idle",
           leg = "remote", NEW p \in todo, p \notin todo'
    PROVE  Fetched(p)'
<1>0. TypeOK /\ WalkInv /\ p \in Path /\ pc # "idle"
  BY WasHandled DEF QuietInv
<1>1. CASE LeaveFile(p) /\ disk[leg][p].kind = "file" /\ SourceEntry(p) = disk[leg][p]
  <2>1. Fetched(p)
    BY <1>0, <1>1, LeftIsFetched
  <2>2. QED
    BY <1>0, <2>1, KeepsSync DEF KeepsAt
<1>2. CASE IsDir(disk[leg][p])
  <2>1. Fetched(p)
    BY <1>2 DEF Fetched, IsDir
  <2>2. QED
    BY <1>0, <2>1, KeepsSync DEF KeepsAt
<1>3. CASE SetTime /\ p = cur
  BY <1>0, <1>3, KeepsSync, KeepsTransfer
<1>4. QED
  BY <1>1, <1>2, <1>3, WasHandled

\* A file has been written at some time.
LEMMA WrittenAfterZero ==
    ASSUME TypeOK, TimeInv, pc = "idle", NEW s \in Sides, NEW p \in Path,
           disk[s][p].kind = "file"
    PROVE  ~(disk[s][p].mtime < 0)
<1>1. PICK e \in Entry : e = disk[s][p]
  BY DiskType
<1>2. Authored(e) /\ Timed(e) /\ e.kind = "file" /\ e.mtime \in Int
  BY <1>1 DEF TimeInv, Entry
<1>3. Sec(e.mtime) >= 1
  BY <1>2 DEF Authored, Timed
<1>4. QED
  BY <1>1, <1>2, <1>3, SecMonotone

\* So the steps of sync() keep PullInv.
LEMMA PullSync ==
    ASSUME QuietInv, TreeInv, TimeInv, BlankInv, PullInv, SyncStep, ~broken'
    PROVE  PullInv'
<1>0. TypeOK /\ RestInv /\ WalkInv /\ leg \in Sides
  BY DEF QuietInv, TypeOK
<1>1. ASSUME pc # "idle" PROVE \A p \in Path : KeepsAt(p)
  BY <1>0, <1>1, KeepsSync
<1>2. ASSUME pc # "idle" PROVE \A p \in Path : Fetched(p) => Fetched(p)'
  BY <1>1, <1>2 DEF KeepsAt
<1>6. CASE pc = "idle"
  <2>1. /\ SyncStart /\ lastSync' = lastSync /\ ~clean' /\ leg' = "remote" /\ stack' = <<Root>>
        /\ UNCHANGED <<disk, recursive>> /\ (late' = late \/ lastSync = 0)
    BY <1>0, <1>6, SyncShape
  <2>2. \A p \in Path : Pending(p)'
    <3>1. 1 \in DOMAIN stack' /\ stack'[1] = Root
      BY <2>1
    <3>2. QED
      BY <3>1 DEF Pending
  <2>3. ASSUME NEW p \in Path, disk'["remote"][p].mtime < lastSync'
        PROVE  Fetched(p)'
    <3>1. CASE late' = late
      BY <2>1, <2>3, <3>1, KeepsUnchanged DEF KeepsAt, PullInv
    <3>2. CASE lastSync = 0
      BY <1>0, <1>6, <2>1, <2>3, <3>2, WrittenAfterZero DEF Fetched, Sides
    <3>3. QED
      BY <2>1, <3>1, <3>2
  <2>4. QED
    BY <2>1, <2>2, <2>3 DEF PullInv
<1>3. CASE pc # "idle" /\ lastSync' = lastSync /\ ~clean'
  <2>1. ASSUME NEW p \in Path, disk'["remote"][p].mtime < lastSync'
        PROVE  Fetched(p)'
    BY <1>1, <1>3, <2>1 DEF KeepsAt, PullInv
  <2>2. ASSUME pc' # "idle", NEW p \in Path
        PROVE  Fetched(p)' \/ (leg' = "remote" /\ Pending(p)')
    <3>2. CASE EndLeg /\ pc # "idle" /\ todo = {} /\ stack = <<>>
      BY <1>2, <1>3, <3>2, NothingPending DEF PullInv
    <3>3. CASE pc # "idle" /\ leg' = leg
      <4>1. CASE Fetched(p)
        BY <1>2, <1>3, <4>1
      <4>2. CASE ~Fetched(p)
        <5>1. leg = "remote" /\ Pending(p) /\ InScope(p) /\ disk[leg][p].kind = "file"
          BY <3>3, <4>2 DEF PullInv, Fetched
        <5>2. Pending(p)' \/ (p \in todo /\ p \notin todo')
          BY <2>2, <3>3, <5>1, PendingStays
        <5>3. QED
          BY <2>2, <3>3, <5>1, <5>2, HandledIsFetched
      <4>3. QED
        BY <4>1, <4>2
    <3>4. QED
      BY <1>0, <1>3, <2>2, <3>2, <3>3, SyncShape DEF Finish, Leave
  <2>3. QED
    BY <1>3, <2>1, <2>2 DEF PullInv
<1>4. CASE Finish /\ pc # "idle" /\ pc' = "idle" /\ todo = {} /\ stack = <<>>
  <2>1. \A p \in Path : Fetched(p)'
    BY <1>2, <1>4, NothingPending DEF PullInv
  <2>2. QED
    BY <1>4, <2>1 DEF PullInv
<1>5. QED
  BY <1>0, <1>3, <1>4, <1>6, SyncShape

\* An edit is not older than the last sync(): what is old enough to be skipped
\* is as delivered as it was.
LEMMA EditKeeps ==
    ASSUME Quiet, "remove" \notin Edits, TypeOK, RestInv, TimeInv, Edit, NEW p \in Path
    PROVE  /\ (disk["remote"][p].mtime < lastSync => Fetched(p))
              => (disk'["remote"][p].mtime < lastSync => Fetched(p)')
           /\ (disk["local"][p].mtime < lastSync => Sent(p))
              => (disk'["local"][p].mtime < lastSync => Sent(p)')
<1>0. /\ "local" \in Sides /\ "remote" \in Sides /\ lastSync \in Int
      /\ \A s \in Sides : s = "local" \/ s = "remote"
  BY DEF Sides, TypeOK
<1>1. PICK s \in Sides, x \in Path, e \in Entry :
         /\ Put(s, x, e) /\ Edited /\ pc = "idle"
         /\ e.kind = "file" => /\ Authored(e) /\ Timed(e)
                               /\ e.mtime >= lastSync \/ (s = "remote" /\ x \in late')
         /\ e.kind # "file" => "remove" \in Edits \/ (disk[s][x].kind = "none" /\ IsDir(e))
         /\ e.kind # "file" \/ s = "local" => late' = late
         /\ \A q \in Path : q # x => (q \in late <=> q \in late')
  BY QuietEdit
<1>2. \A t \in Sides, q \in Path :
         disk'[t][q] = IF t = s /\ q = x THEN e ELSE disk[t][q]
  BY <1>1, PutEffect
<1>3. recursive' = recursive
  BY <1>1 DEF Edited, Idle, options
<1>4. CASE p # x
  <2>1. \A t \in Sides : disk'[t][p] = disk[t][p]
    BY <1>2, <1>4
  <2>2. (Fetched(p) => Fetched(p)') /\ (Sent(p) => Sent(p)')
    BY <1>1, <1>3, <1>4, <2>1, KeepsSame DEF SameContent
  <2>3. QED
    BY <1>0, <2>1, <2>2
<1>5. CASE p = x /\ e.kind # "file"
  <2>1. disk[s][p].kind = "none" /\ IsDir(e) /\ late' = late
    BY <1>1, <1>5
  <2>2. CASE s = "remote"
    <3>1. disk'["remote"][p] = e
      BY <1>2, <1>5, <2>2
    <3>2. Fetched(p)' /\ Sent(p)'
      BY <1>5, <2>1, <3>1 DEF Fetched, Sent, IsDir
    <3>3. QED
      BY <3>2
  <2>3. CASE s = "local"
    <3>1. disk'["local"][p] = e /\ disk'["remote"][p] = disk["remote"][p]
      BY <1>0, <1>2, <1>5, <2>3
    <3>2. Sent(p)'
      BY <1>5, <3>1 DEF Sent
    <3>3. ~Delivered("remote", p)
      BY <2>1, <2>3 DEF Delivered, Other
    <3>4. Fetched(p) => Fetched(p)'
      BY <1>3, <2>1, <3>1, <3>3 DEF Fetched, InScope
    <3>5. QED
      BY <3>1, <3>2, <3>4
  <2>4. QED
    BY <1>0, <2>2, <2>3
<1>8. CASE p = x /\ p \in late'
  BY <1>8 DEF Fetched, Sent
<1>6. CASE p = x /\ e.kind = "file" /\ p \notin late'
  <2>1. Timed(e) /\ e.mtime >= lastSync /\ e.mtime \in Int
    BY <1>1, <1>6 DEF Entry
  <2>2. ASSUME NEW t \in Sides, t # s, disk[t][p].mtime < lastSync, disk[t][p].kind = "file"
        PROVE  Stands(e, disk[t][p]) /\ disk'[t][p] = disk[t][p]
    <3>1. PICK d \in Entry : d = disk[t][p]
      BY DiskType
    <3>2. d.mtime \in Int /\ d.mtime <= e.mtime
      BY <1>0, <2>1, <2>2, <3>1 DEF Entry
    <3>3. Sec(d.mtime) <= Sec(e.mtime)
      BY <2>1, <3>2, SecMonotone
    <3>4. Timed(d)
      BY <1>1, <3>1 DEF TimeInv
    <3>5. Written(e) >= Written(d)
      BY <1>6, <2>1, <2>2, <3>1, <3>3, <3>4, SecOfFloor DEF Timed
    <3>6. QED
      BY <1>2, <1>6, <2>2, <3>1, <3>5 DEF Stands
  <2>3. CASE s = "remote"
    <3>1. disk'["remote"][p] = e /\ disk'["local"][p] = disk["local"][p]
      BY <1>0, <1>2, <1>6, <2>3
    <3>2. ~(disk'["remote"][p].mtime < lastSync)
      BY <1>0, <2>1, <3>1
    <3>3. ASSUME disk'["local"][p].mtime < lastSync PROVE Sent(p)'
      <4>1. CASE disk["local"][p].kind = "file"
        <5>1. PICK d : d = disk["local"][p]
          OBVIOUS
        <5>2. Stands(e, d)
          BY <1>0, <2>2, <2>3, <3>1, <3>3, <4>1, <5>1
        <5>3. Delivered("local", p)'
          BY <3>1, <5>1, <5>2 DEF Delivered, Stands, Other, SameContent, Written, Sec
        <5>4. QED
          BY <5>3 DEF Sent
      <4>2. CASE disk["local"][p].kind # "file"
        BY <3>1, <4>2 DEF Sent
      <4>3. QED
        BY <4>1, <4>2
    <3>4. QED
      BY <3>2, <3>3
  <2>4. CASE s = "local"
    <3>1. disk'["local"][p] = e /\ disk'["remote"][p] = disk["remote"][p]
      BY <1>0, <1>2, <1>6, <2>4
    <3>2. ~(disk'["local"][p].mtime < lastSync)
      BY <1>0, <2>1, <3>1
    <3>3. ASSUME disk'["remote"][p].mtime < lastSync PROVE Fetched(p)'
      <4>1. CASE disk["remote"][p].kind = "file"
        <5>1. PICK d : d = disk["remote"][p]
          OBVIOUS
        <5>2. Stands(e, d)
          BY <1>0, <2>2, <2>4, <3>1, <3>3, <4>1, <5>1
        <5>3. Delivered("remote", p)'
          BY <3>1, <5>1, <5>2 DEF Delivered, Stands, Other, SameContent, Written, Sec
        <5>4. QED
          BY <5>3 DEF Fetched
      <4>2. CASE disk["remote"][p].kind # "file"
        BY <3>1, <4>2 DEF Fetched
      <4>3. QED
        BY <4>1, <4>2
    <3>4. QED
      BY <3>2, <3>3
  <2>5. QED
    BY <1>0, <2>3, <2>4
<1>7. QED
  BY <1>4, <1>5, <1>6, <1>8

\* The steps around sync() leave the folders alone.
LEMMA AroundSync ==
    ASSUME TypeOK, NewProcess \/ Tick \/ UNCHANGED vars
    PROVE  /\ UNCHANGED <<disk, recursive, bi_directional, pc, leg, stack, todo, clean, late>>
           /\ lastSync' = lastSync \/ (lastSync' = 0 /\ pc = "idle")
BY DEF NewProcess, Tick, Idle, vars, options, walk, copying, history

\* All the invariants about a behaviour without edits during sync().
CalmInv ==
    QuietInv /\ TreeInv /\ BlankInv /\ (~broken => TimeInv)

\* They hold together.
LEMMA CalmInductive == Quiet /\ CalmInv /\ [Next]_vars => CalmInv'
BY TypeInductive, RestInductive, WalkInductive, TreeInductive, BlankInductive, TimeInductive
DEF CalmInv, QuietInv

\* So does every step, when nothing is removed.
LEMMA PullInductive ==
    Quiet /\ "remove" \notin Edits /\ CalmInv /\ (~broken => PullInv) /\ [Next]_vars
    => (~broken => PullInv)'
<1> SUFFICES ASSUME Quiet, "remove" \notin Edits, CalmInv, PullInv, [Next]_vars, ~broken, ~broken'
             PROVE  PullInv'
  BY BrokenStays
<1>0. TypeOK /\ RestInv /\ TimeInv
  BY DEF CalmInv, QuietInv
<1>1. CASE SyncStep
  BY <1>0, <1>1, PullSync DEF CalmInv
<1>2. CASE NewProcess \/ Tick \/ UNCHANGED vars
  <2>1. /\ UNCHANGED <<disk, recursive, pc, leg, stack, todo, clean, late>>
        /\ lastSync' = lastSync \/ (lastSync' = 0 /\ pc = "idle")
    BY <1>0, <1>2, AroundSync
  <2>2. \A p \in Path : /\ Fetched(p) => Fetched(p)'
                        /\ Pending(p) => Pending(p)'
    <3>1. ASSUME NEW p \in Path PROVE Fetched(p) => Fetched(p)'
      BY <2>1, KeepsSame DEF SameContent
    <3>2. QED
      BY <2>1, <3>1 DEF Pending
  <2>3. ASSUME NEW p \in Path, disk'["remote"][p].mtime < lastSync' PROVE Fetched(p)'
    <3>1. CASE lastSync' = lastSync
      BY <2>1, <2>2, <2>3, <3>1 DEF PullInv
    <3>2. CASE lastSync' = 0 /\ pc = "idle"
      <4>1. disk["remote"][p].kind # "file"
        BY <1>0, <2>1, <2>3, <3>2, WrittenAfterZero DEF Sides
      <4>2. QED
        BY <2>2, <4>1 DEF Fetched
    <3>3. QED
      BY <2>1, <3>1, <3>2
  <2>4. QED
    BY <2>1, <2>2, <2>3 DEF PullInv
<1>3. CASE Edit
  <2>1. pc' = "idle" /\ lastSync' = lastSync /\ ~clean'
    BY <1>0, <1>3, QuietEdit DEF Edited, Idle
  <2>2. \A p \in Path : disk'["remote"][p].mtime < lastSync => Fetched(p)'
    BY <1>0, <1>3, EditKeeps DEF PullInv
  <2>3. QED
    BY <2>1, <2>2 DEF PullInv
<1>4. QED
  BY <1>1, <1>2, <1>3 DEF Next

----------------------------------------------------------------------------
(* With bi_directional the server has every local file and folder too.     *)

\* The local files that are old enough to be skipped have been sent.  So have,
\* during the second walk, those it has come past, and the folders it has come
\* past or has still to list are on the server.
SendInv ==
    bi_directional =>
        /\ \A p \in Path : disk["local"][p].mtime < lastSync => Sent(p)
        /\ leg = "local" => \A p \in Path :
              /\ Sent(p) \/ Pending(p)
              /\ Made(p) \/ Pending(p) \/ \E i \in DOMAIN stack : stack[i] = p
        /\ clean => \A p \in Path : Sent(p) /\ Made(p)

\* A local file that is left as it is has been sent, or is not to be.
LEMMA LeftIsSent ==
    ASSUME TypeOK, TimeInv, BlankInv, SendInv, bi_directional, leg = "local",
           NEW p \in Path, LeaveFile(p), disk["local"][p].kind = "file",
           SourceEntry(p) = disk["local"][p], listed[p] = disk["remote"][p]
    PROVE  Sent(p)
<1>1. CASE disk["local"][p].mtime < lastSync \/ p \in Excluded \/ IsDir(disk["remote"][p])
  BY <1>1 DEF SendInv, Sent
<1>2. CASE ~(disk["local"][p].mtime < lastSync \/ p \in Excluded \/ IsDir(disk["remote"][p]))
  <2>1. PICK e \in Entry : e = disk["local"][p]
    BY DiskType DEF Sides
  <2>2. PICK d \in Entry : d = disk["remote"][p]
    BY DiskType DEF Sides
  <2>3. TargetEntry(p) = d
    BY <2>2 DEF TargetEntry
  <2>4. d.kind \in {"none", "file"} /\ (d.kind = "none" => d = Absent)
    BY <1>2, <2>2 DEF Entry, Kinds, IsDir, BlankInv, Sides
  <2>5. Compared(p) /\ (~Newer(p) \/ IsDir(d))
    BY <1>2, <2>3 DEF LeaveFile, Passes, Skipped, IsExcluded
  <2>6. pc # "utime"
    BY <2>5 DEF Compared
  <2>7. Authored(e) /\ Timed(e) /\ Timed(d)
    BY <2>1, <2>2, <2>6 DEF TimeInv, Sides
  <2>8. ~(Sec(e.mtime) > Sec(d.mtime))
    BY <1>2, <2>1, <2>2, <2>3, <2>5 DEF Newer
  <2>9. Stands(d, e)
    BY <2>1, <2>4, <2>7, <2>8, NotNewerStands DEF Entry
  <2>10. Delivered("local", p)
    BY <2>1, <2>2, <2>9 DEF Stands, Delivered, Other
  <2>11. QED
    BY <2>10 DEF Sent
<1>3. QED
  BY <1>1, <1>2

\* What the second walk has handled has been sent.
LEMMA HandledIsSent ==
    ASSUME QuietInv, TimeInv, BlankInv, SendInv, bi_directional, SyncStep, ~broken',
           pc' # "idle", leg = "local", NEW p \in todo, p \notin todo'
    PROVE  Sent(p)'
<1>0. TypeOK /\ WalkInv /\ p \in Path /\ pc # "idle"
  BY WasHandled DEF QuietInv
<1>1. CASE LeaveFile(p) /\ disk[leg][p].kind = "file" /\ SourceEntry(p) = disk[leg][p]
           /\ listed[p] = disk["remote"][p]
  <2>1. Sent(p)
    BY <1>0, <1>1, LeftIsSent
  <2>2. QED
    BY <1>0, <2>1, KeepsSync DEF KeepsAt
<1>2. CASE IsDir(disk[leg][p])
  <2>1. Sent(p)
    BY <1>2 DEF Sent, IsDir
  <2>2. QED
    BY <1>0, <2>1, KeepsSync DEF KeepsAt
<1>3. CASE SetTime /\ p = cur
  BY <1>0, <1>3, KeepsSync, KeepsTransfer
<1>4. QED
  BY <1>1, <1>2, <1>3, WasHandled

\* A local folder that is handled is on the stack until it is listed, which
\* takes a folder on the server.
LEMMA FolderIsMade ==
    ASSUME QuietInv, TreeInv, TimeInv, SyncStep, ~broken', pc' # "idle", pc # "idle",
           leg = "local", leg' = leg, NEW p \in Path,
           Made(p) \/ Pending(p) \/ \E i \in DOMAIN stack : stack[i] = p
    PROVE  Made(p)' \/ Pending(p)' \/ \E i \in DOMAIN stack' : stack'[i] = p
<1> USE DEF walk, copying, history
<1>0. /\ TypeOK /\ RestInv /\ WalkInv /\ stack \in Seq(Path \cup {Root}) /\ Root \notin Path
  BY ConstantAssumption DEF QuietInv, TypeOK
<1>1. CASE Made(p)
  BY <1>0, <1>1, KeepsSync DEF KeepsAt
<1>2. CASE ~Made(p) /\ Pending(p)
  <2>1. recursive /\ disk[leg][p].kind = "dir"
    BY <1>2 DEF Made
  <2>2. Pending(p)' \/ (p \in todo /\ p \notin todo')
    BY <1>2, <2>1, PendingStays DEF InScope
  <2>3. ASSUME p \in todo, p \notin todo' PROVE \E i \in DOMAIN stack' : stack'[i] = p
    <3>1. stack' = StackWith(p)
      BY <2>1, <2>3, WasHandled
    <3>2. stack' = Append(stack, p)
      BY <2>1, <3>1 DEF StackWith
    <3>3. QED
      BY <1>0, <3>2, AppendProperties, LenProperties
  <2>4. QED
    BY <2>2, <2>3
<1>3. ASSUME ~Made(p), NEW j \in DOMAIN stack, stack[j] = p
      PROVE  \E i \in DOMAIN stack' : stack'[i] = p
  <2>1. CASE NextFolder
    <3>1. PICK f : f = stack[Len(stack)]
      OBVIOUS
    <3>2. IsFolder("remote", f) /\ stack' = SubSeq(stack, 1, Len(stack) - 1) /\ stack # <<>>
      BY <1>0, <2>1, <3>1, PopEffect DEF Top
    <3>3. f # p
      BY <1>0, <1>3, <3>2 DEF IsFolder, Made
    <3>4. /\ Len(stack) \in Nat /\ DOMAIN stack = 1 .. Len(stack)
          /\ j \in 1 .. (Len(stack) - 1) /\ Len(stack) - 1 \in 0 .. Len(stack)
      BY <1>0, <1>3, <3>1, <3>3, LenProperties
    <3>5. j \in DOMAIN stack' /\ stack'[j] = stack[j]
      BY <1>0, <3>2, <3>4, SubSeqProperties
    <3>6. QED
      BY <1>3, <3>5
  <2>2. CASE MakeFolder \/ \E x \in Path : EnterFolder(x)
    <3>1. PICK x \in Path : stack' \in {stack, Append(stack, x)}
      BY <1>0, <2>2, MakeEffect DEF MakeFolder, EnterFolder, StackWith
    <3>2. j \in DOMAIN stack' /\ stack'[j] = stack[j]
      BY <1>0, <3>1, AppendProperties, LenProperties
    <3>3. QED
      BY <1>3, <3>2
  <2>3. CASE \/ ListNames \/ FindFolder \/ MakeFolders \/ Copy \/ SetTime
             \/ \E x \in Path : FindCopy(x) \/ TakeFile(x) \/ LeaveFile(x)
    BY <1>3, <2>3 DEF ListNames, FindFolder, MakeFolders, FindCopy, TakeFile, LeaveFile, Copy, SetTime
  <2>4. CASE EndLeg \/ SyncStart
    BY <1>3, <2>4 DEF EndLeg, SyncStart
  <2>5. CASE CopyBreaks \/ Finish \/ Fail \/ Abort
    BY <2>5 DEF CopyBreaks, Finish, Fail, Abort, ListingFails, MkdirFails, StatFails,
                MakedirsFails, CopyRefused, SetTimeFails, Raise, Leave
  <2>6. QED
    BY <2>1, <2>2, <2>3, <2>4, <2>5 DEF SyncStep
<1>4. QED
  BY <1>1, <1>2, <1>3

\* So the steps of sync() keep SendInv.
LEMMA SendSync ==
    ASSUME QuietInv, TreeInv, TimeInv, BlankInv, SendInv, SyncStep, ~broken'
    PROVE  SendInv'
<1> SUFFICES ASSUME bi_directional PROVE SendInv'
  <2>1. bi_directional' = bi_directional
    BY SyncShape DEF QuietInv
  <2>2. QED
    BY <2>1 DEF SendInv
<1>0. TypeOK /\ RestInv /\ WalkInv /\ leg \in Sides
  BY DEF QuietInv, TypeOK
<1>1. ASSUME pc # "idle" PROVE \A p \in Path : KeepsAt(p)
  BY <1>0, <1>1, KeepsSync
<1>2. ASSUME pc # "idle" PROVE \A p \in Path : Sent(p) => Sent(p)'
  BY <1>1, <1>2 DEF KeepsAt
<1>6. CASE pc = "idle"
  <2>1. /\ SyncStart /\ lastSync' = lastSync /\ ~clean' /\ leg' = "remote"
        /\ UNCHANGED <<disk, recursive>> /\ (late' = late \/ lastSync = 0)
    BY <1>0, <1>6, SyncShape
  <2>2. ASSUME NEW p \in Path, disk'["local"][p].mtime < lastSync'
        PROVE  Sent(p)'
    <3>1. CASE late' = late
      BY <2>1, <2>2, <3>1, KeepsUnchanged DEF KeepsAt, SendInv
    <3>2. CASE lastSync = 0
      BY <1>0, <1>6, <2>1, <2>2, <3>2, WrittenAfterZero DEF Sent, Sides
    <3>3. QED
      BY <2>1, <3>1, <3>2
  <2>3. QED
    BY <2>1, <2>2 DEF SendInv
<1>3. CASE pc # "idle" /\ lastSync' = lastSync /\ ~clean'
  <2>1. ASSUME NEW p \in Path, disk'["local"][p].mtime < lastSync'
        PROVE  Sent(p)'
    BY <1>1, <1>3, <2>1 DEF KeepsAt, SendInv
  <2>2. ASSUME leg' = "local", NEW p \in Path
        PROVE  /\ Sent(p)' \/ Pending(p)'
               /\ Made(p)' \/ Pending(p)' \/ \E i \in DOMAIN stack' : stack'[i] = p
    <3>1. CASE EndLeg /\ stack' = <<Root>>
      <4>1. 1 \in DOMAIN stack' /\ stack'[1] = Root
        BY <3>1
      <4>2. QED
        BY <4>1 DEF Pending
    <3>2. CASE pc # "idle" /\ leg' = leg
      <4>0. pc' # "idle"
        BY <1>0, <2>2, RestInductive DEF Next, RestInv
      <4>1. Made(p)' \/ Pending(p)' \/ \E i \in DOMAIN stack' : stack'[i] = p
        BY <2>2, <3>2, <4>0, FolderIsMade DEF SendInv
      <4>2. CASE Sent(p)
        BY <1>2, <1>3, <4>1, <4>2
      <4>3. CASE ~Sent(p)
        <5>1. Pending(p) /\ InScope(p) /\ disk[leg][p].kind = "file"
          BY <2>2, <3>2, <4>3 DEF SendInv, Sent
        <5>2. Pending(p)' \/ (p \in todo /\ p \notin todo')
          BY <3>2, <4>0, <5>1, PendingStays
        <5>3. Sent(p)' \/ Pending(p)'
          BY <2>2, <3>2, <4>0, <5>2, HandledIsSent
        <5>4. QED
          BY <4>1, <5>3
      <4>4. QED
        BY <4>2, <4>3
    <3>3. QED
      BY <1>0, <1>3, <2>2, <3>1, <3>2, SyncShape DEF Finish, Leave
  <2>3. QED
    BY <1>3, <2>1, <2>2 DEF SendInv
<1>4. CASE /\ Finish /\ pc # "idle" /\ pc' = "idle" /\ todo = {} /\ stack = <<>>
           /\ ~HasSecondLeg /\ UNCHANGED disk
  <2>1. leg = "local" /\ leg' = "remote"
    BY <1>0, <1>4 DEF HasSecondLeg, Sides, Finish, Leave
  <2>2. \A p \in Path : Sent(p) /\ Made(p)
    BY <1>4, <2>1, NothingPending DEF SendInv
  <2>3. \A p \in Path : Sent(p)' /\ Made(p)'
    BY <1>1, <1>4, <2>1, <2>2 DEF KeepsAt
  <2>4. QED
    BY <2>1, <2>3 DEF SendInv
<1>5. QED
  BY <1>0, <1>3, <1>4, <1>6, SyncShape

\* So does every step, when nothing is removed.
LEMMA SendInductive ==
    Quiet /\ "remove" \notin Edits /\ CalmInv /\ (~broken => SendInv) /\ [Next]_vars
    => (~broken => SendInv)'
<1> SUFFICES ASSUME Quiet, "remove" \notin Edits, CalmInv, SendInv, [Next]_vars, ~broken, ~broken'
             PROVE  SendInv'
  BY BrokenStays
<1>0. TypeOK /\ RestInv /\ TimeInv
  BY DEF CalmInv, QuietInv
<1>1. CASE SyncStep
  BY <1>0, <1>1, SendSync DEF CalmInv
<1>2. CASE NewProcess \/ Tick \/ UNCHANGED vars
  <2>1. /\ UNCHANGED <<disk, recursive, bi_directional, pc, leg, stack, todo, clean, late>>
        /\ lastSync' = lastSync \/ (lastSync' = 0 /\ pc = "idle")
    BY <1>0, <1>2, AroundSync
  <2>2. \A p \in Path : /\ Sent(p) => Sent(p)'
                        /\ Made(p) => Made(p)'
                        /\ Pending(p) => Pending(p)'
    <3>1. ASSUME NEW p \in Path PROVE (Sent(p) => Sent(p)') /\ (Made(p) => Made(p)')
      BY <2>1, KeepsSame DEF SameContent
    <3>2. QED
      BY <2>1, <3>1 DEF Pending
  <2>3. ASSUME bi_directional, NEW p \in Path, disk'["local"][p].mtime < lastSync'
        PROVE  Sent(p)'
    <3>1. CASE lastSync' = lastSync
      BY <2>1, <2>2, <2>3, <3>1 DEF SendInv
    <3>2. CASE lastSync' = 0 /\ pc = "idle"
      <4>1. disk["local"][p].kind # "file"
        BY <1>0, <2>1, <2>3, <3>2, WrittenAfterZero DEF Sides
      <4>2. QED
        BY <2>2, <4>1 DEF Sent
    <3>3. QED
      BY <2>1, <3>1, <3>2
  <2>4. QED
    BY <2>1, <2>2, <2>3 DEF SendInv
<1>3. CASE Edit
  <2>1. /\ pc' = "idle" /\ lastSync' = lastSync /\ ~clean' /\ bi_directional' = bi_directional
        /\ leg' = "remote"
    BY <1>0, <1>3, QuietEdit DEF Edited, Idle, options, walk, RestInv
  <2>2. bi_directional => \A p \in Path : disk'["local"][p].mtime < lastSync => Sent(p)'
    BY <1>0, <1>3, EditKeeps DEF SendInv
  <2>3. QED
    BY <2>1, <2>2 DEF SendInv
<1>4. QED
  BY <1>1, <1>2, <1>3 DEF Next

\* What holds of a behaviour without edits during sync(), and without removals.
ConvergeInv == CalmInv /\ (~broken => PullInv) /\ (~broken => SendInv)

\* It holds of the initial states.
LEMMA ConvergeStart == Init => ConvergeInv
<1> SUFFICES ASSUME Init PROVE ConvergeInv
  OBVIOUS
<1>1. \A s \in Sides, p \in Path : disk[s][p] = Absent /\ Absent.kind = "none" /\ Absent.mtime = 0
  BY DEF Init, NoEntries, Absent, Node
<1>2. QuietInv /\ TreeInv
  BY QuietStart DEF QuietInv
<1>3. BlankInv
  BY <1>1 DEF BlankInv
<1>4. pc = "idle" /\ leg = "remote" /\ lastSync = 0 /\ ~clean
  BY DEF Init
<1>5. TimeInv
  BY <1>1, <1>4 DEF TimeInv, Authored, Timed
<1>6. PullInv
  BY <1>1, <1>4 DEF PullInv, Sides
<1>7. SendInv
  BY <1>1, <1>4 DEF SendInv, Sides
<1>8. QED
  BY <1>2, <1>3, <1>5, <1>6, <1>7 DEF ConvergeInv, CalmInv

\* Every step keeps it.
LEMMA ConvergeInductive ==
    Quiet /\ "remove" \notin Edits /\ ConvergeInv /\ [Next]_vars => ConvergeInv'
BY CalmInductive, PullInductive, SendInductive DEF ConvergeInv

\* As long as files are not removed and nobody edits while sync() runs, the
\* filter on _last_sync forgets only late files: a remote file that is old enough
\* to be skipped from now on has been delivered, also when a sync() in between
\* raised or lost its connection, unless it was written after the last sync() of
\* the process had ended and carries an earlier modification time than that end
\* (sync.py:169, 224).
THEOREM FilterForgetsNothing ==
    Quiet /\ "remove" \notin Edits => (Spec => []SkippedIsDelivered)
<1> SUFFICES ASSUME Quiet, "remove" \notin Edits PROVE Spec => []SkippedIsDelivered
  OBVIOUS
<1>1. ConvergeInv => SkippedIsDelivered
  BY DEF ConvergeInv, PullInv, Fetched, SkippedIsDelivered
<1>2. QED
  BY <1>1, ConvergeStart, ConvergeInductive, PTL DEF Spec

\* As long as files are not removed and nobody edits while sync() runs, both
\* folders have what they should when it returns, but for the late files of the
\* server, which the filter on _last_sync passes over (sync.py:161-245).
THEOREM FoldersConverge ==
    Quiet /\ "remove" \notin Edits => (Spec => []Converged)
<1> SUFFICES ASSUME Quiet, "remove" \notin Edits PROVE Spec => []Converged
  OBVIOUS
<1>1. ASSUME ConvergeInv PROVE Converged
  <2>1. clean /\ ~broken => \A p \in Path : Fetched(p) /\ (bi_directional => Sent(p) /\ Made(p))
    BY <1>1 DEF ConvergeInv, PullInv, SendInv
  <2>2. QED
    BY <2>1 DEF Converged, Fetched, Sent, Made
<1>2. QED
  BY <1>1, ConvergeStart, ConvergeInductive, PTL DEF Spec
=============================================================================
