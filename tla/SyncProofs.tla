----------------------------- MODULE SyncProofs -----------------------------
(***************************************************************************)
(* Theorems about Sync, for every folder tree, clock skew and bound.       *)
(***************************************************************************)
EXTENDS Sync, SequenceTheorems, TLAPS

----------------------------------------------------------------------------
(* Type correctness.                                                       *)

\* Folder entries are entries, whatever the numbers in them.
LEMMA EntryType ==
    /\ Absent \in Entry
    /\ \A kind \in Kinds : Node(kind) \in Entry
    /\ \A t \in Int : Torn(t) \in Entry
    /\ \A e \in Entry, t \in Int : [e EXCEPT !.mtime = t] \in Entry
BY DEF Absent, Node, Torn, Entry, Kinds

\* Times are integers.
LEMMA TimeType ==
    ASSUME now \in Nat
    PROVE  \A s \in Sides : /\ Stamp(s) \in Int
                            /\ \A t \in Int : StampOf(s, t) \in Int
BY ConstantAssumption DEF Stamp, StampOf, Floor, Sec, Sides

\* Taking the last folder off the stack, or adding one, leaves a stack.
LEMMA StackType ==
    ASSUME NEW S, NEW q \in Seq(S)
    PROVE  /\ \A x \in S : Append(q, x) \in Seq(S)
           /\ q # <<>> => SubSeq(q, 1, Len(q) - 1) \in Seq(S)
<1>1. \A x \in S : Append(q, x) \in Seq(S)
  BY AppendProperties
<1>2. ASSUME q # <<>> PROVE SubSeq(q, 1, Len(q) - 1) \in Seq(S)
  <2>1. Len(q) \in Nat /\ \A i \in 1..Len(q) : q[i] \in S
    BY ElementOfSeq, LenProperties
  <2>2. \A i \in 1..(Len(q) - 1) : q[i] \in S
    BY <2>1
  <2>3. QED
    BY <2>1, <2>2, SubSeqProperties
<1>3. QED
  BY <1>1, <1>2

\* Nodes are addressed by side and path.
LEMMA DiskType ==
    ASSUME TypeOK
    PROVE  /\ \A s \in Sides, p \in Path : disk[s][p] \in Entry
           /\ \A s \in Sides, p \in Path, e \in Entry :
                 Put(s, p, e) => disk' \in [Sides -> [Path -> Entry]]
<1>1. disk \in [Sides -> [Path -> Entry]]
  BY DEF TypeOK
<1>2. QED
  BY <1>1 DEF Put

\* The initial values have their types.
LEMMA InitType == Init => TypeOK
<1>1. <<>> \in Seq(Path \cup {Root})
  BY EmptySeq
<1>2. NoEntries \in [Path -> Entry]
  BY EntryType DEF NoEntries
<1>3. Start \in Nat
  BY ConstantAssumption
<1> SUFFICES ASSUME Init PROVE TypeOK
  OBVIOUS
<1>4. /\ recursive \in BOOLEAN /\ bi_directional \in BOOLEAN
      /\ clean \in BOOLEAN /\ broken \in BOOLEAN
  BY Zenon DEF Init
<1>5. /\ disk \in [Sides -> [Path -> Entry]] /\ listed \in [Path -> Entry]
      /\ stack \in Seq(Path \cup {Root})
  BY <1>1, <1>2 DEF Init
<1>6. /\ now \in Nat /\ lastSync \in Nat /\ stat \in Int
      /\ pc = "idle" /\ leg \in Sides /\ todo = {} /\ cur = Root /\ late = {}
  BY <1>3 DEF Init, Sides
<1>7. QED
  BY <1>4, <1>5, <1>6 DEF TypeOK, Calls

\* Leaving sync() resets its local variables.
LEMMA LeaveType ==
    ASSUME TypeOK, Leave, disk' \in [Sides -> [Path -> Entry]],
           now' = now, options' = options, lastSync' \in Nat,
           clean' \in BOOLEAN, broken' \in BOOLEAN, late' \subseteq Path
    PROVE  TypeOK'
<1>1. <<>> \in Seq(Path \cup {Root})
  BY EmptySeq
<1>2. NoEntries \in [Path -> Entry]
  BY EntryType DEF NoEntries
<1>3. QED
  BY <1>1, <1>2 DEF TypeOK, Leave, options, Sides, Calls

\* A step of sync() keeps the types, action by action.
LEMMA SyncType == TypeOK /\ SyncStep => TypeOK'
<1> SUFFICES ASSUME TypeOK, SyncStep PROVE TypeOK'
  OBVIOUS
<1> USE DEF options, walk, copying, history, Calls
<1>0. now' = now /\ options' = options
  BY DEF SyncStep
<1>1. CASE SyncStart
  <2>1. <<Root>> \in Seq(Path \cup {Root})
    OBVIOUS
  <2>2. QED
    BY <1>0, <1>1, <2>1 DEF SyncStart, TypeOK
<1>2. CASE NextFolder
  <2>1. stack # <<>>
    BY <1>2 DEF NextFolder, AsksServer, FolderDone, TypeOK
  <2>2. stack' \in Seq(Path \cup {Root})
    BY <1>2, <2>1, StackType DEF NextFolder, TypeOK
  <2>3. listed' \in [Path -> Entry] /\ todo' \subseteq Path
    BY <1>2, DiskType, EntryType DEF NextFolder, Listing, Names, Sides, TypeOK
  <2>4. QED
    BY <1>0, <1>2, <2>2, <2>3 DEF NextFolder, TypeOK
<1>3. ASSUME NEW p \in Path, EnterFolder(p) PROVE TypeOK'
  <2>1. stack' \in Seq(Path \cup {Root})
    BY <1>3, StackType DEF EnterFolder, StackWith, TypeOK
  <2>2. listed' \in [Path -> Entry] /\ todo' \subseteq Path
    BY <1>3, EntryType DEF EnterFolder, Handled, TypeOK
  <2>3. /\ pc' \in {"visit", "mkdir"} /\ cur' \in Path \cup {Root}
        /\ pc' = "mkdir" => leg = "local" /\ cur' = p
        /\ UNCHANGED <<disk, lastSync, leg, stat, clean, broken, late>>
    BY <1>3 DEF EnterFolder, TypeOK
  <2>4. QED
    BY <1>0, <2>1, <2>2, <2>3 DEF TypeOK
<1>4. ASSUME NEW p \in Path, LeaveFile(p) PROVE TypeOK'
  BY <1>0, <1>4, EntryType DEF LeaveFile, Handled, TypeOK
<1>5. ASSUME NEW p \in Path, TakeFile(p) PROVE TypeOK'
  <2>1. stat' \in Int
    BY <1>5, DiskType DEF TakeFile, SourceEntry, TypeOK, Entry, Sides
  <2>2. QED
    BY <1>0, <1>5, <2>1 DEF TakeFile, TypeOK
<1>14. CASE ListNames
  BY <1>0, <1>14 DEF ListNames, FolderDone, Names, TypeOK
<1>15. CASE MakeFolder
  <2>1. cur \in Path
    BY <1>15 DEF MakeFolder, TypeOK
  <2>2. stack' \in Seq(Path \cup {Root})
    BY <1>15, <2>1, StackType DEF MakeFolder, StackWith, TypeOK
  <2>3. listed' \in [Path -> Entry] /\ todo' \subseteq Path
    BY <1>15, <2>1, EntryType DEF MakeFolder, Handled, TypeOK
  <2>4. disk' \in [Sides -> [Path -> Entry]]
    BY <1>15, <2>1, DiskType, EntryType DEF MakeFolder, Sides, Kinds
  <2>5. QED
    BY <1>0, <1>15, <2>2, <2>3, <2>4 DEF MakeFolder, TypeOK
<1>16. ASSUME NEW p \in Path, FindCopy(p) PROVE TypeOK'
  BY <1>0, <1>16 DEF FindCopy, TypeOK
<1>17. CASE FindFolder
  BY <1>0, <1>17 DEF FindFolder, TypeOK
<1>18. CASE MakeFolders
  <2>1. \A q \in Path : disk["local"][q] \in Entry /\ Node("dir") \in Entry
    BY DiskType, EntryType DEF Sides, Kinds
  <2>2. disk' \in [Sides -> [Path -> Entry]]
    BY <1>18, <2>1 DEF MakeFolders, MakeDirs, TypeOK
  <2>3. QED
    BY <1>0, <1>18, <2>2 DEF MakeFolders, TypeOK
<1>6. CASE Copy
  <2>1. cur \in Path /\ leg \in Sides /\ Other(leg) \in Sides
    BY <1>6 DEF Copy, TypeOK, Other, Sides
  <2>2. [disk[leg][cur] EXCEPT !.mtime = Stamp(Other(leg))] \in Entry
    BY <2>1, DiskType, EntryType, TimeType DEF TypeOK
  <2>3. disk' \in [Sides -> [Path -> Entry]]
    BY <1>6, <2>1, <2>2, DiskType DEF Copy
  <2>4. QED
    BY <1>0, <1>6, <2>1, <2>3 DEF Copy, TypeOK
<1>7. CASE CopyBreaks
  <2>1. cur \in Path /\ Other(leg) \in Sides
    BY <1>7 DEF CopyBreaks, TypeOK, Other, Sides
  <2>2. disk' \in [Sides -> [Path -> Entry]]
    BY <1>7, <2>1, DiskType, EntryType, TimeType DEF CopyBreaks, TypeOK
  <2>3. QED
    BY <1>0, <1>7, <2>2, LeaveType DEF CopyBreaks, Raise, TypeOK
<1>8. CASE SetTime
  <2>1. cur \in Path /\ Other(leg) \in Sides
    BY <1>8 DEF SetTime, TimeOfCopy, TypeOK, Other, Sides
  <2>2. [disk[Other(leg)][cur] EXCEPT !.mtime = StampOf(Other(leg), stat)]
            \in Entry
    BY <2>1, DiskType, EntryType, TimeType DEF TypeOK
  <2>3. disk' \in [Sides -> [Path -> Entry]]
    BY <1>8, <2>1, <2>2 DEF SetTime, TimeOfCopy, TypeOK
  <2>4. listed' \in [Path -> Entry] /\ todo' \subseteq Path
    BY <1>8, EntryType DEF SetTime, TimeOfCopy, Handled, TypeOK
  <2>5. QED
    BY <1>0, <1>8, <2>3, <2>4 DEF SetTime, TimeOfCopy, TypeOK
<1>9. CASE EndLeg
  <2>1. <<Root>> \in Seq(Path \cup {Root})
    OBVIOUS
  <2>2. QED
    BY <1>0, <1>9, <2>1, EntryType DEF EndLeg, NoEntries, Sides, TypeOK
<1>10. CASE Finish
  BY <1>0, <1>10, LeaveType DEF Finish, TypeOK
<1>11. CASE Fail
  <2>1. Raise /\ UNCHANGED <<disk, broken>>
    BY <1>11 DEF Fail, ListingFails, MkdirFails, StatFails, MakedirsFails,
                 CopyRefused, SetTimeFails
  <2>2. QED
    BY <1>0, <2>1, LeaveType DEF Raise, TypeOK
<1>12. CASE Abort
  BY <1>0, <1>12, LeaveType DEF Abort, Raise, TypeOK
<1>13. QED
  BY <1>1, <1>2, <1>3, <1>4, <1>5, <1>6, <1>7, <1>8, <1>9, <1>10, <1>11,
     <1>12, <1>14, <1>15, <1>16, <1>17, <1>18 DEF SyncStep

\* What an edit does to the disk, and to the variables of sync(): nothing.
LEMMA EditEffect ==
    ASSUME TypeOK, Edit
    PROVE  \E s \in Sides, p \in Path, e \in Entry :
              /\ Put(s, p, e)
              /\ e.kind = "file" => e.at = now /\ e.mtime = Stamp(s)
              /\ e.by \in {s, "nobody"}
              /\ now' = now + 1 /\ broken' = broken
              /\ late' = late \/ late' = late \cup {p} \/ late' = late \ {p}
              /\ Edited
<1> SUFFICES ASSUME NEW s \in Sides, NEW p \in Path,
                    \/ WriteFile(s, p)
                    \/ MakeNode(s, p, "mkdir", "dir")
                    \/ MakeNode(s, p, "socket", "socket")
                    \/ RemoveNode(s, p)
             PROVE  \E e \in Entry :
                       /\ Put(s, p, e)
                       /\ e.kind = "file" => e.at = now /\ e.mtime = Stamp(s)
                       /\ e.by \in {s, "nobody"} /\ Edited
                       /\ late' = late \/ late' = late \cup {p} \/ late' = late \ {p}
  BY DEF Edit, Edited
<1>1. CASE WriteFile(s, p)
  <2> DEFINE e == [kind |-> "file", by |-> s, at |-> now, mtime |-> Stamp(s)]
  <2>1. e \in Entry
    BY TimeType DEF Entry, Kinds, TypeOK
  <2>2. QED
    BY <1>1, <2>1 DEF WriteFile, Lateness
<1>2. \A kind \in Kinds :
         Node(kind) \in Entry /\ Node(kind).kind = kind
         /\ Node(kind).by = "nobody"
  BY EntryType DEF Node
<1>3. CASE MakeNode(s, p, "mkdir", "dir") \/ MakeNode(s, p, "socket", "socket")
  BY <1>2, <1>3 DEF MakeNode, Kinds
<1>4. CASE RemoveNode(s, p)
  BY <1>2, <1>4 DEF RemoveNode, Absent, Kinds
<1>5. QED
  BY <1>1, <1>3, <1>4

\* So does an edit of the user or the kernel.
LEMMA EditType == TypeOK /\ Edit => TypeOK'
<1> SUFFICES ASSUME TypeOK, Edit PROVE TypeOK'
  OBVIOUS
<1>1. PICK s \in Sides, p \in Path, e \in Entry :
         /\ Put(s, p, e) /\ now' = now + 1 /\ broken' = broken /\ Edited
         /\ late' = late \/ late' = late \cup {p} \/ late' = late \ {p}
  BY EditEffect
<1>2. disk' \in [Sides -> [Path -> Entry]]
  BY <1>1, DiskType
<1>3. now' \in Nat
  BY <1>1 DEF TypeOK
<1>4. /\ UNCHANGED <<lastSync, recursive, bi_directional, pc>>
      /\ UNCHANGED <<leg, stack, listed, todo, cur, stat>>
  BY <1>1 DEF Edited, Idle, options, walk, copying
<1>5. (clean \in BOOLEAN /\ broken \in BOOLEAN)'
  BY <1>1, Zenon DEF TypeOK, Edited
<1>6. late' \subseteq Path
  BY <1>1 DEF TypeOK
<1>7. QED
  BY <1>2, <1>3, <1>4, <1>5, <1>6 DEF TypeOK

\* So does every step.
LEMMA TypeInductive == TypeOK /\ [Next]_vars => TypeOK'
<1> SUFFICES ASSUME TypeOK, [Next]_vars PROVE TypeOK'
  OBVIOUS
<1>1. CASE NewProcess
  BY <1>1 DEF NewProcess, Idle, TypeOK, options, walk, copying, history
<1>2. CASE Tick
  BY <1>2 DEF Tick, Idle, TypeOK, options, walk, copying, history
<1>3. CASE UNCHANGED vars
  BY <1>3 DEF vars, TypeOK, options, walk, copying, history
<1>4. QED
  BY <1>1, <1>2, <1>3, SyncType, EditType DEF Next

\* Every variable of sync() keeps its type (sync.py:47-73, 161-245).
THEOREM TypeCorrect == Spec => []TypeOK
BY InitType, TypeInductive, PTL DEF Spec

----------------------------------------------------------------------------
(* Without bi_directional nothing changes on the server.                   *)

\* Folders of the local side are walked only with bi_directional.
LegInv == leg = "local" => bi_directional

\* The second leg is entered with bi_directional only, and no step changes
\* the options.
LEMMA LegInductive == LegInv /\ [Next]_vars => LegInv'
<1> SUFFICES ASSUME LegInv, [Next]_vars PROVE LegInv'
  OBVIOUS
<1>1. ASSUME Leave PROVE leg' = "remote"
  BY <1>1 DEF Leave
<1>2. CASE SyncStep
  <2>1. bi_directional' = bi_directional
    BY <1>2 DEF SyncStep, options
  <2>2. \/ leg' = leg \/ leg' = "remote" \/ bi_directional
    BY <1>1, <1>2 DEF SyncStep, SyncStart, ListNames, NextFolder, EnterFolder,
       MakeFolder, FindCopy, LeaveFile, TakeFile, FindFolder, MakeFolders, Copy,
       CopyBreaks, SetTime, EndLeg, HasSecondLeg, Finish, Fail, ListingFails,
       MkdirFails, StatFails, MakedirsFails, CopyRefused, SetTimeFails, Abort,
       Raise, walk
  <2>3. QED
    BY <2>1, <2>2 DEF LegInv
<1>3. CASE NewProcess \/ Tick \/ Edit \/ UNCHANGED vars
  <2>1. UNCHANGED options /\ UNCHANGED walk
    BY <1>3 DEF NewProcess, Tick, Edit, WriteFile, MakeNode, RemoveNode,
       Edited, Idle, vars
  <2>2. QED
    BY <2>1 DEF LegInv, options, walk
<1>4. QED
  BY <1>2, <1>3 DEF Next

\* The steps of sync() that change the disk.
LEMMA DiskSteps ==
    ASSUME SyncStep
    PROVE  MakeFolder \/ MakeFolders \/ Copy \/ CopyBreaks \/ SetTime \/ UNCHANGED disk
BY DEF SyncStep, SyncStart, ListNames, NextFolder, EnterFolder, FindCopy, LeaveFile, TakeFile,
   FindFolder, EndLeg, Finish, Fail, Abort, ListingFails, MkdirFails, StatFails, MakedirsFails,
   CopyRefused, SetTimeFails

\* A step of sync() that changes the disk changes the side it copies to.
LEMMA TargetOnly ==
    ASSUME TypeOK, SyncStep
    PROVE  disk'[leg] = disk[leg]
<1>1. leg \in Sides /\ Other(leg) \in Sides /\ Other(leg) # leg
  BY DEF TypeOK, Other, Sides
<1>2. DOMAIN disk = Sides
  BY DEF TypeOK
<1>3. CASE MakeFolder
  <2>1. leg = "local" /\ cur \in Path
    BY <1>3 DEF MakeFolder, TypeOK, Calls
  <2>2. QED
    BY <1>2, <1>3, <2>1 DEF MakeFolder, Put, Sides
<1>4. CASE MakeFolders
  <2>1. leg = "remote"
    BY <1>4 DEF MakeFolders, TypeOK
  <2>2. QED
    BY <1>2, <1>4, <2>1 DEF MakeFolders, MakeDirs, Sides
<1>5. CASE Copy \/ CopyBreaks \/ SetTime
  BY <1>1, <1>2, <1>5 DEF Copy, CopyBreaks, SetTime, TimeOfCopy, Put
<1>6. CASE UNCHANGED disk
  BY <1>6
<1>7. QED
  BY <1>3, <1>4, <1>5, <1>6, DiskSteps

\* Without bi_directional no sync() changes anything on the server, whatever
\* it meets there and however it ends (sync.py:166-168, 210-245).
THEOREM ServerUntouched == Spec => OneWay
<1>1. Init => LegInv
  BY DEF Init, LegInv
<1>2. TypeOK /\ LegInv /\ [Next]_vars
        => [SyncStep /\ ~bi_directional => UNCHANGED disk["remote"]]_vars
  <2> SUFFICES ASSUME TypeOK, LegInv, SyncStep, ~bi_directional
               PROVE  disk'["remote"] = disk["remote"]
    OBVIOUS
  <2>1. leg = "remote"
    BY DEF LegInv, TypeOK, Sides
  <2>2. QED
    BY <2>1, TargetOnly
<1>3. QED
  BY <1>1, <1>2, LegInductive, TypeCorrect, PTL DEF Spec, OneWay

----------------------------------------------------------------------------
(* The user's configuration file stays where it is.                        *)

\* What sync() pushes is not excluded.
PushInv ==
    /\ ExcludedStaysLocal
    /\ leg = "local" /\ pc \in {"copy", "utime"} => cur \notin Excluded

\* A file reaches the server by Copy only, which TakeFile leads to only for
\* files that are not excluded.
LEMMA PushSync ==
    ASSUME TypeOK, PushInv, SyncStep
    PROVE  PushInv'
<1> USE DEF walk, copying
<1>0. \A p \in Excluded : p \in Path
  BY ConstantAssumption
<1>1. CASE MakeFolder
  <2>1. \A q \in Path : disk'["remote"][q].by \in
                            {disk["remote"][q].by, "nobody"}
    BY <1>1 DEF MakeFolder, Put, Node, TypeOK, Sides
  <2>2. QED
    BY <1>0, <1>1, <2>1 DEF MakeFolder, PushInv, ExcludedStaysLocal
<1>2. ASSUME NEW p \in Path, TakeFile(p) PROVE PushInv'
  <2>1. leg = "local" => p \notin Excluded
    BY <1>2 DEF TakeFile, Compared, Skipped, IsExcluded
  <2>2. QED
    BY <1>2, <2>1 DEF TakeFile, PushInv, ExcludedStaysLocal
<1>10. CASE FindFolder \/ MakeFolders
  <2>1. leg = "remote" /\ leg' = leg
    BY <1>10 DEF FindFolder, MakeFolders, TypeOK
  <2>2. disk'["remote"] = disk["remote"]
    BY <2>1, TargetOnly
  <2>3. QED
    BY <2>1, <2>2 DEF PushInv, ExcludedStaysLocal
<1>3. CASE Copy
  <2>1. cur \in Path /\ leg \in Sides
    BY <1>3 DEF Copy, TypeOK
  <2>2. \A q \in Path : q # cur \/ leg = "remote"
                          => disk'["remote"][q] = disk["remote"][q]
    BY <1>3, <2>1 DEF Copy, Put, Other, Sides, TypeOK
  <2>3. QED
    BY <1>0, <1>3, <2>1, <2>2 DEF Copy, PushInv, ExcludedStaysLocal, Sides
<1>4. CASE CopyBreaks
  <2>1. \A q \in Path : disk'["remote"][q].by \in
                            {disk["remote"][q].by, "nobody"}
    BY <1>4 DEF CopyBreaks, Put, Torn, Node, Other, Sides, TypeOK
  <2>2. QED
    BY <1>0, <1>4, <2>1 DEF CopyBreaks, Raise, Leave, PushInv,
                            ExcludedStaysLocal
<1>5. CASE SetTime
  <2>1. ASSUME NEW q \in Path
        PROVE  disk'["remote"][q].by = disk["remote"][q].by
    <3>1. CASE disk' = disk
      BY <3>1
    <3>2. CASE disk' = [disk EXCEPT ![Other(leg)][cur].mtime =
                                          StampOf(Other(leg), stat)]
      <4>1. disk["remote"][q] \in Entry
        BY DiskType DEF Sides
      <4>2. disk'["remote"][q] \in {disk["remote"][q],
               [disk["remote"][q] EXCEPT !.mtime = StampOf(Other(leg), stat)]}
        BY <3>2 DEF TypeOK, Sides
      <4>3. QED
        BY <4>1, <4>2 DEF Entry
    <3>3. QED
      BY <1>5, <3>1, <3>2 DEF SetTime, TimeOfCopy
  <2>2. QED
    BY <1>0, <1>5, <2>1 DEF SetTime, TimeOfCopy, PushInv, ExcludedStaysLocal
<1>6. CASE SyncStart \/ ListNames \/ NextFolder \/ EndLeg
  BY <1>6 DEF SyncStart, ListNames, NextFolder, EndLeg, PushInv, ExcludedStaysLocal
<1>7. ASSUME NEW p \in Path, EnterFolder(p) \/ FindCopy(p) \/ LeaveFile(p) PROVE PushInv'
  <2>1. pc' \in {"visit", "mkdir", "stat"} /\ UNCHANGED disk
    BY <1>7 DEF EnterFolder, FindCopy, LeaveFile
  <2>2. QED
    BY <2>1 DEF PushInv, ExcludedStaysLocal
<1>8. CASE Finish \/ Fail \/ Abort
  <2>1. pc' = "idle" /\ UNCHANGED disk
    BY <1>8 DEF Finish, Fail, Abort, ListingFails, MkdirFails, StatFails, MakedirsFails,
       CopyRefused, SetTimeFails, Raise, Leave
  <2>2. QED
    BY <2>1 DEF PushInv, ExcludedStaysLocal
<1>9. QED
  BY <1>1, <1>2, <1>3, <1>4, <1>5, <1>6, <1>7, <1>8, <1>10 DEF SyncStep

\* Edits on the server are the kernel's own.
LEMMA PushInductive == TypeOK /\ PushInv /\ [Next]_vars => PushInv'
<1> SUFFICES ASSUME TypeOK, PushInv, [Next]_vars PROVE PushInv'
  OBVIOUS
<1>1. CASE Edit
  <2>1. PICK s \in Sides, p \in Path, e \in Entry :
           Put(s, p, e) /\ e.by \in {s, "nobody"} /\ Edited
    BY <1>1, EditEffect
  <2>2. \A q \in Path : disk'["remote"][q].by \in
                            {disk["remote"][q].by, "nobody", "remote"}
    BY <2>1 DEF Put, TypeOK, Sides
  <2>3. \A q \in Excluded : q \in Path
    BY ConstantAssumption
  <2>4. QED
    BY <2>1, <2>2, <2>3 DEF PushInv, ExcludedStaysLocal, Edited, Idle, walk,
                            copying
<1>2. CASE NewProcess \/ Tick \/ UNCHANGED vars
  BY <1>2 DEF NewProcess, Tick, vars, Idle, walk, copying, PushInv,
              ExcludedStaysLocal
<1>3. QED
  BY <1>1, <1>2, PushSync DEF Next

\* sync() never sends a file in excluded_files to the server, whatever the
\* user, the kernel and the connection do meanwhile (sync.py:69-70, 194).
THEOREM ExcludedKept == Spec => []ExcludedStaysLocal
<1>1. Init => PushInv
  <2>1. \A p \in Excluded : p \in Path
    BY ConstantAssumption
  <2>2. QED
    BY <2>1 DEF Init, PushInv, ExcludedStaysLocal, NoEntries, Absent, Node,
                Sides
<1>2. PushInv => ExcludedStaysLocal
  BY DEF PushInv
<1>3. QED
  BY <1>1, <1>2, PushInductive, TypeCorrect, PTL DEF Spec

----------------------------------------------------------------------------
(* No file claims to be newer than it is.                                  *)

\* t is not later than the writing of the file e.
NotAfter(t, e) == e.kind = "file" => t <= e.at + Ahead

\* A modification time read for a source is not later than its present, nor
\* its future, content.
ReadTime(t, e) == t <= now + Ahead /\ NotAfter(t, e)

\* File systems round times down.
LEMMA Rounding ==
    ASSUME now \in Nat
    PROVE  /\ \A s \in Sides : Stamp(s) <= now + Ahead
           /\ \A s \in Sides, t \in Int : StampOf(s, t) <= t
<1>1. \A t \in Int : Res * (t \div Res) <= t
  BY ConstantAssumption
<1>2. QED
  BY <1>1, ConstantAssumption DEF Stamp, StampOf, Floor, Sec, Ahead, Sides

\* Writing one node leaves the others alone.
LEMMA PutEffect ==
    ASSUME TypeOK, NEW s \in Sides, NEW p \in Path, NEW e, Put(s, p, e)
    PROVE  \A t \in Sides, q \in Path :
              disk'[t][q] = IF t = s /\ q = p THEN e ELSE disk[t][q]
BY DEF TypeOK, Put

\* Where no transfer is being stamped, every file is.
Stamped(e) == e.kind = "file" => e.at <= now /\ e.mtime <= e.at + Ahead

StampInv ==
    /\ \A s \in Sides, p \in Path :
          \/ Stamped(disk[s][p])
          \/ /\ pc = "utime" /\ p = cur /\ s # leg
             /\ disk[s][p].kind = "file" => disk[s][p].at <= now
    /\ \A p \in Path :
          leg = "remote" /\ listed[p].kind = "file"
          => ReadTime(listed[p].mtime, disk["remote"][p])
    /\ pc \in {"dirs", "make", "copy"} => ReadTime(stat, disk[leg][cur])
    /\ pc = "utime" => ReadTime(stat, disk[Other(leg)][cur])

\* As long as no transfer breaks, what sync() stamps a copy with was read
\* before the copied content was written, or is its very time.
LEMMA StampSync ==
    ASSUME TypeOK, StampInv, SyncStep, ~broken'
    PROVE  StampInv'
<1> USE DEF walk, copying, ReadTime, NotAfter, Stamped
<1>0. now' = now /\ now \in Nat /\ leg \in Sides /\ Ahead \in Nat
  BY ConstantAssumption DEF SyncStep, TypeOK, Ahead
<1>1. CASE SyncStart \/ ListNames
  BY <1>0, <1>1 DEF SyncStart, ListNames, FolderDone, StampInv
<1>2. CASE NextFolder
  <2>1. \A s \in Sides, p \in Path : Stamped(disk[s][p])
    BY <1>2 DEF NextFolder, AsksServer, FolderDone, StampInv
  <2>2. ASSUME NEW p \in Path, listed'[p].kind = "file"
        PROVE  listed'[p] = disk["remote"][p]
    BY <1>2, <2>2 DEF NextFolder, Listing, Absent, Node
  <2>3. \A p \in Path : disk["remote"][p] \in Entry
    BY DiskType DEF Sides
  <2>4. ASSUME NEW p \in Path, listed'[p].kind = "file"
        PROVE  ReadTime(listed'[p].mtime, disk["remote"][p])
    BY <1>0, <2>1, <2>2, <2>3, <2>4 DEF Entry, Sides
  <2>5. QED
    BY <1>0, <1>2, <2>1, <2>4 DEF NextFolder, StampInv
<1>3. ASSUME NEW p \in Path, Handled(p), leg' = leg,
             disk'["remote"] = disk["remote"]
      PROVE  \A q \in Path :
                leg' = "remote" /\ listed'[q].kind = "file"
                => ReadTime(listed'[q].mtime, disk'["remote"][q])
  BY <1>0, <1>3 DEF Handled, StampInv, TypeOK, Absent, Node
<1>4. CASE MakeFolder
  <2>1. \A s \in Sides, q \in Path : Stamped(disk[s][q])
    BY <1>4 DEF MakeFolder, StampInv
  <2>2. leg = "local" /\ leg' = leg /\ cur \in Path
    BY <1>4 DEF MakeFolder, TypeOK, Calls
  <2>3. \A s \in Sides, q \in Path :
           disk'[s][q] \in {disk[s][q], Node("dir")}
    BY <1>4, <2>2, PutEffect DEF MakeFolder, Sides
  <2>4. \A s \in Sides, q \in Path : Stamped(disk[s][q])'
    BY <1>0, <2>1, <2>3 DEF Node, Ahead
  <2>5. pc' = "visit"
    BY <1>4 DEF MakeFolder
  <2>6. QED
    BY <1>0, <2>2, <2>4, <2>5 DEF StampInv, Ahead
<1>5. ASSUME NEW p \in Path, EnterFolder(p) \/ LeaveFile(p) PROVE StampInv'
  <2>1. \A s \in Sides, q \in Path : Stamped(disk[s][q])
    BY <1>5 DEF EnterFolder, LeaveFile, Passes, Compared, StampInv
  <2>2. /\ leg' = leg /\ disk' = disk /\ pc' \in {"visit", "mkdir"}
        /\ Handled(p) \/ listed' = listed
    BY <1>5 DEF EnterFolder, LeaveFile
  <2>3. \A q \in Path :
           leg' = "remote" /\ listed'[q].kind = "file"
           => ReadTime(listed'[q].mtime, disk'["remote"][q])
    BY <1>0, <1>3, <2>2 DEF StampInv
  <2>4. QED
    BY <1>0, <2>1, <2>2, <2>3 DEF StampInv
<1>6. ASSUME NEW p \in Path, TakeFile(p) PROVE StampInv'
  <2>1. \A s \in Sides, q \in Path : Stamped(disk[s][q])
    BY <1>6 DEF TakeFile, Compared, StampInv
  <2>2. ReadTime(stat', disk[leg][p])
    <3>1. CASE leg = "remote"
      BY <1>6, <3>1 DEF TakeFile, Compared, SourceEntry, StampInv
    <3>2. CASE leg = "local"
      <4>1. disk["local"][p] \in Entry /\ Stamped(disk["local"][p])
        BY <2>1, DiskType DEF Sides
      <4>2. stat' = disk["local"][p].mtime /\ disk["local"][p].kind = "file"
        BY <1>6, <3>2 DEF TakeFile, Compared, SourceEntry
      <4>3. QED
        BY <1>0, <3>2, <4>1, <4>2 DEF Entry
    <3>3. QED
      BY <1>0, <3>1, <3>2 DEF Sides
  <2>3. QED
    BY <1>0, <1>6, <2>1, <2>2 DEF TakeFile, StampInv
<1>13. ASSUME NEW p \in Path, FindCopy(p) PROVE StampInv'
  BY <1>0, <1>13 DEF FindCopy, StampInv
<1>14. CASE FindFolder
  BY <1>0, <1>14 DEF FindFolder, StampInv
<1>15. CASE MakeFolders
  <2>1. \A s \in Sides, q \in Path : Stamped(disk[s][q])
    BY <1>15 DEF MakeFolders, StampInv
  <2>2. \A s \in Sides, q \in Path :
           disk'[s][q] \in {disk[s][q], Node("dir")}
    BY <1>15 DEF MakeFolders, MakeDirs, TypeOK, Sides
  <2>3. \A s \in Sides, q \in Path : Stamped(disk[s][q])'
    BY <1>0, <2>1, <2>2 DEF Node, Ahead
  <2>4. disk'[leg] = disk[leg] /\ leg = "remote"
    BY <1>15, TargetOnly DEF MakeFolders, TypeOK
  <2>5. pc = "make" /\ pc' = "copy" /\ UNCHANGED <<leg, listed, cur, stat>>
    BY <1>15 DEF MakeFolders
  <2>6. QED
    BY <1>0, <2>3, <2>4, <2>5 DEF StampInv, Ahead
<1>7. CASE Copy
  <2>1. cur \in Path /\ Other(leg) \in Sides /\ Other(leg) # leg
    BY <1>7 DEF Copy, TypeOK, Other, Sides
  <2> DEFINE e == [disk[leg][cur] EXCEPT !.mtime = Stamp(Other(leg))]
  <2>2. e.kind = "file" /\ e.at = disk[leg][cur].at
    BY <1>0, <1>7, <2>1, DiskType DEF Copy, Entry
  <2>3. \A s \in Sides, q \in Path : Stamped(disk[s][q])
    BY <1>7 DEF Copy, StampInv
  <2>4. \A s \in Sides, q \in Path :
           disk'[s][q] = IF s = Other(leg) /\ q = cur THEN e ELSE disk[s][q]
    BY <1>7, <2>1, PutEffect DEF Copy
  <2>5. ReadTime(stat, e)
    BY <1>7, <2>1, <2>2 DEF Copy, StampInv
  <2>6. e.at <= now
    BY <1>0, <1>7, <2>1, <2>2, <2>3 DEF Copy
  <2> HIDE DEF e
  <2>7. disk'[leg] = disk[leg]
    BY TargetOnly
  <2>8. UNCHANGED <<leg, listed, stat, cur>> /\ pc' = "utime"
    BY <1>7 DEF Copy
  <2>9. disk'[Other(leg)][cur] = e
    BY <2>1, <2>4
  <2>10. \A s \in Sides, q \in Path :
           \/ Stamped(disk[s][q])'
           \/ /\ (pc = "utime" /\ q = cur /\ s # leg)'
              /\ (disk[s][q].kind = "file" => disk[s][q].at <= now)'
    BY <1>0, <2>1, <2>3, <2>4, <2>6, <2>8 DEF Ahead
  <2>11. ReadTime(stat, disk[Other(leg)][cur])'
    BY <1>0, <2>5, <2>8, <2>9 DEF Other, Ahead
  <2>12. \A p \in Path :
           (leg = "remote" /\ listed[p].kind = "file"
            => ReadTime(listed[p].mtime, disk["remote"][p]))'
    BY <1>0, <2>7, <2>8 DEF StampInv, Ahead
  <2>13. QED
    BY <2>8, <2>10, <2>11, <2>12 DEF StampInv
<1>8. CASE CopyBreaks
  BY <1>8 DEF CopyBreaks
<1>9. CASE SetTime
  <2>1. cur \in Path /\ Other(leg) \in Sides /\ Other(leg) # leg
    BY <1>9 DEF SetTime, TimeOfCopy, TypeOK, Other, Sides
  <2> DEFINE old == disk[Other(leg)][cur]
             new == [old EXCEPT !.mtime = StampOf(Other(leg), stat)]
  <2>2. old \in Entry /\ new.kind = old.kind /\ new.at = old.at
        /\ new.mtime = StampOf(Other(leg), stat)
    BY <2>1, DiskType DEF Entry
  <2>3. ReadTime(stat, old) /\ (old.kind = "file" => old.at <= now)
    BY <1>9, <2>1 DEF SetTime, TimeOfCopy, StampInv
  <2>4. StampOf(Other(leg), stat) <= stat /\ stat \in Int
        /\ StampOf(Other(leg), stat) \in Int
    BY <1>0, <2>1, Rounding, TimeType DEF TypeOK
  <2>5. old.kind = "file" => Stamped(new)
    BY <1>0, <2>2, <2>3, <2>4 DEF Entry
  <2>6. ASSUME NEW s \in Sides, NEW q \in Path
        PROVE  disk'[s][q] = IF s = Other(leg) /\ q = cur /\ old.kind = "file"
                             THEN new ELSE disk[s][q]
    BY <1>9, <2>1 DEF SetTime, TimeOfCopy, TypeOK
  <2> HIDE DEF new
  <2>7. ASSUME NEW s \in Sides, NEW q \in Path PROVE Stamped(disk'[s][q])
    <3>1. CASE s = Other(leg) /\ q = cur /\ old.kind = "file"
      BY <2>5, <2>6, <3>1
    <3>2. CASE s = Other(leg) /\ q = cur /\ old.kind # "file"
      BY <2>6, <3>2
    <3>3. CASE s # Other(leg) \/ q # cur
      <4>1. s # Other(leg) => s = leg
        BY <1>0 DEF Other, Sides
      <4>2. Stamped(disk[s][q])
        BY <3>3, <4>1 DEF StampInv
      <4>3. QED
        BY <2>6, <3>3, <4>2
    <3>4. QED
      BY <3>1, <3>2, <3>3
  <2>8. \A p \in Path :
           leg = "remote" /\ listed'[p].kind = "file"
           => ReadTime(listed'[p].mtime, disk'["remote"][p])
    <3>1. leg' = leg /\ Handled(cur) /\ disk'[leg] = disk[leg]
      BY <1>9, TargetOnly DEF SetTime, TimeOfCopy
    <3>2. CASE leg = "remote"
      BY <1>3, <2>1, <3>1, <3>2
    <3>3. QED
      BY <3>2
  <2>9. QED
    BY <1>0, <1>9, <2>7, <2>8 DEF SetTime, TimeOfCopy, StampInv
<1>10. CASE EndLeg
  BY <1>0, <1>10 DEF EndLeg, StampInv
<1>11. CASE Finish \/ Fail \/ Abort
  <2>1. Leave /\ UNCHANGED disk
    BY <1>11 DEF Finish, Fail, Abort, ListingFails, MkdirFails, StatFails, MakedirsFails,
       CopyRefused, SetTimeFails, Raise
  <2>2. pc = "utime" => disk[Other(leg)][cur].kind = "none"
    BY <1>11 DEF Finish, Fail, Abort, ListingFails, MkdirFails, StatFails, MakedirsFails,
       CopyRefused, SetTimeFails, AsksServer, FolderDone
  <2>3. \A s \in Sides, q \in Path : Stamped(disk[s][q])
    BY <1>0, <2>2 DEF StampInv, Other, Sides
  <2>4. \A q \in Path : NoEntries[q].kind = "none"
    BY DEF NoEntries, Absent, Node
  <2>5. QED
    BY <1>0, <2>1, <2>3, <2>4 DEF Leave, StampInv
<1>12. QED
  BY <1>1, <1>2, <1>4, <1>5, <1>6, <1>7, <1>8, <1>9, <1>10, <1>11, <1>13, <1>14, <1>15
  DEF SyncStep

\* An edit writes the present, which no time that was read is later than.
LEMMA StampEdit ==
    ASSUME TypeOK, StampInv, Edit
    PROVE  StampInv'
<1> USE DEF ReadTime, NotAfter, Stamped
<1>1. PICK s \in Sides, p \in Path, e \in Entry :
         /\ Put(s, p, e)
         /\ e.kind = "file" => e.at = now /\ e.mtime = Stamp(s)
         /\ now' = now + 1 /\ Edited
  BY EditEffect
<1>2. UNCHANGED <<pc, leg, cur, stat, listed>>
  BY <1>1 DEF Edited, Idle, walk, copying
<1>3. \A t \in Sides, q \in Path :
         disk'[t][q] = IF t = s /\ q = p THEN e ELSE disk[t][q]
  BY <1>1, PutEffect
<1>4. /\ now \in Nat /\ stat \in Int /\ Ahead \in Nat
      /\ Stamp(s) <= now + Ahead /\ Stamp(s) \in Int
  <2>1. now \in Nat /\ stat \in Int
    BY DEF TypeOK
  <2>2. Ahead \in Nat
    BY ConstantAssumption DEF Ahead
  <2>3. QED
    BY <2>1, <2>2, Rounding, TimeType
<1>5. \A t \in Sides, q \in Path : disk[t][q] \in Entry
  BY DiskType
<1>6. ASSUME NEW t \in Sides, NEW q \in Path, NEW x \in Int,
             ReadTime(x, disk[t][q])
      PROVE  ReadTime(x, disk[t][q])'
  BY <1>1, <1>3, <1>4, <1>5, <1>6 DEF Entry, Ahead
<1>7. \A t \in Sides, q \in Path :
         \/ Stamped(disk[t][q])'
         \/ /\ (pc = "utime" /\ q = cur /\ t # leg)'
            /\ (disk[t][q].kind = "file" => disk[t][q].at <= now)'
  BY <1>1, <1>2, <1>3, <1>4, <1>5 DEF StampInv, Entry, Ahead
<1>8. \A q \in Path : listed[q].mtime \in Int
  BY DEF TypeOK, Entry
<1>9. /\ pc \in {"dirs", "make", "copy"} => cur \in Path /\ leg \in Sides
      /\ pc = "utime" => cur \in Path /\ Other(leg) \in Sides
  BY DEF TypeOK, Other, Sides, Calls
<1>10. "remote" \in Sides
  BY DEF Sides
<1>11. \A q \in Path :
          (leg = "remote" /\ listed[q].kind = "file"
           => ReadTime(listed[q].mtime, disk["remote"][q]))'
  BY <1>2, <1>6, <1>8, <1>10 DEF StampInv
<1>12. (pc \in {"dirs", "make", "copy"} => ReadTime(stat, disk[leg][cur]))'
  BY <1>2, <1>4, <1>6, <1>9 DEF StampInv
<1>13. (pc = "utime" => ReadTime(stat, disk[Other(leg)][cur]))'
  BY <1>2, <1>4, <1>6, <1>9 DEF StampInv, Other
<1>14. QED
  BY <1>7, <1>11, <1>12, <1>13 DEF StampInv

\* A transfer that was interrupted stays interrupted.
LEMMA BrokenStays == [Next]_vars /\ broken => broken'
<1> SUFFICES ASSUME [Next]_vars, broken PROVE broken'
  OBVIOUS
<1>1. CASE SyncStep
  BY <1>1 DEF SyncStep, SyncStart, ListNames, NextFolder, EnterFolder, MakeFolder, FindCopy,
     LeaveFile, TakeFile, FindFolder, MakeFolders, Copy, CopyBreaks, SetTime, EndLeg, Finish,
     Fail, ListingFails, MkdirFails, StatFails, MakedirsFails, CopyRefused, SetTimeFails,
     Abort, history
<1>2. CASE NewProcess \/ Tick \/ UNCHANGED vars
  BY <1>2 DEF NewProcess, Tick, vars, history
<1>3. CASE Edit
  BY <1>3 DEF Edit, WriteFile, MakeNode, RemoveNode, Edited
<1>4. QED
  BY <1>1, <1>2, <1>3 DEF Next

\* StampInv is inductive while no transfer breaks.
LEMMA StampInductive ==
    TypeOK /\ (~broken => StampInv) /\ [Next]_vars => (~broken => StampInv)'
<1> SUFFICES ASSUME TypeOK, StampInv, [Next]_vars, ~broken' PROVE StampInv'
  BY BrokenStays
<1>1. CASE Tick
  <2>1. now \in Nat /\ now' = now + 1 /\ Ahead \in Nat
    BY <1>1, ConstantAssumption DEF Tick, TypeOK, Ahead
  <2>2. UNCHANGED <<disk, pc, leg, cur, stat, listed>>
    BY <1>1 DEF Tick, Idle, walk, copying
  <2>3. \A s \in Sides, p \in Path : disk[s][p].at \in Nat
    BY DiskType DEF Entry
  <2>4. \A p \in Path : listed[p].mtime \in Int
    BY DEF TypeOK, Entry
  <2>5. stat \in Int
    BY DEF TypeOK
  <2>6. QED
    BY <2>1, <2>2, <2>3, <2>4, <2>5
    DEF StampInv, Stamped, ReadTime, NotAfter, Ahead, Other
<1>2. CASE NewProcess \/ UNCHANGED vars
  <2>1. UNCHANGED <<disk, now, pc, leg, cur, stat, listed>>
    BY <1>2 DEF NewProcess, Idle, vars, walk, copying
  <2>2. QED
    BY <2>1 DEF StampInv, Stamped, ReadTime, NotAfter, Ahead, Other
<1>3. QED
  BY <1>1, <1>2, StampSync, StampEdit DEF Next

\* As long as no transfer is interrupted, a file whose content changed while
\* it was copied stays older than its source, for the next sync() to copy it
\* again: no file has a later modification time than its content
\* (sync.py:183-208, 217-245).
THEOREM StampsAreTrue == Spec => []StampNotNewer
<1>1. Init => StampInv
  <2>1. \A s \in Sides, p \in Path : Init => disk[s][p].kind = "none"
    BY DEF Init, NoEntries, Absent, Node
  <2>2. \A p \in Path : Init => listed[p].kind = "none"
    BY DEF Init, NoEntries, Absent, Node
  <2>3. QED
    BY <2>1, <2>2 DEF Init, StampInv, Stamped
<1>2. (~broken => StampInv) => StampNotNewer
  BY DEF StampNotNewer, StampInv, StampStands, Stamped
<1>3. QED
  BY <1>1, <1>2, StampInductive, TypeCorrect, PTL DEF Spec

----------------------------------------------------------------------------
(* Without recursive the sub-folders are left alone.                       *)

\* Nothing below a sub-folder is ever listed, or on the stack.
ScopeInv ==
    ~recursive =>
        /\ \A i \in DOMAIN stack : stack[i] = Root
        /\ \A p \in todo : Parent[p] = Root
        /\ pc \in Calls => Parent[cur] = Root
        /\ pc # "mkdir"

\* What is on the stack after a folder has been taken from it, or put on it.
LEMMA StackItems ==
    ASSUME NEW S, NEW q \in Seq(S)
    PROVE  /\ \A x \in S : \A i \in DOMAIN Append(q, x) :
                 Append(q, x)[i] = x \/ \E j \in DOMAIN q : Append(q, x)[i] = q[j]
           /\ q # <<>> =>
                 /\ Len(q) \in DOMAIN q
                 /\ \A i \in DOMAIN SubSeq(q, 1, Len(q) - 1) :
                       i \in DOMAIN q /\ SubSeq(q, 1, Len(q) - 1)[i] = q[i]
<1>1. Len(q) \in Nat /\ DOMAIN q = 1..Len(q) /\ \A i \in 1..Len(q) : q[i] \in S
  BY ElementOfSeq, LenProperties
<1>2. ASSUME NEW x \in S, NEW i \in DOMAIN Append(q, x)
      PROVE  Append(q, x)[i] = x \/ \E j \in DOMAIN q : Append(q, x)[i] = q[j]
  <2>1. Append(q, x) \in Seq(S) /\ Len(Append(q, x)) = Len(q) + 1
    BY AppendProperties
  <2>2. i \in 1..(Len(q) + 1)
    BY <1>2, <2>1, LenProperties
  <2>3. i \in 1..Len(q) \/ i = Len(q) + 1
    BY <1>1, <2>2
  <2>4. QED
    BY <1>1, <2>3, AppendProperties
<1>3. ASSUME q # <<>>
      PROVE  /\ Len(q) \in DOMAIN q
             /\ \A i \in DOMAIN SubSeq(q, 1, Len(q) - 1) :
                   i \in DOMAIN q /\ SubSeq(q, 1, Len(q) - 1)[i] = q[i]
  <2>1. Len(q) \in Nat \ {0}
    BY <1>1, <1>3, EmptySeq
  <2>2. SubSeq(q, 1, Len(q) - 1) \in Seq(S)
    BY <1>3, StackType
  <2>3. Len(SubSeq(q, 1, Len(q) - 1)) = Len(q) - 1
    BY <1>1, <2>1
  <2>4. DOMAIN SubSeq(q, 1, Len(q) - 1) = 1..(Len(q) - 1)
    BY <2>2, <2>3, LenProperties
  <2>5. \A i \in 1..(Len(q) - 1) : i \in 1..Len(q) /\ SubSeq(q, 1, Len(q) - 1)[i] = q[i]
    BY <1>1, <2>1
  <2>6. QED
    BY <1>1, <2>1, <2>4, <2>5
<1>4. QED
  BY <1>2, <1>3

\* A folder goes on the stack with recursive only, or is the sync folder.
LEMMA ScopeSync ==
    ASSUME TypeOK, ScopeInv, SyncStep
    PROVE  ScopeInv'
<1> USE DEF walk, copying, options
<1>0. recursive' = recursive /\ stack \in Seq(Path \cup {Root})
  BY DEF SyncStep, TypeOK
<1>1. CASE SyncStart \/ EndLeg
  BY <1>0, <1>1 DEF SyncStart, EndLeg, ScopeInv, TypeOK, Calls
<1>2. CASE NextFolder
  <2>1. stack # <<>>
    BY <1>2 DEF NextFolder, AsksServer, FolderDone, TypeOK
  <2>2. /\ \A i \in DOMAIN stack' : i \in DOMAIN stack /\ stack'[i] = stack[i]
        /\ Len(stack) \in DOMAIN stack
    BY <1>0, <1>2, <2>1, StackItems DEF NextFolder
  <2>3. \A p \in todo' : Parent[p] = stack[Len(stack)] \/ p \in todo
    BY <1>2 DEF NextFolder, Names, Top
  <2>4. pc' = "visit"
    BY <1>2 DEF NextFolder
  <2>5. QED
    BY <1>0, <2>2, <2>3, <2>4 DEF ScopeInv, Calls
<1>9. CASE ListNames
  <2>1. Len(stack) \in DOMAIN stack
    BY <1>0, <1>9, StackItems DEF ListNames, FolderDone
  <2>2. /\ \A p \in todo' : Parent[p] = stack[Len(stack)]
        /\ stack' = stack /\ pc' = "list"
    BY <1>9 DEF ListNames, Names, Top
  <2>3. QED
    BY <1>0, <2>1, <2>2 DEF ScopeInv, Calls
<1>3. ASSUME NEW p \in Path, EnterFolder(p) PROVE ScopeInv'
  BY <1>0, <1>3 DEF EnterFolder, StackWith, Handled, ScopeInv, Calls
<1>4. ASSUME NEW p \in Path, LeaveFile(p) PROVE ScopeInv'
  BY <1>0, <1>4 DEF LeaveFile, Handled, ScopeInv, Calls
<1>5. ASSUME NEW p \in Path, TakeFile(p) \/ FindCopy(p) PROVE ScopeInv'
  BY <1>0, <1>5 DEF TakeFile, FindCopy, Compared, ScopeInv, Calls
<1>6. CASE Copy \/ SetTime \/ FindFolder \/ MakeFolders
  BY <1>0, <1>6 DEF Copy, SetTime, FindFolder, MakeFolders, Handled, ScopeInv, Calls
<1>10. CASE MakeFolder
  BY <1>0, <1>10 DEF MakeFolder, ScopeInv
<1>7. CASE CopyBreaks \/ Finish \/ Fail \/ Abort
  <2>1. Leave
    BY <1>7 DEF CopyBreaks, Finish, Fail, Abort, ListingFails, MkdirFails, StatFails,
       MakedirsFails, CopyRefused, SetTimeFails, Raise
  <2>2. QED
    BY <2>1 DEF Leave, ScopeInv, Calls
<1>8. QED
  BY <1>1, <1>2, <1>3, <1>4, <1>5, <1>6, <1>7, <1>9, <1>10 DEF SyncStep

\* So does every step.
LEMMA ScopeInductive == TypeOK /\ ScopeInv /\ [Next]_vars => ScopeInv'
<1> SUFFICES ASSUME TypeOK, ScopeInv, [Next]_vars PROVE ScopeInv'
  OBVIOUS
<1>1. CASE NewProcess \/ Tick \/ Edit \/ UNCHANGED vars
  <2>1. UNCHANGED <<recursive, stack, todo, pc, cur>>
    BY <1>1 DEF NewProcess, Tick, Edit, WriteFile, MakeNode, RemoveNode, Edited, Idle, vars,
       options, walk, copying
  <2>2. QED
    BY <2>1 DEF ScopeInv
<1>2. QED
  BY <1>1, ScopeSync DEF Next

\* Without recursive no sync() changes anything below a sub-folder, on either
\* side, however deep the folders are (sync.py:188, 222).
THEOREM SubFoldersUntouched == Spec => ShallowScope
<1>1. Init => ScopeInv
  BY DEF Init, ScopeInv, Calls
<1>2. ASSUME TypeOK, ScopeInv, SyncStep, ~recursive,
             NEW s \in Sides, NEW p \in Path, Parent[p] # Root
      PROVE  disk'[s][p] = disk[s][p]
  <2>1. ~MakeFolder
    BY <1>2 DEF MakeFolder, ScopeInv
  <2>2. CASE MakeFolders
    <3>1. Above[cur] = {}
      BY <1>2, <2>2, ConstantAssumption DEF MakeFolders, ScopeInv, TypeOK, Calls
    <3>2. QED
      BY <1>2, <2>2, <3>1 DEF MakeFolders, MakeDirs, TypeOK, Sides
  <2>3. CASE Copy \/ CopyBreaks \/ SetTime
    <3>1. cur # p /\ cur \in Path /\ Other(leg) \in Sides
      BY <1>2, <2>3 DEF Copy, CopyBreaks, SetTime, ScopeInv, TypeOK, Other, Sides, Calls
    <3>2. CASE Copy \/ CopyBreaks
      BY <1>2, <3>1, <3>2, PutEffect DEF Copy, CopyBreaks
    <3>3. CASE SetTime
      <4>1. \/ disk' = disk
            \/ disk' = [disk EXCEPT ![Other(leg)][cur].mtime = TimeOfCopy]
        BY <3>3 DEF SetTime
      <4>2. disk \in [Sides -> [Path -> Entry]]
        BY <1>2 DEF TypeOK
      <4>3. QED
        BY <1>2, <3>1, <4>1, <4>2
    <3>4. QED
      BY <2>3, <3>2, <3>3
  <2>4. QED
    BY <1>2, <2>1, <2>2, <2>3, DiskSteps
<1>3. TypeOK /\ ScopeInv /\ [Next]_vars
        => [SyncStep /\ ~recursive =>
              \A s \in Sides, p \in Path : Parent[p] # Root => UNCHANGED disk[s][p]]_vars
  BY <1>2
<1>4. QED
  BY <1>1, <1>3, ScopeInductive, TypeCorrect, PTL DEF Spec, ShallowScope
=============================================================================
