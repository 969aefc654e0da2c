-------------------------------- MODULE Sync --------------------------------
(***************************************************************************)
(* ParamikoSync.sync() of remote_kernel/sync.py: one process brings a      *)
(* local folder and a folder on the server together over SFTP, file by     *)
(* file, by comparing modification times, while the user edits the local   *)
(* folder and the kernel edits the remote one.                             *)
(*                                                                         *)
(* Time is counted in ticks, Res of them to a second.  No two edits fall   *)
(* in the same tick, so the tick at which a file was written identifies    *)
(* its content.  The local file system keeps modification times to the     *)
(* tick; SFTP attributes carry whole seconds.  The server's clock runs     *)
(* Skew ticks ahead of the local one.                                      *)
(***************************************************************************)
EXTENDS Integers, Sequences

CONSTANTS
    Path,       \* everything that may exist below the sync folder
    Root,       \* the sync folder itself, '.'
    Parent,     \* the folder a path is in
    Above,      \* the folders between the sync folder and a path
    Excluded,   \* the paths whose file name is in excluded_files
    Res,        \* ticks in a second
    Skew,       \* server clock minus local clock, in ticks
    Start,      \* the tick at which the behaviour begins
    MaxTime,    \* bound on the clock
    Edits,      \* what the user and the kernel do to their folders
    Quiet,      \* TRUE: they leave the folders alone while sync() runs
    Faults      \* TRUE: the connection or the process may break in sync()

Sides == {"local", "remote"}
Other(s) == IF s = "local" THEN "remote" ELSE "local"

ASSUME ConstantAssumption ==
    /\ Root \notin Path
    /\ Parent \in [Path -> Path \cup {Root}]
    /\ Above \in [Path -> SUBSET Path]
    /\ \A p \in Path :
          Above[p] = IF Parent[p] = Root THEN {}
                     ELSE Above[Parent[p]] \cup {Parent[p]}
    /\ Excluded \subseteq Path
    /\ Res \in Nat \ {0} /\ Skew \in Int /\ MaxTime \in Nat
    /\ Start \in Nat /\ Start >= Res /\ Start + Skew >= Res
    /\ Edits \subseteq {"write", "mkdir", "socket", "remove"}
    /\ Quiet \in BOOLEAN /\ Faults \in BOOLEAN

\* Every path is below the sync folder.
ASSUME TreeAssumption ==
    \A S \in SUBSET (Path \cup {Root}) :
        Root \in S /\ (\A p \in Path : Parent[p] \in S => p \in S) => Path \subseteq S

VARIABLES
    disk,           \* what each side holds under each path
    now,            \* the local clock, time.time()
    recursive,      \* ParamikoSync.recursive
    bi_directional, \* ParamikoSync.bi_directional
    lastSync,       \* ParamikoSync._last_sync
    pc,             \* where sync() stands
    leg,            \* the side whose folders it walks, the source of copies
    stack,          \* folder_stack
    listed,         \* the listdir_attr() answer for the folder it is in
    todo,           \* the entries of that folder it has not handled yet
    cur,            \* the entry it is copying, Root when there is none
    stat,           \* the modification time it read for that entry
    clean,          \* history: sync() returned and nobody has edited since
    broken,         \* history: some transfer was interrupted
    late            \* history: the server's files that _last_sync passes over

options == <<recursive, bi_directional>>
walk == <<leg, stack, listed, todo>>
copying == <<cur, stat>>
history == <<clean, broken, late>>
vars == <<disk, now, options, lastSync, pc, walk, copying, history>>

----------------------------------------------------------------------------
(* Folder entries.  An interrupted transfer leaves a Torn file, which      *)
(* nobody wrote.  Modification times of folders are not tracked.           *)

Kinds == {"none", "file", "dir", "socket"}
Entry == [kind : Kinds, by : Sides \cup {"nobody"}, at : Nat, mtime : Int]
Node(kind) == [kind |-> kind, by |-> "nobody", at |-> 0, mtime |-> 0]
Absent == Node("none")
Torn(t) == [Node("file") EXCEPT !.mtime = t]
NoEntries == [p \in Path |-> Absent]

Sec(t) == t \div Res
Floor(t) == Res * Sec(t)

\* The modification time a side's file system gives a file written now.
Stamp(s) == IF s = "remote" THEN Floor(now + Skew) ELSE now

\* utime(): SFTP packs the time as an integer.
StampOf(s, t) == IF s = "remote" THEN Floor(t) ELSE t

\* _isdir() tests one bit of st_mode, which sockets have set too.
IsDir(e) == e.kind \in {"dir", "socket"}

IsFolder(s, f) == f # Root => disk[s][f].kind = "dir"
Openable(s, p) ==
    disk[s][p].kind \in {"none", "file"} /\ IsFolder(s, Parent[p])
Put(s, p, e) == disk' = [disk EXCEPT ![s][p] = e]

----------------------------------------------------------------------------
(* What sync() decides about one entry of the folder it is in.             *)

\* The remote entries of folder f, as listdir_attr() reports them.
Listing(f) ==
    [p \in Path |-> IF Parent[p] = f THEN disk["remote"][p] ELSE Absent]
Names(f) == {p \in Path : Parent[p] = f /\ disk[leg][p].kind # "none"}

\* A remote entry is judged by the listing, a local one by os.stat() now;
\* the other way round for the copy it would replace, which os.stat() reads
\* only where isfile() has found a file.
SourceEntry(p) == IF leg = "remote" THEN listed[p] ELSE disk["local"][p]
TargetEntry(p) ==
    IF leg = "local" THEN listed[p]
    ELSE IF pc = "stat" THEN disk["local"][p] ELSE Absent

\* Mutant: the configuration file is a file like any other.
NeverExcluded(p) == FALSE

\* Walking the server, the code looks for the attributes object itself, not
\* for its file name, in excluded_files: no remote file is ever excluded.
IsExcluded(p) == leg = "local" /\ p \in Excluded
Skipped(p) == IsExcluded(p) \/ SourceEntry(p).mtime < lastSync

\* Mutant: any difference in time counts.
Differs(p) == Sec(SourceEntry(p).mtime) # Sec(TargetEntry(p).mtime)
Newer(p) == Sec(SourceEntry(p).mtime) > Sec(TargetEntry(p).mtime)

\* os.makedirs(dest_dir), which raises when the folder is there by now.
CanMakeDirs(p) ==
    /\ Parent[p] # Root => disk["local"][Parent[p]].kind = "none"
    /\ \A q \in Above[p] : disk["local"][q].kind \in {"none", "dir"}
\* Mutant: the destination folder is not created.
MakesNone(p) == disk' = disk
MakeDirs(p) ==
    disk' = [disk EXCEPT !["local"] = [q \in Path |->
                IF q \in Above[p] THEN Node("dir") ELSE @[q]]]

\* Mutants: a sub-folder is forgotten, is walked although sync() is not
\* recursive, or the folder it is in is pushed again.
Forgets(p) == stack
AlwaysDescends(p) == Append(stack, p)
PushesParent(p) == IF recursive THEN Append(stack, Parent[p]) ELSE stack

\* The folder stack after an entry that is a folder.
StackWith(p) == IF recursive THEN Append(stack, p) ELSE stack

\* Mutant: the local folder is always pushed.
AlwaysPushes == leg = "remote"
HasSecondLeg == leg = "remote" /\ bi_directional

Handled(p) ==
    /\ todo' = todo \ {p}
    /\ listed' = [listed EXCEPT ![p] = Absent]

Leave ==
    /\ pc' = "idle" /\ leg' = "remote" /\ stack' = <<>> /\ todo' = {}
    /\ listed' = NoEntries /\ cur' = Root /\ stat' = 0

\* Mutant: _last_sync is assigned in a finally clause.
RaiseInFinally == Leave /\ lastSync' = now /\ clean' = FALSE /\ late' = late

\* An exception leaves sync() before _last_sync is assigned.
Raise == Leave /\ lastSync' = lastSync /\ clean' = FALSE /\ late' = late

----------------------------------------------------------------------------
(* The steps of sync(): one for each call that looks at or changes a       *)
(* folder.  pc says which call is next:                                    *)
(*   visit - the next entry, or the next folder when there is none         *)
(*   list  - listdir_attr(), the local folder has been listed              *)
(*   mkdir - mkdir() on the server      stat - os.stat() of the local copy *)
(*   dirs  - isdir() of its folder      make - makedirs() of it            *)
(*   copy  - get() or put()             utime - utime() of the copy        *)

\* The first sync() of a process looks at every file again.
SyncStart ==
    /\ pc = "idle"
    /\ pc' = "visit" /\ stack' = <<Root>> /\ clean' = FALSE
    /\ late' = IF lastSync = 0 THEN {} ELSE late
    /\ UNCHANGED <<disk, lastSync, leg, listed, todo, copying, broken>>

Top == stack[Len(stack)]
FolderDone == pc = "visit" /\ todo = {} /\ stack # <<>>

\* Walking the local side, os.listdir() of the folder it is about to pop.
ListNames ==
    /\ leg = "local" /\ FolderDone /\ IsFolder("local", Top)
    /\ todo' = Names(Top) /\ pc' = "list"
    /\ UNCHANGED <<disk, lastSync, leg, stack, listed, copying, history>>

\* Pops the folder, with the listdir_attr() of the server.
AsksServer == IF leg = "local" THEN pc = "list" ELSE FolderDone
NextFolder ==
    /\ AsksServer /\ IsFolder("remote", Top)
    /\ stack' = SubSeq(stack, 1, Len(stack) - 1)
    /\ listed' = Listing(Top)
    /\ todo' = IF leg = "local" THEN todo ELSE Names(Top)
    /\ pc' = "visit"
    /\ UNCHANGED <<disk, lastSync, leg, copying, history>>

ListingFails ==
    /\ \/ leg = "local" /\ FolderDone /\ ~IsFolder("local", Top)
       \/ AsksServer /\ ~IsFolder("remote", Top)
    /\ Raise /\ UNCHANGED <<disk, broken>>

\* A folder; walking the local side it has to be there on the server.
EnterFolder(p) ==
    /\ pc = "visit" /\ p \in todo /\ IsDir(SourceEntry(p))
    /\ IF leg = "local" /\ recursive /\ ~IsDir(listed[p])
       THEN pc' = "mkdir" /\ cur' = p /\ UNCHANGED <<stack, listed, todo>>
       ELSE stack' = StackWith(p) /\ Handled(p) /\ UNCHANGED <<pc, cur>>
    /\ UNCHANGED <<disk, lastSync, leg, stat, history>>

CanMakeFolder ==
    disk["remote"][cur].kind = "none" /\ IsFolder("remote", Parent[cur])

MakeFolder ==
    /\ pc = "mkdir" /\ CanMakeFolder
    /\ Put("remote", cur, Node("dir"))
    /\ stack' = StackWith(cur) /\ Handled(cur) /\ pc' = "visit" /\ cur' = Root
    /\ UNCHANGED <<lastSync, leg, stat, history>>

MkdirFails ==
    /\ pc = "mkdir" /\ ~CanMakeFolder
    /\ Raise /\ UNCHANGED <<disk, broken>>

\* Walking the server: isfile() of the local copy, where there is one.
FindCopy(p) ==
    /\ pc = "visit" /\ leg = "remote" /\ p \in todo
    /\ SourceEntry(p).kind = "file" /\ ~Skipped(p)
    /\ disk["local"][p].kind = "file"
    /\ pc' = "stat" /\ cur' = p
    /\ UNCHANGED <<disk, lastSync, walk, stat, history>>

\* The local copy is gone after isfile(), or the local source after
\* os.listdir().
StatFails ==
    /\ \/ pc = "stat" /\ disk["local"][cur].kind = "none"
       \/ pc = "visit" /\ \E p \in todo : SourceEntry(p).kind = "none"
    /\ Raise /\ UNCHANGED <<disk, broken>>

\* A file whose times are compared now.  A folder in the place of the copy
\* may be older or newer than the file.
Compared(p) ==
    /\ p \in todo /\ SourceEntry(p).kind = "file" /\ ~Skipped(p)
    /\ \/ pc = "visit" /\ (leg = "remote" => disk["local"][p].kind # "file")
       \/ pc = "stat" /\ p = cur /\ disk["local"][p].kind # "none"

Passes(p) ==
    pc = "visit" /\ p \in todo /\ SourceEntry(p).kind = "file" /\ Skipped(p)

\* A file that stays as it is.
LeaveFile(p) ==
    /\ \/ Passes(p)
       \/ Compared(p) /\ (~Newer(p) \/ IsDir(TargetEntry(p)))
    /\ Handled(p) /\ pc' = "visit" /\ cur' = Root
    /\ UNCHANGED <<disk, lastSync, leg, stack, stat, history>>

TakeFile(p) ==
    /\ Compared(p) /\ (Newer(p) \/ IsDir(TargetEntry(p)))
    /\ pc' = IF leg = "remote" THEN "dirs" ELSE "copy"
    /\ cur' = p /\ stat' = SourceEntry(p).mtime
    /\ UNCHANGED <<disk, lastSync, walk, history>>

\* isdir(), and makedirs() where it has found no folder.
FindFolder ==
    /\ pc = "dirs"
    /\ pc' = IF IsFolder("local", Parent[cur]) THEN "copy" ELSE "make"
    /\ UNCHANGED <<disk, lastSync, walk, copying, history>>

MakeFolders ==
    /\ pc = "make" /\ CanMakeDirs(cur) /\ MakeDirs(cur)
    /\ pc' = "copy"
    /\ UNCHANGED <<lastSync, walk, copying, history>>

MakedirsFails ==
    /\ pc = "make" /\ ~CanMakeDirs(cur)
    /\ Raise /\ UNCHANGED <<disk, broken>>

\* get() or put(): the content as it is now, stamped with the present.
Copy ==
    /\ pc = "copy" /\ disk[leg][cur].kind = "file" /\ Openable(Other(leg), cur)
    /\ Put(Other(leg), cur,
           [disk[leg][cur] EXCEPT !.mtime = Stamp(Other(leg))])
    /\ pc' = "utime"
    /\ UNCHANGED <<lastSync, walk, copying, history>>

\* The target cannot be opened, or put() has no local file to open.
CopyRefused ==
    /\ pc = "copy"
    /\ \/ ~Openable(Other(leg), cur)
       \/ leg = "local" /\ disk["local"][cur].kind # "file"
    /\ Raise /\ UNCHANGED <<disk, broken>>

\* The target is truncated and does not get the whole content: get() opens
\* it before it looks for the source, and either may be interrupted.
CopyBreaks ==
    /\ pc = "copy" /\ Openable(Other(leg), cur)
    /\ IF disk[leg][cur].kind = "file" THEN Faults ELSE leg = "remote"
    /\ Put(Other(leg), cur, Torn(Stamp(Other(leg))))
    /\ Raise /\ broken' = TRUE

\* Mutant: the copy is given the present time.
Present == Stamp(Other(leg))
TimeOfCopy == StampOf(Other(leg), stat)

\* utime(): gives the copy the modification time read for the source.
SetTime ==
    /\ pc = "utime" /\ disk[Other(leg)][cur].kind # "none"
    /\ disk' = IF disk[Other(leg)][cur].kind # "file" THEN disk
               ELSE [disk EXCEPT ![Other(leg)][cur].mtime = TimeOfCopy]
    /\ pc' = "visit" /\ cur' = Root /\ stat' = 0 /\ Handled(cur)
    /\ UNCHANGED <<lastSync, leg, stack, history>>

SetTimeFails ==
    /\ pc = "utime" /\ disk[Other(leg)][cur].kind = "none"
    /\ Raise /\ UNCHANGED <<disk, broken>>

EndLeg ==
    /\ pc = "visit" /\ todo = {} /\ stack = <<>> /\ HasSecondLeg
    /\ leg' = "local" /\ stack' = <<Root>> /\ listed' = NoEntries
    /\ UNCHANGED <<disk, lastSync, pc, todo, copying, history>>

Finish ==
    /\ pc = "visit" /\ todo = {} /\ stack = <<>> /\ ~HasSecondLeg
    /\ Leave /\ lastSync' = now /\ clean' = TRUE
    /\ UNCHANGED <<disk, broken, late>>

\* The connection drops, or the process is interrupted.
Abort ==
    /\ Faults /\ pc # "idle"
    /\ Raise /\ broken' = (broken \/ pc = "utime") /\ UNCHANGED disk

\* The calls that raise without having changed anything.
Fail ==
    \/ ListingFails \/ MkdirFails \/ StatFails \/ MakedirsFails
    \/ CopyRefused \/ SetTimeFails

SyncStep ==
    /\ \/ SyncStart \/ ListNames \/ NextFolder \/ MakeFolder
       \/ \E p \in Path :
             EnterFolder(p) \/ FindCopy(p) \/ LeaveFile(p) \/ TakeFile(p)
       \/ FindFolder \/ MakeFolders \/ Copy \/ CopyBreaks \/ SetTime
       \/ EndLeg \/ Finish \/ Fail \/ Abort
    /\ UNCHANGED <<now, options>>

----------------------------------------------------------------------------
(* Around sync(): the next process, the clock, the user and the kernel.    *)

Idle == UNCHANGED <<options, pc, walk, copying>>

\* Mutant: -1 for a folder that was never synchronised.
NeverSynced ==
    /\ pc = "idle" /\ lastSync # 0
    /\ lastSync' = -1
    /\ Idle /\ UNCHANGED <<disk, now, history>>

\* A new process has a new ParamikoSync.
NewProcess ==
    /\ pc = "idle" /\ lastSync # 0
    /\ lastSync' = 0
    /\ Idle /\ UNCHANGED <<disk, now, history>>

Tick ==
    /\ now < MaxTime /\ now' = now + 1
    /\ Idle /\ UNCHANGED <<disk, lastSync, history>>

\* Quiet editors stay away while sync() runs.
MayEdit == now < MaxTime /\ (Quiet => pc = "idle")

Edited ==
    /\ now' = now + 1 /\ clean' = FALSE
    /\ Idle /\ UNCHANGED <<lastSync, broken>>

\* A file of the server that is written after the last sync() ended is late
\* when its modification time, whole seconds of the server's clock, is
\* before that end: by the filter on _last_sync it has not changed since.
Lateness(s, p) ==
    late' = IF s = "local" THEN late
            ELSE IF Stamp(s) < lastSync THEN late \cup {p} ELSE late \ {p}

WriteFile(s, p) ==
    /\ "write" \in Edits /\ MayEdit /\ Openable(s, p)
    /\ Put(s, p, [kind |-> "file", by |-> s, at |-> now, mtime |-> Stamp(s)])
    /\ Lateness(s, p) /\ Edited

MakeNode(s, p, op, kind) ==
    /\ op \in Edits /\ MayEdit
    /\ disk[s][p].kind = "none" /\ IsFolder(s, Parent[p])
    /\ Put(s, p, Node(kind))
    /\ late' = late /\ Edited

RemoveNode(s, p) ==
    /\ "remove" \in Edits /\ MayEdit /\ disk[s][p].kind # "none"
    /\ \A q \in Path : Parent[q] = p => disk[s][q].kind = "none"
    /\ Put(s, p, Absent)
    /\ late' = late /\ Edited

Edit ==
    \E s \in Sides, p \in Path :
        \/ WriteFile(s, p)
        \/ MakeNode(s, p, "mkdir", "dir")
        \/ MakeNode(s, p, "socket", "socket")
        \/ RemoveNode(s, p)

Init ==
    /\ disk = [s \in Sides |-> NoEntries]
    /\ now = Start /\ lastSync = 0 /\ clean = FALSE /\ broken = FALSE
    /\ late = {}
    /\ recursive \in BOOLEAN /\ bi_directional \in BOOLEAN
    /\ pc = "idle" /\ leg = "remote" /\ stack = <<>> /\ todo = {}
    /\ listed = NoEntries /\ cur = Root /\ stat = 0

Next == SyncStep \/ NewProcess \/ Tick \/ Edit

\* sync() runs to its end; nobody has to edit, and no sync() has to start.
Progress == pc # "idle" /\ SyncStep
Spec == Init /\ [][Next]_vars /\ WF_vars(Progress)

----------------------------------------------------------------------------
(* Properties.                                                             *)

\* The calls that concern one entry.
Calls == {"mkdir", "stat", "dirs", "make", "copy", "utime"}

\* Every variable keeps its type, and each leg makes its own calls.
TypeOK ==
    /\ disk \in [Sides -> [Path -> Entry]]
    /\ now \in Nat /\ lastSync \in Nat
    /\ recursive \in BOOLEAN /\ bi_directional \in BOOLEAN
    /\ pc \in {"idle", "visit", "list"} \cup Calls /\ leg \in Sides
    /\ stack \in Seq(Path \cup {Root})
    /\ listed \in [Path -> Entry] /\ todo \subseteq Path
    /\ cur \in Path \cup {Root} /\ (pc \in Calls => cur \in Path)
    /\ stat \in Int /\ clean \in BOOLEAN /\ broken \in BOOLEAN
    /\ late \subseteq Path
    /\ pc \in {"list", "mkdir"} => leg = "local"
    /\ pc = "list" => stack # <<>>
    /\ pc \in {"stat", "dirs", "make"} => leg = "remote"

InScope(p) == recursive \/ Parent[p] = Root
SameContent(d, e) == d.by = e.by /\ d.at = e.at

\* When a file was written, by its writer's clock, in seconds.
Written(e) == Sec(IF e.by = "remote" THEN e.at + Skew ELSE e.at)

\* The file at p on side s has reached the other side: it is there, or a
\* file is there that was not written earlier, to the second.
Delivered(s, p) ==
    LET e == disk[s][p]
        d == disk[Other(s)][p]
    IN  d.kind = "file" /\ (SameContent(d, e) \/ Written(d) >= Written(e))

\* Whether some path looks like a folder on one side and is a file on the
\* other, or looks like a folder and is none.
Conflict ==
    \E p \in Path, s \in Sides :
        /\ IsDir(disk[s][p])
        /\ disk[Other(s)][p].kind = "file" \/ disk[s][p].kind # "dir"

\* When sync() has returned and nobody has edited since, every file of the
\* server is in the local folder at least as new; with bi_directional, the
\* local files and folders are on the server too.  This is not so of a file
\* that was written on the server after an earlier sync() of this process
\* had ended and carries a modification time before that end, in the same
\* second or by a clock that is behind: it is late, and passed over in every
\* later sync().  A transfer that was cut off is another matter, see
\* ResumesTransfer (sync.py:161-245).
Converged ==
    clean /\ ~broken => \A p \in Path : InScope(p) =>
        /\ disk["remote"][p].kind = "file" /\ p \notin late
              => Delivered("remote", p)
        /\ bi_directional =>
              /\ disk["local"][p].kind = "file" /\ p \notin Excluded \cup late
                    => Delivered("local", p) \/ IsDir(disk["remote"][p])
              /\ disk["local"][p].kind = "dir" /\ recursive
                    => disk["remote"][p].kind = "dir"

\* Files are synchronised from remote to local (__init__.py:75-76): when a
\* sync() has returned, no file of the server is left half copied in the
\* local folder by an earlier sync() that was interrupted (sync.py:233-245).
ResumesTransfer ==
    clean => \A p \in Path :
        disk["remote"][p].by = "remote" /\ InScope(p)
        => ~(disk["local"][p].kind = "file" /\ disk["local"][p].by = "nobody")

\* The filter on _last_sync forgets no other file: a remote file old enough
\* to be skipped from now on has been delivered, unless it is late, also when
\* a sync() in between raised or lost its connection (sync.py:169, 224).
SkippedIsDelivered ==
    ~broken => \A p \in Path :
        /\ disk["remote"][p].kind = "file" /\ InScope(p)
        /\ disk["remote"][p].mtime < lastSync /\ p \notin late
        => Delivered("remote", p)

\* sync() replaces the content of a file only by content written in a later
\* second (sync.py:203, 233).
NewestWins ==
    [][SyncStep /\ ~broken' => \A s \in Sides, p \in Path :
         LET old == disk[s][p]
             new == disk'[s][p]
         IN  old.kind = "file" =>
               SameContent(old, new) \/ Written(new) > Written(old)]_vars

\* As long as the connection lasts and nobody edits meanwhile, sync() raises
\* only on such a path (sync.py:182-208, 217-245).
RaisesOnlyOnConflict == [][Fail => Conflict]_vars

Ahead == IF Skew > 0 THEN Skew ELSE 0

\* But for the copy sync() is about to stamp, no file claims to be newer
\* than its content is: it has the modification time read for its source
\* (sync.py:208, 244-245).
StampStands ==
    \A s \in Sides, p \in Path :
        disk[s][p].kind = "file" /\ ~(pc = "utime" /\ p = cur /\ s # leg)
        => disk[s][p].mtime <= disk[s][p].at + Ahead

\* This holds until a transfer is interrupted, also for content that changes
\* while it is copied: the next sync() copies that again.
StampNotNewer == ~broken => StampStands

\* The user's own configuration file never reaches the server
\* (sync.py:69-70, 194).
ExcludedStaysLocal ==
    \A p \in Excluded : disk["remote"][p].by # "local"

\* The configuration file is not fetched from the server either
\* (sync.py:69-70, 224).
ExcludedNotFetched ==
    \A p \in Excluded : disk["local"][p].by # "remote"

\* Without bi_directional sync() changes nothing on the server, however it
\* ends (sync.py:167).
OneWay ==
    [][SyncStep /\ ~bi_directional => UNCHANGED disk["remote"]]_vars

\* Without recursive sync() touches nothing below a sub-folder
\* (sync.py:188, 222).
ShallowScope ==
    [][SyncStep /\ ~recursive =>
         \A s \in Sides, p \in Path :
             Parent[p] # Root => UNCHANGED disk[s][p]]_vars

\* Every sync() comes to an end (sync.py:176, 215).
SyncReturns == (pc # "idle") ~> (pc = "idle")
============================================================================
