----------------------------- MODULE Subfolder ------------------------------
(***************************************************************************)
(* ParamikoSync.set_subfolder() and the connect() before the first sync(), *)
(* of remote_kernel/sync.py: how the processes of a user agree on the      *)
(* remote sub-folder each of them works in.                                *)
(*                                                                         *)
(* A local folder remembers its sub-folders in a file .remote_kernel_sync, *)
(* which maps kernel names to sub-folder ids.  Nothing in it says on which *)
(* server the sub-folder is; the field host of an entry is a history of    *)
(* that and is never read.                                                 *)
(***************************************************************************)
EXTENDS Naturals

CONSTANTS
    Process, Local, Host, Name,
    LocalOf,    \* the local folder a process is started in
    Args,       \* the servers and kernel names it may be started with
    MaxId,      \* bound on the sub-folders of a server
    Digits,     \* how many digits an id has in the file
    Nobody,     \* not a local folder
    Nowhere     \* not a server

Id == 1..MaxId

ASSUME ConstantAssumption ==
    /\ LocalOf \in [Process -> Local]
    /\ Args \in [Process -> SUBSET (Host \X Name)]
    /\ MaxId \in Nat /\ Digits \in [Id -> Nat]
    /\ Nobody \notin Local /\ Nowhere \notin Host

VARIABLES
    folders,    \* the local folders that exist
    file,       \* the state of the configuration file of a local folder
    entries,    \* what can be read in it
    root,       \* the servers with a remote sync folder
    made,       \* the local folder a remote sub-folder was made for
    pc,         \* where a process stands
    args,       \* the server it connects to and its kernel name
    mine,       \* the configuration set_subfolder() has read
    sub         \* the sub-folder it has chosen

disks == <<folders, file, entries, root, made>>
vars == <<disks, pc, args, mine, sub>>

NoArgs == <<Nowhere, Nowhere>>
NoEntry == [id |-> 0, host |-> Nowhere]
Entry == [id : Id, host : Host] \cup {NoEntry}
Contents == [Name -> Entry]
NoEntries == [n \in Name |-> NoEntry]
Named(c) == {n \in Name : c[n] # NoEntry}

Exists(h, i) == made[h][i] # Nobody
Readable(l) == file[l] \in {"missing", "saved"}

HostOf(p) == args[p][1]
NameOf(p) == args[p][2]

Goto(p, label) == pc' = [pc EXCEPT ![p] = label]

\* An exception, or the end of the process, takes its memory with it.
Exit(p) ==
    /\ Goto(p, "off") /\ args' = [args EXCEPT ![p] = NoArgs]
    /\ mine' = [mine EXCEPT ![p] = NoEntries]
    /\ sub' = [sub EXCEPT ![p] = NoEntry]

----------------------------------------------------------------------------
(* set_subfolder()                                                         *)

Start(p) ==
    /\ pc[p] = "off" /\ Goto(p, "read")
    /\ \E a \in Args[p] : args' = [args EXCEPT ![p] = a]
    /\ UNCHANGED <<disks, mine, sub>>

\* Mutant: a missing entry is taken for an entry.
AlwaysKnown(e) == TRUE

Known(e) == e # NoEntry

\* json.load() raises on a file that is empty or garbled.
ReadConfig(p) ==
    LET c == entries[LocalOf[p]]
        e == c[NameOf(p)]
    IN  /\ pc[p] = "read" /\ Readable(LocalOf[p])
        /\ sub' = [sub EXCEPT ![p] = e]
        /\ IF Known(e)
           THEN Goto(p, "check") /\ UNCHANGED mine
           ELSE Goto(p, "local") /\ mine' = [mine EXCEPT ![p] = c]
        /\ UNCHANGED <<disks, args>>

ReadFails(p) ==
    /\ pc[p] = "read" /\ ~Readable(LocalOf[p])
    /\ Exit(p) /\ UNCHANGED disks

\* check_local_sync_folders() looks for the local folder, then makes it.
CheckLocal(p) ==
    /\ pc[p] = "local"
    /\ Goto(p, IF LocalOf[p] \in folders THEN "root" ELSE "makelocal")
    /\ UNCHANGED <<disks, args, mine, sub>>

MakeLocal(p) ==
    /\ pc[p] = "makelocal" /\ LocalOf[p] \notin folders
    /\ folders' = folders \cup {LocalOf[p]}
    /\ Goto(p, "root")
    /\ UNCHANGED <<file, entries, root, made, args, mine, sub>>

\* check_remote_sync_folder() does the same with the remote sync folder.
CheckRoot(p) ==
    /\ pc[p] = "root"
    /\ Goto(p, IF HostOf(p) \in root THEN "list" ELSE "makeroot")
    /\ UNCHANGED <<disks, args, mine, sub>>

MakeRoot(p) ==
    /\ pc[p] = "makeroot" /\ HostOf(p) \notin root
    /\ root' = root \cup {HostOf(p)}
    /\ Goto(p, "list")
    /\ UNCHANGED <<folders, file, entries, made, args, mine, sub>>

\* The first id without a sub-folder.
ListFolders(p, i) ==
    LET h == HostOf(p)
    IN  /\ pc[p] = "list"
        /\ ~Exists(h, i) /\ \A j \in Id : j < i => Exists(h, j)
        /\ sub' = [sub EXCEPT ![p] = [id |-> i, host |-> h]]
        /\ Goto(p, "makesub")
        /\ UNCHANGED <<disks, args, mine>>

\* Mutants: a sub-folder that exists by now is taken, or made anew.
TakesExisting(p) ==
    made' = IF Exists(HostOf(p), sub[p].id) THEN made
            ELSE [made EXCEPT ![HostOf(p)][sub[p].id] = LocalOf[p]]
MakesAnew(p) == made' = [made EXCEPT ![HostOf(p)][sub[p].id] = LocalOf[p]]

\* mkdir() of the sub-folder the process has chosen.
MakeFolder(p) ==
    /\ ~Exists(HostOf(p), sub[p].id)
    /\ made' = [made EXCEPT ![HostOf(p)][sub[p].id] = LocalOf[p]]

MakeSub(p) ==
    /\ pc[p] = "makesub" /\ MakeFolder(p)
    /\ mine' = [mine EXCEPT ![p][NameOf(p)] = sub[p]]
    /\ Goto(p, "open")
    /\ UNCHANGED <<folders, file, entries, root, args, sub>>

\* makedirs() and mkdir() raise when somebody else was faster.
MakeFails(p) ==
    /\ \/ pc[p] = "makelocal" /\ LocalOf[p] \in folders
       \/ pc[p] = "makeroot" /\ HostOf(p) \in root
       \/ pc[p] = "makesub" /\ Exists(HostOf(p), sub[p].id)
    /\ Exit(p) /\ UNCHANGED disks

WriteFile(p, state, contents) ==
    /\ file' = [file EXCEPT ![LocalOf[p]] = state]
    /\ entries' = [entries EXCEPT ![LocalOf[p]] = contents]

\* open(mode='w') empties the file, the contents come with close().
OpenConfig(p) ==
    /\ pc[p] = "open" /\ Goto(p, "dump")
    /\ WriteFile(p, "empty", NoEntries)
    /\ UNCHANGED <<folders, root, made, args, mine, sub>>

\* What others wrote since is overwritten from the start of the file, and
\* stands out behind the contents if it is longer: it has other names, or the
\* same names and an id with more digits.
Overwrites(p) ==
    LET e == entries[LocalOf[p]]
        m == mine[p]
    IN  \/ file[LocalOf[p]] = "empty"
        \/ /\ file[LocalOf[p]] = "saved" /\ Named(e) \subseteq Named(m)
           /\ Named(e) = Named(m)
                => \A n \in Named(e) : Digits[e[n].id] <= Digits[m[n].id]

Dump(p) ==
    /\ pc[p] = "dump" /\ Goto(p, "ready")
    /\ \/ WriteFile(p, "saved", mine[p])
       \/ ~Overwrites(p) /\ WriteFile(p, "garbled", NoEntries)
    /\ mine' = [mine EXCEPT ![p] = NoEntries]
    /\ UNCHANGED <<folders, root, made, args, sub>>

----------------------------------------------------------------------------
(* connect() of a process that found its sub-folder in the file checks     *)
(* that it exists, and makes it where it does not.  A check that failed in  *)
(* the first sync() is made again in the second ("recheck" and "remake").  *)

CheckSub(p) ==
    /\ pc[p] \in {"check", "recheck"} /\ HostOf(p) \in root
    /\ Goto(p, CASE Exists(HostOf(p), sub[p].id) -> "ready"
                 [] pc[p] = "check" -> "again"
                 [] OTHER -> "remake")
    /\ UNCHANGED <<disks, args, mine, sub>>

MakeSubAgain(p) ==
    /\ pc[p] \in {"again", "remake"} /\ MakeFolder(p) /\ Goto(p, "ready")
    /\ UNCHANGED <<folders, file, entries, root, args, mine, sub>>

\* listdir_attr() raises without the remote sync folder, mkdir() when somebody
\* else was faster.  sync_folder() gives up; start_kernel() goes on to start
\* the kernel, and gives up when this is its second sync().
CheckFails(p) ==
    /\ \/ pc[p] \in {"check", "recheck"} /\ HostOf(p) \notin root
       \/ pc[p] \in {"again", "remake"} /\ Exists(HostOf(p), sub[p].id)
    /\ \/ Exit(p)
       \/ /\ pc[p] \in {"check", "again"} /\ Goto(p, "cd")
          /\ UNCHANGED <<args, mine, sub>>
    /\ UNCHANGED disks

\* The command of the kernel begins with cd: the kernel runs in a sub-folder
\* somebody has made by now, or ends at once and the second sync() follows.
ChangeDir(p) ==
    /\ pc[p] = "cd"
    /\ Goto(p, IF Exists(HostOf(p), sub[p].id) THEN "ready" ELSE "recheck")
    /\ UNCHANGED <<disks, args, mine, sub>>

\* The session ends, the connection breaks, the process is killed.
Stop(p) ==
    /\ pc[p] # "off" /\ Exit(p) /\ UNCHANGED disks

Init ==
    /\ folders = {} /\ root = {}
    /\ file = [l \in Local |-> "missing"]
    /\ entries = [l \in Local |-> NoEntries]
    /\ made = [h \in Host |-> [i \in Id |-> Nobody]]
    /\ pc = [p \in Process |-> "off"] /\ args = [p \in Process |-> NoArgs]
    /\ mine = [p \in Process |-> NoEntries]
    /\ sub = [p \in Process |-> NoEntry]

Step(p) ==
    \/ Start(p) \/ ReadConfig(p) \/ ReadFails(p)
    \/ CheckLocal(p) \/ MakeLocal(p) \/ CheckRoot(p) \/ MakeRoot(p)
    \/ \E i \in Id : ListFolders(p, i)
    \/ MakeSub(p) \/ MakeFails(p) \/ OpenConfig(p) \/ Dump(p)
    \/ CheckSub(p) \/ MakeSubAgain(p) \/ CheckFails(p)
    \/ ChangeDir(p) \/ Stop(p)

Next == \E p \in Process : Step(p)
Spec == Init /\ [][Next]_vars

----------------------------------------------------------------------------
(* Properties.                                                             *)

Chosen == {"check", "again", "cd", "recheck", "remake", "ready"}
Labels == {"off", "read", "local", "makelocal", "root", "makeroot", "list",
           "makesub", "open", "dump"} \cup Chosen

\* Every variable keeps its type, and past the choice of a sub-folder there
\* is one.
TypeOK ==
    /\ folders \subseteq Local /\ root \subseteq Host
    /\ file \in [Local -> {"missing", "empty", "garbled", "saved"}]
    /\ entries \in [Local -> Contents]
    /\ made \in [Host -> [Id -> Local \cup {Nobody}]]
    /\ pc \in [Process -> Labels]
    /\ args \in [Process -> (Host \X Name) \cup {NoArgs}]
    /\ mine \in [Process -> Contents] /\ sub \in [Process -> Entry]
    /\ \A p \in Process :
          /\ pc[p] # "off" => args[p] # NoArgs
          /\ pc[p] \in {"makesub", "open", "dump"} \cup Chosen
                => sub[p] # NoEntry

\* An entry of the configuration file leads to a sub-folder that was made for
\* that local folder, whatever processes race and wherever they stop: the
\* sub-folder comes before the entry (sync.py:147-150).
EntriesOwned ==
    \A l \in Local, n \in Name :
        LET e == entries[l][n]
        IN  e # NoEntry => made[e.host][e.id] = l

\* The processes that work on the server their entry was made for share out
\* the sub-folders as Allocation says (sync.py:130-152).
AtHome(p) == pc[p] = "ready" /\ sub[p].host = HostOf(p)

Folder == Host \X Id
Nothing == NoArgs
owner == [f \in Folder |-> made[f[1]][f[2]]]
uses ==
    [p \in Process |-> IF AtHome(p) THEN <<HostOf(p), sub[p].id>> ELSE Nothing]

Promise == INSTANCE Allocation WITH owner <- owner, uses <- uses,
    Process <- Process, Local <- Local, LocalOf <- LocalOf,
    Folder <- Folder, Nobody <- Nobody, Nothing <- Nothing
ImplementsAllocation == Promise!Spec

\* The remote folder contains sub-folders for each unique local folder
\* (__init__.py:77-78): no two local folders work in the same one.
Unshared ==
    \A p, q \in Process :
        /\ pc[p] = "ready" /\ pc[q] = "ready"
        /\ HostOf(p) = HostOf(q) /\ sub[p].id = sub[q].id
        => LocalOf[p] = LocalOf[q]
=============================================================================
