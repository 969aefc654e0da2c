----------------------------- MODULE SyncSession ----------------------------
(***************************************************************************)
(* The SFTP session of ParamikoSync (sync.py) and the three entry points   *)
(* that open and leave it, on top of the SSH client they connect with: the *)
(* manual sync, start_kernel() and install_kernel().  What they do on the  *)
(* server besides is a step that succeeds or raises.                       *)
(***************************************************************************)
EXTENDS SshClient

CONSTANTS
    Entry,      \* the entry points that are started
    Routes,     \* the jump hosts and targets they are started with
    Keys        \* the keys they are started with

ASSUME EntryAssumption ==
    /\ Entry \subseteq {"sync", "start", "install", "library"}
    /\ Keys \subseteq {"none", "plain", "locked"}
    /\ Routes \subseteq Seq(Host) \ {<<>>}

VARIABLES
    entry,      \* the entry point
    pc,         \* where it stands
    block,      \* the with statement it is in
    sftp,       \* sftp_client is not None
    checked,    \* _is_folder_checked
    code,       \* how the entry point ends
    refused,    \* history: connect() has raised between the session and the flag
    blind,      \* history: sync() has run in folders nobody has checked
    completed   \* history: the last sync() has come to its end

session == <<sftp, checked, refused, blind, completed>>
program == <<entry, pc, block, code, session>>
vars == <<sshVars, program>>

Goto(label) == pc' = label
Enter(b) == block' = b /\ Goto("connect")
Leave(c) == code' = c /\ Goto("close")

\* Mutant: an exception is not reported.
Unreported == Goto("close") /\ UNCHANGED code

\* What no inner handler takes.
Error == Leave(IF entry = "install" THEN "2" ELSE "1")

\* The client of the entry point.
Mine == CHOOSE c \in held : TRUE

Begin ==
    /\ pc = "off" /\ entry # "library" /\ Goto("connecting")
    /\ \E r \in Routes, k \in Keys : Connect(r, k, TRUE)
    /\ UNCHANGED <<entry, block, code, session>>

\* A connect_override() that raises has not entered the with statement.
Connected ==
    /\ pc = "connecting" /\ Idle
    /\ \/ /\ result = "ok" /\ UNCHANGED code
          /\ Goto(IF entry = "sync" THEN "subfolder" ELSE "prepare")
       \/ /\ result = "raised" /\ Goto("drop")
          /\ code' = IF entry = "install" THEN "2" ELSE "1"
    /\ UNCHANGED <<sshVars, entry, block, session>>

\* start: the tunnel and the command that writes the connection file.
\* install: the test of the kernel, which may also end it, as --dry-run does.
Prepare ==
    /\ pc = "prepare"
    /\ \/ /\ entry = "start" /\ Goto("subfolder")
          /\ \E t \in Tunnel : OpenTunnel(Mine, t)
          /\ UNCHANGED <<block, code>>
       \/ entry = "install" /\ Enter("install") /\ UNCHANGED <<sshVars, code>>
       \/ /\ entry = "install" /\ \E c \in {"0", "1"} : Leave(c)
          /\ UNCHANGED <<sshVars, block>>
       \/ Error /\ UNCHANGED <<sshVars, block>>
    /\ UNCHANGED <<entry, session>>

\* start without --synchronize has no session at all.  set_subfolder() needs
\* none when the configuration file has an entry.
SetSubfolder ==
    /\ pc = "subfolder"
    /\ \/ entry = "start" /\ Goto("kernel") /\ UNCHANGED <<block, code>>
       \/ Enter("first") /\ UNCHANGED code
       \/ Enter("subfolder") /\ UNCHANGED code
       \/ Error /\ UNCHANGED block
    /\ UNCHANGED <<sshVars, entry, session>>

----------------------------------------------------------------------------
(* connect(), the body of the with statement, close()                      *)

\* Mutant: the manual sync goes on like start_kernel().
Logged == Leave("0")

SyncFailed == Leave("1")

\* An exception inside the block, and before it, goes to the same handler.
Caught ==
    \/ block = "subfolder" /\ Error
    \/ block = "install" /\ Leave("1")
    \/ block = "first" /\ entry = "sync" /\ SyncFailed
    \/ block = "first" /\ entry = "start" /\ Goto("kernel") /\ UNCHANGED code
    \/ block = "last" /\ Leave("0")

Done ==
    \/ block = "subfolder" /\ Enter("first") /\ UNCHANGED code
    \/ block = "install" /\ UNCHANGED block /\ \E c \in {"0", "1", "2"} : Leave(c)
    \/ block = "first" /\ entry = "sync" /\ Leave("0") /\ UNCHANGED block
    \/ block = "first" /\ entry = "start" /\ Goto("kernel") /\ UNCHANGED <<block, code>>
    \/ block = "last" /\ Leave("0") /\ UNCHANGED block

\* Mutant: set_subfolder() is trusted with the checks.
OnlyInSubfolder == ~checked /\ block = "subfolder"

NeedsCheck == ~checked /\ block # "install"

\* Only a new session leads to the checks, whatever came of the last ones.
OpenSession ==
    /\ pc = "connect" /\ ~sftp /\ conn[Mine] = "open"
    /\ sftp' = TRUE /\ Goto(IF NeedsCheck THEN "check" ELSE "inside")
    /\ UNCHANGED <<sshVars, entry, block, code, checked, refused, blind, completed>>

KeepSession ==
    /\ pc = "connect" /\ sftp /\ Goto("inside")
    /\ UNCHANGED <<sshVars, entry, block, code, session>>

SessionFails ==
    /\ pc = "connect" /\ ~sftp /\ Caught
    /\ UNCHANGED <<sshVars, entry, block, session>>

CheckFolders ==
    /\ pc = "check" /\ Goto("inside") /\ checked' = TRUE
    /\ UNCHANGED <<sshVars, entry, block, code, sftp, refused, blind, completed>>

\* The session stays: there is no __exit__ before the with statement is entered.
CheckRaises ==
    /\ pc = "check" /\ Caught /\ refused' = TRUE
    /\ UNCHANGED <<sshVars, entry, block, sftp, checked, blind, completed>>

CloseSftp == sftp' = FALSE

Syncs == block \in {"first", "last"}

\* sync(), the folder of set_subfolder(), or the check of install_kernel().
Body ==
    /\ pc = "inside" /\ conn[Mine] = "open" /\ CloseSftp /\ Done
    /\ blind' = (blind \/ (Syncs /\ ~checked))
    /\ completed' = IF Syncs THEN TRUE ELSE completed
    /\ UNCHANGED <<sshVars, entry, checked, refused>>

BodyRaises ==
    /\ pc = "inside" /\ CloseSftp /\ Caught
    /\ blind' = (blind \/ (Syncs /\ ~checked))
    /\ completed' = IF Syncs THEN FALSE ELSE completed
    /\ UNCHANGED <<sshVars, entry, block, checked, refused>>

\* The kernel runs and ends, or something raises.
RunKernel ==
    /\ pc = "kernel"
    /\ \/ Enter("last") /\ UNCHANGED code
       \/ Error /\ UNCHANGED block
    /\ UNCHANGED <<sshVars, entry, session>>

----------------------------------------------------------------------------
(* The end of the entry point                                              *)

CloseClient ==
    /\ pc = "close" /\ Close(Mine) /\ Goto("closing")
    /\ UNCHANGED <<entry, block, code, session>>

\* An exception of close() takes the place of the return value.
Closed ==
    /\ pc = "closing" /\ Idle /\ Goto("drop")
    /\ code' = IF result = "ok" THEN code
               ELSE IF entry = "install" THEN "2" ELSE "1"
    /\ UNCHANGED <<sshVars, entry, block, session>>

\* Mutant: the finalizer does not close.
NoFinalizer == UNCHANGED sftp

Finalize == sftp' = FALSE

\* The synchronizer goes out of scope with the function: __del__().
Drop ==
    /\ pc = "drop" /\ Goto("done") /\ Finalize
    /\ UNCHANGED <<sshVars, entry, block, code, checked, refused, blind, completed>>

\* A caller of the class, who may lend a connected client as a jump host.
Library ==
    /\ entry = "library" /\ UNCHANGED program
    /\ \/ \E k \in Keys, b \in BOOLEAN, r \in Routes :
             \/ Connect(r, k, b)
             \/ \E j \in held : Len(r) = 2 /\ Connect(<<r[1], j, r[2]>>, k, b)
       \/ \E c \in held, t \in Tunnel : OpenTunnel(c, t)
       \/ \E c \in held : Close(c)

Init ==
    /\ SshInit /\ entry \in Entry /\ pc = "off" /\ block = "none" /\ code = "none"
    /\ sftp = FALSE /\ checked = FALSE
    /\ refused = FALSE /\ blind = FALSE /\ completed = FALSE

Step ==
    \/ CallStep /\ UNCHANGED program
    \/ Begin \/ Connected \/ Prepare \/ SetSubfolder
    \/ OpenSession \/ KeepSession \/ SessionFails \/ CheckFolders \/ CheckRaises
    \/ Body \/ BodyRaises \/ RunKernel \/ CloseClient \/ Closed \/ Drop

Next ==
    \/ Step
    \/ Library
    \/ (\E c \in Client : Lose(c)) /\ UNCHANGED program

Spec == Init /\ [][Next]_vars

----------------------------------------------------------------------------
(* Properties                                                              *)

\* Every variable keeps its type, and an entry point holds one client while it
\* is inside the with statement.
TypeOK ==
    /\ SshTypeOK /\ entry \in Entry
    /\ pc \in {"off", "connecting", "prepare", "subfolder", "connect", "check",
               "inside", "kernel", "close", "closing", "drop", "done"}
    /\ block \in {"none", "subfolder", "first", "last", "install"}
    /\ code \in {"none", "0", "1", "2"}
    /\ {sftp, checked, refused, blind, completed} \subseteq BOOLEAN
    /\ pc \in {"close", "closing", "drop", "done"} => code # "none"
    /\ pc \notin {"off", "connecting", "closing", "drop", "done"}
          => Cardinality(held) = 1

\* sync() runs in folders nobody has checked only in a session that an earlier
\* connect() has left behind when its checks raised, which start_kernel()
\* survives and the manual sync does not (sync.py:87-97, start.py:96-100).
BlindOnlyAfterRefusal == blind => entry = "start" /\ refused

\* An entry point that has ended leaves no session, and no connection or tunnel
\* but those a call has raised over: sync.py:75-78, 99-103, start.py:81,
\* install.py:48 and sync.py:33 between them.
EntryReleases ==
    pc = "done" =>
        /\ ~sftp
        /\ \A c \in Client :
              conn[c] = "open" \/ tunnels[c] # {} =>
                  \E d \in failed : c \in Chain(d)

\* The manual sync exits with 0 when sync() has come to its end and the
\* connection was closed, and only then (sync.py:17, 37-44).
ExitCodeOfSync ==
    entry = "sync" /\ pc = "done" => (code = "0" <=> completed /\ result = "ok")
=============================================================================
