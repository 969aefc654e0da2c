----------------------------- MODULE KernelStart ----------------------------
(***************************************************************************)
(* start_kernel() of remote_kernel/start.py: sessions, each a process of   *)
(* its own, that start a kernel on a server, wait for its end and clean    *)
(* up.  The configuration of a kernel is the session it is meant for.      *)
(*                                                                         *)
(* Sessions to the same account share the file remote_kernel.json in its   *)
(* home; sessions to the same user@host, the port left aside, share the    *)
(* file kernel-user@host.json in the local runtime folder.                 *)
(***************************************************************************)
EXTENDS Naturals

CONSTANTS
    Session,
    Home, HomeOf,       \* the account a session logs in to
    Label, LabelOf,     \* its user@host
    Options,            \* the options a session may be started with
    Talking,            \* the sessions whose kernel prints anything
    Faults,             \* what may happen to a session
    Window,             \* how much output the channel takes unread
    Nobody              \* no session

ASSUME ConstantAssumption ==
    /\ HomeOf \in [Session -> Home] /\ LabelOf \in [Session -> Label]
    /\ Options \in [Session -> SUBSET [files : BOOLEAN, sync : BOOLEAN]]
    /\ Talking \subseteq Session /\ Window \in Nat \ {0}
    /\ Faults \subseteq {"interrupt", "kill", "disconnect"}
    /\ Nobody \notin Session

VARIABLES
    remoteFile,     \* whose configuration is in remote_kernel.json
    localFile,      \* whose configuration is in kernel-user@host.json
    pc,             \* where start_kernel() stands
    opts,           \* whether it uses remote files, whether it synchronises
    conn,           \* the connection is up
    jobs,           \* commands the server runs and nobody waits for
    kernel,         \* the kernel of the session
    out,            \* output of the kernel nobody has received yet
    writer,         \* the thread that logs the output
    fname,          \* kernel_fname is not None
    interrupted,    \* history: KeyboardInterrupt has reached the inner try
    code            \* how start_kernel() ends

files == <<remoteFile, localFile>>
server == <<jobs, kernel, out>>
process == <<opts, writer, fname, interrupted>>
vars == <<files, pc, conn, code, server, process>>

Kernel == [state : {"none", "starting", "running", "closing", "exited"},
           config : Session \cup {Nobody}, pty : BOOLEAN, awaited : BOOLEAN]
NoKernel ==
    [state |-> "none", config |-> Nobody, pty |-> FALSE, awaited |-> FALSE]

Goto(s, label) == pc' = [pc EXCEPT ![s] = label]
Return(s, c) == code' = [code EXCEPT ![s] = c]

\* Mutant: an exception is not reported.
Unreported(s) == Goto(s, "close") /\ UNCHANGED code

\* except Exception: the with statement closes, the finally clause follows.
Error(s) == Goto(s, "close") /\ Return(s, "error")

----------------------------------------------------------------------------
(* Up to the start of the kernel.                                          *)

Start(s) ==
    /\ pc[s] = "off" /\ Goto(s, "connect")
    /\ \E o \in Options[s] : opts' = [opts EXCEPT ![s] = o]
    /\ UNCHANGED <<files, conn, code, server, writer, fname, interrupted>>

\* connect_override() and create_forwarding_tunnel().
Connect(s) ==
    /\ pc[s] = "connect"
    /\ \/ /\ conn' = [conn EXCEPT ![s] = TRUE]
          /\ Goto(s, "echo") /\ UNCHANGED code
       \/ Error(s) /\ UNCHANGED conn
    /\ UNCHANGED <<files, server, process>>

\* exec_command() returns when the server has taken the command; it raises
\* when the server refuses the channel or the command.
SendJob(s, job) == jobs' = [jobs EXCEPT ![s] = @ \cup {job}]

WriteRemoteFile(s) ==
    /\ pc[s] = "echo"
    /\ \/ opts[s].files /\ conn[s] /\ SendJob(s, "echo")
          /\ Goto(s, "sync") /\ UNCHANGED code
       \/ opts[s].files /\ Error(s) /\ UNCHANGED jobs
       \/ ~opts[s].files /\ Goto(s, "sync") /\ UNCHANGED <<jobs, code>>
    /\ UNCHANGED <<files, conn, kernel, out, process>>

\* An error in sync() is logged, one in set_subfolder() is not caught.
FirstSync(s) ==
    /\ pc[s] = "sync"
    /\ \/ Goto(s, "launch") /\ UNCHANGED code
       \/ opts[s].sync /\ Error(s)
    /\ UNCHANGED <<files, conn, server, process>>

\* Mutant: the kernel gets no terminal.
Detached ==
    [state |-> "starting", config |-> Nobody, pty |-> FALSE, awaited |-> FALSE]
Launched ==
    [state |-> "starting", config |-> Nobody, pty |-> TRUE, awaited |-> FALSE]

\* open_session(), get_pty() and exec_command(), each of which the server may
\* refuse.
Launch(s) ==
    /\ pc[s] = "launch"
    /\ \/ /\ conn[s] /\ kernel' = [kernel EXCEPT ![s] = Launched]
          /\ Goto(s, "tunnel") /\ UNCHANGED code
       \/ Error(s) /\ UNCHANGED kernel
    /\ UNCHANGED <<files, conn, jobs, out, process>>

----------------------------------------------------------------------------
(* The inner try: tunnel, connection file, the wait for the kernel.        *)

StartTunnel(s) ==
    /\ pc[s] = "tunnel"
    /\ \/ conn[s] /\ Goto(s, "write") /\ UNCHANGED code
       \/ Error(s)
    /\ UNCHANGED <<files, conn, server, process>>

\* Mutant: the thread that reads the output is not started.
NotStarted == "none"
WriterStarted == "alive"

WriteLocalFile(s) ==
    /\ pc[s] = "write" /\ fname' = [fname EXCEPT ![s] = TRUE]
    /\ \/ /\ localFile' = [localFile EXCEPT ![LabelOf[s]] = s]
          /\ \/ /\ writer' = [writer EXCEPT ![s] = WriterStarted]
                /\ Goto(s, "wait") /\ UNCHANGED code
             \/ Error(s) /\ UNCHANGED writer
       \/ Error(s) /\ UNCHANGED <<localFile, writer>>
    /\ UNCHANGED <<remoteFile, conn, server, opts, interrupted>>

\* Mutant: one look at the kernel instead of a loop.
LookOnce(s) == TRUE

\* exit_status_ready(): the status has come, or the channel is closed.
ExitReady(s) == kernel[s].state = "exited" \/ ~conn[s]

Wait(s) ==
    /\ pc[s] = "wait" /\ ExitReady(s) /\ Goto(s, "cleanup")
    /\ UNCHANGED <<files, conn, code, server, process>>

----------------------------------------------------------------------------
(* Cleaning up.                                                            *)

\* Mutant: the remote file stays when the kernel is interrupted.
OnNormalEnd(s) == opts[s].files /\ ~interrupted[s]
MustRemove(s) == opts[s].files

RemoveRemoteFile(s) ==
    /\ pc[s] = "cleanup"
    /\ \/ MustRemove(s) /\ conn[s] /\ SendJob(s, "rm")
          /\ Goto(s, "resync") /\ UNCHANGED code
       \/ MustRemove(s) /\ Error(s) /\ UNCHANGED jobs
       \/ ~MustRemove(s) /\ Goto(s, "resync") /\ UNCHANGED <<jobs, code>>
    /\ UNCHANGED <<files, conn, kernel, out, process>>

\* The second sync(); its errors are logged.
Ending(s) ==
    /\ pc[s] = "resync" /\ Goto(s, "close") /\ Return(s, "ok")
    /\ UNCHANGED <<files, conn, server, process>>

Resync(s) == opts[s].sync /\ conn[s] /\ Ending(s)
LeaveFolders(s) == ~(opts[s].sync /\ conn[s]) /\ Ending(s)

Hang(s) == conn' = [conn EXCEPT ![s] = FALSE]

\* ParamikoClient.__exit__(), which may raise before it has closed anything.
Close(s) ==
    /\ pc[s] = "close" /\ Goto(s, "exists")
    /\ \/ Hang(s) /\ UNCHANGED code
       \/ Return(s, "error") /\ UNCHANGED conn
    /\ UNCHANGED <<files, server, process>>

\* Mutant: the local file is removed only when all went well.
FileToClean(s) ==
    fname[s] /\ localFile[LabelOf[s]] # Nobody /\ code[s] = "ok"
FileToRemove(s) == fname[s] /\ localFile[LabelOf[s]] # Nobody

LookForFile(s) ==
    /\ pc[s] = "exists"
    /\ IF FileToRemove(s) THEN Goto(s, "remove") /\ UNCHANGED conn
                          ELSE Goto(s, "done") /\ Hang(s)
    /\ UNCHANGED <<files, code, server, process>>

\* os.remove() raises when the file has gone since.
RemoveLocalFile(s) ==
    /\ pc[s] = "remove" /\ Goto(s, "done") /\ Hang(s)
    /\ IF localFile[LabelOf[s]] # Nobody
       THEN localFile' = [localFile EXCEPT ![LabelOf[s]] = Nobody]
            /\ UNCHANGED code
       ELSE Return(s, "raised") /\ UNCHANGED localFile
    /\ UNCHANGED <<remoteFile, server, process>>

Run(s) ==
    \/ Connect(s) \/ WriteRemoteFile(s) \/ FirstSync(s) \/ Launch(s)
    \/ StartTunnel(s) \/ WriteLocalFile(s) \/ Wait(s)
    \/ RemoveRemoteFile(s) \/ Resync(s) \/ LeaveFolders(s)
    \/ Close(s) \/ LookForFile(s) \/ RemoveLocalFile(s)

----------------------------------------------------------------------------
(* What may happen to a session.                                           *)

Outside == {"connect", "echo", "sync", "launch", "cleanup", "resync"}
Inside == {"tunnel", "write", "wait"}

\* KeyboardInterrupt is no Exception: only the inner try catches it.
Interrupt(s) ==
    /\ "interrupt" \in Faults /\ pc[s] \in Inside /\ Goto(s, "cleanup")
    /\ interrupted' = [interrupted EXCEPT ![s] = TRUE]
    /\ UNCHANGED <<files, conn, code, server, opts, writer, fname>>

InterruptOutside(s) ==
    /\ "interrupt" \in Faults /\ pc[s] \in Outside
    /\ Goto(s, "close") /\ Return(s, "raised")
    /\ UNCHANGED <<files, conn, server, process>>

\* Inside close() the connection may be down already or still up; the finally
\* clause follows all the same.
InterruptClose(s) ==
    /\ "interrupt" \in Faults /\ pc[s] = "close"
    /\ Goto(s, "exists") /\ Return(s, "raised")
    /\ Hang(s) \/ UNCHANGED conn
    /\ UNCHANGED <<files, server, process>>

\* The process is killed, or interrupted inside the finally clause: nothing
\* else is done.
Kill(s) ==
    /\ \/ "kill" \in Faults /\ pc[s] \notin {"off", "done"}
       \/ "interrupt" \in Faults /\ pc[s] \in {"exists", "remove"}
    /\ Goto(s, "done") /\ Return(s, "cut") /\ Hang(s)
    /\ UNCHANGED <<files, server, process>>

Disconnect(s) ==
    /\ "disconnect" \in Faults /\ conn[s] /\ Hang(s)
    /\ UNCHANGED <<files, pc, code, server, process>>

----------------------------------------------------------------------------
(* The server.                                                             *)

Echo(s) ==
    /\ "echo" \in jobs[s]
    /\ jobs' = [jobs EXCEPT ![s] = @ \ {"echo"}]
    /\ remoteFile' = [remoteFile EXCEPT ![HomeOf[s]] = s]
    /\ UNCHANGED <<localFile, pc, conn, code, kernel, out, process>>

Remove(s) ==
    /\ "rm" \in jobs[s]
    /\ jobs' = [jobs EXCEPT ![s] = @ \ {"rm"}]
    /\ remoteFile' = [remoteFile EXCEPT ![HomeOf[s]] = Nobody]
    /\ UNCHANGED <<localFile, pc, conn, code, kernel, out, process>>

KernelOnly == UNCHANGED <<files, pc, conn, code, jobs, process>>
Becomes(s, state) == kernel' = [kernel EXCEPT ![s].state = state]

\* The kernel takes its configuration from the file, or from its arguments;
\* awaited is a history of whether its session still waited for it then.
KernelStarts(s) ==
    LET c == IF opts[s].files THEN remoteFile[HomeOf[s]] ELSE s
    IN  /\ kernel[s].state = "starting" /\ c # Nobody
        /\ kernel' = [kernel EXCEPT ![s] =
               [state |-> "running", config |-> c, pty |-> kernel[s].pty,
                awaited |-> pc[s] \in Inside]]
        /\ UNCHANGED out /\ KernelOnly

\* No file, or the command before it fails, or a port is in use.
KernelFails(s) ==
    /\ kernel[s].state = "starting" /\ Becomes(s, "exited")
    /\ UNCHANGED out /\ KernelOnly

\* Output the channel has no room for has to wait.
Prints(s) ==
    IF s \in Talking
    THEN out[s] < Window /\ out' = [out EXCEPT ![s] = @ + 1]
    ELSE UNCHANGED out

KernelPrints(s) ==
    /\ s \in Talking /\ kernel[s].state = "running" /\ Prints(s)
    /\ UNCHANGED kernel /\ KernelOnly

\* The user is done with the kernel.
KernelCloses(s) ==
    /\ kernel[s].state = "running" /\ Becomes(s, "closing")
    /\ UNCHANGED out /\ KernelOnly

\* It does not end before it has written its last words.
KernelExits(s) ==
    /\ kernel[s].state = "closing" /\ Prints(s)
    /\ Becomes(s, "exited") /\ KernelOnly

\* A terminal that goes away takes its processes with it.
Hangup(s) ==
    /\ kernel[s].state \in {"starting", "running", "closing"}
    /\ ~conn[s] /\ kernel[s].pty
    /\ Becomes(s, "exited") /\ UNCHANGED out /\ KernelOnly

\* writeall() in its thread.
Receive(s) ==
    /\ writer[s] = "alive" /\ out[s] > 0 /\ conn[s]
    /\ out' = [out EXCEPT ![s] = @ - 1]
    /\ UNCHANGED kernel /\ KernelOnly

\* A chunk that ends inside a character cannot be decoded.
WriterDies(s) ==
    /\ writer[s] = "alive" /\ out[s] > 0 /\ conn[s]
    /\ out' = [out EXCEPT ![s] = @ - 1]
    /\ writer' = [writer EXCEPT ![s] = "dead"]
    /\ UNCHANGED <<files, pc, conn, code, jobs, kernel, opts, fname,
                   interrupted>>

Server(s) ==
    \/ Echo(s) \/ Remove(s) \/ KernelStarts(s) \/ KernelFails(s)
    \/ KernelExits(s) \/ Hangup(s)

Init ==
    /\ remoteFile = [h \in Home |-> Nobody]
    /\ localFile = [l \in Label |-> Nobody]
    /\ pc = [s \in Session |-> "off"]
    /\ opts = [s \in Session |-> [files |-> FALSE, sync |-> FALSE]]
    /\ conn = [s \in Session |-> FALSE] /\ jobs = [s \in Session |-> {}]
    /\ kernel = [s \in Session |-> NoKernel] /\ out = [s \in Session |-> 0]
    /\ writer = [s \in Session |-> "none"] /\ fname = [s \in Session |-> FALSE]
    /\ interrupted = [s \in Session |-> FALSE]
    /\ code = [s \in Session |-> "none"]

Step(s) ==
    \/ Start(s) \/ Run(s) \/ Server(s) \/ KernelPrints(s) \/ KernelCloses(s)
    \/ Receive(s) \/ WriterDies(s)
    \/ Interrupt(s) \/ InterruptOutside(s) \/ InterruptClose(s)
    \/ Kill(s) \/ Disconnect(s)

Next == \E s \in Session : Step(s)

\* A process goes on, the server does what it has taken on, and the thread
\* reads what has come.  Nobody has to start or to end a session.
Fairness ==
    \A s \in Session :
        WF_vars(Run(s)) /\ WF_vars(Server(s)) /\ WF_vars(Receive(s))

Spec == Init /\ [][Next]_vars /\ Fairness

----------------------------------------------------------------------------
(* Properties.                                                             *)

Early == {"off", "connect", "echo", "sync", "launch", "tunnel", "write",
          "wait", "cleanup", "resync"}
Late == {"close", "exists", "remove", "done"}

Types ==
    /\ remoteFile \in [Home -> Session \cup {Nobody}]
    /\ localFile \in [Label -> Session \cup {Nobody}]
    /\ pc \in [Session -> Early \cup Late]
    /\ opts \in [Session -> [files : BOOLEAN, sync : BOOLEAN]]
    /\ conn \in [Session -> BOOLEAN]
    /\ jobs \in [Session -> SUBSET {"echo", "rm"}]
    /\ kernel \in [Session -> Kernel] /\ out \in [Session -> 0..Window]
    /\ writer \in [Session -> {"none", "alive", "dead"}]
    /\ fname \in [Session -> BOOLEAN] /\ interrupted \in [Session -> BOOLEAN]
    /\ code \in [Session -> {"none", "ok", "error", "raised", "cut"}]

Decided == \A s \in Session : code[s] = "none" <=> pc[s] \in Early

\* Every variable keeps its type, and from the moment start_kernel() is on
\* its way out it is decided how it ends (start.py:157-163).
TypeOK == Types /\ Decided

\* Whatever happens to a session short of being killed, or interrupted inside
\* the finally clause itself, and whatever other sessions do with the file
\* they share, it does not leave its connection file in the runtime folder
\* (start.py:161-163).
NoLocalLeftover ==
    \A s \in Session :
        pc[s] = "done" /\ code[s] # "cut" => localFile[LabelOf[s]] # s

\* A session that returns 0, also after an interrupt, does not leave the
\* configuration its kernel was started with in remote_kernel.json once the
\* server has run its commands, though nobody waits for them (start.py:88,
\* 148).
NoRemoteLeftover ==
    \A s \in Session :
        /\ code[s] = "ok" /\ jobs[s] = {} /\ opts[s].files
        /\ kernel[s].config = s /\ kernel[s].awaited
        => remoteFile[HomeOf[s]] # s

\* The second sync() sees all that the kernel has left: it begins when the
\* kernel is over, unless the user interrupted it (start.py:141-153).
SyncsAfterKernel ==
    [][\A s \in Session :
          Resync(s) => kernel[s].state = "exited" \/ interrupted[s]]_vars

\* However a session ends, its kernel ends too (start.py:113).
NoOrphans ==
    \A s \in Session :
        pc[s] = "done" ~> kernel[s].state \in {"none", "exited"}

\* A kernel that is shut down brings its session to an end, however much it
\* prints, as long as the thread that reads its output lives
\* (start.py:129-142).
EndsWithKernel ==
    \A s \in Session :
        [](writer[s] # "dead") =>
            (kernel[s].state = "closing" ~> pc[s] = "done")

\* "Remote Kernel started. To connect another client to this kernel, use
\* --existing" (start.py:126-127): as long as the session lasts, that file
\* leads to its kernel.
Existing ==
    \A s \in Session : pc[s] = "wait" => localFile[LabelOf[s]] = s

\* The connection file of a session configures its kernel (__init__.py:63).
Configured ==
    \A s \in Session : kernel[s].state = "running" => kernel[s].config = s
=============================================================================
