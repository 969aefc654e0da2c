-------------------------- MODULE KernelStartProofs -------------------------
(***************************************************************************)
(* Proofs about start_kernel(): its variables keep their types, and what   *)
(* a session leaves behind on either machine, for any number of sessions   *)
(* of any accounts and whatever happens to them.                           *)
(***************************************************************************)
EXTENDS KernelStart, TLAPS

----------------------------------------------------------------------------
(* Types.                                                                  *)

LEMMA TypeInit == Init => TypeOK
<1> SUFFICES ASSUME Init PROVE TypeOK
  OBVIOUS
<1>1. Types
  BY ConstantAssumption DEF Init, Types, ConstantAssumption, Kernel,
     NoKernel, Early, Late
<1>2. Decided
  BY DEF Init, Decided, Early
<1> QED
  BY <1>1, <1>2 DEF TypeOK

LEMMA LaunchedType == Launched \in Kernel
  BY DEF Launched, Kernel

\* The steps of a session's own process keep the types.
LEMMA TypesRun ==
    ASSUME Types, NEW s \in Session, Run(s)
    PROVE  Types'
<1> USE DEF Early, Late, files, server, process, Goto, Return, Error, Hang
<1>1. CASE Connect(s) \/ FirstSync(s) \/ StartTunnel(s) \/ Wait(s)
  <2>1. CASE Connect(s)
    BY <2>1 DEF Types, Connect
  <2>2. CASE FirstSync(s)
    BY <2>2 DEF Types, FirstSync
  <2>3. CASE StartTunnel(s)
    BY <2>3 DEF Types, StartTunnel
  <2>4. CASE Wait(s)
    BY <2>4 DEF Types, Wait
  <2> QED
    BY <1>1, <2>1, <2>2, <2>3, <2>4
<1>2. CASE WriteRemoteFile(s)
  <2>1. jobs[s] \cup {"echo"} \in SUBSET {"echo", "rm"}
    BY DEF Types
  <2>2. jobs' \in [Session -> SUBSET {"echo", "rm"}]
    BY <1>2, <2>1 DEF Types, WriteRemoteFile, SendJob
  <2> QED
    BY <1>2, <2>2 DEF Types, WriteRemoteFile
<1>3. CASE Launch(s)
  <2>1. kernel' \in [Session -> Kernel]
    BY <1>3, LaunchedType DEF Types, Launch
  <2> QED
    BY <1>3, <2>1 DEF Types, Launch
<1>4. CASE WriteLocalFile(s)
  <2>1. localFile' \in [Label -> Session \cup {Nobody}]
    BY <1>4 DEF Types, WriteLocalFile
  <2> QED
    BY <1>4, <2>1 DEF Types, WriteLocalFile, WriterStarted
<1>5. CASE RemoveRemoteFile(s)
  <2>1. jobs[s] \cup {"rm"} \in SUBSET {"echo", "rm"}
    BY DEF Types
  <2>2. jobs' \in [Session -> SUBSET {"echo", "rm"}]
    BY <1>5, <2>1 DEF Types, RemoveRemoteFile, SendJob
  <2> QED
    BY <1>5, <2>2 DEF Types, RemoveRemoteFile
<1>6. CASE Resync(s) \/ LeaveFolders(s)
  BY <1>6 DEF Types, Resync, LeaveFolders, Ending
<1>7. CASE Close(s)
  BY <1>7 DEF Types, Close
<1>8. CASE LookForFile(s)
  BY <1>8 DEF Types, LookForFile
<1>9. CASE RemoveLocalFile(s)
  <2>1. localFile' \in [Label -> Session \cup {Nobody}]
    BY <1>9 DEF Types, RemoveLocalFile
  <2> QED
    BY <1>9, <2>1 DEF Types, RemoveLocalFile
<1> QED
  BY <1>1, <1>2, <1>3, <1>4, <1>5, <1>6, <1>7, <1>8, <1>9 DEF Run

\* So do those of the server, the kernel and the thread.
LEMMA TypesServer ==
    ASSUME Types, NEW s \in Session,
           Server(s) \/ KernelPrints(s) \/ KernelCloses(s) \/ Receive(s)
           \/ WriterDies(s)
    PROVE  Types'
<1> USE DEF files, server, process, KernelOnly
<1>1. CASE Echo(s) \/ Remove(s)
  <2>1. jobs' \in [Session -> SUBSET {"echo", "rm"}]
    <3>1. jobs[s] \ {"echo"} \in SUBSET {"echo", "rm"}
          /\ jobs[s] \ {"rm"} \in SUBSET {"echo", "rm"}
      BY DEF Types
    <3> QED
      BY <1>1, <3>1 DEF Types, Echo, Remove
  <2>2. remoteFile' \in [Home -> Session \cup {Nobody}]
    BY <1>1 DEF Types, Echo, Remove
  <2> QED
    BY <1>1, <2>1, <2>2 DEF Types, Echo, Remove
<1>2. CASE KernelStarts(s)
  <2> DEFINE c == IF opts[s].files THEN remoteFile[HomeOf[s]] ELSE s
  <2>1. c \in Session
    BY <1>2, ConstantAssumption DEF Types, KernelStarts, ConstantAssumption
  <2>2. kernel[s] \in Kernel
    BY DEF Types
  <2> DEFINE k == [state |-> "running", config |-> c, pty |-> kernel[s].pty,
                   awaited |-> pc[s] \in Inside]
  <2>3. k \in Kernel
    BY <2>1, <2>2 DEF Kernel
  <2>4. kernel' = [kernel EXCEPT ![s] = k]
    BY <1>2 DEF KernelStarts
  <2>5. kernel' \in [Session -> Kernel]
    BY <2>3, <2>4 DEF Types
  <2> QED
    BY <1>2, <2>5 DEF Types, KernelStarts
<1>3. ASSUME NEW state \in {"none", "starting", "running", "closing",
                            "exited"},
             Becomes(s, state)
      PROVE  kernel' \in [Session -> Kernel]
  <2>1. kernel[s] \in Kernel
    BY DEF Types
  <2>2. [kernel[s] EXCEPT !.state = state] \in Kernel
    BY <2>1 DEF Kernel
  <2> QED
    BY <1>3, <2>2 DEF Becomes, Types
<1>4. CASE KernelFails(s) \/ KernelCloses(s) \/ Hangup(s)
  BY <1>3, <1>4 DEF Types, KernelFails, KernelCloses, Hangup
<1>5. CASE KernelExits(s) \/ KernelPrints(s)
  <2>1. kernel' \in [Session -> Kernel]
    BY <1>3, <1>5 DEF Types, KernelExits, KernelPrints
  <2>2. out' \in [Session -> 0..Window]
    BY <1>5, ConstantAssumption
       DEF Types, KernelExits, KernelPrints, Prints, ConstantAssumption
  <2> QED
    BY <1>5, <2>1, <2>2 DEF Types, KernelExits, KernelPrints
<1>6. CASE Receive(s) \/ WriterDies(s)
  <2>1. out' \in [Session -> 0..Window]
    BY <1>6, ConstantAssumption
       DEF Types, Receive, WriterDies, ConstantAssumption
  <2> QED
    BY <1>6, <2>1 DEF Types, Receive, WriterDies
<1> QED
  BY <1>1, <1>2, <1>4, <1>5, <1>6 DEF Server

\* And what happens to a session from outside.
LEMMA TypesOutside ==
    ASSUME Types, NEW s \in Session,
           Start(s) \/ Interrupt(s) \/ InterruptOutside(s) \/ InterruptClose(s)
           \/ Kill(s) \/ Disconnect(s)
    PROVE  Types'
<1> USE DEF Early, Late, files, server, process, Goto, Return, Hang
<1>1. CASE Start(s)
  <2>1. opts' \in [Session -> [files : BOOLEAN, sync : BOOLEAN]]
    <3>1. PICK o \in Options[s] : opts' = [opts EXCEPT ![s] = o]
      BY <1>1 DEF Start
    <3>2. Options[s] \in SUBSET [files : BOOLEAN, sync : BOOLEAN]
      BY ConstantAssumption DEF ConstantAssumption
    <3>3. o \in [files : BOOLEAN, sync : BOOLEAN]
      BY <3>2
    <3>4. opts \in [Session -> [files : BOOLEAN, sync : BOOLEAN]]
      BY DEF Types
    <3> QED
      BY <3>1, <3>3, <3>4
  <2> QED
    BY <1>1, <2>1 DEF Types, Start
<1>2. CASE Interrupt(s) \/ InterruptOutside(s) \/ InterruptClose(s)
  BY <1>2 DEF Types, Interrupt, InterruptOutside, InterruptClose
<1>3. CASE Kill(s) \/ Disconnect(s)
  BY <1>3 DEF Types, Kill, Disconnect
<1> QED
  BY <1>1, <1>2, <1>3

\* Nobody leaves, or moves about outside, without the code that goes with it.
LEMMA DecidedStep ==
    ASSUME Types, Decided, NEW s \in Session, Step(s)
    PROVE  Decided'
<1> USE DEF Early, Late, files, server, process, Goto, Return, Error, Hang
<1>1. CASE Connect(s) \/ FirstSync(s) \/ StartTunnel(s) \/ Wait(s)
  BY <1>1 DEF Types, Decided, Connect, FirstSync, StartTunnel, Wait
<1>2. CASE WriteRemoteFile(s) \/ Launch(s)
  BY <1>2 DEF Types, Decided, WriteRemoteFile, Launch
<1>3. CASE WriteLocalFile(s) \/ RemoveRemoteFile(s)
  BY <1>3 DEF Types, Decided, WriteLocalFile, RemoveRemoteFile
<1>4. CASE Resync(s) \/ LeaveFolders(s)
  BY <1>4 DEF Types, Decided, Resync, LeaveFolders, Ending
<1>5. CASE Close(s) \/ LookForFile(s) \/ RemoveLocalFile(s)
  BY <1>5 DEF Types, Decided, Close, LookForFile, RemoveLocalFile
<1>6. CASE \/ Start(s) \/ Interrupt(s) \/ InterruptOutside(s)
           \/ InterruptClose(s) \/ Kill(s)
  BY <1>6 DEF Types, Decided, Start, Interrupt, InterruptOutside,
     InterruptClose, Kill, Inside, Outside
<1>7. CASE UNCHANGED <<pc, code>>
  BY <1>7 DEF Decided
<1>8. Server(s) \/ KernelPrints(s) \/ KernelCloses(s) \/ Receive(s)
      \/ WriterDies(s) \/ Disconnect(s) => UNCHANGED <<pc, code>>
  BY DEF Server, Echo, Remove, KernelStarts, KernelFails, KernelExits, Hangup,
     KernelPrints, KernelCloses, Receive, WriterDies, Disconnect, KernelOnly
<1> QED
  BY <1>1, <1>2, <1>3, <1>4, <1>5, <1>6, <1>7, <1>8 DEF Step, Run

LEMMA TypeStep == TypeOK /\ [Next]_vars => TypeOK'
<1> SUFFICES ASSUME TypeOK, [Next]_vars PROVE TypeOK'
  OBVIOUS
<1>1. CASE Next
  <2>1. PICK s \in Session : Step(s)
    BY <1>1 DEF Next
  <2>2. Types'
    BY <2>1, TypesRun, TypesServer, TypesOutside DEF Step, TypeOK
  <2>3. Decided'
    BY <2>1, DecidedStep DEF TypeOK
  <2> QED
    BY <2>2, <2>3 DEF TypeOK
<1>2. CASE UNCHANGED vars
  BY <1>2 DEF vars, files, server, process, TypeOK, Types, Decided
<1> QED
  BY <1>1, <1>2

\* start_kernel() keeps the types of its variables, and on its way out it is
\* decided how it ends (start.py:68-163).
THEOREM TypeCorrect == Spec => []TypeOK
  BY TypeInit, TypeStep, PTL DEF Spec

----------------------------------------------------------------------------
(* The connection file on the local machine.                               *)

\* While a session's configuration is in the local file, the session has
\* written it and not yet looked for it, or was cut off.
LocalInv ==
    \A s \in Session :
        localFile[LabelOf[s]] = s =>
            /\ fname[s]
            /\ \/ pc[s] \in {"wait", "cleanup", "resync", "close", "exists",
                            "remove"}
               \/ pc[s] = "done" /\ code[s] = "cut"

\* The steps that change the file, fname, pc or code of a session.
LEMMA LocalStep ==
    ASSUME Types, LocalInv, NEW s \in Session, Step(s)
    PROVE  LocalInv'
<1> USE ConstantAssumption DEF ConstantAssumption, files, server, process,
        Goto, Return, Error, Hang
<1>1. CASE Connect(s) \/ FirstSync(s) \/ StartTunnel(s)
  BY <1>1 DEF Types, LocalInv, Connect, FirstSync, StartTunnel
<1>2. CASE WriteRemoteFile(s) \/ Launch(s)
  BY <1>2 DEF Types, LocalInv, WriteRemoteFile, Launch
<1>3. CASE WriteLocalFile(s)
  BY <1>3 DEF Types, LocalInv, WriteLocalFile
<1>4. CASE Wait(s) \/ RemoveRemoteFile(s)
  BY <1>4 DEF Types, LocalInv, Wait, RemoveRemoteFile
<1>5. CASE Resync(s) \/ LeaveFolders(s)
  BY <1>5 DEF Types, LocalInv, Resync, LeaveFolders, Ending
<1>6. CASE Close(s)
  BY <1>6 DEF Types, LocalInv, Close
<1>7. CASE LookForFile(s)
  BY <1>7 DEF Types, LocalInv, LookForFile, FileToRemove
<1>8. CASE RemoveLocalFile(s)
  BY <1>8 DEF Types, LocalInv, RemoveLocalFile
<1>9. CASE \/ Start(s) \/ Interrupt(s) \/ InterruptOutside(s)
           \/ InterruptClose(s)
  <2>1. CASE Start(s)
    BY <2>1 DEF Types, LocalInv, Start
  <2>2. CASE Interrupt(s)
    BY <2>2 DEF Types, LocalInv, Interrupt, Inside
  <2>3. CASE InterruptOutside(s)
    BY <2>3 DEF Types, LocalInv, InterruptOutside, Outside
  <2>4. CASE InterruptClose(s)
    BY <2>4 DEF Types, LocalInv, InterruptClose
  <2> QED
    BY <1>9, <2>1, <2>2, <2>3, <2>4
<1>10. CASE Kill(s)
  BY <1>10 DEF Types, LocalInv, Kill
<1>11. CASE UNCHANGED <<localFile, pc, fname, code>>
  BY <1>11 DEF LocalInv
<1>12. Server(s) \/ KernelPrints(s) \/ KernelCloses(s) \/ Receive(s)
       \/ WriterDies(s) \/ Disconnect(s)
       => UNCHANGED <<localFile, pc, fname, code>>
  BY DEF Server, Echo, Remove, KernelStarts, KernelFails, KernelExits, Hangup,
     KernelPrints, KernelCloses, Receive, WriterDies, Disconnect, KernelOnly
<1> QED
  BY <1>1, <1>2, <1>3, <1>4, <1>5, <1>6, <1>7, <1>8, <1>9, <1>10, <1>11,
     <1>12 DEF Step, Run

LEMMA LocalInit == Init => LocalInv
  BY ConstantAssumption DEF Init, LocalInv, ConstantAssumption

LEMMA LocalNext == TypeOK /\ LocalInv /\ [Next]_vars => LocalInv'
<1> SUFFICES ASSUME TypeOK, LocalInv, [Next]_vars PROVE LocalInv'
  OBVIOUS
<1>1. CASE Next
  BY <1>1, LocalStep DEF Next, TypeOK
<1>2. CASE UNCHANGED vars
  BY <1>2 DEF vars, files, process, LocalInv
<1> QED
  BY <1>1, <1>2

LEMMA LocalImplies == LocalInv => NoLocalLeftover
  BY DEF LocalInv, NoLocalLeftover

\* A session that is not killed, or interrupted inside its finally clause,
\* leaves no connection file of its own behind, however many sessions write
\* and remove the same file (start.py:161-163).
THEOREM LocalFileRemoved == Spec => []NoLocalLeftover
  BY TypeInit, TypeStep, LocalInit, LocalNext, LocalImplies, PTL DEF Spec

----------------------------------------------------------------------------
(* The configuration file on the server.                                   *)

Before == {"off", "connect", "echo"}

\* The command that writes the file is given once, on the way to the kernel,
\* and it has run when the file holds the session's configuration; a kernel
\* that has read that configuration has read it after the command.
EchoInv ==
    \A s \in Session :
        /\ pc[s] \in Before \cup {"sync", "launch"} => kernel[s] = NoKernel
        /\ "echo" \in jobs[s] => pc[s] \notin Before
        /\ remoteFile[HomeOf[s]] = s =>
              "echo" \notin jobs[s] /\ pc[s] \notin Before
        /\ opts[s].files /\ kernel[s].config = s => "echo" \notin jobs[s]

\* From there on, a session that has come past the command that removes the
\* file has the file gone, or the command still on its way.
RemoveInv ==
    \A s \in Session :
        /\ opts[s].files /\ kernel[s].config = s /\ kernel[s].awaited
        /\ pc[s] = "resync" \/ code[s] = "ok"
        => "rm" \in jobs[s] \/ remoteFile[HomeOf[s]] # s

LEMMA EchoStep ==
    ASSUME Types, EchoInv, NEW s \in Session, Step(s)
    PROVE  EchoInv'
<1> USE ConstantAssumption DEF ConstantAssumption, files, server, process,
        Goto, Return, Error, Hang, Before
<1>1. CASE Connect(s) \/ FirstSync(s) \/ StartTunnel(s) \/ Wait(s)
  BY <1>1 DEF Types, EchoInv, Connect, FirstSync, StartTunnel, Wait
<1>2. CASE WriteRemoteFile(s)
  BY <1>2 DEF Types, EchoInv, WriteRemoteFile, SendJob, NoKernel
<1>3. CASE Launch(s)
  BY <1>3 DEF Types, EchoInv, Launch, Launched
<1>4. CASE WriteLocalFile(s)
  BY <1>4 DEF Types, EchoInv, WriteLocalFile
<1>5. CASE RemoveRemoteFile(s)
  BY <1>5 DEF Types, EchoInv, RemoveRemoteFile, SendJob
<1>6. CASE Resync(s) \/ LeaveFolders(s)
  BY <1>6 DEF Types, EchoInv, Resync, LeaveFolders, Ending
<1>7. CASE Close(s) \/ LookForFile(s) \/ RemoveLocalFile(s)
  BY <1>7 DEF Types, EchoInv, Close, LookForFile, RemoveLocalFile
<1>8. CASE Start(s)
  BY <1>8 DEF Types, EchoInv, Start, NoKernel
<1>9. CASE Interrupt(s) \/ InterruptOutside(s) \/ InterruptClose(s)
  BY <1>9 DEF Types, EchoInv, Interrupt, InterruptOutside, InterruptClose,
     Inside, Outside
<1>10. CASE Kill(s) \/ Disconnect(s)
  BY <1>10 DEF Types, EchoInv, Kill, Disconnect
<1>11. CASE Echo(s)
  BY <1>11 DEF Types, EchoInv, Echo
<1>12. CASE Remove(s)
  BY <1>12 DEF Types, EchoInv, Remove
<1>13. CASE KernelStarts(s)
  <2>1. UNCHANGED <<remoteFile, pc, jobs, opts>>
    BY <1>13 DEF KernelStarts, KernelOnly
  <2>2. \A t \in Session \ {s} : kernel'[t] = kernel[t]
    BY <1>13 DEF KernelStarts, Types
  <2>3. pc[s] \notin Before \cup {"sync", "launch"}
    BY <1>13 DEF KernelStarts, EchoInv, NoKernel
  <2>4. opts[s].files /\ kernel'[s].config = s => remoteFile[HomeOf[s]] = s
    BY <1>13 DEF KernelStarts, Types
  <2> QED
    BY <2>1, <2>2, <2>3, <2>4 DEF EchoInv
<1>14. CASE KernelFails(s) \/ KernelExits(s) \/ Hangup(s) \/ KernelCloses(s)
  <2>1. kernel[s].state # "none" /\ kernel[s] \in Kernel
    BY <1>14 DEF Types, KernelFails, KernelExits, Hangup, KernelCloses
  <2>2. PICK state \in {"closing", "exited"} : Becomes(s, state)
    BY <1>14 DEF KernelFails, KernelExits, Hangup, KernelCloses
  <2>3. kernel'[s].config = kernel[s].config
    BY <2>1, <2>2 DEF Becomes, Types, Kernel
  <2>4. UNCHANGED <<remoteFile, pc, jobs, opts>>
    BY <1>14 DEF KernelFails, KernelExits, Hangup, KernelCloses, KernelOnly
  <2>5. \A t \in Session \ {s} : kernel'[t] = kernel[t]
    BY <2>2 DEF Becomes, Types
  <2>6. pc[s] \notin Before \cup {"sync", "launch"}
    BY <2>1 DEF EchoInv, NoKernel
  <2> QED
    BY <2>3, <2>4, <2>5, <2>6 DEF EchoInv
<1>15. CASE KernelPrints(s) \/ Receive(s) \/ WriterDies(s)
  BY <1>15 DEF EchoInv, KernelPrints, Receive, WriterDies, KernelOnly
<1> QED
  BY <1>1, <1>2, <1>3, <1>4, <1>5, <1>6, <1>7, <1>8, <1>9, <1>10, <1>11,
     <1>12, <1>13, <1>14, <1>15 DEF Step, Run, Server

LEMMA RemoveStep ==
    ASSUME Types, Decided, EchoInv, RemoveInv, NEW s \in Session, Step(s)
    PROVE  RemoveInv'
<1> USE ConstantAssumption DEF ConstantAssumption, files, server, process,
        Goto, Return, Error, Hang
<1>1. CASE Connect(s) \/ FirstSync(s) \/ StartTunnel(s) \/ Wait(s)
  BY <1>1 DEF Types, RemoveInv, Connect, FirstSync, StartTunnel, Wait
<1>2. CASE WriteRemoteFile(s)
  BY <1>2 DEF Types, RemoveInv, WriteRemoteFile, SendJob
<1>3. CASE Launch(s)
  BY <1>3 DEF Types, RemoveInv, Launch, Launched
<1>4. CASE WriteLocalFile(s)
  BY <1>4 DEF Types, RemoveInv, WriteLocalFile
<1>5. CASE RemoveRemoteFile(s)
  BY <1>5 DEF Types, RemoveInv, RemoveRemoteFile, MustRemove, SendJob
<1>6. CASE Resync(s) \/ LeaveFolders(s)
  BY <1>6 DEF Types, RemoveInv, Resync, LeaveFolders, Ending
<1>7. CASE Close(s) \/ LookForFile(s) \/ RemoveLocalFile(s)
  BY <1>7 DEF Types, RemoveInv, Close, LookForFile, RemoveLocalFile
<1>8. CASE Start(s)
  BY <1>8 DEF Types, EchoInv, RemoveInv, Start, NoKernel, Before
<1>9. CASE Interrupt(s) \/ InterruptOutside(s) \/ InterruptClose(s)
  BY <1>9 DEF Types, RemoveInv, Interrupt, InterruptOutside, InterruptClose
<1>10. CASE Kill(s) \/ Disconnect(s)
  BY <1>10 DEF Types, RemoveInv, Kill, Disconnect
<1>11. CASE Echo(s)
  BY <1>11 DEF Types, EchoInv, RemoveInv, Echo
<1>12. CASE Remove(s)
  BY <1>12 DEF Types, RemoveInv, Remove
<1>13. CASE KernelStarts(s)
  <2>1. kernel'[s].awaited => pc[s] # "resync" /\ code[s] = "none"
    BY <1>13 DEF KernelStarts, Types, Decided, Inside, Early
  <2> QED
    BY <1>13, <2>1 DEF Types, RemoveInv, KernelStarts, KernelOnly
<1>14. CASE KernelFails(s) \/ KernelExits(s) \/ Hangup(s) \/ KernelCloses(s)
  <2>1. kernel[s] \in Kernel
    BY DEF Types
  <2>2. PICK state \in {"closing", "exited"} : Becomes(s, state)
    BY <1>14 DEF KernelFails, KernelExits, Hangup, KernelCloses
  <2>3. /\ kernel'[s].config = kernel[s].config
        /\ kernel'[s].awaited = kernel[s].awaited
    BY <2>1, <2>2 DEF Becomes, Types, Kernel
  <2> QED
    BY <1>14, <2>2, <2>3
       DEF Types, RemoveInv, KernelFails, KernelExits, Hangup, KernelCloses,
           KernelOnly, Becomes
<1>15. CASE KernelPrints(s) \/ Receive(s) \/ WriterDies(s)
  BY <1>15 DEF RemoveInv, KernelPrints, Receive, WriterDies, KernelOnly
<1> QED
  BY <1>1, <1>2, <1>3, <1>4, <1>5, <1>6, <1>7, <1>8, <1>9, <1>10, <1>11,
     <1>12, <1>13, <1>14, <1>15 DEF Step, Run, Server

RemoteInv == EchoInv /\ RemoveInv

LEMMA RemoteInit == Init => RemoteInv
  BY ConstantAssumption DEF Init, RemoteInv, EchoInv, RemoveInv,
     ConstantAssumption, NoKernel, Before

LEMMA RemoteNext == TypeOK /\ RemoteInv /\ [Next]_vars => RemoteInv'
<1> SUFFICES ASSUME TypeOK, RemoteInv, [Next]_vars PROVE RemoteInv'
  OBVIOUS
<1>1. CASE Next
  BY <1>1, EchoStep, RemoveStep DEF Next, TypeOK, RemoteInv
<1>2. CASE UNCHANGED vars
  BY <1>2 DEF vars, files, server, process, RemoteInv, EchoInv, RemoveInv
<1> QED
  BY <1>1, <1>2

LEMMA RemoteImplies == RemoteInv => NoRemoteLeftover
  BY DEF RemoteInv, RemoveInv, NoRemoteLeftover

\* A session that returns 0 has the configuration its kernel was started with
\* removed from the server, although neither command is waited for and other
\* sessions write and remove the same file (start.py:88, 148).
THEOREM RemoteFileRemoved == Spec => []NoRemoteLeftover
  BY TypeInit, TypeStep, RemoteInit, RemoteNext, RemoteImplies, PTL DEF Spec

----------------------------------------------------------------------------
(* The second sync().                                                      *)

\* A session that cleans up with its connection up has seen its kernel end, or
\* has been interrupted.
AfterInv ==
    \A s \in Session :
        pc[s] \in {"cleanup", "resync"} /\ conn[s]
        => kernel[s].state = "exited" \/ interrupted[s]

\* No step brings a connection or a kernel back.
LEMMA AfterStep ==
    ASSUME Types, AfterInv, NEW s \in Session, Step(s)
    PROVE  AfterInv'
<1> USE DEF files, server, process, Goto, Return, Error, Hang
<1>1. CASE Connect(s) \/ FirstSync(s) \/ StartTunnel(s)
  BY <1>1 DEF Types, AfterInv, Connect, FirstSync, StartTunnel
<1>2. CASE Wait(s)
  BY <1>2 DEF Types, AfterInv, Wait, ExitReady
<1>3. CASE WriteRemoteFile(s) \/ Launch(s) \/ WriteLocalFile(s)
  BY <1>3 DEF Types, AfterInv, WriteRemoteFile, Launch, WriteLocalFile
<1>4. CASE RemoveRemoteFile(s)
  BY <1>4 DEF Types, AfterInv, RemoveRemoteFile
<1>5. CASE Resync(s) \/ LeaveFolders(s)
  BY <1>5 DEF Types, AfterInv, Resync, LeaveFolders, Ending
<1>6. CASE Close(s) \/ LookForFile(s) \/ RemoveLocalFile(s)
  BY <1>6 DEF Types, AfterInv, Close, LookForFile, RemoveLocalFile
<1>7. CASE Start(s) \/ InterruptOutside(s) \/ InterruptClose(s) \/ Kill(s)
  BY <1>7 DEF Types, AfterInv, Start, InterruptOutside, InterruptClose, Kill
<1>8. CASE Interrupt(s)
  BY <1>8 DEF Types, AfterInv, Interrupt
<1>9. CASE Disconnect(s)
  BY <1>9 DEF Types, AfterInv, Disconnect
<1>10. CASE KernelStarts(s)
  <2>1. kernel[s].state = "starting" /\ UNCHANGED <<pc, conn, interrupted>>
        /\ \A t \in Session \ {s} : kernel'[t] = kernel[t]
    BY <1>10 DEF Types, KernelStarts, KernelOnly
  <2>2. QED
    BY <2>1 DEF AfterInv
<1>11. CASE KernelFails(s) \/ KernelExits(s) \/ Hangup(s) \/ KernelCloses(s)
  <2>1. /\ kernel[s].state # "exited" /\ UNCHANGED <<pc, conn, interrupted>>
        /\ \E state : Becomes(s, state)
    BY <1>11 DEF KernelFails, KernelExits, Hangup, KernelCloses, KernelOnly
  <2>2. \A t \in Session \ {s} : kernel'[t] = kernel[t]
    BY <2>1 DEF Becomes, Types
  <2>3. QED
    BY <2>1, <2>2 DEF AfterInv
<1>12. CASE Echo(s) \/ Remove(s) \/ KernelPrints(s) \/ Receive(s) \/ WriterDies(s)
  BY <1>12 DEF AfterInv, Echo, Remove, KernelPrints, Receive, WriterDies, KernelOnly
<1> QED
  BY <1>1, <1>2, <1>3, <1>4, <1>5, <1>6, <1>7, <1>8, <1>9, <1>10, <1>11, <1>12
  DEF Step, Run, Server

\* The second sync() sees all that the kernel has left: it begins when the
\* kernel is over, unless the user interrupted it; a connection that is lost
\* while the session waits ends the wait, but then nothing is synchronised
\* (start.py:141-153).
THEOREM SecondSyncIsLate == Spec => SyncsAfterKernel
<1>1. Init => AfterInv
  BY DEF Init, AfterInv
<1>2. TypeOK /\ AfterInv /\ [Next]_vars => AfterInv'
  <2> SUFFICES ASSUME TypeOK, AfterInv, [Next]_vars PROVE AfterInv'
    OBVIOUS
  <2>1. CASE Next
    BY <2>1, AfterStep DEF Next, TypeOK
  <2>2. CASE UNCHANGED vars
    BY <2>2 DEF vars, server, process, AfterInv
  <2> QED
    BY <2>1, <2>2
<1>3. AfterInv => [\A s \in Session :
                     Resync(s) => kernel[s].state = "exited" \/ interrupted[s]]_vars
  BY DEF AfterInv, Resync, Ending
<1>4. QED
  BY <1>1, <1>2, <1>3, TypeInit, TypeStep, PTL DEF Spec, SyncsAfterKernel
=============================================================================
