------------------------- MODULE SyncSessionProofs --------------------------
(***************************************************************************)
(* Theorems about SyncSession, for any number of clients, routes, keys and *)
(* tunnels.                                                                *)
(***************************************************************************)
EXTENDS SshClientProofs

Ends == {"close", "closing", "drop", "done"}

----------------------------------------------------------------------------
(* Where sync() runs without a check of the folders.                       *)

\* Each entry point has its own with statements.
BlockInv ==
    /\ entry \in {"sync", "start", "install", "library"}
    /\ entry = "library" => pc = "off" /\ ~blind
    /\ entry = "install" =>
          /\ pc \in {"connect", "check", "inside"} => block = "install"
          /\ pc \notin {"subfolder", "kernel"} /\ ~blind
    /\ entry = "sync" => pc \notin {"prepare", "kernel"} /\ block # "last"
    /\ block = "install" => entry = "install" \/ pc \notin {"connect", "check", "inside"}
    /\ entry \in {"sync", "start"} /\ pc \in {"connect", "check", "inside"} =>
          block \in {"subfolder", "first", "last"}

\* A session that is there before connect() was left behind by its checks, and
\* the manual sync does not come back from them.
SessionInv ==
    /\ entry = "sync" /\ refused => pc \in Ends
    /\ pc \notin {"check", "inside"} /\ sftp => refused
    /\ pc = "inside" /\ entry # "install" => checked \/ refused
    /\ blind => entry = "start" /\ refused

BlindInv == BlockInv /\ SessionInv

\* Nothing has been opened at the start.
LEMMA InitBlind == Init => BlindInv
BY EntryAssumption DEF Init, BlindInv, BlockInv, SessionInv

\* The steps of the client do not touch the session.
LEMMA KeepBlind ==
    ASSUME BlindInv, UNCHANGED program
    PROVE  BlindInv'
BY DEF BlindInv, BlockInv, SessionInv, program, session

\* A step of an entry point keeps the invariant, action by action.
LEMMA StepBlind ==
    ASSUME BlindInv, Step
    PROVE  BlindInv'
<1> USE DEF BlindInv, BlockInv, SessionInv, Ends, session, Goto, Leave, Enter, Error
<1>1. CASE CallStep /\ UNCHANGED program
  BY <1>1, KeepBlind
<1>2. CASE Begin
  BY <1>2 DEF Begin
<1>3. CASE Connected
  <2>1. pc = "connecting" /\ pc' \in {"subfolder", "prepare", "drop"}
    BY <1>3 DEF Connected
  <2>2. pc' = "subfolder" => entry = "sync"
    BY <1>3 DEF Connected
  <2>3. pc' = "prepare" => entry # "sync"
    BY <1>3 DEF Connected
  <2>4. UNCHANGED <<entry, block, session>>
    BY <1>3 DEF Connected
  <2>5. QED
    BY <2>1, <2>2, <2>3, <2>4
<1>4. CASE Prepare \/ SetSubfolder
  BY <1>4 DEF Prepare, SetSubfolder
<1>5. CASE OpenSession \/ KeepSession \/ CheckFolders
  BY <1>5 DEF OpenSession, KeepSession, CheckFolders, NeedsCheck
<1>6. CASE SessionFails
  BY <1>6 DEF SessionFails, Caught, SyncFailed
<1>7. CASE CheckRaises
  BY <1>7 DEF CheckRaises, Caught, SyncFailed
<1>8. CASE Body
  BY <1>8 DEF Body, Done, Syncs, CloseSftp
<1>9. CASE BodyRaises
  BY <1>9 DEF BodyRaises, Caught, SyncFailed, Syncs, CloseSftp
<1>10. CASE RunKernel \/ CloseClient
  BY <1>10 DEF RunKernel, CloseClient
<1>11. CASE Closed \/ Drop
  BY <1>11 DEF Closed, Drop, Finalize
<1>12. QED
  BY <1>1, <1>2, <1>3, <1>4, <1>5, <1>6, <1>7, <1>8, <1>9, <1>10, <1>11 DEF Step

\* sync() runs in folders nobody has checked only after start_kernel() was
\* refused once and has kept the session (sync.py:87-97, start.py:96-100).
THEOREM BlindAfterRefusal == Spec => []BlindOnlyAfterRefusal
<1>1. Init => BlindInv
  BY InitBlind
<1>2. BlindInv /\ [Next]_vars => BlindInv'
  BY StepBlind, KeepBlind DEF Next, Library, vars
<1>3. BlindInv => BlindOnlyAfterRefusal
  BY DEF BlindInv, SessionInv, BlindOnlyAfterRefusal
<1>4. QED
  BY <1>1, <1>2, <1>3, PTL DEF Spec

----------------------------------------------------------------------------
(* The exit code of the manual sync.                                       *)

\* The client is called at two places only, and a call that is over has a result.
CallInv ==
    entry = "sync" =>
        /\ pc \notin {"connecting", "closing"} => Idle
        /\ pc \in {"connecting", "closing"} /\ Idle => result \in {"ok", "raised"}

\* The exit code is 0 from the end of sync() on, until close() has its say.
CodeInv ==
    entry = "sync" =>
        /\ pc \notin Ends => ~completed
        /\ pc \in {"close", "closing"} => (code = "0" <=> completed)
        /\ pc \in {"drop", "done"} => (code = "0" <=> completed /\ result = "ok")

ExitInv == BlindInv /\ CallInv /\ CodeInv

\* A frame that goes on is on the stack, and a call that ends has a result.
LEMMA CallResult ==
    ASSUME CallStep
    PROVE  ~Idle /\ (Idle' => result' \in {"ok", "raised"})
<1> USE DEF Idle, At, Continue, Return, Raise
<1>1. \A s, e : Append(s, e) # <<>>
  OBVIOUS
<1>2. CASE DirectHost \/ GivenJump
  BY <1>1, <1>2 DEF DirectHost, GivenJump
<1>3. CASE ConnectJump
  BY <1>1, <1>3 DEF ConnectJump
<1>4. CASE Authenticate
  BY <1>1, <1>4 DEF Authenticate
<1>5. CASE Open
  BY <1>5 DEF Open
<1>6. CASE ConnectFails \/ CloseFails
  BY <1>6 DEF ConnectFails, CloseFails
<1>7. CASE \E t \in Tunnel : CloseTunnel(t)
  BY <1>7 DEF CloseTunnel
<1>8. CASE CloseConnection
  BY <1>1, <1>8 DEF CloseConnection
<1>9. CASE CloseReturns
  BY <1>9 DEF CloseReturns
<1>10. QED
  BY <1>2, <1>3, <1>4, <1>5, <1>6, <1>7, <1>8, <1>9 DEF CallStep, ConnectStep, CloseStep

\* Nothing has been called at the start.
LEMMA InitExit == Init => ExitInv
BY InitBlind DEF Init, SshInit, ExitInv, CallInv, CodeInv, Idle, Ends

\* A step of the client ends the call with a result or goes on.
LEMMA ExitOfCall ==
    ASSUME ExitInv, CallStep, UNCHANGED program
    PROVE  ExitInv'
<1>1. BlindInv'
  BY KeepBlind DEF ExitInv
<1>2. ~Idle /\ (Idle' => result' \in {"ok", "raised"})
  BY CallResult
<1>3. UNCHANGED <<entry, pc, code, completed>>
  BY DEF program, session
<1>4. CallInv' /\ CodeInv'
  BY <1>2, <1>3 DEF ExitInv, CallInv, CodeInv, Ends
<1>5. QED
  BY <1>1, <1>4 DEF ExitInv

\* A call that begins has a frame.
LEMMA ExitOfBegin ==
    ASSUME ExitInv, Begin \/ CloseClient
    PROVE  CallInv' /\ CodeInv'
<1> USE DEF ExitInv, CallInv, CodeInv, Ends, Goto, session, Idle
<1>1. CASE Begin
  <2>1. stack' # <<>>
    BY <1>1 DEF Begin, Connect
  <2>2. QED
    BY <1>1, <2>1 DEF Begin
<1>2. CASE CloseClient
  <2>1. stack' # <<>>
    BY <1>2 DEF CloseClient, Close
  <2>2. QED
    BY <1>2, <2>1 DEF CloseClient
<1>3. QED
  BY <1>1, <1>2

\* What the caller makes of the result of a call.
LEMMA ExitOfResult ==
    ASSUME ExitInv, Connected \/ Closed
    PROVE  CallInv' /\ CodeInv'
<1>1. UNCHANGED <<stack, result, entry, completed>>
  BY DEF Connected, Closed, sshVars, session
<1>2. CASE Connected
  <2>1. pc' \in {"subfolder", "prepare"} \/ (pc' = "drop" /\ code' # "0")
    BY <1>2 DEF Connected, Goto
  <2>2. pc = "connecting" /\ Idle
    BY <1>2 DEF Connected
  <2>3. QED
    BY <1>1, <2>1, <2>2 DEF ExitInv, CallInv, CodeInv, Ends, Idle
<1>3. CASE Closed
  <2>1. pc = "closing" /\ Idle /\ pc' = "drop"
    BY <1>3 DEF Closed, Goto
  <2>2. entry = "sync" => (code' = "0" <=> code = "0" /\ result = "ok")
    BY <1>3 DEF Closed
  <2>3. QED
    BY <1>1, <2>1, <2>2 DEF ExitInv, CallInv, CodeInv, Ends, Idle
<1>4. QED
  BY <1>2, <1>3

\* The other steps of the entry point are taken between calls.
LEMMA ExitOfEntry ==
    ASSUME ExitInv, entry = "sync",
           \/ Prepare \/ SetSubfolder \/ OpenSession \/ KeepSession \/ SessionFails
           \/ CheckFolders \/ CheckRaises \/ Body \/ BodyRaises \/ RunKernel \/ Drop
    PROVE  CallInv' /\ CodeInv'
<1> USE DEF ExitInv, BlindInv, BlockInv, CallInv, CodeInv, Ends, Goto, Leave, Enter, Error, session
<1>1. pc # "prepare" /\ pc # "kernel"
  OBVIOUS
<1>2. CASE SetSubfolder
  BY <1>2 DEF SetSubfolder, sshVars, Idle
<1>3. CASE OpenSession \/ KeepSession \/ CheckFolders
  BY <1>3 DEF OpenSession, KeepSession, CheckFolders, NeedsCheck, sshVars, Idle
<1>4. CASE SessionFails
  BY <1>4 DEF SessionFails, Caught, SyncFailed, sshVars, Idle
<1>5. CASE CheckRaises
  BY <1>5 DEF CheckRaises, Caught, SyncFailed, sshVars, Idle
<1>6. CASE Body
  BY <1>6 DEF Body, Done, Syncs, sshVars, Idle
<1>7. CASE BodyRaises
  BY <1>7 DEF BodyRaises, Caught, SyncFailed, Syncs, sshVars, Idle
<1>8. CASE Drop
  BY <1>8 DEF Drop, sshVars, Idle
<1>9. QED
  BY <1>1, <1>2, <1>3, <1>4, <1>5, <1>6, <1>7, <1>8 DEF Prepare, RunKernel

\* Every step keeps the invariant.
LEMMA StepExit ==
    ASSUME ExitInv, [Next]_vars
    PROVE  ExitInv'
<1>1. BlindInv'
  BY StepBlind, KeepBlind DEF ExitInv, Next, Library, vars
<1>2. CASE CallStep /\ UNCHANGED program
  BY <1>2, ExitOfCall
<1>3. CASE Begin \/ CloseClient \/ Connected \/ Closed
  BY <1>1, <1>3, ExitOfBegin, ExitOfResult DEF ExitInv
<1>4. CASE \/ Prepare \/ SetSubfolder \/ OpenSession \/ KeepSession \/ SessionFails
           \/ CheckFolders \/ CheckRaises \/ Body \/ BodyRaises \/ RunKernel \/ Drop
  <2>1. UNCHANGED entry
    BY <1>4 DEF Prepare, SetSubfolder, OpenSession, KeepSession, SessionFails,
                CheckFolders, CheckRaises, Body, BodyRaises, RunKernel, Drop
  <2>2. CASE entry = "sync"
    BY <1>1, <1>4, <2>2, ExitOfEntry DEF ExitInv
  <2>3. CASE entry # "sync"
    BY <1>1, <2>1, <2>3 DEF ExitInv, CallInv, CodeInv
  <2>4. QED
    BY <2>2, <2>3
<1>5. CASE Library
  BY <1>1, <1>5 DEF Library, program, ExitInv, CallInv, CodeInv
<1>6. CASE (\E c \in Client : Lose(c)) /\ UNCHANGED program
  BY <1>1, <1>6 DEF Lose, program, session, ExitInv, CallInv, CodeInv, Idle
<1>7. CASE UNCHANGED vars
  BY <1>1, <1>7 DEF vars, sshVars, program, session, ExitInv, CallInv, CodeInv, Idle
<1>8. QED
  BY <1>2, <1>3, <1>4, <1>5, <1>6, <1>7 DEF Next, Step

\* The manual sync exits with 0 exactly when sync() has come to its end and the
\* connection was closed (sync.py:17, 37-44).
THEOREM ExitCodeIsTrue == Spec => []ExitCodeOfSync
<1>1. Init => ExitInv
  BY InitExit
<1>2. ExitInv /\ [Next]_vars => ExitInv'
  BY StepExit
<1>3. ExitInv => ExitCodeOfSync
  BY DEF ExitInv, CodeInv, ExitCodeOfSync, Ends
<1>4. QED
  BY <1>1, <1>2, <1>3, PTL DEF Spec

----------------------------------------------------------------------------
(* What an entry point holds.                                              *)

\* Inside the with statement of the client.
Within == {"prepare", "subfolder", "connect", "check", "inside", "kernel", "close"}

\* The types of what the entry point keeps, and no session after its end.
ControlType ==
    /\ entry \in Entry /\ pc \in Within \cup {"off", "connecting", "closing", "drop", "done"}
    /\ block \in {"none", "subfolder", "first", "last", "install"}
    /\ code \in {"none", "0", "1", "2"} /\ (pc \in Ends => code # "none")
    /\ sftp \in BOOLEAN /\ checked \in BOOLEAN
    /\ refused \in BOOLEAN /\ blind \in BOOLEAN /\ completed \in BOOLEAN
    /\ pc = "done" => ~sftp

One(S) == \E c \in Client : S = {c}

\* connect_override() returns the client or raises over it, and close() leaves
\* it to nobody, whatever its outcome.
HoldInv ==
    entry # "library" =>
        /\ pc = "off" => Idle /\ held = {}
        /\ pc = "connecting" =>
              /\ ~Idle => Connecting /\ held = {}
              /\ Idle => \/ result = "raised" /\ held = {}
                         \/ result = "ok" /\ One(held)
        /\ pc \in Within => Idle /\ One(held)
        /\ pc = "closing" =>
              /\ ~Idle => Closing /\ held = {stack[1].client}
              /\ Idle => held = {}
        /\ pc \in {"drop", "done"} => Idle /\ held = {}

EntryInv == SshInv /\ BlindInv /\ ControlType /\ HoldInv

\* What a step of connect_override() makes of the clients held.
LEMMA HeldByConnect ==
    ASSUME SshInv, ConnectStep
    PROVE  /\ ~Idle /\ Connecting /\ ~Closing
           /\ ~Idle' => Connecting' /\ held' = held
           /\ Idle' => \/ result' = "ok" /\ held' = held \cup {Me} /\ Me \in Client
                       \/ result' = "raised" /\ held' \subseteq held
<1>1. ~Idle /\ Connecting /\ ~Closing /\ Me \in Client /\ stack \in Seq(Frames)
  BY InConnect DEF ConnectStep, DirectHost, GivenJump, ConnectJump, Authenticate, Open,
                   ConnectFails, At
<1>2. ~Idle' => Connecting'
  BY StaysConnecting
<1>3. CASE DirectHost \/ GivenJump \/ Authenticate
  <2>1. Continue("auth") \/ Continue("open")
    BY <1>3 DEF DirectHost, GivenJump, Authenticate
  <2>2. ~Idle'
    BY <1>1, <2>1, Continues DEF Labels
  <2>3. QED
    BY <1>1, <1>2, <1>3, <2>2 DEF DirectHost, GivenJump, Authenticate, history
<1>4. CASE ConnectJump
  <2>1. \E d \in Client : stack' = Append(stack, Frame(d, "jump"))
    BY <1>4 DEF ConnectJump, Fresh
  <2>2. ~Idle'
    BY <1>1, <2>1, Calls DEF Labels
  <2>3. QED
    BY <1>1, <1>2, <1>4, <2>2 DEF ConnectJump, history
<1>5. CASE Open
  <2>1. Return("auth")
    BY <1>5 DEF Open
  <2>2. CASE Callers = <<>>
    BY <1>1, <1>2, <1>5, <2>1, <2>2, Returns DEF Open, Labels, Idle
  <2>3. CASE Callers # <<>>
    BY <1>1, <1>2, <1>5, <2>1, <2>3, Returns DEF Open, Labels
  <2>4. QED
    BY <2>2, <2>3
<1>6. CASE ConnectFails
  BY <1>1, <1>6 DEF ConnectFails, Raise, Idle
<1>7. QED
  BY <1>3, <1>4, <1>5, <1>6 DEF ConnectStep

\* The first frame of close() is that of the client it was called for.
LEMMA HeldByClose ==
    ASSUME SshInv, CloseStep
    PROVE  /\ ~Idle /\ Closing /\ ~Connecting
           /\ ~Idle' => Closing' /\ held' = held /\ stack'[1].client = stack[1].client
           /\ Idle' => held' = held \ {stack[1].client}
<1>1. /\ ~Idle /\ Closing /\ ~Connecting /\ stack \in Seq(Frames) /\ Me \in Client
      /\ Len(stack) \in Nat \ {0} /\ Me = stack[Len(stack)].client
      /\ (jump[Me] # Nobody => jump[Me] \in Client)
  BY InClose DEF CloseStep, CloseFails, CloseConnection, CloseReturns, CloseTunnel, At
<1>2. ~Idle' => Closing'
  BY StaysClosing
<1>3. 1 \in Below \/ Len(stack) = 1
  <2>1. \A n \in Nat \ {0} : 1 \in 1..(n - 1) \/ n = 1
    OBVIOUS
  <2>2. QED
    BY <1>1, <2>1 DEF Below
<1>4. CASE CloseFails
  BY <1>1, <1>4 DEF CloseFails, Raise, Idle
<1>5. CASE \E t \in Tunnel : CloseTunnel(t)
  BY <1>1, <1>2, <1>5 DEF CloseTunnel, history, Idle
<1>6. CASE CloseConnection
  <2>1. held' = held
    BY <1>6 DEF CloseConnection, history
  <2>2. CASE jump[Me] = Nobody
    <3>1. Continue("end")
      BY <1>6, <2>2 DEF CloseConnection, JumpToClose
    <3>2. ~Idle' /\ stack'[1].client = stack[1].client
      BY <1>1, <1>3, <3>1, Continues, SameClients DEF Labels
    <3>3. QED
      BY <1>1, <1>2, <2>1, <3>2
  <2>3. CASE jump[Me] # Nobody
    <3>1. stack' = Append(Append(Callers, Frame(Me, "back")), Frame(jump[Me], "tunnels"))
      BY <1>1, <1>6, <2>3, AtLabel DEF CloseConnection, JumpToClose
    <3>2. /\ ~Idle' /\ \A i \in Below : stack'[i] = stack[i]
          /\ stack'[Len(stack)] = Frame(Me, "back")
      BY <1>1, <2>3, <3>1, Waits DEF Labels
    <3>3. stack'[1].client = stack[1].client
      BY <1>1, <1>3, <3>2 DEF Frame
    <3>4. QED
      BY <1>1, <1>2, <2>1, <3>2, <3>3
  <2>4. QED
    BY <2>2, <2>3
<1>7. CASE CloseReturns
  <2>1. Return("back")
    BY <1>7 DEF CloseReturns
  <2>2. CASE Len(stack) = 1
    BY <1>1, <1>7, <2>1, <2>2, Returns DEF CloseReturns, Labels, Idle
  <2>3. CASE Len(stack) # 1
    <3>1. ~Idle' /\ held' = held
      BY <1>1, <1>7, <2>1, <2>3, Returns DEF CloseReturns, Labels
    <3>2. stack'[1].client = stack[1].client
      <4>1. CASE Len(stack) = 2
        <5>1. Len(stack') = 1 /\ Me' = stack[1].client
          <6>1. Len(stack) - 1 = 1
            BY <4>1
          <6>2. QED
            BY <1>1, <2>1, <2>3, <6>1, Returns DEF Labels
        <5>2. QED
          BY <5>1 DEF Me, Top
      <4>2. CASE Len(stack) # 2
        <5>1. 1 \in 1..(Len(stack) - 2)
          <6>1. \A n \in Nat \ {0} : n \notin {1, 2} => 1 \in 1..(n - 2)
            OBVIOUS
          <6>2. QED
            BY <1>1, <2>3, <4>2, <6>1
        <5>2. QED
          BY <1>1, <2>1, <2>3, <5>1, Returns DEF Labels
      <4>3. QED
        BY <4>1, <4>2
    <3>3. QED
      BY <1>1, <1>2, <3>1, <3>2
  <2>4. QED
    BY <2>2, <2>3
<1>8. QED
  BY <1>4, <1>5, <1>6, <1>7 DEF CloseStep

\* A call of the client is a step of the entry point that waits for it.
LEMMA HoldOfCall ==
    ASSUME EntryInv, CallStep, UNCHANGED program
    PROVE  HoldInv'
<1>1. entry' = entry /\ pc' = pc
  BY DEF program
<1>2. CASE ConnectStep
  <2>1. /\ ~Idle /\ Connecting /\ ~Closing
        /\ ~Idle' => Connecting' /\ held' = held
        /\ Idle' => \/ result' = "ok" /\ held' = held \cup {Me} /\ Me \in Client
                    \/ result' = "raised" /\ held' \subseteq held
    BY <1>2, HeldByConnect DEF EntryInv
  <2>2. entry # "library" => pc = "connecting" /\ held = {}
    BY <2>1 DEF EntryInv, HoldInv, ControlType
  <2>3. entry # "library" /\ Idle' => \/ result' = "raised" /\ held' = {}
                                      \/ result' = "ok" /\ held' = {Me} /\ Me \in Client
    BY <2>1, <2>2
  <2>4. QED
    BY <1>1, <2>1, <2>2, <2>3 DEF HoldInv, One, Within
<1>3. CASE CloseStep
  <2>1. /\ ~Idle /\ Closing /\ ~Connecting
        /\ ~Idle' => Closing' /\ held' = held /\ stack'[1].client = stack[1].client
        /\ Idle' => held' = held \ {stack[1].client}
    BY <1>3, HeldByClose DEF EntryInv
  <2>2. entry # "library" => pc = "closing" /\ held = {stack[1].client}
    BY <2>1 DEF EntryInv, HoldInv, ControlType
  <2>3. QED
    BY <1>1, <2>1, <2>2 DEF HoldInv, Within
<1>4. QED
  BY <1>2, <1>3 DEF CallStep

\* The client of the entry point is the one it holds.
LEMMA MineIsHeld ==
    ASSUME NEW c, held = {c}
    PROVE  Mine = c
BY DEF Mine

\* A step between calls keeps the client, and the end of a call decides.
LEMMA HoldOfEntry ==
    ASSUME EntryInv,
           \/ Begin \/ Connected \/ Prepare \/ SetSubfolder
           \/ OpenSession \/ KeepSession \/ SessionFails \/ CheckFolders \/ CheckRaises
           \/ Body \/ BodyRaises \/ RunKernel \/ CloseClient \/ Closed \/ Drop
    PROVE  HoldInv'
<1> USE DEF EntryInv, HoldInv
<1>0. entry' = entry
  BY DEF Begin, Connected, Prepare, SetSubfolder, OpenSession, KeepSession, SessionFails,
         CheckFolders, CheckRaises, Body, BodyRaises, RunKernel, CloseClient, Closed, Drop
<1>1. CASE Begin
  <2>1. entry # "library" /\ pc' = "connecting" /\ Idle /\ held' = held /\ held = {}
    BY <1>1 DEF Begin, Goto, Connect
  <2>2. \E c \in Client : stack' = <<Frame(c, "jump")>>
    BY <1>1 DEF Begin, Connect, Fresh
  <2>3. ~Idle' /\ Connecting'
    BY <2>2 DEF Idle, Connecting, Frame
  <2>4. QED
    BY <1>0, <2>1, <2>3 DEF Within
<1>2. CASE Connected
  <2>1. /\ pc = "connecting" /\ Idle /\ UNCHANGED <<stack, held, result>>
        /\ \/ result = "ok" /\ pc' \in {"subfolder", "prepare"}
           \/ result = "raised" /\ pc' = "drop"
    BY <1>2 DEF Connected, Goto, sshVars, history
  <2>2. QED
    BY <1>0, <2>1 DEF Within, Idle, One
<1>3. CASE Prepare \/ SetSubfolder \/ OpenSession \/ KeepSession \/ SessionFails
           \/ CheckFolders \/ CheckRaises \/ Body \/ BodyRaises \/ RunKernel
  <2>1. pc \in Within
    BY <1>3 DEF Prepare, SetSubfolder, OpenSession, KeepSession, SessionFails,
                CheckFolders, CheckRaises, Body, BodyRaises, RunKernel, Within
  <2>2. UNCHANGED <<stack, held>>
    BY <1>3 DEF Prepare, SetSubfolder, OpenSession, KeepSession, SessionFails, CheckFolders,
                CheckRaises, Body, BodyRaises, RunKernel, OpenTunnel, sshVars, history
  <2>3. pc' \in Within
    <3> USE DEF Within, Goto, Enter, Leave, Error
    <3>1. CASE Prepare \/ SetSubfolder \/ RunKernel
      BY <3>1 DEF Prepare, SetSubfolder, RunKernel
    <3>2. CASE OpenSession \/ KeepSession \/ CheckFolders
      BY <3>2 DEF OpenSession, KeepSession, CheckFolders
    <3>3. CASE SessionFails \/ CheckRaises \/ BodyRaises
      BY <3>3 DEF SessionFails, CheckRaises, BodyRaises, Caught, SyncFailed
    <3>4. CASE Body
      BY <3>4 DEF Body, Done
    <3>5. QED
      BY <1>3, <3>1, <3>2, <3>3, <3>4
  <2>4. QED
    BY <1>0, <2>1, <2>2, <2>3 DEF Within, Idle, One
<1>4. CASE CloseClient
  <2>1. pc = "close" /\ pc' = "closing" /\ Close(Mine)
    BY <1>4 DEF CloseClient, Goto
  <2>2. entry # "library" => \E c \in Client : held = {c} /\ Mine = c
    BY <2>1, MineIsHeld DEF Within, One
  <2>3. held' = held /\ stack' = <<Frame(Mine, "tunnels")>>
    BY <2>1 DEF Close, history
  <2>4. ~Idle' /\ Closing' /\ stack'[1].client = Mine
    BY <2>3 DEF Idle, Closing, Frame
  <2>5. QED
    BY <1>0, <2>1, <2>2, <2>3, <2>4 DEF Within
<1>5. CASE Closed
  <2>1. pc = "closing" /\ Idle /\ pc' = "drop" /\ UNCHANGED <<stack, held>>
    BY <1>5 DEF Closed, Goto, sshVars, history
  <2>2. QED
    BY <1>0, <2>1 DEF Within, Idle
<1>6. CASE Drop
  <2>1. pc = "drop" /\ pc' = "done" /\ UNCHANGED <<stack, held>>
    BY <1>6 DEF Drop, Goto, sshVars, history
  <2>2. QED
    BY <1>0, <2>1 DEF Within, Idle
<1>7. QED
  BY <1>1, <1>2, <1>3, <1>4, <1>5, <1>6

\* Every step of an entry point keeps the types of what it keeps.
LEMMA ControlStep ==
    ASSUME EntryInv, Step
    PROVE  ControlType'
<1> USE DEF EntryInv, ControlType, Within, Ends, session, Goto, Leave, Enter, Error
<1>1. CASE CallStep /\ UNCHANGED program
  BY <1>1 DEF program
<1>2. CASE Begin
  BY <1>2 DEF Begin
<1>3. CASE Connected
  <2>1. /\ pc' \in {"subfolder", "prepare", "drop"} /\ code' \in {code, "1", "2"}
        /\ pc' = "drop" => code' # "none"
    BY <1>3 DEF Connected
  <2>2. UNCHANGED <<entry, block, session>>
    BY <1>3 DEF Connected
  <2>3. QED
    BY <2>1, <2>2
<1>4. CASE Prepare
  BY <1>4 DEF Prepare
<1>5. CASE SetSubfolder \/ RunKernel
  BY <1>5 DEF SetSubfolder, RunKernel
<1>6. CASE OpenSession \/ KeepSession \/ CheckFolders
  BY <1>6 DEF OpenSession, KeepSession, CheckFolders
<1>7. CASE SessionFails
  BY <1>7 DEF SessionFails, Caught, SyncFailed
<1>8. CASE CheckRaises
  BY <1>8 DEF CheckRaises, Caught, SyncFailed
<1>9. CASE Body
  BY <1>9 DEF Body, Done, Syncs, CloseSftp
<1>10. CASE BodyRaises
  BY <1>10 DEF BodyRaises, Caught, SyncFailed, Syncs, CloseSftp
<1>11. CASE CloseClient
  BY <1>11 DEF CloseClient
<1>12. CASE Closed
  BY <1>12 DEF Closed
<1>13. CASE Drop
  BY <1>13 DEF Drop, Finalize
<1>14. QED
  BY <1>1, <1>2, <1>3, <1>4, <1>5, <1>6, <1>7, <1>8, <1>9, <1>10, <1>11, <1>12, <1>13 DEF Step

\* Nothing is held at the start.
LEMMA InitEntry == Init => EntryInv
<1>1. ASSUME Init
      PROVE  HoldInv /\ ControlType
  BY <1>1 DEF Init, SshInit, HoldInv, ControlType, Within, Ends, Idle
<1>2. Init => SshInv
  BY SshStarts DEF Init
<1>3. QED
  BY <1>1, <1>2, InitBlind DEF EntryInv

\* Every step keeps the invariant.
LEMMA StepEntry ==
    ASSUME EntryInv, SshInv', [Next]_vars
    PROVE  EntryInv'
<1>1. BlindInv'
  BY StepBlind, KeepBlind DEF EntryInv, Next, Library, vars
<1>2. CASE Step
  BY <1>1, <1>2, HoldOfCall, HoldOfEntry, ControlStep DEF EntryInv, Step
<1>3. CASE Library
  BY <1>1, <1>3 DEF Library, program, session, EntryInv, HoldInv, ControlType
<1>4. CASE (\E c \in Client : Lose(c)) /\ UNCHANGED program
  <2>1. UNCHANGED <<stack, held, result>> /\ UNCHANGED program
    BY <1>4 DEF Lose, history
  <2>2. QED
    BY <1>1, <2>1 DEF program, session, EntryInv, HoldInv, ControlType, Idle, Connecting, Closing
<1>5. CASE UNCHANGED vars
  <2>1. UNCHANGED <<stack, held, result>> /\ UNCHANGED program
    BY <1>5 DEF vars, sshVars, history
  <2>2. QED
    BY <1>1, <2>1 DEF program, session, EntryInv, HoldInv, ControlType, Idle, Connecting, Closing
<1>6. QED
  BY <1>2, <1>3, <1>4, <1>5 DEF Next

\* EntryInv is an invariant of the entry points.
LEMMA EntriesKeepHold == Spec => []EntryInv
<1>1. Init => EntryInv
  BY InitEntry
<1>2. EntryInv /\ SshInv' /\ [Next]_vars => EntryInv'
  BY StepEntry
<1>3. QED
  BY <1>1, <1>2, ClientsKeepOrder, PTL DEF Spec

\* Every variable keeps its type, and an entry point holds one client while it
\* is inside the with statement of the client (start.py:81, install.py:48, sync.py:33).
THEOREM SessionTypes == Spec => []TypeOK
<1>1. ASSUME EntryInv
      PROVE  TypeOK
  <2>1. pc \notin {"off", "connecting", "closing", "drop", "done"} => Cardinality(held) = 1
    <3>1. ASSUME pc \notin {"off", "connecting", "closing", "drop", "done"}
          PROVE  \E c \in Client : held = {c}
      BY <1>1, <3>1 DEF EntryInv, BlindInv, BlockInv, ControlType, HoldInv, One
    <3>2. QED
      BY <3>1, FS_Singleton
  <2>2. entry \in Entry
    BY <1>1 DEF EntryInv, ControlType
  <2>3. QED
    BY <1>1, <2>1, <2>2 DEF TypeOK, EntryInv, SshInv, ControlType, Within, Ends
<1>2. QED
  BY <1>1, EntriesKeepHold, PTL

\* An entry point that has ended leaves no session, and no connection or tunnel
\* but those a call has raised over, for every route and every failure
\* (sync.py:33, 75-78, 99-103, start.py:81, install.py:48).
THEOREM EntryReleasesAll == Spec => []EntryReleases
<1>1. ASSUME EntryInv, pc = "done"
      PROVE  EntryReleases
  <2>1. ~sftp /\ held = {} /\ Idle
    BY <1>1 DEF EntryInv, ControlType, BlindInv, BlockInv, HoldInv
  <2>2. Anchors = failed
    BY <2>1 DEF Anchors, Idle
  <2>3. QED
    BY <1>1, <2>1, <2>2 DEF EntryInv, SshInv, AnchorInv, Alive, EntryReleases
<1>2. EntryInv => EntryReleases
  BY <1>1 DEF EntryReleases
<1>3. QED
  BY <1>2, EntriesKeepHold, PTL
=============================================================================
