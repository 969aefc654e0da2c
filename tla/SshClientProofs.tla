-------------------------- MODULE SshClientProofs ---------------------------
(***************************************************************************)
(* Theorems about the SSH clients of SyncSession, for any number of        *)
(* clients, hosts, tunnels, routes and keys: the routes they are connected *)
(* along, the keys they ask for, and what close() leaves open.             *)
(***************************************************************************)
EXTENDS SyncSession, FiniteSetTheorems, SequenceTheorems, TLAPS

\* A connection that the server or the network has dropped is not closed here.
Up(c) == conn[c] \in {"open", "lost"}
Alive(c) == conn[c] = "open" \/ tunnels[c] # {}

Connecting == ~Idle /\ stack[1].at \in {"jump", "auth", "open"}
Closing == ~Idle /\ stack[1].at \in {"tunnels", "back", "end"}

\* The frames but the last.
Below == 1..(Len(stack) - 1)

----------------------------------------------------------------------------
(* The parts of the invariant.                                             *)

\* A client that nobody has connected is used by nobody.
FreshInv ==
    \A c \in Client :
        /\ conn[c] = "none" => jump[c] = Nobody
        /\ conn[c] \in {"none", "new"} =>
              /\ tunnels[c] = {} /\ listed[c] /\ c \notin held \cup lent
              /\ \A d \in Client : jump[d] # c

\* A jump host that nobody has lent has one client, and nobody holds it; a
\* connection that is up has its jump host up.
JumpInv ==
    /\ \A j \in Client \ lent : \A c, d \in Client : jump[c] = j /\ jump[d] = j => c = d
    /\ \A h \in held \ lent : \A c \in Client : jump[c] # h
    /\ \A c \in Client :
          Up(c) /\ jump[c] # Nobody /\ jump[c] \notin lent => Up(jump[c])

\* The clients of a route have been lent, and its last item is a host.
RouteInv ==
    \A c \in Client : conn[c] # "none" =>
        /\ route[c] # <<>> /\ Last(route[c]) \in Host
        /\ \A i \in DOMAIN route[c] : route[c][i] \in Client => route[c][i] \in lent

\* The jump host of a client that has come to its authentication.
Linked(c) ==
    LET r == route[c]
        n == Len(r)
    IN  IF n = 1 THEN jump[c] = Nobody
        ELSE IF r[n - 1] \in Client THEN jump[c] = r[n - 1]
        ELSE /\ jump[c] \in Client \ lent /\ route[jump[c]] = Front(r)
             /\ conn[jump[c]] # "none"

\* connect_override() waits in every frame but the last for its jump host.
ConnectInv ==
    Connecting =>
        /\ \A i \in DOMAIN stack :
              /\ conn[stack[i].client] = "new"
              /\ stack[i].at \in {"jump", "auth", "open"}
              /\ stack[i].at = "jump" => jump[stack[i].client] = Nobody
        /\ \A i, j \in DOMAIN stack : stack[i].client = stack[j].client => i = j
        /\ \A i \in Below :
              LET r == route[stack[i].client]
              IN  /\ stack[i].at = "jump" /\ Len(r) > 1 /\ r[Len(r) - 1] \in Host
                  /\ route[stack[i + 1].client] = Front(r)
        /\ Top.at \in {"auth", "open"} => Linked(Me)

\* No connection, no tunnel.
Gone(c) == conn[c] = "closed" /\ tunnels[c] = {} /\ ~listed[c]

\* close() is past its connection in every frame but the last, and waits for
\* the jump host; it comes back to one that is gone, with nothing behind it.
CloseInv ==
    Closing =>
        /\ stack[1].client \in held
        /\ \A i \in DOMAIN stack : stack[i].at \in {"tunnels", "back", "end"}
        /\ \A i \in Below : /\ stack[i].at = "back" /\ Gone(stack[i].client)
                            /\ jump[stack[i].client] = stack[i + 1].client
        /\ \A i, j \in DOMAIN stack :
              i < j /\ (j = Len(stack) => Top.at # "tunnels") =>
                  stack[i].client # stack[j].client
        /\ Top.at \in {"back", "end"} => Gone(Me)
        /\ Top.at = "end" => jump[Me] = Nobody
        /\ Top.at = "back" => /\ jump[Me] # Nobody /\ Gone(jump[Me])
                              /\ jump[jump[Me]] = Nobody

\* A way whose connections are up, of which only a lent client is shared.
WayInv ==
    \A c \in Client : Up(c) =>
        \E way \in [Needed(route[c]) -> Client] :
            /\ Leads(way, c)
            /\ \A i \in Needed(route[c]) : route[c][i] \in Host =>
                  Up(way[i]) /\ (i < Len(route[c]) => way[i] \notin lent)

\* The passphrase was asked for at most once, and the key is handed on from the
\* frame that asked.
KeyInv ==
    reuse =>
        /\ asked <= 1
        /\ Connecting /\ asked = 1 =>
              /\ Top.at = "auth" => jump[Me] # Nobody /\ hasKey[jump[Me]]
              /\ Top.at = "open" => hasKey[Me]
              /\ Top.at # "jump"

\* What is open is reached from a client that is held, was busy when a call
\* raised, or is on the stack.
Anchors == held \cup failed \cup {stack[i].client : i \in DOMAIN stack}
AnchorInv == \A c \in Client : Alive(c) => \E d \in Anchors : c \in Chain(d)

SshInv ==
    /\ SshTypeOK /\ FreshInv /\ JumpInv /\ RouteInv /\ ConnectInv /\ CloseInv
    /\ WayInv /\ KeyInv /\ AnchorInv
    /\ Idle \/ Connecting \/ Closing

----------------------------------------------------------------------------
(* The frames of the stack.                                                *)

Labels == {"jump", "auth", "open", "tunnels", "back", "end"}
Frames == [client : Client, at : Labels]

\* The innermost frame is that of a client.
LEMMA TopType ==
    ASSUME stack \in Seq(Frames), ~Idle
    PROVE  /\ Len(stack) \in Nat \ {0} /\ DOMAIN stack = 1..Len(stack)
           /\ Top \in Frames /\ Me \in Client /\ Top.at \in Labels
           /\ Top = Frame(Me, Top.at)
           /\ Callers \in Seq(Frames) /\ Len(Callers) = Len(stack) - 1
           /\ \A i \in 1..(Len(stack) - 1) : Callers[i] = stack[i]
<1>1. Len(stack) \in Nat \ {0} /\ DOMAIN stack = 1..Len(stack)
  BY DEF Idle
<1>2. Top \in Frames
  BY <1>1 DEF Top
<1>3. Callers \in Seq(Frames) /\ Len(Callers) = Len(stack) - 1
  BY <1>1 DEF Callers
<1>4. \A i \in 1..(Len(stack) - 1) : Callers[i] = stack[i]
  BY <1>1 DEF Callers
<1>5. QED
  BY <1>1, <1>2, <1>3, <1>4 DEF Frames, Me, Frame

\* The index before the last.
LEMMA BeforeLast ==
    ASSUME NEW n \in Nat \ {0, 1}
    PROVE  /\ n - 1 \in 1..n /\ n - 1 \in 1..(n - 1) /\ n - 1 # n /\ (n - 1) + 1 = n
           /\ n \in 1..n /\ n - 1 \in Nat \ {0} /\ n > 1
OBVIOUS

\* A frame that goes on changes its label, and no frame below it.
LEMMA Continues ==
    ASSUME stack \in Seq(Frames), ~Idle, NEW label \in Labels, Continue(label)
    PROVE  /\ stack' \in Seq(Frames) /\ Len(stack') = Len(stack)
           /\ \A i \in Below : stack'[i] = stack[i]
           /\ ~Idle' /\ Top' = Frame(Me, label) /\ Me' = Me
<1>1. [Top EXCEPT !.at = label] = Frame(Me, label)
  BY TopType DEF Frames, Frame, Me
<1>2. Frame(Me, label) \in Frames
  BY TopType DEF Frames, Frame
<1>3. stack' = Append(Callers, Frame(Me, label))
  BY <1>1 DEF Continue
<1>4. stack' \in Seq(Frames) /\ Len(stack') = Len(stack)
  <2>1. Callers \in Seq(Frames) /\ Len(Callers) = Len(stack) - 1 /\ Len(stack) \in Nat
    BY TopType
  <2>2. QED
    BY <1>2, <1>3, <2>1
<1>5. \A i \in Below : stack'[i] = stack[i]
  BY <1>2, <1>3, TopType DEF Below
<1>6. stack'[Len(stack')] = Frame(Me, label)
  BY <1>2, <1>3, <1>4, TopType
<1>7. QED
  BY <1>4, <1>5, <1>6, TopType DEF Idle, Top, Me, Frame

\* A call adds a frame to those that are there.
LEMMA Calls ==
    ASSUME stack \in Seq(Frames), NEW c \in Client, NEW label \in Labels,
           stack' = Append(stack, Frame(c, label))
    PROVE  /\ stack' \in Seq(Frames) /\ Len(stack') = Len(stack) + 1
           /\ \A i \in 1..Len(stack) : stack'[i] = stack[i]
           /\ ~Idle' /\ Top' = Frame(c, label) /\ Me' = c
<1>1. Frame(c, label) \in Frames
  BY DEF Frames, Frame
<1>2. stack' \in Seq(Frames) /\ Len(stack') = Len(stack) + 1
  BY <1>1
<1>3. \A i \in 1..Len(stack) : stack'[i] = stack[i]
  BY <1>1
<1>4. stack'[Len(stack')] = Frame(c, label)
  BY <1>1, <1>2
<1>5. QED
  BY <1>2, <1>3, <1>4 DEF Idle, Top, Me, Frame

\* What EXCEPT makes of a frame.
LEMMA AtLabel ==
    ASSUME stack \in Seq(Frames), ~Idle, NEW label
    PROVE  [Top EXCEPT !.at = label] = Frame(Me, label)
BY TopType DEF Frames, Frame, Me

\* A frame that waits for a call keeps its place.
LEMMA Waits ==
    ASSUME stack \in Seq(Frames), ~Idle, NEW label \in Labels,
           NEW c \in Client, NEW first \in Labels,
           stack' = Append(Append(Callers, Frame(Me, label)), Frame(c, first))
    PROVE  /\ stack' \in Seq(Frames) /\ Len(stack') = Len(stack) + 1
           /\ \A i \in Below : stack'[i] = stack[i]
           /\ stack'[Len(stack)] = Frame(Me, label)
           /\ ~Idle' /\ Top' = Frame(c, first) /\ Me' = c
<1>2. Frame(Me, label) \in Frames /\ Frame(c, first) \in Frames
  BY TopType DEF Frames, Frame
<1>3. /\ Callers \in Seq(Frames) /\ Len(Callers) = Len(stack) - 1 /\ Len(stack) \in Nat \ {0}
      /\ \A i \in 1..(Len(stack) - 1) : Callers[i] = stack[i]
  BY TopType
<1> DEFINE s == Append(Callers, Frame(Me, label))
<1>4. /\ s \in Seq(Frames) /\ Len(s) = Len(stack) /\ s[Len(stack)] = Frame(Me, label)
      /\ \A i \in 1..(Len(stack) - 1) : s[i] = stack[i]
  BY <1>2, <1>3
<1>5. stack' = Append(s, Frame(c, first))
  OBVIOUS
<1> HIDE DEF s
<1>6. /\ stack' \in Seq(Frames) /\ Len(stack') = Len(stack) + 1
      /\ \A i \in 1..Len(s) : stack'[i] = s[i]
      /\ stack'[Len(s) + 1] = Frame(c, first)
  BY <1>2, <1>4, <1>5, AppendProperties
<1>7. /\ \A i \in Below : stack'[i] = stack[i]
      /\ stack'[Len(stack)] = Frame(Me, label)
  BY <1>3, <1>4, <1>6 DEF Below
<1>8. stack'[Len(stack')] = Frame(c, first)
  BY <1>4, <1>6
<1>9. stack' # <<>>
  BY <1>3, <1>6, EmptySeq
<1>10. Top' = Frame(c, first) /\ Me' = c
  BY <1>8 DEF Top, Me, Frame
<1>11. QED
  BY <1>6, <1>7, <1>9, <1>10 DEF Idle

\* A frame that returns is gone, and the one below it goes on at the label.
LEMMA Returns ==
    ASSUME stack \in Seq(Frames), ~Idle, NEW label \in Labels, Return(label)
    PROVE  /\ Len(stack) = 1 => stack' = <<>> /\ result' = "ok"
           /\ Len(stack) # 1 =>
                 /\ stack' \in Seq(Frames) /\ Len(stack') = Len(stack) - 1
                 /\ \A i \in 1..(Len(stack) - 2) : stack'[i] = stack[i]
                 /\ ~Idle' /\ Me' = stack[Len(stack) - 1].client
                 /\ Top' = Frame(Me', label) /\ result' = result
           /\ Callers = <<>> <=> Len(stack) = 1
<1>1. Callers = <<>> <=> Len(stack) = 1
  BY TopType
<1>2. CASE Len(stack) = 1
  BY <1>1, <1>2 DEF Return
<1>3. CASE Len(stack) # 1
  <2> DEFINE n == Len(stack) - 1
  <2>1. n \in Nat \ {0} /\ Len(Callers) = n /\ Callers[n] = stack[n] /\ stack[n] \in Frames
    <3>1. n \in Nat \ {0} /\ n \in 1..Len(stack)
      BY <1>3, TopType
    <3>2. stack[n] \in Frames
      BY <3>1
    <3>3. Len(Callers) = n /\ \A i \in 1..n : Callers[i] = stack[i]
      BY TopType
    <3>4. QED
      BY <3>1, <3>2, <3>3
  <2>2. stack' = [Callers EXCEPT ![n] = [stack[n] EXCEPT !.at = label]] /\ result' = result
    BY <1>1, <1>3, <2>1, TopType DEF Return
  <2>3. [stack[n] EXCEPT !.at = label] = Frame(stack[n].client, label)
    BY <2>1 DEF Frames, Frame
  <2>4. Frame(stack[n].client, label) \in Frames
    BY <2>1 DEF Frames, Frame
  <2>5. stack' \in Seq(Frames) /\ Len(stack') = n
    BY <2>1, <2>2, <2>3, <2>4, TopType
  <2>6. \A i \in 1..(n - 1) : stack'[i] = stack[i]
    BY <2>1, <2>2, <2>3, TopType
  <2>7. stack'[n] = Frame(stack[n].client, label)
    BY <2>1, <2>2, <2>3, TopType
  <2>8. QED
    BY <1>1, <1>3, <2>1, <2>2, <2>5, <2>6, <2>7 DEF Idle, Top, Me, Frame
<1>4. QED
  BY <1>1, <1>2, <1>3

----------------------------------------------------------------------------
(* The steps of the clients.                                               *)

\* What the callers of this program give to connect_override().
Given(r, key, b) ==
    /\ r \in Seq(Client \cup Host) /\ r # <<>> /\ Last(r) \in Host
    /\ \A i \in DOMAIN r : r[i] \in Client => r[i] \in held
    /\ key \in {"none", "plain", "locked"} /\ b \in BOOLEAN

SshNext ==
    \/ ConnectStep \/ CloseStep
    \/ \E r, key, b : Given(r, key, b) /\ Connect(r, key, b)
    \/ \E c \in Client, t \in Tunnel : OpenTunnel(c, t)
    \/ \E c \in Client : Close(c)
    \/ \E c \in Client : Lose(c)

\* The routes an entry point is started with are names of hosts.
LEMMA RoutesGiven ==
    ASSUME NEW r \in Routes
    PROVE  /\ r \in Seq(Client \cup Host) /\ r # <<>> /\ Last(r) \in Host
           /\ \A i \in DOMAIN r : r[i] \in Host /\ r[i] \notin Client
<1>1. r \in Seq(Host) /\ r # <<>> /\ Client \cap Host = {}
  BY EntryAssumption, ClientAssumption
<1>2. QED
  BY <1>1 DEF Last

\* Every step of an entry point is a step of the clients or leaves them alone.
LEMMA SshSteps ==
    ASSUME SshTypeOK, [Next]_vars
    PROVE  SshNext \/ UNCHANGED sshVars
<1>1. held \subseteq Client
  BY DEF SshTypeOK
<1>2. CASE Begin
  BY <1>2, RoutesGiven, EntryAssumption DEF Begin, SshNext, Given
<1>3. CASE Prepare
  BY <1>1, <1>3 DEF Prepare, SshNext, OpenTunnel
<1>4. CASE CloseClient
  BY <1>1, <1>4 DEF CloseClient, SshNext, Close
<1>5. CASE Library
  <2>1. CASE \E key \in Keys, b \in BOOLEAN, r \in Routes : Connect(r, key, b)
    BY <2>1, RoutesGiven, EntryAssumption DEF SshNext, Given
  <2>2. ASSUME NEW key \in Keys, NEW b \in BOOLEAN, NEW r \in Routes, NEW j \in held,
               Len(r) = 2, Connect(<<r[1], j, r[2]>>, key, b)
        PROVE  SshNext
    <3>1. r[1] \in Host /\ r[1] \notin Client /\ r[2] \in Host /\ r[2] \notin Client
      <4>1. DOMAIN r = 1..2
        BY <2>2, RoutesGiven
      <4>2. QED
        BY <4>1, RoutesGiven
    <3> DEFINE s == <<r[1], j, r[2]>>
    <3>2. s \in Seq(Client \cup Host) /\ s # <<>> /\ Last(s) = r[2]
      BY <1>1, <3>1 DEF Last
    <3>3. \A i \in DOMAIN s : s[i] \in Client => s[i] \in held
      <4>1. DOMAIN s = 1..3
        OBVIOUS
      <4>2. \A i \in 1..3 : i = 1 \/ i = 2 \/ i = 3
        OBVIOUS
      <4>3. QED
        BY <3>1, <4>1, <4>2
    <3>4. Given(s, key, b)
      BY <3>1, <3>2, <3>3, EntryAssumption DEF Given
    <3>5. QED
      BY <2>2, <3>4 DEF SshNext
  <2>3. CASE \E c \in held, t \in Tunnel : OpenTunnel(c, t)
    BY <1>1, <2>3 DEF SshNext
  <2>4. CASE \E c \in held : Close(c)
    BY <1>1, <2>4 DEF SshNext
  <2>5. QED
    BY <1>5, <2>1, <2>2, <2>3, <2>4 DEF Library
<1>6. CASE (\E c \in Client : Lose(c)) /\ UNCHANGED program
  BY <1>6 DEF SshNext
<1>7. CASE CallStep /\ UNCHANGED program
  BY <1>7 DEF SshNext, CallStep
<1>8. CASE \/ Connected \/ SetSubfolder \/ OpenSession \/ KeepSession \/ SessionFails
           \/ CheckFolders \/ CheckRaises \/ Body \/ BodyRaises \/ RunKernel
           \/ Closed \/ Drop \/ UNCHANGED vars
  BY <1>8 DEF Connected, SetSubfolder, OpenSession, KeepSession, SessionFails, CheckFolders,
              CheckRaises, Body, BodyRaises, RunKernel, Closed, Drop, vars
<1>9. QED
  BY <1>2, <1>3, <1>4, <1>5, <1>6, <1>7, <1>8 DEF Next, Step

\* A route without its last item.
LEMMA FrontOf ==
    ASSUME NEW S, NEW r \in Seq(S), r # <<>>
    PROVE  /\ Len(r) \in Nat \ {0} /\ DOMAIN r = 1..Len(r)
           /\ Front(r) \in Seq(S) /\ Len(Front(r)) = Len(r) - 1
           /\ DOMAIN Front(r) = 1..(Len(r) - 1)
           /\ \A i \in 1..(Len(r) - 1) : Front(r)[i] = r[i]
           /\ Last(r) = r[Len(r)] /\ Last(r) \in S
<1>1. Len(r) \in Nat \ {0} /\ DOMAIN r = 1..Len(r)
  OBVIOUS
<1>2. Front(r) \in Seq(S) /\ Len(Front(r)) = Len(r) - 1
  BY <1>1 DEF Front
<1>3. \A i \in 1..(Len(r) - 1) : Front(r)[i] = r[i]
  BY <1>1 DEF Front
<1>4. QED
  BY <1>1, <1>2, <1>3 DEF Last

\* The jump host is the last of the jump hosts, and its route is all of them.
LEMMA NextJump ==
    ASSUME NEW S, NEW s \in Seq(S), s # <<>>
    PROVE  /\ TakeJump(s)[1] = s[Len(s)]
           /\ Append(TakeJump(s)[2], TakeJump(s)[1]) = s
<1>1. /\ Len(s) \in Nat \ {0} /\ Front(s) \in Seq(S) /\ Len(Front(s)) = Len(s) - 1
      /\ \A i \in 1..(Len(s) - 1) : Front(s)[i] = s[i]
      /\ Last(s) = s[Len(s)] /\ Last(s) \in S
  BY FrontOf
<1> DEFINE a == Append(Front(s), Last(s))
<1>2. a \in Seq(S) /\ Len(a) = Len(s)
  BY <1>1
<1>3. \A i \in 1..Len(s) : a[i] = s[i]
  BY <1>1
<1>4. a = s
  BY <1>2, <1>3, SeqEqual
<1>5. QED
  BY <1>1, <1>4 DEF TakeJump

----------------------------------------------------------------------------
(* Where the steps of a call are taken.                                    *)

\* The frame of a step of connect_override(): its client is not connected yet,
\* nobody has it, and nothing is connected through it.
LEMMA InConnect ==
    ASSUME SshInv, ~Idle, Top.at \in {"jump", "auth", "open"}
    PROVE  /\ stack \in Seq(Frames) /\ Len(stack) \in Nat \ {0} /\ DOMAIN stack = 1..Len(stack)
           /\ Connecting /\ ~Closing /\ Me \in Client /\ Me = stack[Len(stack)].client
           /\ Top = stack[Len(stack)] /\ Nobody \notin Client
           /\ conn[Me] = "new" /\ (Top.at = "jump" => jump[Me] = Nobody)
           /\ route[Me] \in Seq(Client \cup Host) /\ route[Me] # <<>>
           /\ tunnels[Me] = {} /\ Me \notin held \cup lent
           /\ \A d \in Client : jump[d] # Me
<1>1. stack \in Seq(Frames)
  BY DEF SshInv, SshTypeOK, Frames, Labels
<1>2. /\ Len(stack) \in Nat \ {0} /\ DOMAIN stack = 1..Len(stack) /\ Me \in Client
      /\ Len(stack) \in DOMAIN stack
  BY <1>1, TopType
<1>3. Connecting /\ ~Closing
  BY <1>2 DEF SshInv, CloseInv, Closing, Connecting, Top
<1>4. conn[Me] = "new" /\ (Top.at = "jump" => jump[Me] = Nobody)
  BY <1>2, <1>3 DEF SshInv, ConnectInv, Top, Me
<1>5. route[Me] \in Seq(Client \cup Host) /\ route[Me] # <<>>
  BY <1>2, <1>4 DEF SshInv, SshTypeOK, RouteInv
<1>6. tunnels[Me] = {} /\ Me \notin held \cup lent /\ \A d \in Client : jump[d] # Me
  BY <1>2, <1>4 DEF SshInv, FreshInv
<1>7. QED
  BY <1>1, <1>2, <1>3, <1>4, <1>5, <1>6, ClientAssumption DEF Top, Me

\* The frame of a step of close().
LEMMA InClose ==
    ASSUME SshInv, ~Idle, Top.at \in {"tunnels", "back", "end"}
    PROVE  /\ stack \in Seq(Frames) /\ Len(stack) \in Nat \ {0} /\ DOMAIN stack = 1..Len(stack)
           /\ Closing /\ ~Connecting /\ Me \in Client /\ Me = stack[Len(stack)].client
           /\ Top = stack[Len(stack)] /\ Nobody \notin Client
           /\ jump[Me] # Nobody => jump[Me] \in Client
<1>1. stack \in Seq(Frames)
  BY DEF SshInv, SshTypeOK, Frames, Labels
<1>2. /\ Len(stack) \in Nat \ {0} /\ DOMAIN stack = 1..Len(stack) /\ Me \in Client
      /\ Len(stack) \in DOMAIN stack
  BY <1>1, TopType
<1>3. Closing /\ ~Connecting
  BY <1>2 DEF SshInv, ConnectInv, Closing, Connecting, Top
<1>4. QED
  BY <1>1, <1>2, <1>3, ClientAssumption DEF SshInv, SshTypeOK, Top, Me

\* The route of a jump host is the list without the client's own host.
LEMMA JumpRoute ==
    ASSUME SshInv, At("jump"), Jumps # <<>>
    PROVE  /\ Jumps = Front(route[Me]) /\ Jumps \in Seq(Client \cup Host)
           /\ Len(route[Me]) \in Nat \ {0, 1} /\ Len(Jumps) = Len(route[Me]) - 1
           /\ TakeJump(Jumps)[1] = route[Me][Len(route[Me]) - 1]
           /\ TakeJump(Jumps)[1] = Last(Jumps)
           /\ Append(TakeJump(Jumps)[2], TakeJump(Jumps)[1]) = Jumps
<1>1. route[Me] \in Seq(Client \cup Host) /\ route[Me] # <<>>
  BY InConnect DEF At
<1>2. /\ Jumps \in Seq(Client \cup Host) /\ Len(route[Me]) \in Nat \ {0}
      /\ Len(Jumps) = Len(route[Me]) - 1
      /\ \A i \in 1..(Len(route[Me]) - 1) : Jumps[i] = route[Me][i]
  BY <1>1, FrontOf DEF Jumps
<1>3. Len(Jumps) \in Nat \ {0}
  BY <1>2, EmptySeq
<1>4. Jumps[Len(Jumps)] = route[Me][Len(route[Me]) - 1]
  BY <1>2, <1>3
<1>5. TakeJump(Jumps)[1] = Jumps[Len(Jumps)] /\ Append(TakeJump(Jumps)[2], TakeJump(Jumps)[1]) = Jumps
  BY <1>2, NextJump
<1>6. QED
  BY <1>2, <1>3, <1>4, <1>5 DEF Jumps, Last

----------------------------------------------------------------------------
(* Types.                                                                  *)

\* A frame that returns leaves the stack a sequence of frames.
LEMMA ReturnType ==
    ASSUME stack \in Seq(Frames), ~Idle, NEW label \in Labels, Return(label),
           result \in {"none", "ok", "raised"}
    PROVE  stack' \in Seq(Frames) /\ result' \in {"none", "ok", "raised"}
<1>1. CASE Len(stack) = 1
  <2>1. stack' = <<>> /\ result' = "ok"
    BY <1>1, Returns
  <2>2. QED
    BY <2>1
<1>2. CASE Len(stack) # 1
  BY <1>2, Returns
<1>3. QED
  BY <1>1, <1>2

\* Every step keeps the types.
LEMMA TypeStep ==
    ASSUME SshInv, SshNext
    PROVE  SshTypeOK'
<1> USE DEF SshTypeOK, history, args
<1>0. SshTypeOK /\ stack \in Seq(Frames) /\ (stack' \in Seq(Frames) <=> stack' \in
           Seq([client : Client, at : {"jump", "auth", "open", "tunnels", "back", "end"}]))
  BY DEF SshInv, Frames, Labels
<1> USE <1>0
<1> HIDE DEF SshTypeOK
<1>1. CASE DirectHost
  <2>1. stack' \in Seq(Frames)
    BY <1>1, Continues DEF DirectHost, At, Labels
  <2>2. QED
    BY <1>1, <2>1 DEF DirectHost, SshTypeOK
<1>2. CASE GivenJump
  <2>1. stack' \in Seq(Frames)
    BY <1>2, Continues DEF GivenJump, At, Labels
  <2>2. QED
    BY <1>2, <2>1 DEF GivenJump, SshTypeOK
<1>3. CASE ConnectJump
  <2>1. PICK d \in Fresh : /\ New(d, Jumps) /\ stack' = Append(stack, Frame(d, "jump"))
    BY <1>3, JumpRoute DEF ConnectJump
  <2>2. stack' \in Seq(Frames)
    BY <2>1, Calls DEF Fresh, Labels
  <2>3. Jumps \in Seq(Client \cup Host)
    BY <1>3, JumpRoute DEF ConnectJump
  <2>4. QED
    BY <1>3, <2>1, <2>2, <2>3 DEF ConnectJump, New, SshTypeOK
<1>4. CASE Authenticate
  <2>1. stack' \in Seq(Frames)
    BY <1>4, Continues DEF Authenticate, At, Labels
  <2>2. asked' \in Nat
    BY <1>4 DEF Authenticate, SshTypeOK
  <2>3. hasKey' \in [Client -> BOOLEAN]
    BY <1>4 DEF Authenticate, SshTypeOK, InheritsKey
  <2>4. QED
    BY <1>4, <2>1, <2>2, <2>3 DEF Authenticate, SshTypeOK
<1>5. CASE Open
  <2>1. stack' \in Seq(Frames) /\ result' \in {"none", "ok", "raised"}
    BY <1>5, ReturnType DEF Open, At, Labels, SshTypeOK
  <2>2. Me \in Client
    BY <1>5, TopType DEF Open, At
  <2>3. QED
    BY <1>5, <2>1, <2>2 DEF Open, SshTypeOK
<1>6. ASSUME Raise, UNCHANGED <<conn, route, jump, hasKey, listed, args, lent, asked>>,
             tunnels' \in [Client -> SUBSET Tunnel]
      PROVE  SshTypeOK'
  <2>1. {stack[i].client : i \in DOMAIN stack} \subseteq Client
    <3>1. \A i \in DOMAIN stack : stack[i] \in Frames
      BY LenProperties, ElementOfSeq
    <3>2. QED
      BY <3>1 DEF Frames
  <2>2. QED
    BY <1>6, <2>1 DEF Raise, SshTypeOK
<1>7. CASE ConnectFails \/ CloseFails
  BY <1>6, <1>7 DEF ConnectFails, CloseFails, SshTypeOK
<1>8. CASE \E t \in Tunnel : CloseTunnel(t)
  BY <1>8 DEF CloseTunnel, SshTypeOK
<1>9. CASE CloseConnection
  <2>1. CASE jump[Me] = Nobody
    <3>1. stack' \in Seq(Frames)
      BY <1>9, <2>1, Continues DEF CloseConnection, At, Labels, JumpToClose
    <3>2. QED
      BY <1>9, <3>1 DEF CloseConnection, SshTypeOK
  <2>2. CASE jump[Me] # Nobody
    <3>1. Me \in Client /\ jump[Me] \in Client
      BY <1>9, <2>2, TopType DEF CloseConnection, At, SshTypeOK
    <3>2. [Top EXCEPT !.at = "back"] \in Frames /\ Frame(jump[Me], "tunnels") \in Frames
      BY <1>9, <3>1, TopType DEF CloseConnection, At, Frames, Frame, Labels
    <3>3. /\ stack' = Append(Append(Callers, [Top EXCEPT !.at = "back"]), Frame(jump[Me], "tunnels"))
          /\ Callers \in Seq(Frames)
      BY <1>9, <2>2, TopType DEF CloseConnection, At, JumpToClose
    <3>4. Append(Callers, [Top EXCEPT !.at = "back"]) \in Seq(Frames)
      BY <3>2, <3>3
    <3>5. stack' \in Seq(Frames)
      BY <3>2, <3>3, <3>4
    <3>6. QED
      BY <1>9, <3>5 DEF CloseConnection, SshTypeOK
  <2>3. QED
    BY <2>1, <2>2
<1>10. CASE CloseReturns
  <2>1. stack' \in Seq(Frames) /\ result' \in {"none", "ok", "raised"}
    BY <1>10, ReturnType DEF CloseReturns, At, Labels, SshTypeOK
  <2>2. QED
    BY <1>10, <2>1 DEF CloseReturns, SshTypeOK
<1>11. ASSUME NEW r, NEW key, NEW b, Given(r, key, b), Connect(r, key, b)
       PROVE  SshTypeOK'
  <2>1. PICK c \in Fresh : New(c, r) /\ stack' = <<Frame(c, "jump")>>
    BY <1>11 DEF Connect
  <2>2. stack' \in Seq(Frames)
    BY <2>1 DEF Fresh, Frames, Frame, Labels
  <2>3. {r[i] : i \in {j \in DOMAIN r : r[j] \in Client}} \subseteq Client
    OBVIOUS
  <2>4. QED
    BY <1>11, <2>1, <2>2, <2>3 DEF Connect, Given, New, SshTypeOK
<1>12. ASSUME NEW c \in Client, Close(c)
       PROVE  SshTypeOK'
  <2>1. stack' \in Seq(Frames)
    BY <1>12 DEF Close, Frames, Frame, Labels
  <2>2. QED
    BY <1>12, <2>1 DEF Close, SshTypeOK
<1>13. CASE \E c \in Client, t \in Tunnel : OpenTunnel(c, t)
  <2>1. tunnels' \in [Client -> SUBSET Tunnel]
    BY <1>13 DEF OpenTunnel, SshTypeOK
  <2>2. QED
    BY <1>13, <2>1 DEF OpenTunnel, SshTypeOK
<1>14. CASE \E c \in Client : Lose(c)
  <2>1. conn' \in [Client -> {"none", "new", "open", "closed", "lost"}]
    BY <1>14 DEF Lose, SshTypeOK
  <2>2. QED
    BY <1>14, <2>1 DEF Lose, SshTypeOK
<1>15. QED
  BY <1>1, <1>2, <1>3, <1>4, <1>5, <1>7, <1>8, <1>9, <1>10, <1>11, <1>12, <1>13, <1>14
     DEF SshNext, ConnectStep, CloseStep

----------------------------------------------------------------------------
(* Clients that nobody has connected.                                      *)

\* The client of the frame below the last waits at its jump host.
LEMMA CallerOf ==
    ASSUME SshInv, At("open"), Callers # <<>>
    PROVE  /\ Len(stack) # 1 /\ Len(stack) - 1 \in Below /\ Len(stack) - 1 \in DOMAIN stack
           /\ Last(Callers) = stack[Len(stack) - 1] /\ Last(Callers).client \in Client
           /\ conn[Last(Callers).client] = "new" /\ jump[Last(Callers).client] = Nobody
           /\ Last(Callers).client # Me
           /\ route[Me] = Front(route[Last(Callers).client])
           /\ Len(route[Last(Callers).client]) > 1
           /\ route[Last(Callers).client][Len(route[Last(Callers).client]) - 1] \in Host
<1>1. /\ stack \in Seq(Frames) /\ Len(stack) \in Nat \ {0} /\ DOMAIN stack = 1..Len(stack)
      /\ Connecting /\ Me = stack[Len(stack)].client
  BY InConnect DEF At
<1>2. Len(Callers) = Len(stack) - 1 /\ Callers \in Seq(Frames)
      /\ \A i \in 1..(Len(stack) - 1) : Callers[i] = stack[i]
  BY <1>1, TopType DEF At
<1>3. Len(Callers) # 0
  BY <1>2, EmptySeq
<1> DEFINE n == Len(stack) - 1
<1>4. /\ Len(stack) # 1 /\ n \in Below /\ n \in DOMAIN stack /\ n \in 1..n
      /\ Len(stack) \in DOMAIN stack /\ n # Len(stack) /\ n + 1 = Len(stack) /\ Len(Callers) = n
  <2>1. Len(stack) \in Nat \ {0, 1}
    BY <1>1, <1>2, <1>3
  <2>2. QED
    BY <1>1, <1>2, <2>1, BeforeLast DEF Below
<1>5. Last(Callers) = stack[n]
  <2>1. Callers[n] = stack[n]
    BY <1>2, <1>4
  <2>2. QED
    BY <1>4, <2>1 DEF Last
<1>6. n = Len(stack) - 1
  OBVIOUS
<1> HIDE DEF n
<1>7. stack[n] \in Frames
  BY <1>1, <1>4, ElementOfSeq
<1>8. stack[n].at = "jump"
  BY <1>1, <1>4 DEF SshInv, ConnectInv
<1>9. /\ conn[stack[n].client] = "new" /\ jump[stack[n].client] = Nobody
      /\ stack[n].client # Me /\ stack[n].client \in Client
  BY <1>1, <1>4, <1>7, <1>8 DEF SshInv, ConnectInv, Frames
<1>10. LET r == route[stack[n].client]
       IN  Len(r) > 1 /\ r[Len(r) - 1] \in Host /\ route[Me] = Front(r)
  BY <1>1, <1>4 DEF SshInv, ConnectInv
<1>11. QED
  BY <1>4, <1>5, <1>6, <1>9, <1>10

\* A client that is given as a jump host has been lent.
LEMMA JumpIsLent ==
    ASSUME SshInv, GivenJump
    PROVE  /\ Me \in Client /\ conn[Me] = "new" /\ TakeJump(Jumps)[1] \in Client \cap lent
           /\ jump' = [jump EXCEPT ![Me] = TakeJump(Jumps)[1]] /\ jump[Me] = Nobody
<1>1. /\ route[Me] \in Seq(Client \cup Host) /\ Len(route[Me]) \in Nat \ {0, 1}
      /\ conn[Me] = "new" /\ Me \in Client /\ jump[Me] = Nobody
  BY JumpRoute, InConnect DEF GivenJump, At
<1>2. DOMAIN route[Me] = 1..Len(route[Me])
  BY <1>1, LenProperties
<1>3. Len(route[Me]) - 1 \in DOMAIN route[Me]
  BY <1>1, <1>2, BeforeLast
<1>4. QED
  BY <1>1, <1>3, JumpRoute DEF GivenJump, SshInv, RouteInv

\* A client that nobody has connected is used by nobody, after every step.
LEMMA FreshStep ==
    ASSUME SshInv, SshNext
    PROVE  FreshInv'
<1> USE DEF history, args
<1>0. FreshInv /\ SshTypeOK /\ Nobody \notin Client
  BY ClientAssumption DEF SshInv
<1>1. CASE DirectHost \/ Authenticate
  BY <1>0, <1>1 DEF DirectHost, Authenticate, FreshInv
<1>2. CASE GivenJump
  <2>1. /\ Me \in Client /\ conn[Me] = "new" /\ jump' = [jump EXCEPT ![Me] = TakeJump(Jumps)[1]]
        /\ TakeJump(Jumps)[1] \in Client
    BY <1>2, InConnect DEF GivenJump, At
  <2>2. TakeJump(Jumps)[1] \in lent
    BY <1>2, JumpIsLent
  <2>3. QED
    BY <1>0, <1>2, <2>1, <2>2 DEF GivenJump, FreshInv, SshTypeOK
<1>3. CASE ConnectJump
  BY <1>0, <1>3 DEF ConnectJump, New, Fresh, FreshInv, SshTypeOK
<1>4. CASE Open
  <2>1. Me \in Client
    BY <1>4, InConnect DEF Open, At
  <2>2. CASE Callers = <<>>
    BY <1>0, <1>4, <2>1, <2>2 DEF Open, FreshInv, SshTypeOK
  <2>3. CASE Callers # <<>>
    BY <1>0, <1>4, <2>1, <2>3, CallerOf DEF Open, FreshInv, SshTypeOK
  <2>4. QED
    BY <2>2, <2>3
<1>5. CASE ConnectFails \/ CloseFails
  BY <1>0, <1>5 DEF ConnectFails, CloseFails, Raise, FreshInv
<1>6. CASE \E t \in Tunnel : CloseTunnel(t)
  BY <1>0, <1>6 DEF CloseTunnel, FreshInv, SshTypeOK
<1>7. CASE CloseConnection
  <2>1. Me \in Client
    BY <1>7, InClose DEF CloseConnection, At
  <2>2. QED
    BY <1>0, <1>7, <2>1 DEF CloseConnection, ToClose, FreshInv, SshTypeOK
<1>8. CASE CloseReturns
  BY <1>0, <1>8 DEF CloseReturns, FreshInv, SshTypeOK
<1>9. ASSUME NEW r, NEW key, NEW b, Given(r, key, b), Connect(r, key, b)
      PROVE  FreshInv'
  <2>1. PICK c \in Fresh : New(c, r)
    BY <1>9 DEF Connect
  <2>2. lent' \subseteq lent \cup held
    BY <1>9 DEF Connect, Given
  <2>3. QED
    BY <1>0, <1>9, <2>1, <2>2 DEF Connect, New, Fresh, FreshInv, SshTypeOK
<1>10. CASE \E c \in Client, t \in Tunnel : OpenTunnel(c, t)
  BY <1>0, <1>10 DEF OpenTunnel, FreshInv, SshTypeOK
<1>11. CASE \E c \in Client : Close(c)
  BY <1>0, <1>11 DEF Close, FreshInv
<1>12. CASE \E c \in Client : Lose(c)
  BY <1>0, <1>12 DEF Lose, FreshInv, SshTypeOK
<1>13. QED
  BY <1>1, <1>2, <1>3, <1>4, <1>5, <1>6, <1>7, <1>8, <1>9, <1>10, <1>11, <1>12
     DEF SshNext, ConnectStep, CloseStep

----------------------------------------------------------------------------
(* The routes.                                                             *)

\* The clients of a route have been lent, and its last item is a host.
LEMMA RouteStep ==
    ASSUME SshInv, SshNext
    PROVE  RouteInv'
<1> USE DEF history, args
<1>0. RouteInv /\ SshTypeOK
  BY DEF SshInv
<1>1. CASE ConnectJump
  <2>1. PICK d \in Fresh : New(d, Jumps)
    BY <1>1, JumpRoute DEF ConnectJump
  <2>2. /\ Jumps # <<>> /\ Last(Jumps) \in Host
        /\ \A i \in DOMAIN Jumps : Jumps[i] \in Client => Jumps[i] \in lent
    <3>1. /\ route[Me] \in Seq(Client \cup Host) /\ route[Me] # <<>> /\ Me \in Client
          /\ conn[Me] = "new"
      BY <1>1, InConnect DEF ConnectJump, At
    <3>2. /\ DOMAIN Jumps = 1..(Len(route[Me]) - 1) /\ DOMAIN route[Me] = 1..Len(route[Me])
          /\ \A i \in 1..(Len(route[Me]) - 1) : Jumps[i] = route[Me][i]
          /\ Len(route[Me]) \in Nat
      BY <3>1, FrontOf DEF Jumps
    <3>3. \A i \in DOMAIN Jumps : i \in DOMAIN route[Me] /\ Jumps[i] = route[Me][i]
      BY <3>2
    <3>4. QED
      BY <1>0, <1>1, <3>1, <3>3, JumpRoute DEF ConnectJump, RouteInv
  <2>3. QED
    BY <1>0, <1>1, <2>1, <2>2 DEF ConnectJump, New, Fresh, RouteInv, SshTypeOK
<1>2. ASSUME NEW r, NEW key, NEW b, Given(r, key, b), Connect(r, key, b)
      PROVE  RouteInv'
  BY <1>0, <1>2 DEF Connect, Given, New, Fresh, RouteInv, SshTypeOK
<1>3. ASSUME UNCHANGED <<route, lent>>,
             \A c \in Client : conn'[c] # "none" => conn[c] # "none"
      PROVE  RouteInv'
  BY <1>0, <1>3 DEF RouteInv
<1>4. CASE DirectHost \/ GivenJump \/ Authenticate \/ ConnectFails \/ CloseFails \/ CloseReturns
           \/ (\E t \in Tunnel : CloseTunnel(t))
           \/ (\E c \in Client, t \in Tunnel : OpenTunnel(c, t)) \/ (\E c \in Client : Close(c))
  BY <1>3, <1>4 DEF DirectHost, GivenJump, Authenticate, ConnectFails, CloseFails, CloseReturns,
                    CloseTunnel, OpenTunnel, Close, Raise
<1>5. CASE Open
  BY <1>0, <1>3, <1>5, InConnect DEF Open, At, SshTypeOK
<1>6. CASE CloseConnection
  <2>1. ASSUME NEW c \in Client, conn'[c] # "none", conn[c] = "none"
        PROVE  FALSE
    <3>1. c = Me
      BY <1>0, <1>6, <2>1 DEF CloseConnection, ToClose, SshTypeOK
    <3>2. Me \notin held /\ listed[c] /\ \A d \in Client : jump[d] # c
      BY <2>1, <3>1 DEF SshInv, FreshInv
    <3>3. Closing /\ Len(stack) \in Nat \ {0} /\ stack \in Seq(Frames) /\ Me = stack[Len(stack)].client
      BY <1>6, InClose DEF CloseConnection, At
    <3>4. CASE Len(stack) = 1
      BY <3>2, <3>3, <3>4 DEF SshInv, CloseInv
    <3>5. CASE Len(stack) # 1
      <4> DEFINE n == Len(stack) - 1
      <4>1. n \in Below /\ n \in 1..Len(stack) /\ n + 1 = Len(stack)
        BY <3>3, <3>5, BeforeLast DEF Below
      <4>2. stack[n] \in Frames
        BY <3>3, <4>1, ElementOfSeq
      <4> HIDE DEF n
      <4>3. jump[stack[n].client] = Me
        BY <3>3, <4>1 DEF SshInv, CloseInv
      <4>4. QED
        BY <3>1, <3>2, <4>2, <4>3 DEF Frames
    <3>6. QED
      BY <3>4, <3>5
  <2>2. QED
    BY <1>3, <1>6, <2>1 DEF CloseConnection
<1>7. CASE \E c \in Client : Lose(c)
  BY <1>0, <1>3, <1>7 DEF Lose, SshTypeOK
<1>8. QED
  BY <1>1, <1>2, <1>4, <1>5, <1>6, <1>7 DEF SshNext, ConnectStep, CloseStep

----------------------------------------------------------------------------
(* The jump hosts.                                                         *)

\* close() has come to a client that nobody has lent from the only client that
\* is connected through it.
LEMMA CloseAlone ==
    ASSUME SshInv, At("tunnels"), Me \notin lent, NEW c \in Client, jump[c] = Me
    PROVE  Gone(c)
<1>1. /\ Closing /\ Len(stack) \in Nat \ {0} /\ stack \in Seq(Frames)
      /\ Me = stack[Len(stack)].client /\ Me \in Client
  BY InClose DEF At
<1>2. CASE Len(stack) = 1
  BY <1>1, <1>2 DEF SshInv, CloseInv, JumpInv
<1>3. CASE Len(stack) # 1
  <2> DEFINE n == Len(stack) - 1
  <2>1. n \in Below /\ n \in 1..Len(stack) /\ n + 1 = Len(stack)
    BY <1>1, <1>3, BeforeLast DEF Below
  <2>2. stack[n] \in Frames
    BY <1>1, <2>1, ElementOfSeq
  <2> HIDE DEF n
  <2>3. jump[stack[n].client] = Me /\ Gone(stack[n].client)
    BY <1>1, <2>1 DEF SshInv, CloseInv
  <2>4. c = stack[n].client
    BY <1>1, <2>2, <2>3 DEF SshInv, JumpInv, Frames
  <2>5. QED
    BY <2>3, <2>4
<1>4. QED
  BY <1>2, <1>3

\* A jump host that is not lent keeps its only client, and its connection as
\* long as that of the client.
LEMMA JumpStep ==
    ASSUME SshInv, SshNext
    PROVE  JumpInv'
<1> USE DEF history, args
<1>0. JumpInv /\ FreshInv /\ SshTypeOK /\ Nobody \notin Client
  BY ClientAssumption DEF SshInv
<1>1. CASE DirectHost \/ Authenticate
  BY <1>0, <1>1 DEF DirectHost, Authenticate, JumpInv, Up
<1>2. CASE GivenJump
  BY <1>0, <1>2, JumpIsLent DEF GivenJump, JumpInv, Up, SshTypeOK
<1>3. CASE ConnectJump
  <2>1. PICK d \in Fresh : conn' = [conn EXCEPT ![d] = "new"]
    BY <1>3 DEF ConnectJump, New
  <2>2. QED
    BY <1>0, <1>3, <2>1 DEF ConnectJump, Fresh, JumpInv, Up, SshTypeOK
<1>4. CASE Open
  <2>1. Me \in Client /\ conn[Me] = "new" /\ Me \notin held /\ \A d \in Client : jump[d] # Me
    BY <1>4, InConnect DEF Open, At
  <2>2. CASE Callers = <<>>
    BY <1>0, <1>4, <2>1, <2>2 DEF Open, JumpInv, Up, SshTypeOK
  <2>3. CASE Callers # <<>>
    <3> DEFINE p == Last(Callers).client
    <3>1. /\ p \in Client /\ conn[p] = "new" /\ jump[p] = Nobody /\ p # Me
          /\ jump' = [jump EXCEPT ![p] = Me] /\ conn' = [conn EXCEPT ![Me] = "open"]
          /\ UNCHANGED <<held, lent>> /\ (jump[Me] # Nobody => conn[jump[Me]] = "open")
      BY <1>4, <2>3, CallerOf DEF Open
    <3> HIDE DEF p
    <3>2. \A c \in Client : jump'[c] = IF c = p THEN Me ELSE jump[c]
      BY <1>0, <3>1 DEF SshTypeOK
    <3>3. \A c \in Client : conn'[c] = IF c = Me THEN "open" ELSE conn[c]
      BY <1>0, <3>1 DEF SshTypeOK
    <3>4. \A c \in Client : jump[c] # Nobody => jump[c] \in Client
      BY <1>0 DEF SshTypeOK
    <3>5. \A j \in Client \ lent : \A c, d \in Client : jump'[c] = j /\ jump'[d] = j => c = d
      BY <1>0, <2>1, <3>2 DEF JumpInv
    <3>6. \A h \in held \ lent : \A c \in Client : jump'[c] # h
      BY <1>0, <2>1, <3>2 DEF JumpInv
    <3>7. \A c \in Client : Up(c)' /\ jump'[c] # Nobody /\ jump'[c] \notin lent =>
                            c # p /\ conn'[jump[c]] \in {"open", "lost"}
      BY <1>0, <2>1, <3>1, <3>2, <3>3, <3>4 DEF JumpInv, Up
    <3>8. \A c \in Client : Up(c)' /\ jump'[c] # Nobody /\ jump'[c] \notin lent =>
                            conn'[jump'[c]] \in {"open", "lost"}
      BY <2>1, <3>1, <3>2, <3>3, <3>7 DEF Up
    <3>9. QED
      BY <3>1, <3>5, <3>6, <3>8 DEF JumpInv, Up
  <2>4. QED
    BY <2>2, <2>3
<1>5. CASE ConnectFails \/ CloseFails
  BY <1>0, <1>5 DEF ConnectFails, CloseFails, Raise, JumpInv, Up
<1>6. CASE (\E t \in Tunnel : CloseTunnel(t)) \/ (\E c \in Client : Close(c))
           \/ \E c \in Client, t \in Tunnel : OpenTunnel(c, t)
  BY <1>0, <1>6 DEF CloseTunnel, Close, OpenTunnel, JumpInv, Up
<1>7. CASE CloseConnection
  <2>1. Me \in Client
    BY <1>7, InClose DEF CloseConnection, At
  <2>2. \A c \in Client : jump[c] = Me /\ Me \notin lent => ~Up(c)
    BY <1>7, CloseAlone DEF CloseConnection, Gone, Up
  <2>3. QED
    BY <1>0, <1>7, <2>1, <2>2 DEF CloseConnection, ToClose, JumpInv, Up, SshTypeOK
<1>8. CASE CloseReturns
  BY <1>0, <1>8 DEF CloseReturns, JumpInv, Up, SshTypeOK
<1>9. ASSUME NEW r, NEW key, NEW b, Given(r, key, b), Connect(r, key, b)
      PROVE  JumpInv'
  <2>1. PICK c \in Fresh : conn' = [conn EXCEPT ![c] = "new"]
    BY <1>9 DEF Connect, New
  <2>2. lent \subseteq lent'
    BY <1>9 DEF Connect
  <2>3. QED
    BY <1>0, <1>9, <2>1, <2>2 DEF Connect, Fresh, JumpInv, Up, SshTypeOK
<1>10. CASE \E c \in Client : Lose(c)
  BY <1>0, <1>10 DEF Lose, JumpInv, Up, SshTypeOK
<1>11. QED
  BY <1>1, <1>2, <1>3, <1>4, <1>5, <1>6, <1>7, <1>8, <1>9, <1>10
     DEF SshNext, ConnectStep, CloseStep

----------------------------------------------------------------------------
(* The frames during connect_override().                                   *)

\* A frame that goes on has the clients of the stack where they were.
LEMMA SameClients ==
    ASSUME stack \in Seq(Frames), ~Idle, NEW label \in Labels, Continue(label)
    PROVE  /\ DOMAIN stack' = DOMAIN stack /\ Len(stack') = Len(stack) /\ Below' = Below
           /\ \A i \in DOMAIN stack : stack'[i].client = stack[i].client
           /\ \A i \in Below : stack'[i] = stack[i]
           /\ stack'[Len(stack)].at = label
<1>1. /\ stack' \in Seq(Frames) /\ Len(stack') = Len(stack) /\ \A i \in Below : stack'[i] = stack[i]
      /\ Top' = Frame(Me, label)
  BY Continues
<1>2. Len(stack) \in Nat \ {0} /\ DOMAIN stack = 1..Len(stack) /\ DOMAIN stack' = 1..Len(stack)
  BY <1>1, TopType, LenProperties
<1>3. stack'[Len(stack)] = Frame(stack[Len(stack)].client, label)
  BY <1>1 DEF Top, Me
<1>4. \A i \in DOMAIN stack : i \in Below \/ i = Len(stack)
  BY <1>2 DEF Below
<1>5. \A i \in DOMAIN stack : stack'[i].client = stack[i].client
  BY <1>1, <1>3, <1>4 DEF Frame
<1>6. QED
  BY <1>1, <1>2, <1>3, <1>5 DEF Frame, Below

\* The first frame tells what the call is, until it is over.
LEMMA FirstFrame ==
    ASSUME stack \in Seq(Frames), ~Idle, NEW label \in Labels,
           \/ Continue(label) \/ Return(label)
           \/ \E c \in Client, first \in Labels :
                 \/ stack' = Append(stack, Frame(c, first))
                 \/ stack' = Append(Append(Callers, Frame(Me, label)), Frame(c, first))
    PROVE  Idle' \/ stack'[1].at \in {stack[1].at, label}
<1>1. Len(stack) \in Nat \ {0} /\ (Len(stack) # 1 => 1 \in Below) /\ 1 \in 1..Len(stack)
  BY TopType DEF Below
<1>2. CASE Continue(label)
  BY <1>1, <1>2, SameClients
<1>3. CASE Return(label)
  <2>1. CASE Len(stack) = 1
    BY <1>3, <2>1, Returns DEF Idle
  <2>2. CASE Len(stack) = 2
    <3>1. Len(stack) # 1 /\ Len(stack) - 1 = 1
      BY <2>2
    <3>2. Len(stack') = 1 /\ Top' = Frame(Me', label)
      BY <1>3, <3>1, Returns
    <3>3. QED
      BY <3>2 DEF Top, Frame
  <2>3. CASE Len(stack) \notin {1, 2}
    <3>1. 1 \in 1..(Len(stack) - 2)
      <4>1. \A n \in Nat \ {0} : n \notin {1, 2} => 1 \in 1..(n - 2)
        OBVIOUS
      <4>2. QED
        BY <1>1, <2>3, <4>1
    <3>2. QED
      BY <1>3, <2>3, <3>1, Returns
  <2>4. QED
    BY <2>1, <2>2, <2>3
<1>4. ASSUME NEW c \in Client, NEW first \in Labels, stack' = Append(stack, Frame(c, first))
      PROVE  stack'[1] = stack[1]
  BY <1>1, <1>4, Calls
<1>5. ASSUME NEW c \in Client, NEW first \in Labels,
             stack' = Append(Append(Callers, Frame(Me, label)), Frame(c, first))
      PROVE  stack'[1].at \in {stack[1].at, label}
  BY <1>1, <1>5, Waits DEF Frame
<1>6. QED
  BY <1>2, <1>3, <1>4, <1>5

\* connect_override() does not turn into close().
LEMMA StaysConnecting ==
    ASSUME SshInv, ConnectStep
    PROVE  Idle' \/ (Connecting' /\ ~Closing')
<1>1. ~Idle /\ stack \in Seq(Frames) /\ stack[1].at \in {"jump", "auth", "open"}
  BY InConnect DEF ConnectStep, DirectHost, GivenJump, ConnectJump, Authenticate, Open,
                   ConnectFails, At, Connecting
<1>2. CASE ConnectFails
  BY <1>2 DEF ConnectFails, Raise, Idle
<1>3. CASE ConnectJump
  <2>1. \E d \in Client : stack' = Append(stack, Frame(d, "jump"))
    BY <1>3 DEF ConnectJump, Fresh
  <2>2. Idle' \/ stack'[1].at \in {stack[1].at, "jump"}
    BY <1>1, <2>1, FirstFrame DEF Labels
  <2>3. QED
    BY <1>1, <2>2 DEF Connecting, Closing
<1>4. CASE Open
  <2>1. Return("auth")
    BY <1>4 DEF Open
  <2>2. Idle' \/ stack'[1].at \in {stack[1].at, "auth"}
    BY <1>1, <2>1, FirstFrame DEF Labels
  <2>3. QED
    BY <1>1, <2>2 DEF Connecting, Closing
<1>5. CASE DirectHost \/ GivenJump \/ Authenticate
  <2>1. Continue("auth") \/ Continue("open")
    BY <1>5 DEF DirectHost, GivenJump, Authenticate
  <2>2. Idle' \/ stack'[1].at \in {stack[1].at, "auth"} \/ stack'[1].at \in {stack[1].at, "open"}
    BY <1>1, <2>1, FirstFrame DEF Labels
  <2>3. QED
    BY <1>1, <2>2 DEF Connecting, Closing
<1>6. QED
  BY <1>2, <1>3, <1>4, <1>5 DEF ConnectStep

\* close() does not turn into connect_override().
LEMMA StaysClosing ==
    ASSUME SshInv, CloseStep
    PROVE  Idle' \/ (Closing' /\ ~Connecting')
<1>1. ~Idle /\ stack \in Seq(Frames) /\ stack[1].at \in {"tunnels", "back", "end"}
  BY InClose DEF CloseStep, CloseFails, CloseConnection, CloseReturns, CloseTunnel, At, Closing
<1>2. CASE CloseFails
  BY <1>2 DEF CloseFails, Raise, Idle
<1>3. CASE \E t \in Tunnel : CloseTunnel(t)
  BY <1>1, <1>3 DEF CloseTunnel, Closing, Connecting, Idle
<1>4. CASE CloseConnection
  <2>1. \/ Continue("end")
        \/ \E c \in Client :
              stack' = Append(Append(Callers, Frame(Me, "back")), Frame(c, "tunnels"))
    BY <1>1, <1>4, InClose, AtLabel DEF CloseConnection, JumpToClose, At
  <2>2. Idle' \/ stack'[1].at \in {stack[1].at, "end"} \/ stack'[1].at \in {stack[1].at, "back"}
    BY <1>1, <2>1, FirstFrame DEF Labels
  <2>3. QED
    BY <1>1, <2>2 DEF Connecting, Closing
<1>5. CASE CloseReturns
  <2>1. Return("back")
    BY <1>5 DEF CloseReturns
  <2>2. Idle' \/ stack'[1].at \in {stack[1].at, "back"}
    BY <1>1, <2>1, FirstFrame DEF Labels
  <2>3. QED
    BY <1>1, <2>2 DEF Connecting, Closing
<1>6. QED
  BY <1>2, <1>3, <1>4, <1>5 DEF CloseStep

\* A call that begins, and what happens between calls.
LEMMA Begins ==
    ASSUME SshInv, SshNext, ~ConnectStep, ~CloseStep
    PROVE  \/ /\ \E r, key, b : Given(r, key, b) /\ Connect(r, key, b)
              /\ Connecting' /\ ~Closing'
           \/ (\E c \in Client : Close(c)) /\ Closing' /\ ~Connecting'
           \/ (\E c \in Client, t \in Tunnel : OpenTunnel(c, t)) /\ Idle /\ Idle'
           \/ (\E c \in Client : Lose(c)) /\ UNCHANGED stack
<1>1. ASSUME NEW r, NEW key, NEW b, Connect(r, key, b)
      PROVE  Connecting' /\ ~Closing'
  BY <1>1 DEF Connect, Frame, Connecting, Closing, Idle
<1>2. ASSUME NEW c \in Client, Close(c)
      PROVE  Closing' /\ ~Connecting'
  BY <1>2 DEF Close, Frame, Connecting, Closing, Idle
<1>3. QED
  BY <1>1, <1>2 DEF SshNext, OpenTunnel, Lose, Idle

\* Linked() reads nothing that a step of another client changes.
LEMMA LinkedStays ==
    ASSUME NEW c, Linked(c), jump'[c] = jump[c], UNCHANGED <<route, lent>>,
           \A d \in Client : conn[d] # "none" => conn'[d] # "none"
    PROVE  Linked(c)'
BY DEF Linked

\* A frame that goes on to its authentication or its connection.
LEMMA ConnectGoesOn ==
    ASSUME SshInv, ~Idle, Top.at \in {"jump", "auth"}, NEW label \in {"auth", "open"},
           Continue(label), UNCHANGED <<conn, route, lent>>,
           \A c \in Client : c # Me => jump'[c] = jump[c],
           Linked(Me)'
    PROVE  ConnectInv'
<1>1. /\ stack \in Seq(Frames) /\ Len(stack) \in Nat \ {0} /\ DOMAIN stack = 1..Len(stack)
      /\ Connecting /\ Me = stack[Len(stack)].client
  BY InConnect
<1>2. /\ DOMAIN stack' = DOMAIN stack /\ Len(stack') = Len(stack) /\ Below' = Below
      /\ \A i \in DOMAIN stack : stack'[i].client = stack[i].client
      /\ \A i \in Below : stack'[i] = stack[i]
      /\ stack'[Len(stack)].at = label
  BY <1>1, SameClients DEF Labels
<1>3. Me' = Me
  BY <1>1, Continues DEF Labels
<1>4. /\ \A i \in DOMAIN stack : (i \in Below \/ i = Len(stack)) /\ stack[i].client \in Client
      /\ Len(stack) \notin Below
  <2>1. \A i \in DOMAIN stack : stack[i] \in Frames
    BY <1>1, ElementOfSeq
  <2>2. QED
    BY <1>1, <2>1 DEF Below, Frames
<1>5. \A i \in Below : i \in DOMAIN stack /\ i + 1 \in DOMAIN stack
  BY <1>1 DEF Below
<1>6. \A i \in DOMAIN stack : conn[stack[i].client] = "new"
  BY <1>1 DEF SshInv, ConnectInv
<1>7. \A i \in Below : /\ stack[i].at = "jump" /\ jump[stack[i].client] = Nobody
                       /\ stack[i].client # Me
  <2>1. ASSUME NEW i \in Below
        PROVE  /\ stack[i].at = "jump" /\ jump[stack[i].client] = Nobody
    BY <1>1, <1>5, <2>1 DEF SshInv, ConnectInv
  <2>2. ASSUME NEW i \in Below
        PROVE  stack[i].client # Me
    <3>1. i # Len(stack) /\ i \in DOMAIN stack /\ Len(stack) \in DOMAIN stack
      BY <1>1, <1>4, <1>5
    <3>2. QED
      BY <1>1, <3>1 DEF SshInv, ConnectInv
  <2>3. QED
    BY <2>1, <2>2
<1>8. \A i \in DOMAIN stack' : /\ conn'[stack'[i].client] = "new"
                               /\ stack'[i].at \in {"jump", "auth", "open"}
                               /\ stack'[i].at = "jump" => jump'[stack'[i].client] = Nobody
  BY <1>2, <1>4, <1>6, <1>7
<1>9. \A i, j \in DOMAIN stack' : stack'[i].client = stack'[j].client => i = j
  BY <1>1, <1>2 DEF SshInv, ConnectInv
<1>10. \A i \in Below' :
          LET r == route'[stack'[i].client]
          IN  /\ stack'[i].at = "jump" /\ Len(r) > 1 /\ r[Len(r) - 1] \in Host
              /\ route'[stack'[i + 1].client] = Front(r)
  <2>1. \A i \in Below : stack'[i] = stack[i] /\ stack'[i + 1].client = stack[i + 1].client
    BY <1>2, <1>5
  <2>2. QED
    BY <1>1, <1>2, <2>1 DEF SshInv, ConnectInv
<1>11. QED
  BY <1>3, <1>8, <1>9, <1>10 DEF ConnectInv

\* The jump host is asked for with the hosts before it.
LEMMA ConnectGoesDown ==
    ASSUME SshInv, ConnectJump
    PROVE  ConnectInv'
<1>1. /\ stack \in Seq(Frames) /\ Len(stack) \in Nat \ {0} /\ DOMAIN stack = 1..Len(stack)
      /\ Connecting /\ Me = stack[Len(stack)].client /\ Me \in Client /\ Top = stack[Len(stack)]
      /\ Top.at = "jump" /\ jump[Me] = Nobody
  BY InConnect DEF ConnectJump, At
<1>2. PICK d \in Client : /\ conn[d] = "none" /\ New(d, Jumps)
                          /\ stack' = Append(stack, Frame(d, "jump"))
  BY JumpRoute DEF ConnectJump, Fresh
<1>3. /\ stack' \in Seq(Frames) /\ Len(stack') = Len(stack) + 1
      /\ \A i \in 1..Len(stack) : stack'[i] = stack[i]
      /\ Top' = Frame(d, "jump") /\ Me' = d
  BY <1>1, <1>2, Calls DEF Labels
<1>4. DOMAIN stack' = 1..(Len(stack) + 1) /\ Below' = 1..Len(stack)
  BY <1>1, <1>3, LenProperties DEF Below
<1>5. stack'[Len(stack) + 1] = Frame(d, "jump")
  BY <1>3 DEF Top
<1>6. \A i \in DOMAIN stack' : i \in DOMAIN stack \/ i = Len(stack) + 1
  BY <1>1, <1>4
<1>7. \A i \in DOMAIN stack : stack[i].client \in Client /\ conn[stack[i].client] = "new"
  <2>1. \A i \in DOMAIN stack : stack[i] \in Frames
    BY <1>1, ElementOfSeq
  <2>2. QED
    BY <1>1, <2>1 DEF SshInv, ConnectInv, Frames
<1>8. /\ conn' = [conn EXCEPT ![d] = "new"] /\ route' = [route EXCEPT ![d] = Jumps]
      /\ conn \in [Client -> {"none", "new", "open", "closed", "lost"}]
      /\ route \in [Client -> Seq(Client \cup Host)] /\ jump' = jump /\ jump[d] = Nobody
  BY <1>2 DEF New, ConnectJump, SshInv, SshTypeOK, FreshInv
<1>9. \A i \in DOMAIN stack : stack[i].client # d
  BY <1>2, <1>7
<1>10. \A i \in DOMAIN stack' : /\ conn'[stack'[i].client] = "new"
                                /\ stack'[i].at \in {"jump", "auth", "open"}
                                /\ stack'[i].at = "jump" => jump'[stack'[i].client] = Nobody
  <2>1. ASSUME NEW i \in DOMAIN stack
        PROVE  /\ conn'[stack'[i].client] = "new"
               /\ stack'[i].at \in {"jump", "auth", "open"}
               /\ stack'[i].at = "jump" => jump'[stack'[i].client] = Nobody
    BY <1>1, <1>3, <1>7, <1>8, <1>9 DEF SshInv, ConnectInv
  <2>2. QED
    BY <1>2, <1>5, <1>6, <1>8, <2>1 DEF Frame
<1>11. \A i, j \in DOMAIN stack' : stack'[i].client = stack'[j].client => i = j
  <2>1. \A i, j \in DOMAIN stack : stack[i].client = stack[j].client => i = j
    BY <1>1 DEF SshInv, ConnectInv
  <2>2. QED
    BY <1>1, <1>3, <1>5, <1>6, <1>9, <2>1 DEF Frame
<1>12. ASSUME NEW i \in Below'
       PROVE  LET r == route'[stack'[i].client]
              IN  /\ stack'[i].at = "jump" /\ Len(r) > 1 /\ r[Len(r) - 1] \in Host
                  /\ route'[stack'[i + 1].client] = Front(r)
  <2>1. i \in DOMAIN stack /\ stack'[i] = stack[i]
    BY <1>1, <1>3, <1>4
  <2>2. route'[stack'[i].client] = route[stack[i].client]
    BY <1>7, <1>8, <1>9, <2>1
  <2>3. CASE i = Len(stack)
    <3>1. route'[stack'[i + 1].client] = Jumps
      BY <1>2, <1>5, <1>8, <2>3 DEF Frame
    <3>2. Len(route[Me]) > 1 /\ route[Me][Len(route[Me]) - 1] \in Host /\ Jumps = Front(route[Me])
      <4>1. Len(route[Me]) \in Nat \ {0, 1}
        BY JumpRoute DEF ConnectJump
      <4>2. QED
        BY <4>1, JumpRoute, BeforeLast DEF ConnectJump
    <3>3. QED
      BY <1>1, <2>1, <2>2, <2>3, <3>1, <3>2
  <2>4. CASE i # Len(stack)
    <3>1. i \in Below /\ i + 1 \in DOMAIN stack
      BY <1>1, <2>1, <2>4 DEF Below
    <3>2. route'[stack'[i + 1].client] = route[stack[i + 1].client]
      BY <1>1, <1>3, <1>7, <1>8, <1>9, <3>1
    <3>3. QED
      BY <1>1, <2>1, <2>2, <3>1, <3>2 DEF SshInv, ConnectInv
  <2>5. QED
    BY <2>3, <2>4
<1>13. Top'.at = "jump"
  BY <1>3 DEF Frame
<1>14. QED
  BY <1>10, <1>11, <1>12, <1>13 DEF ConnectInv

\* The client below goes on to its authentication with its jump host.
LEMMA ConnectGoesUp ==
    ASSUME SshInv, Open, Callers # <<>>
    PROVE  ConnectInv'
<1> DEFINE n == Len(stack) - 1
           p == Last(Callers).client
<1>1. /\ stack \in Seq(Frames) /\ Len(stack) \in Nat \ {0} /\ DOMAIN stack = 1..Len(stack)
      /\ Connecting /\ Me = stack[Len(stack)].client /\ Me \in Client /\ conn[Me] = "new"
      /\ Me \notin lent /\ Client \cap Host = {} /\ ~Idle
  BY InConnect, ClientAssumption DEF Open, At
<1>2. /\ Len(stack) # 1 /\ n \in Below /\ n \in DOMAIN stack /\ Last(Callers) = stack[n]
      /\ p \in Client /\ p # Me /\ conn[p] = "new" /\ p = stack[n].client
      /\ route[Me] = Front(route[p]) /\ Len(route[p]) > 1 /\ route[p][Len(route[p]) - 1] \in Host
  BY CallerOf DEF Open
<1>3. /\ stack' \in Seq(Frames) /\ Len(stack') = n
      /\ \A i \in 1..(Len(stack) - 2) : stack'[i] = stack[i]
      /\ Me' = stack[n].client /\ Top' = Frame(Me', "auth")
  BY <1>1, <1>2, Returns DEF Open, Labels
<1>4. n = Len(stack) - 1 /\ n \in Nat \ {0} /\ Len(stack) - 2 = n - 1
  BY <1>1, <1>2
<1> HIDE DEF n, p
<1>5. DOMAIN stack' = 1..n /\ Below' = 1..(n - 1) /\ stack'[n] = Frame(p, "auth")
  <2>1. DOMAIN stack' = 1..n /\ Below' = 1..(n - 1)
    BY <1>3, LenProperties DEF Below
  <2>2. stack'[n] = Frame(p, "auth")
    BY <1>2, <1>3 DEF Top
  <2>3. QED
    BY <2>1, <2>2
<1>6. \A i \in 1..n : i \in DOMAIN stack /\ (i \in 1..(n - 1) \/ i = n)
  BY <1>1, <1>4
<1>7. \A i \in 1..(n - 1) : stack'[i] = stack[i] /\ i \in Below /\ i + 1 \in 1..n
  BY <1>1, <1>3, <1>4 DEF Below
<1>8. \A i \in 1..n : stack'[i].client = stack[i].client
  BY <1>2, <1>5, <1>6, <1>7 DEF Frame
<1>9. \A i \in 1..n : stack[i].client # Me /\ stack[i].client \in Client
  <2>1. \A i \in 1..n : stack[i] \in Frames /\ Len(stack) \in DOMAIN stack /\ i # Len(stack)
    BY <1>1, <1>4, <1>6, ElementOfSeq
  <2>2. QED
    BY <1>1, <1>6, <2>1 DEF SshInv, ConnectInv, Frames
<1>10. /\ conn' = [conn EXCEPT ![Me] = "open"] /\ jump' = [jump EXCEPT ![p] = Me]
       /\ conn \in [Client -> {"none", "new", "open", "closed", "lost"}]
       /\ jump \in [Client -> Client \cup {Nobody}] /\ route' = route /\ lent' = lent
  BY DEF Open, SshInv, SshTypeOK, p, history
<1>11. ASSUME NEW i \in 1..n
       PROVE  /\ conn'[stack'[i].client] = "new" /\ stack'[i].at \in {"jump", "auth", "open"}
              /\ stack'[i].at = "jump" => jump'[stack'[i].client] = Nobody
  <2>1. conn[stack[i].client] = "new"
    BY <1>1, <1>6 DEF SshInv, ConnectInv
  <2>2. CASE i = n
    BY <1>5, <1>8, <1>9, <1>10, <2>1, <2>2 DEF Frame
  <2>3. CASE i # n
    <3>1. i \in 1..(n - 1) /\ n \in DOMAIN stack
      BY <1>2, <1>6, <2>3
    <3>2. /\ stack[i].at = "jump" /\ jump[stack[i].client] = Nobody /\ stack[i].client # p
      BY <1>1, <1>2, <1>6, <1>7, <2>3, <3>1 DEF SshInv, ConnectInv
    <3>3. QED
      BY <1>7, <1>9, <1>10, <2>1, <3>1, <3>2
  <2>4. QED
    BY <2>2, <2>3
<1>12. \A i, j \in 1..n : stack'[i].client = stack'[j].client => i = j
  BY <1>1, <1>6, <1>8 DEF SshInv, ConnectInv
<1>13. \A i \in 1..(n - 1) :
          LET r == route'[stack'[i].client]
          IN  /\ stack'[i].at = "jump" /\ Len(r) > 1 /\ r[Len(r) - 1] \in Host
              /\ route'[stack'[i + 1].client] = Front(r)
  <2>1. \A i \in 1..(n - 1) : stack'[i] = stack[i] /\ stack'[i + 1].client = stack[i + 1].client
    BY <1>7, <1>8
  <2>2. QED
    BY <1>1, <1>7, <1>10, <2>1 DEF SshInv, ConnectInv
<1>14. Me' = p
  BY <1>2, <1>3
<1>15. Linked(Me)'
  <2>1. /\ Len(route'[Me']) # 1 /\ route'[Me'][Len(route'[Me']) - 1] \notin Client
        /\ jump'[Me'] = Me /\ route'[Me] = Front(route'[Me']) /\ conn'[Me] # "none"
    <3>1. route'[Me'] = route[p] /\ route'[Me] = route[Me]
      BY <1>10, <1>14
    <3>2. Len(route[p]) # 1 /\ route[p][Len(route[p]) - 1] \notin Client
      <4>1. Len(route[p]) \in Nat
        BY <1>2, <1>10, LenProperties
      <4>2. Len(route[p]) > 1 /\ route[p][Len(route[p]) - 1] \in Host
        BY <1>2
      <4>3. \A h \in Host : h \notin Client
        BY <1>1
      <4>4. \A i \in Nat : i > 1 => i # 1
        OBVIOUS
      <4>5. QED
        BY <4>1, <4>2, <4>3, <4>4
    <3>3. jump'[Me'] = Me /\ conn'[Me] # "none"
      BY <1>1, <1>2, <1>10, <1>14
    <3>4. QED
      BY <1>2, <3>1, <3>2, <3>3
  <2>2. QED
    BY <1>1, <1>10, <2>1 DEF Linked
<1>16. QED
  BY <1>5, <1>11, <1>12, <1>13, <1>14, <1>15 DEF ConnectInv

\* connect_override() waits in every frame but the last for its jump host.
LEMMA ConnectStepInv ==
    ASSUME SshInv, SshNext
    PROVE  ConnectInv'
<1> USE DEF history, args
<1>1. CASE DirectHost
  <2>1. /\ route[Me] \in Seq(Client \cup Host) /\ route[Me] # <<>> /\ jump[Me] = Nobody /\ ~Idle
    BY <1>1, InConnect DEF DirectHost, At
  <2>2. Len(route[Me]) = 1
    <3>1. Front(route[Me]) = <<>>
      BY <1>1 DEF DirectHost, Jumps
    <3>2. Len(route[Me]) \in Nat \ {0} /\ Len(Front(route[Me])) = Len(route[Me]) - 1
      BY <2>1, FrontOf
    <3>3. Len(Front(route[Me])) = 0
      BY <3>1
    <3>4. \A n \in Nat \ {0} : n - 1 = 0 => n = 1
      OBVIOUS
    <3>5. QED
      BY <3>2, <3>3, <3>4
  <2>3. Me' = Me
    BY <1>1, InConnect, Continues DEF DirectHost, At, Labels
  <2>4. Linked(Me)'
    BY <1>1, <2>1, <2>2, <2>3 DEF DirectHost, Linked
  <2>5. QED
    BY <1>1, <2>4, ConnectGoesOn DEF DirectHost, At
<1>2. CASE GivenJump
  <2>1. Me' = Me
    BY <1>2, InConnect, Continues DEF GivenJump, At, Labels
  <2>2. /\ Len(route[Me]) \in Nat \ {0, 1} /\ route[Me][Len(route[Me]) - 1] \in Client
        /\ jump'[Me] = route[Me][Len(route[Me]) - 1]
    BY <1>2, JumpRoute, JumpIsLent DEF GivenJump, SshInv, SshTypeOK
  <2>3. Linked(Me)'
    BY <1>2, <2>1, <2>2 DEF GivenJump, Linked
  <2>4. \A c \in Client : c # Me => jump'[c] = jump[c]
    BY <1>2 DEF GivenJump, SshInv, SshTypeOK
  <2>5. QED
    BY <1>2, <2>3, <2>4, ConnectGoesOn DEF GivenJump, At
<1>3. CASE Authenticate
  <2>1. Me' = Me /\ Connecting
    BY <1>3, InConnect, Continues DEF Authenticate, At, Labels
  <2>2. Linked(Me)
    BY <1>3, <2>1 DEF Authenticate, At, SshInv, ConnectInv
  <2>3. Linked(Me)'
    BY <1>3, <2>1, <2>2, LinkedStays DEF Authenticate
  <2>4. QED
    BY <1>3, <2>3, ConnectGoesOn DEF Authenticate, At
<1>4. CASE ConnectJump
  BY <1>4, ConnectGoesDown
<1>5. CASE Open
  <2>1. CASE Callers = <<>>
    <3>1. Idle'
      BY <1>5, <2>1, InConnect, Returns DEF Open, At, Labels, Idle
    <3>2. QED
      BY <3>1 DEF ConnectInv, Connecting
  <2>2. CASE Callers # <<>>
    BY <1>5, <2>2, ConnectGoesUp
  <2>3. QED
    BY <2>1, <2>2
<1>6. CASE ConnectFails
  BY <1>6 DEF ConnectFails, Raise, ConnectInv, Connecting, Idle
<1>7. CASE CloseStep
  BY <1>7, StaysClosing DEF ConnectInv, Connecting
<1>8. ASSUME NEW r, NEW key, NEW b, Given(r, key, b), Connect(r, key, b)
      PROVE  ConnectInv'
  <2>1. PICK c \in Client : /\ conn[c] = "none" /\ conn' = [conn EXCEPT ![c] = "new"]
                            /\ stack' = <<Frame(c, "jump")>>
    BY <1>8 DEF Connect, New, Fresh
  <2>2. /\ DOMAIN stack' = {1} /\ stack'[1] = Frame(c, "jump") /\ Below' = {}
        /\ Top' = Frame(c, "jump")
    BY <2>1 DEF Below, Top
  <2>3. conn'[c] = "new" /\ jump'[c] = Nobody
    BY <1>8, <2>1 DEF Connect, SshInv, SshTypeOK, FreshInv
  <2>4. QED
    BY <2>2, <2>3 DEF ConnectInv, Frame
<1>9. CASE \E c \in Client : Lose(c)
  <2>1. PICK c \in Client : Lose(c)
    BY <1>9
  <2>2. CASE Connecting
    <3>1. \A i \in DOMAIN stack : conn'[stack[i].client] = "new"
      BY <2>1, <2>2 DEF Lose, SshInv, SshTypeOK, ConnectInv
    <3>2. Top.at \in {"auth", "open"} => Linked(Me)'
      <4>1. \A d \in Client : conn[d] # "none" => conn'[d] # "none"
        BY <2>1 DEF Lose, SshInv, SshTypeOK
      <4>2. Me' = Me
        BY <2>1 DEF Lose, Me, Top
      <4>3. QED
        BY <2>1, <2>2, <4>1, <4>2, LinkedStays DEF Lose, SshInv, ConnectInv
    <3>3. QED
      BY <2>1, <2>2, <3>1, <3>2 DEF Lose, SshInv, ConnectInv, Below, Top
  <2>3. QED
    BY <2>1, <2>2 DEF Lose, ConnectInv, Connecting, Idle
<1>10. QED
  BY <1>1, <1>2, <1>3, <1>4, <1>5, <1>6, <1>7, <1>8, <1>9, Begins DEF ConnectStep, ConnectInv,
     Connecting

----------------------------------------------------------------------------
(* The frames during close().                                              *)

\* Gone() after the step.
GoneThen(c) == conn'[c] = "closed" /\ tunnels'[c] = {} /\ ~listed'[c]

\* The frames of close() below the last are those of other clients than the last
\* when this one still has its connection or is past it.
LEMMA CloseFrames ==
    ASSUME SshInv, At("tunnels") \/ At("back") \/ At("end")
    PROVE  /\ stack \in Seq(Frames) /\ Len(stack) \in Nat \ {0} /\ DOMAIN stack = 1..Len(stack)
           /\ Closing /\ ~Idle /\ Me = stack[Len(stack)].client /\ Me \in Client
           /\ Top = stack[Len(stack)] /\ stack[1].client \in held
           /\ \A i \in DOMAIN stack : /\ i \in Below \/ i = Len(stack)
                                      /\ stack[i].client \in Client
                                      /\ stack[i].at \in {"tunnels", "back", "end"}
           /\ \A i \in Below : /\ i \in DOMAIN stack /\ i + 1 \in DOMAIN stack /\ i < Len(stack)
                               /\ stack[i].at = "back" /\ Gone(stack[i].client)
                               /\ jump[stack[i].client] = stack[i + 1].client
           /\ listed[Me] \/ Top.at # "tunnels" => \A i \in Below : stack[i].client # Me
           /\ \A i, j \in Below : i # j => stack[i].client # stack[j].client
<1>1. /\ stack \in Seq(Frames) /\ Len(stack) \in Nat \ {0} /\ DOMAIN stack = 1..Len(stack)
      /\ Closing /\ ~Idle /\ Me = stack[Len(stack)].client /\ Me \in Client
      /\ Top = stack[Len(stack)]
  BY InClose DEF At
<1>2. /\ \A i \in DOMAIN stack : i \in Below \/ i = Len(stack)
      /\ \A i \in Below : i \in DOMAIN stack /\ i + 1 \in DOMAIN stack /\ i < Len(stack) /\ i # Len(stack)
      /\ \A i, j \in Below : i # j => i < j \/ j < i
      /\ Len(stack) \in DOMAIN stack
  <2>1. \A n \in Nat \ {0} : /\ \A i \in 1..n : i \in 1..(n - 1) \/ i = n
                             /\ \A i \in 1..(n - 1) : i \in 1..n /\ i + 1 \in 1..n /\ i < n /\ i # n
                             /\ \A i, j \in 1..(n - 1) : i # j => i < j \/ j < i
                             /\ n \in 1..n
    OBVIOUS
  <2>2. QED
    BY <1>1, <2>1 DEF Below
<1>3. \A i \in DOMAIN stack : stack[i].client \in Client
  <2>1. \A i \in DOMAIN stack : stack[i] \in Frames
    BY <1>1, ElementOfSeq
  <2>2. QED
    BY <2>1 DEF Frames
<1>4. /\ stack[1].client \in held
      /\ \A i \in DOMAIN stack : stack[i].at \in {"tunnels", "back", "end"}
      /\ \A i \in Below : /\ stack[i].at = "back" /\ Gone(stack[i].client)
                          /\ jump[stack[i].client] = stack[i + 1].client
  BY <1>1 DEF SshInv, CloseInv
<1>5. \A i, j \in DOMAIN stack :
          i < j /\ (j = Len(stack) => Top.at # "tunnels") => stack[i].client # stack[j].client
  BY <1>1 DEF SshInv, CloseInv
<1>6. \A i, j \in Below : i # j => stack[i].client # stack[j].client
  BY <1>2, <1>5
<1>7. Top.at # "tunnels" => \A i \in Below : stack[i].client # Me
  BY <1>1, <1>2, <1>5
<1>8. listed[Me] => \A i \in Below : stack[i].client # Me
  BY <1>4 DEF Gone
<1>9. QED
  BY <1>1, <1>2, <1>3, <1>4, <1>6, <1>7, <1>8

\* A client whose connection is closed waits for its jump host, or returns.
LEMMA CloseGoesDown ==
    ASSUME SshInv, CloseConnection
    PROVE  CloseInv'
<1> USE DEF history, args
<1>1. /\ stack \in Seq(Frames) /\ Len(stack) \in Nat \ {0} /\ DOMAIN stack = 1..Len(stack)
      /\ ~Idle /\ Me = stack[Len(stack)].client /\ Me \in Client /\ stack[1].client \in held
      /\ Top = stack[Len(stack)] /\ Nobody \notin Client
      /\ tunnels[Me] = {} /\ UNCHANGED <<jump, tunnels, held>>
      /\ Top.at = "tunnels" /\ (jump[Me] # Nobody => jump[Me] \in Client)
  BY CloseFrames, InClose DEF CloseConnection, At
<1>2. \A i \in DOMAIN stack : /\ i \in Below \/ i = Len(stack)
                              /\ stack[i].client \in Client
                              /\ stack[i].at \in {"tunnels", "back", "end"}
  BY CloseFrames DEF CloseConnection
<1>3. \A i \in Below : /\ i \in DOMAIN stack /\ i + 1 \in DOMAIN stack /\ i < Len(stack)
                       /\ stack[i].at = "back" /\ Gone(stack[i].client)
                       /\ jump[stack[i].client] = stack[i + 1].client
                       /\ stack[i].client # Me
  BY CloseFrames DEF CloseConnection
<1>4. \A i, j \in Below : i # j => stack[i].client # stack[j].client
  BY CloseFrames DEF CloseConnection
<1>5. \A c \in Client : GoneThen(c) <=> (c = Me \/ Gone(c))
  BY <1>1 DEF CloseConnection, ToClose, Gone, GoneThen, SshInv, SshTypeOK
<1>6. \A i, j \in DOMAIN stack : i # j => stack[i].client # stack[j].client
  BY <1>1, <1>2, <1>3, <1>4
<1>7. CASE jump[Me] = Nobody
  <2>1. Continue("end")
    BY <1>7 DEF CloseConnection, JumpToClose
  <2>2. /\ DOMAIN stack' = DOMAIN stack /\ Len(stack') = Len(stack) /\ Below' = Below
        /\ \A i \in DOMAIN stack : stack'[i].client = stack[i].client
        /\ \A i \in Below : stack'[i] = stack[i]
        /\ stack'[Len(stack)].at = "end"
    BY <1>1, <2>1, SameClients DEF Labels
  <2>3. Me' = Me /\ Top' = Frame(Me, "end")
    BY <1>1, <2>1, Continues DEF Labels
  <2>4. stack'[1].client \in held' /\ \A i \in DOMAIN stack' : stack'[i].at \in {"tunnels", "back", "end"}
    <3>1. 1 \in DOMAIN stack
      BY <1>1
    <3>2. QED
      BY <1>1, <1>2, <2>2, <3>1
  <2>5. \A i \in Below' : /\ stack'[i].at = "back" /\ GoneThen(stack'[i].client)
                          /\ jump'[stack'[i].client] = stack'[i + 1].client
    BY <1>1, <1>2, <1>3, <1>5, <2>2
  <2>6. \A i, j \in DOMAIN stack' : i < j => stack'[i].client # stack'[j].client
    <3>1. \A i, j \in DOMAIN stack : i < j => i # j
      BY <1>1
    <3>2. QED
      BY <1>6, <2>2, <3>1
  <2>7. GoneThen(Me) /\ jump'[Me'] = Nobody /\ Top'.at = "end"
    BY <1>1, <1>5, <1>7, <2>3 DEF Frame, Gone, GoneThen
  <2>8. QED
    BY <2>3, <2>4, <2>5, <2>6, <2>7 DEF CloseInv, Gone, GoneThen
<1>8. CASE jump[Me] # Nobody
  <2>1. stack' = Append(Append(Callers, Frame(Me, "back")), Frame(jump[Me], "tunnels"))
    BY <1>1, <1>8, AtLabel DEF CloseConnection, JumpToClose
  <2>2. /\ stack' \in Seq(Frames) /\ Len(stack') = Len(stack) + 1
        /\ \A i \in Below : stack'[i] = stack[i]
        /\ stack'[Len(stack)] = Frame(Me, "back")
        /\ Top' = Frame(jump[Me], "tunnels") /\ Me' = jump[Me]
    BY <1>1, <1>8, <2>1, Waits DEF Labels
  <2>3. /\ DOMAIN stack' = 1..(Len(stack) + 1) /\ Below' = DOMAIN stack
        /\ stack'[Len(stack) + 1] = Frame(jump[Me], "tunnels")
    BY <1>1, <2>2, LenProperties DEF Below, Top
  <2>4. \A i \in DOMAIN stack : /\ stack'[i].client = stack[i].client /\ stack'[i].at = "back"
    BY <1>1, <1>2, <1>3, <2>2 DEF Frame
  <2>5. \A i \in DOMAIN stack' : (i \in DOMAIN stack \/ i = Len(stack) + 1) /\ 1 \in DOMAIN stack
    BY <1>1, <2>3
  <2>6. stack'[1].client \in held' /\ \A i \in DOMAIN stack' : stack'[i].at \in {"tunnels", "back", "end"}
    BY <1>1, <2>3, <2>4, <2>5 DEF Frame
  <2>7. ASSUME NEW i \in DOMAIN stack
        PROVE  GoneThen(stack'[i].client) /\ jump'[stack'[i].client] = stack'[i + 1].client
    <3>1. CASE i = Len(stack)
      <4>1. stack'[i].client = Me /\ stack'[i + 1].client = jump[Me]
        BY <1>1, <2>3, <2>4, <3>1 DEF Frame
      <4>2. GoneThen(stack'[i].client)
        BY <1>1, <1>5, <4>1
      <4>3. QED
        BY <1>1, <4>1, <4>2
    <3>2. CASE i # Len(stack)
      <4>1. i \in Below /\ i + 1 \in DOMAIN stack
        BY <1>2, <1>3, <3>2
      <4>2. stack'[i].client = stack[i].client /\ stack'[i + 1].client = stack[i + 1].client
        BY <2>4, <4>1
      <4>3. GoneThen(stack'[i].client)
        BY <1>2, <1>3, <1>5, <4>1, <4>2
      <4>4. QED
        BY <1>1, <1>3, <4>1, <4>2, <4>3
    <3>3. QED
      BY <3>1, <3>2
  <2>8. \A i, j \in DOMAIN stack' : i < j /\ j # Len(stack') => stack'[i].client # stack'[j].client
    <3>1. \A i, j \in DOMAIN stack' : i < j /\ j # Len(stack') =>
              i \in DOMAIN stack /\ j \in DOMAIN stack /\ i # j
      BY <1>1, <2>2, <2>3
    <3>2. QED
      BY <1>6, <2>4, <3>1
  <2>9. Top'.at = "tunnels"
    BY <2>2 DEF Frame
  <2>10. QED
    BY <2>3, <2>4, <2>6, <2>7, <2>8, <2>9 DEF CloseInv, Gone, GoneThen
<1>9. QED
  BY <1>7, <1>8

\* close() of a jump host comes back to the client it was called from.
LEMMA CloseGoesUp ==
    ASSUME SshInv, CloseReturns, Len(stack) # 1
    PROVE  CloseInv'
<1> DEFINE n == Len(stack) - 1
<1>1. /\ stack \in Seq(Frames) /\ Len(stack) \in Nat \ {0} /\ DOMAIN stack = 1..Len(stack)
      /\ ~Idle /\ Me = stack[Len(stack)].client /\ Me \in Client /\ stack[1].client \in held
      /\ Top = stack[Len(stack)] /\ Nobody \notin Client /\ Gone(Me) /\ Top.at \in {"back", "end"}
  BY CloseFrames, InClose DEF CloseReturns, At, SshInv, CloseInv
<1>2. \A i \in Below : /\ i \in DOMAIN stack /\ i + 1 \in DOMAIN stack /\ i < Len(stack)
                       /\ stack[i].at = "back" /\ Gone(stack[i].client)
                       /\ jump[stack[i].client] = stack[i + 1].client
                       /\ stack[i].client # Me /\ stack[i].client \in Client
  BY CloseFrames DEF CloseReturns, At
<1>3. \A i, j \in Below : i # j => stack[i].client # stack[j].client
  BY CloseFrames DEF CloseReturns
<1>4. /\ stack' \in Seq(Frames) /\ Len(stack') = n
      /\ \A i \in 1..(Len(stack) - 2) : stack'[i] = stack[i]
      /\ Me' = stack[n].client /\ Top' = Frame(Me', "back") /\ Callers # <<>>
  BY <1>1, Returns DEF CloseReturns, Labels
<1>5. n = Len(stack) - 1 /\ n \in Nat \ {0} /\ Len(stack) - 2 = n - 1 /\ Below = 1..n
      /\ n + 1 = Len(stack)
  BY <1>1 DEF Below
<1> HIDE DEF n
<1>6. /\ DOMAIN stack' = 1..n /\ Below' = 1..(n - 1)
      /\ stack'[n] = Frame(stack[n].client, "back")
  <2>1. DOMAIN stack' = 1..n /\ Below' = 1..(n - 1)
    BY <1>4, LenProperties DEF Below
  <2>2. QED
    BY <1>4, <2>1 DEF Top
<1>7. \A i \in 1..(n - 1) : stack'[i] = stack[i] /\ i \in Below /\ i \in 1..n /\ i + 1 \in 1..n
  BY <1>4, <1>5
<1>8. \A i \in 1..n : /\ i \in Below /\ (i \in 1..(n - 1) \/ i = n)
                      /\ stack'[i].client = stack[i].client /\ stack'[i].at = "back"
  <2>1. \A i \in 1..n : i \in Below /\ (i \in 1..(n - 1) \/ i = n)
    BY <1>5
  <2>2. QED
    BY <1>2, <1>6, <1>7, <2>1 DEF Frame
<1>9. /\ UNCHANGED <<conn, tunnels, listed, held>>
      /\ \A c \in Client : jump'[c] = IF c = Me THEN Nobody ELSE jump[c]
  <2>1. Top.at = "end" => jump[Me] = Nobody
    BY <1>1, CloseFrames DEF CloseReturns, SshInv, CloseInv
  <2>2. QED
    BY <1>1, <1>4, <2>1 DEF CloseReturns, SshInv, SshTypeOK
<1>10. \A i \in 1..n : GoneThen(stack'[i].client) /\ jump'[stack'[i].client] = stack[i + 1].client
  <2>1. \A i \in 1..n : /\ stack'[i].client = stack[i].client /\ stack[i].client # Me
                         /\ stack[i].client \in Client /\ Gone(stack[i].client)
                         /\ jump[stack[i].client] = stack[i + 1].client
    BY <1>2, <1>8
  <2>2. \A c \in Client : Gone(c) => GoneThen(c)
    BY <1>9 DEF Gone, GoneThen
  <2>3. QED
    BY <1>9, <2>1, <2>2
<1>11. stack'[1].client \in held' /\ \A i \in DOMAIN stack' : stack'[i].at \in {"tunnels", "back", "end"}
  <2>1. 1 \in 1..n
    BY <1>5
  <2>2. QED
    BY <1>1, <1>6, <1>8, <1>9, <2>1
<1>12. \A i \in 1..(n - 1) : jump'[stack'[i].client] = stack'[i + 1].client
  BY <1>7, <1>8, <1>10
<1>13. \A i, j \in 1..n : i < j => stack'[i].client # stack'[j].client
  <2>1. \A i, j \in 1..n : i < j => i # j
    BY <1>5
  <2>2. QED
    BY <1>3, <1>8, <2>1
<1>14. /\ GoneThen(Me) /\ GoneThen(Me') /\ jump'[Me'] = Me /\ jump'[Me] = Nobody /\ Me # Nobody /\ Top'.at = "back"
  <2>1. n \in 1..n /\ Me' = stack'[n].client /\ stack[n + 1].client = Me
    BY <1>1, <1>4, <1>5, <1>6 DEF Frame
  <2>2. QED
    BY <1>1, <1>4, <1>9, <1>10, <2>1 DEF Frame, Gone, GoneThen
<1>15. conn'[Me] = "closed" /\ tunnels'[Me] = {} /\ ~listed'[Me]
  BY <1>1, <1>9 DEF Gone, GoneThen
<1>16. \A i \in 1..(n - 1) : stack'[i].at = "back" /\ GoneThen(stack'[i].client)
  BY <1>7, <1>8, <1>10
<1>17. QED
  BY <1>6, <1>11, <1>12, <1>13, <1>14, <1>15, <1>16 DEF CloseInv, Gone, GoneThen

\* close() waits for the jump host in every frame but the last.
LEMMA CloseStepInv ==
    ASSUME SshInv, SshNext
    PROVE  CloseInv'
<1> USE DEF history, args
<1>1. CASE ConnectStep
  BY <1>1, StaysConnecting DEF CloseInv, Closing
<1>2. CASE CloseConnection
  BY <1>2, CloseGoesDown
<1>3. CASE CloseReturns
  <2>1. CASE Len(stack) = 1
    <3>1. Idle'
      BY <1>3, <2>1, InClose, Returns DEF CloseReturns, At, Labels, Idle
    <3>2. QED
      BY <3>1 DEF CloseInv, Closing
  <2>2. QED
    BY <1>3, <2>1, CloseGoesUp
<1>4. CASE CloseFails
  BY <1>4 DEF CloseFails, Raise, CloseInv, Closing, Idle
<1>5. ASSUME UNCHANGED <<stack, jump, listed, held>>, SshInv,
             \A c \in Client : Gone(c) => GoneThen(c)
      PROVE  CloseInv'
  <2>1. CASE Closing
    <3>1. At("tunnels") \/ At("back") \/ At("end")
      <4>1. ~Idle /\ stack \in Seq(Frames)
        BY <2>1 DEF Closing, SshInv, SshTypeOK, Frames, Labels
      <4>2. Len(stack) \in DOMAIN stack
        BY <4>1, TopType
      <4>3. QED
        BY <2>1, <4>1, <4>2 DEF SshInv, CloseInv, At, Top
    <3>2. \A i \in Below : GoneThen(stack[i].client)
      BY <1>5, <3>1, CloseFrames
    <3>3. /\ Top.at \in {"back", "end"} => GoneThen(Me)
          /\ Top.at = "back" => /\ jump[Me] # Nobody /\ GoneThen(jump[Me])
                                /\ jump[jump[Me]] = Nobody
      <4>1. Me \in Client /\ (jump[Me] # Nobody => jump[Me] \in Client)
        BY <3>1, InClose DEF At
      <4>2. QED
        BY <1>5, <2>1, <4>1 DEF SshInv, CloseInv
    <3>4. Top' = Top /\ Me' = Me /\ Below' = Below
      BY <1>5 DEF Top, Me, Below
    <3>5. QED
      BY <1>5, <2>1, <3>2, <3>3, <3>4 DEF SshInv, CloseInv, Gone, GoneThen
  <2>2. QED
    BY <1>5, <2>1 DEF CloseInv, Closing, Idle
<1>6. CASE \E t \in Tunnel : CloseTunnel(t)
  BY <1>5, <1>6 DEF CloseTunnel, Gone, GoneThen, SshInv, SshTypeOK
<1>7. CASE \E c \in Client : Lose(c)
  BY <1>5, <1>7 DEF Lose, Gone, GoneThen, SshInv, SshTypeOK
<1>8. ASSUME NEW c \in Client, Close(c)
      PROVE  CloseInv'
  <2>1. /\ DOMAIN stack' = {1} /\ stack'[1] = Frame(c, "tunnels") /\ Below' = {}
        /\ Top' = Frame(c, "tunnels") /\ c \in held'
    BY <1>8 DEF Close, Below, Top
  <2>2. QED
    BY <2>1 DEF CloseInv, Frame
<1>9. QED
  BY <1>1, <1>2, <1>3, <1>4, <1>6, <1>7, <1>8, Begins DEF CloseStep, CloseInv, Closing

----------------------------------------------------------------------------
(* The passphrase.                                                         *)

\* The frame that asked hands the key on; nobody asks again.
LEMMA KeyStep ==
    ASSUME SshInv, SshNext
    PROVE  KeyInv'
<1> USE DEF history, args
<1>0. KeyInv /\ SshTypeOK
  BY DEF SshInv
<1>1. CASE DirectHost \/ GivenJump
  <2>1. /\ UNCHANGED <<asked, reuse>> /\ Connecting /\ Top.at = "jump" /\ Top' = Frame(Me, "auth")
    BY <1>1, InConnect, Continues DEF DirectHost, GivenJump, At, Labels
  <2>2. QED
    BY <1>0, <2>1 DEF KeyInv
<1>2. CASE ConnectJump
  <2>1. /\ UNCHANGED <<asked, reuse>> /\ Connecting /\ Top.at = "jump"
    BY <1>2, InConnect DEF ConnectJump, At
  <2>2. QED
    BY <1>0, <2>1 DEF KeyInv
<1>3. CASE Authenticate
  <2>1. /\ reuse' = reuse /\ Connecting /\ Top.at = "auth" /\ Top' = Frame(Me, "open") /\ Me' = Me
        /\ Me \in Client
    BY <1>3, InConnect, Continues DEF Authenticate, At, Labels
  <2>2. hasKey'[Me] = (InheritsKey \/ pkey # "none")
    BY <1>0, <1>3, <2>1 DEF Authenticate, SshTypeOK
  <2>3. reuse /\ asked = 1 => InheritsKey
    BY <1>0, <2>1 DEF KeyInv, InheritsKey
  <2>4. asked' = asked \/ (~InheritsKey /\ pkey # "none" /\ asked' = asked + 1)
    BY <1>3 DEF Authenticate
  <2>5. reuse => asked = 0 \/ asked = 1
    BY <1>0 DEF KeyInv, SshTypeOK
  <2>6. reuse => asked' <= 1 /\ (asked' = 1 => hasKey'[Me])
    <3>1. CASE asked' = asked
      <4>1. reuse => asked' <= 1
        BY <2>5, <3>1
      <4>2. InheritsKey => hasKey'[Me]
        BY <2>2
      <4>3. reuse /\ asked' = 1 => InheritsKey
        BY <2>3, <3>1
      <4>4. QED
        BY <4>1, <4>2, <4>3
    <3>2. CASE ~InheritsKey /\ pkey # "none" /\ asked' = asked + 1
      <4>1. hasKey'[Me]
        BY <2>2, <3>2
      <4>2. reuse => asked = 0
        BY <2>3, <2>5, <3>2
      <4>3. QED
        BY <3>2, <4>1, <4>2
    <3>3. QED
      BY <2>4, <3>1, <3>2
  <2>7. QED
    BY <2>1, <2>6 DEF KeyInv, Frame
<1>4. CASE Open
  <2>1. UNCHANGED <<asked, reuse, hasKey>> /\ Connecting /\ Top.at = "open"
    BY <1>4, InConnect DEF Open, At
  <2>2. CASE Callers = <<>>
    <3>1. Idle'
      BY <1>4, <2>2, InConnect, Returns DEF Open, At, Labels, Idle
    <3>2. QED
      BY <1>0, <2>1, <3>1 DEF KeyInv, Connecting
  <2>3. CASE Callers # <<>>
    <3>1. Top'.at = "auth" /\ Me' = stack[Len(stack) - 1].client
      <4>1. stack \in Seq(Frames) /\ ~Idle /\ Return("auth") /\ Len(stack) # 1
        BY <1>4, <2>3, InConnect, CallerOf DEF Open, At
      <4>2. QED
        BY <4>1, Returns DEF Labels, Frame
    <3>2. jump'[Me'] = Me /\ Me # Nobody
      BY <1>0, <1>4, <2>3, <3>1, CallerOf, InConnect DEF Open, At, SshTypeOK
    <3>3. QED
      BY <1>0, <2>1, <3>1, <3>2 DEF KeyInv
  <2>4. QED
    BY <2>2, <2>3
<1>5. CASE ConnectFails
  BY <1>0, <1>5 DEF ConnectFails, Raise, KeyInv, Connecting, Idle
<1>6. CASE CloseStep
  <2>1. UNCHANGED <<asked, reuse>>
    BY <1>6 DEF CloseStep, CloseFails, CloseConnection, CloseReturns, CloseTunnel
  <2>2. ~Connecting'
    BY <1>6, StaysClosing DEF Connecting
  <2>3. QED
    BY <1>0, <2>1, <2>2 DEF KeyInv
<1>7. ASSUME NEW r, NEW key, NEW b, Given(r, key, b), Connect(r, key, b)
      PROVE  KeyInv'
  BY <1>7 DEF Connect, KeyInv
<1>8. CASE \E c \in Client : Close(c)
  BY <1>0, <1>8 DEF Close, KeyInv, Connecting, Frame
<1>9. CASE (\E c \in Client : Lose(c)) \/ (\E c \in Client, t \in Tunnel : OpenTunnel(c, t))
  BY <1>0, <1>9 DEF Lose, OpenTunnel, KeyInv, Connecting, Idle, Top, Me
<1>10. QED
  BY <1>1, <1>2, <1>3, <1>4, <1>5, <1>6, <1>7, <1>8, <1>9 DEF SshNext, ConnectStep

----------------------------------------------------------------------------
(* The ways of the connections.                                            *)

\* A way whose connections are up, of which only a client that was given is lent.
Standing(way, c) ==
    /\ Leads(way, c)
    /\ \A i \in Needed(route[c]) : route[c][i] \in Host =>
          Up(way[i]) /\ (i < Len(route[c]) => way[i] \notin lent)

\* The last item of a route is a host, and counts.
LEMMA LastNeeded ==
    ASSUME NEW r \in Seq(Client \cup Host), r # <<>>
    PROVE  Len(r) \in Needed(r) /\ Needed(r) \subseteq 1..Len(r)
<1>1. DOMAIN r = 1..Len(r) /\ Len(r) \in 1..Len(r) /\ \A j \in 1..Len(r) : ~(j > Len(r))
  BY FrontOf
<1>2. QED
  BY <1>1 DEF Needed

\* With one host more, one item more counts.
LEMMA NeededOfFront ==
    ASSUME NEW r \in Seq(Client \cup Host), Len(r) > 1, Last(r) \in Host
    PROVE  /\ \A i \in Needed(r) : i = Len(r) \/ i \in Needed(Front(r))
           /\ r[Len(r) - 1] \in Client => Needed(r) = {Len(r) - 1, Len(r)}
           /\ Len(r) - 1 \in Needed(r)
<1>1. /\ r # <<>> /\ Len(r) \in Nat \ {0, 1} /\ DOMAIN r = 1..Len(r) /\ Last(r) = r[Len(r)]
      /\ Front(r) \in Seq(Client \cup Host) /\ Len(Front(r)) = Len(r) - 1
      /\ DOMAIN Front(r) = 1..(Len(r) - 1)
      /\ \A i \in 1..(Len(r) - 1) : Front(r)[i] = r[i]
  <2>1. Len(r) \in Nat
    BY LenProperties
  <2>2. \A n \in Nat : n > 1 => n \in Nat \ {0, 1}
    OBVIOUS
  <2>3. Len(r) \in Nat \ {0, 1}
    BY <2>1, <2>2
  <2>4. r # <<>>
    BY <2>3
  <2>5. QED
    BY <2>3, <2>4, FrontOf
<1>2. r[Len(r)] \notin Client
  BY <1>1, ClientAssumption
<1>3. \A i \in Needed(r) : i = Len(r) \/ i \in Needed(Front(r))
  <2>1. \A i \in DOMAIN r : i = Len(r) \/ i \in DOMAIN Front(r)
    BY <1>1
  <2>2. \A j \in DOMAIN Front(r) : j \in DOMAIN r /\ Front(r)[j] = r[j]
    BY <1>1
  <2>3. QED
    BY <2>1, <2>2 DEF Needed
<1>4. Len(r) - 1 \in Needed(r)
  <2>1. \A j \in DOMAIN r : j > Len(r) - 1 => j = Len(r)
    BY <1>1
  <2>2. Len(r) - 1 \in DOMAIN r
    BY <1>1, BeforeLast
  <2>3. QED
    BY <1>2, <2>1, <2>2 DEF Needed
<1>5. r[Len(r) - 1] \in Client => Needed(r) = {Len(r) - 1, Len(r)}
  <2>1. ASSUME r[Len(r) - 1] \in Client, NEW i \in Needed(r)
        PROVE  i \in {Len(r) - 1, Len(r)}
    <3>1. Len(r) - 1 \in DOMAIN r /\ i \in DOMAIN r
      BY <1>1, BeforeLast DEF Needed
    <3>2. ~(Len(r) - 1 > i)
      BY <2>1, <3>1 DEF Needed
    <3>3. QED
      BY <1>1, <3>1, <3>2
  <2>2. Len(r) \in Needed(r)
    BY <1>1, LastNeeded
  <2>3. QED
    BY <1>4, <2>1, <2>2
<1>6. QED
  BY <1>3, <1>4, <1>5

\* The items that count follow each other.
LEMMA NeededRun ==
    ASSUME NEW r \in Seq(Client \cup Host), NEW i \in Needed(r)
    PROVE  /\ i \in 1..Len(r) /\ r[i] \in Client \cup Host
           /\ r[i] \in Host /\ i # 1 => i - 1 \in Needed(r) /\ i - 1 # i
           /\ i < Len(r) => /\ i + 1 \in Needed(r) /\ r[i + 1] \in Host
                            /\ i + 1 # 1 /\ (i + 1) - 1 = i
<1>1. DOMAIN r = 1..Len(r) /\ Len(r) \in Nat
  BY LenProperties
<1>2. i \in 1..Len(r) /\ \A j \in 1..Len(r) : j > i => r[j] \notin Client
  BY <1>1 DEF Needed
<1>3. r[i] \in Client \cup Host
  BY <1>2, ElementOfSeq
<1>4. ASSUME r[i] \in Host, i # 1
      PROVE  i - 1 \in Needed(r)
  <2>1. i - 1 \in 1..Len(r)
    BY <1>1, <1>2, <1>4
  <2>2. \A j \in 1..Len(r) : j > i - 1 => j = i \/ j > i
    BY <1>1, <1>2
  <2>3. r[i] \notin Client
    BY <1>4, ClientAssumption
  <2>4. QED
    BY <1>1, <1>2, <2>1, <2>2, <2>3 DEF Needed
<1>5. ASSUME i < Len(r)
      PROVE  i + 1 \in Needed(r) /\ r[i + 1] \in Host
  <2>1. i + 1 \in 1..Len(r) /\ i + 1 > i
    BY <1>1, <1>2, <1>5
  <2>2. \A j \in 1..Len(r) : j > i + 1 => j > i
    BY <1>1, <1>2
  <2>3. r[i + 1] \in Client \cup Host
    BY <2>1, ElementOfSeq
  <2>4. QED
    BY <1>1, <1>2, <2>1, <2>2, <2>3 DEF Needed
<1>6. i - 1 # i /\ (i < Len(r) => i + 1 # 1 /\ (i + 1) - 1 = i)
  BY <1>1, <1>2
<1>7. QED
  BY <1>2, <1>3, <1>4, <1>5, <1>6

\* A way stands while nobody on it is lent, closed or connected anew.
LEMMA StandsOn ==
    ASSUME SshTypeOK, NEW c \in Client, Up(c), NEW way \in [Needed(route[c]) -> Client],
           Standing(way, c), \A d \in Client : Up(d) => route'[d] = route[d],
           \A i \in Needed(route[c]) : route[c][i] \in Host =>
               /\ jump'[way[i]] = jump[way[i]] /\ conn'[way[i]] \in {"open", "lost"}
               /\ i < Len(route[c]) => way[i] \notin lent'
    PROVE  route'[c] = route[c] /\ Standing(way, c)'
<1>1. route[c] \in Seq(Client \cup Host) /\ route'[c] = route[c]
  BY DEF SshTypeOK
<1>2. \A i \in Needed(route[c]) : route[c][i] \in Client \cup Host
  BY <1>1, NeededRun
<1>3. \A i \in Needed(route[c]) : route[c][i] \in Host => route'[way[i]] = route[way[i]]
  BY DEF Standing
<1>4. QED
  BY <1>1, <1>2, <1>3 DEF Standing, Leads, Up

\* What a way needs after a step.
LEMMA Stand ==
    ASSUME NEW c, NEW r, NEW way, route'[c] = r, way[Len(r)] = c,
           \A i \in Needed(r) :
               \/ r[i] \in Client /\ way[i] = r[i]
               \/ /\ r[i] \notin Client /\ Last(route'[way[i]]) = r[i]
                  /\ jump'[way[i]] = IF i = 1 THEN Nobody ELSE way[i - 1]
                  /\ conn'[way[i]] \in {"open", "lost"} /\ (i < Len(r) => way[i] \notin lent')
    PROVE  Standing(way, c)'
<1>1. \A x : x \in Host => x \notin Client
  BY ClientAssumption
<1>2. QED
  BY <1>1 DEF Standing, Leads, Up

\* The client whose connection opens has a way: that of its jump host and itself.
LEMMA WayOfOpen ==
    ASSUME SshInv, Open, NEW c \in Client, c = Me
    PROVE  \E way \in [Needed(route'[c]) -> Client] : Standing(way, c)'
<1>0. PICK r, n : r = route[c] /\ n = Len(r)
  OBVIOUS
<1>1. /\ conn[c] = "new" /\ r \in Seq(Client \cup Host) /\ r # <<>>
      /\ (jump[c] # Nobody => conn[jump[c]] = "open") /\ UNCHANGED <<route, lent>>
      /\ conn' = [conn EXCEPT ![c] = "open"] /\ Connecting
  BY <1>0, InConnect DEF Open, At, history
<1>2. Last(r) = r[n] /\ r[n] \in Host /\ n \in Nat \ {0} /\ r[n] \notin Client
  <2>1. Last(r) \in Host
    BY <1>0, <1>1 DEF SshInv, RouteInv
  <2>2. Last(r) = r[n] /\ n \in Nat \ {0}
    BY <1>0, <1>1, FrontOf
  <2>3. QED
    BY <2>1, <2>2, ClientAssumption
<1>3. Linked(c)
  BY <1>1 DEF Open, At, SshInv, ConnectInv
<1>4. /\ conn'[c] = "open" /\ jump'[c] = jump[c]
      /\ \A d \in Client : Up(d) => jump'[d] = jump[d] /\ conn'[d] \in {"open", "lost"}
  <2>1. \A d \in Client : conn'[d] = IF d = c THEN "open" ELSE conn[d]
    BY <1>1 DEF SshInv, SshTypeOK
  <2>2. CASE Callers = <<>>
    BY <2>1, <2>2 DEF Open, Up
  <2>3. CASE Callers # <<>>
    <3> DEFINE p == Last(Callers).client
    <3>1. p \in Client /\ p # c /\ conn[p] = "new" /\ jump' = [jump EXCEPT ![p] = Me]
      BY <2>3, CallerOf DEF Open
    <3> HIDE DEF p
    <3>2. \A d \in Client : d # p => jump'[d] = jump[d]
      BY <3>1 DEF SshInv, SshTypeOK
    <3>3. QED
      BY <2>1, <3>1, <3>2 DEF Up
  <2>4. QED
    BY <2>2, <2>3
<1>5. n \in Needed(r) /\ Needed(r) \subseteq 1..n
  BY <1>0, <1>1, LastNeeded
<1>6. route[c] = r /\ route'[c] = r /\ n = Len(r)
  BY <1>0, <1>1
<1>7. \/ n = 1 /\ jump[c] = Nobody
      \/ n # 1 /\ r[n - 1] \in Client /\ jump[c] = r[n - 1]
      \/ /\ n # 1 /\ r[n - 1] \notin Client /\ jump[c] \in Client \ lent
         /\ route[jump[c]] = Front(r)
  BY <1>0, <1>3 DEF Linked
<1>8. CASE n = 1 /\ jump[c] = Nobody
  <2>0. PICK way : way = [i \in Needed(r) |-> c]
    OBVIOUS
  <2>1. \A i \in Needed(r) : i = 1 /\ way[i] = c
    BY <1>5, <1>8, <2>0
  <2>2. jump'[c] = Nobody /\ way[Len(r)] = c /\ ~(n < n)
    BY <1>2, <1>4, <1>5, <1>6, <1>8, <2>0
  <2>3. way \in [Needed(r) -> Client]
    BY <2>0
  <2>4. Standing(way, c)'
    <3>1. ASSUME NEW i \in Needed(r)
          PROVE  /\ r[i] \notin Client /\ Last(route'[way[i]]) = r[i]
                 /\ jump'[way[i]] = IF i = 1 THEN Nobody ELSE way[i - 1]
                 /\ conn'[way[i]] \in {"open", "lost"} /\ (i < Len(r) => way[i] \notin lent')
      BY <1>2, <1>4, <1>6, <1>8, <2>1, <2>2
    <3>2. QED
      BY <1>6, <2>2, <3>1, Stand
  <2>5. QED
    BY <1>6, <2>3, <2>4
<1>9. n > 1 \/ n = 1
  BY <1>2
<1>10. CASE n # 1 /\ r[n - 1] \in Client /\ jump[c] = r[n - 1]
  <2>1. Needed(r) = {n - 1, n} /\ n - 1 # n /\ n - 1 \in Needed(r)
    BY <1>1, <1>2, <1>6, <1>9, <1>10, NeededOfFront
  <2>0. PICK way : way = [i \in Needed(r) |-> IF i = n THEN c ELSE r[n - 1]]
    OBVIOUS
  <2>2. way[n] = c /\ way[n - 1] = r[n - 1] /\ way \in [Needed(r) -> Client]
    BY <1>5, <1>10, <2>0, <2>1
  <2>3. jump'[c] = way[n - 1] /\ ~(n < n)
    BY <1>2, <1>4, <1>10, <2>2
  <2>4. \A i \in Needed(r) : i = n \/ i = n - 1
    BY <2>1
  <2>5. Standing(way, c)'
    <3>1. ASSUME NEW i \in Needed(r)
          PROVE  \/ r[i] \in Client /\ way[i] = r[i]
                 \/ /\ r[i] \notin Client /\ Last(route'[way[i]]) = r[i]
                    /\ jump'[way[i]] = IF i = 1 THEN Nobody ELSE way[i - 1]
                    /\ conn'[way[i]] \in {"open", "lost"} /\ (i < Len(r) => way[i] \notin lent')
      <4>1. CASE i = n
        BY <1>2, <1>4, <1>6, <1>10, <2>2, <2>3, <4>1
      <4>2. CASE i = n - 1
        BY <1>10, <2>2, <4>2
      <4>3. QED
        BY <2>4, <4>1, <4>2
    <3>2. QED
      BY <1>6, <2>2, <3>1, Stand
  <2>6. QED
    BY <1>6, <2>2, <2>5
<1>11. CASE /\ n # 1 /\ r[n - 1] \notin Client /\ jump[c] \in Client \ lent
            /\ route[jump[c]] = Front(r)
  <2>0. PICK j, f : j = jump[c] /\ f = Front(r)
    OBVIOUS
  <2>1. n > 1 /\ j \in Client \ lent /\ route[j] = f /\ conn[j] = "open" /\ jump[c] = j
    BY <1>1, <1>9, <1>11, <2>0, ClientAssumption
  <2>2. /\ Len(f) = n - 1 /\ \A i \in 1..(n - 1) : f[i] = r[i]
        /\ f \in Seq(Client \cup Host)
    BY <1>1, <1>6, <2>0, FrontOf
  <2>3. /\ \A i \in Needed(r) : i = n \/ i \in Needed(f)
        /\ n - 1 \in Needed(r) /\ n - 1 # n
    BY <1>1, <1>2, <1>6, <2>0, <2>1, NeededOfFront
  <2>4. PICK w \in [Needed(f) -> Client] : Standing(w, j)
    BY <2>1 DEF SshInv, WayInv, Up, Standing
  <2>11. PICK way : way = [i \in Needed(r) |-> IF i = n THEN c ELSE w[i]]
    OBVIOUS
  <2>5. way \in [Needed(r) -> Client] /\ way[n] = c /\ \A i \in Needed(r) : i # n => way[i] = w[i]
    BY <1>5, <2>3, <2>11
  <2>6. w[n - 1] = j /\ way[n - 1] = j
    BY <2>1, <2>2, <2>3, <2>4, <2>5 DEF Standing, Leads
  <2>7. ASSUME NEW i \in Needed(r), i # n
        PROVE  \/ r[i] \in Client /\ way[i] = r[i]
               \/ /\ r[i] \notin Client /\ Last(route[way[i]]) = r[i] /\ way[i] \notin lent
                  /\ Up(way[i]) /\ way[i] \in Client
                  /\ jump[way[i]] = IF i = 1 THEN Nobody ELSE way[i - 1]
    <3>1. i \in Needed(f) /\ way[i] = w[i] /\ i \in 1..n /\ f[i] = r[i] /\ r[i] \in Client \cup Host
      <4>1. i \in Needed(f) /\ way[i] = w[i]
        BY <2>3, <2>5, <2>7
      <4>2. i \in 1..n /\ r[i] \in Client \cup Host
        BY <1>1, <1>6, NeededRun
      <4>3. i \in 1..(n - 1)
        BY <1>2, <2>7, <4>2
      <4>4. QED
        BY <2>2, <4>1, <4>2, <4>3
    <3>2. /\ f[i] \in Client => w[i] = f[i]
          /\ f[i] \notin Client => /\ Last(route[w[i]]) = f[i]
                                   /\ jump[w[i]] = IF i = 1 THEN Nobody ELSE w[i - 1]
          /\ f[i] \in Host => Up(w[i]) /\ (i < Len(f) => w[i] \notin lent)
      BY <2>1, <2>4, <3>1 DEF Standing, Leads
    <3>3. r[i] \notin Client => w[i] \notin lent
      <4>1. i < Len(f) \/ i = n - 1
        BY <1>2, <2>2, <2>7, <3>1
      <4>2. QED
        BY <2>1, <2>6, <3>1, <3>2, <4>1
    <3>4. r[i] \notin Client /\ i # 1 => way[i - 1] = w[i - 1]
      <4>1. ASSUME r[i] \notin Client, i # 1
            PROVE  i - 1 \in Needed(r) /\ i - 1 # n
        <5>1. i - 1 \in Needed(r)
          BY <1>1, <3>1, <4>1, NeededRun
        <5>2. QED
          BY <1>2, <3>1, <5>1
      <4>2. QED
        BY <2>5, <4>1
    <3>5. QED
      BY <2>4, <3>1, <3>2, <3>3, <3>4
  <2>8. ASSUME NEW i \in Needed(r)
        PROVE  \/ r[i] \in Client /\ way[i] = r[i]
               \/ /\ r[i] \notin Client /\ Last(route'[way[i]]) = r[i]
                  /\ jump'[way[i]] = IF i = 1 THEN Nobody ELSE way[i - 1]
                  /\ conn'[way[i]] \in {"open", "lost"} /\ (i < Len(r) => way[i] \notin lent')
    <3>1. CASE i = n
      <4>1. way[i] = c /\ way[i - 1] = j /\ ~(i < Len(r)) /\ i # 1
        BY <1>2, <1>6, <1>11, <2>5, <2>6, <3>1
      <4>2. jump'[c] = j /\ conn'[c] = "open" /\ Last(route'[c]) = r[i] /\ r[i] \notin Client
        BY <1>2, <1>4, <1>6, <2>1, <3>1
      <4>3. QED
        BY <4>1, <4>2
    <3>2. CASE i # n
      BY <1>1, <1>4, <2>7, <3>2
    <3>3. QED
      BY <3>1, <3>2
  <2>9. Standing(way, c)'
    BY <1>6, <2>5, <2>8, Stand
  <2>10. QED
    BY <1>6, <2>5, <2>9
<1>12. QED
  BY <1>7, <1>8, <1>10, <1>11

\* A connection that is up keeps its way.
LEMMA WayStep ==
    ASSUME SshInv, SshNext
    PROVE  WayInv'
<1> USE DEF history, args
<1>0. SshTypeOK /\ WayInv /\ FreshInv
  BY DEF SshInv
<1>1. ASSUME NEW c \in Client, Up(c),
             \A d \in Client : Up(d) =>
                 /\ jump'[d] = jump[d] /\ route'[d] = route[d]
                 /\ Up(d)' \/ (d # c /\ \A e \in Client : jump[e] = d /\ d \notin lent => ~Up(e))
                 /\ d \in lent' => d \in lent \/ \A e \in Client : jump[e] # d
      PROVE  \E way \in [Needed(route'[c]) -> Client] : Standing(way, c)'
  <2>1. PICK way \in [Needed(route[c]) -> Client] : Standing(way, c)
    BY <1>0, <1>1 DEF WayInv, Standing
  <2>2. route[c] \in Seq(Client \cup Host) /\ way[Len(route[c])] = c
    BY <1>0, <2>1 DEF SshTypeOK, Standing, Leads
  <2>3. ASSUME NEW i \in Needed(route[c]), route[c][i] \in Host
        PROVE  /\ jump'[way[i]] = jump[way[i]] /\ conn'[way[i]] \in {"open", "lost"}
               /\ i < Len(route[c]) => way[i] \notin lent'
    <3>1. way[i] \in Client /\ Up(way[i]) /\ (i < Len(route[c]) => way[i] \notin lent)
      BY <2>1, <2>3 DEF Standing
    <3>2. CASE i < Len(route[c])
      <4>1. i + 1 \in Needed(route[c]) /\ route[c][i + 1] \in Host /\ i + 1 # 1 /\ (i + 1) - 1 = i
        BY <2>2, <3>2, NeededRun
      <4>2. way[i + 1] \in Client /\ Up(way[i + 1]) /\ jump[way[i + 1]] = way[i]
        <5>1. route[c][i + 1] \notin Client
          BY <4>1, ClientAssumption
        <5>2. QED
          BY <2>1, <4>1, <5>1 DEF Standing, Leads
      <4>3. QED
        BY <1>1, <3>1, <3>2, <4>2 DEF Up
    <3>3. CASE ~(i < Len(route[c]))
      <4>1. i = Len(route[c])
        BY <2>2, <3>3, NeededRun, LenProperties
      <4>2. QED
        BY <1>1, <2>2, <3>1, <3>3, <4>1 DEF Up
    <3>4. QED
      BY <3>2, <3>3
  <2>4. \A d \in Client : Up(d) => route'[d] = route[d]
    BY <1>1
  <2>5. route'[c] = route[c] /\ Standing(way, c)'
    BY <1>0, <1>1, <2>1, <2>3, <2>4, StandsOn
  <2>6. QED
    BY <2>5
<1>2. ASSUME \A c \in Client : Up(c)' =>
                 \E way \in [Needed(route'[c]) -> Client] : Standing(way, c)'
      PROVE  WayInv'
  BY <1>2 DEF WayInv, Standing
<1>3. ASSUME \A d \in Client : Up(d)' => Up(d),
             \A d \in Client : Up(d) =>
                 /\ jump'[d] = jump[d] /\ route'[d] = route[d]
                 /\ Up(d)' \/ \A e \in Client : jump[e] = d /\ d \notin lent => ~Up(e)
                 /\ d \in lent' => d \in lent \/ \A e \in Client : jump[e] # d
      PROVE  WayInv'
  <2>1. ASSUME NEW c \in Client, Up(c)'
        PROVE  \E way \in [Needed(route'[c]) -> Client] : Standing(way, c)'
    BY <1>1, <1>3, <2>1
  <2>2. QED
    BY <1>2, <2>1
<1>4. ASSUME UNCHANGED <<conn, jump, route, lent>>
      PROVE  WayInv'
  BY <1>0, <1>4 DEF WayInv, Leads, Up
<1>5. CASE \/ DirectHost \/ Authenticate \/ ConnectFails \/ CloseFails
           \/ (\E t \in Tunnel : CloseTunnel(t)) \/ (\E c \in Client : Close(c))
           \/ (\E c \in Client, t \in Tunnel : OpenTunnel(c, t))
  BY <1>4, <1>5 DEF DirectHost, Authenticate, ConnectFails, CloseFails, CloseTunnel, Close,
                    OpenTunnel, Raise
<1>6. CASE GivenJump
  <2>1. conn[Me] = "new" /\ \A d \in Client : d # Me => jump'[d] = jump[d]
    BY <1>0, <1>6, JumpIsLent DEF SshTypeOK
  <2>2. \A d \in Client : Up(d) => jump'[d] = jump[d]
    BY <2>1 DEF Up
  <2>3. QED
    BY <1>3, <1>6, <2>2 DEF GivenJump, Up
<1>7. CASE ConnectJump
  <2>1. PICK d \in Client : conn[d] = "none" /\ New(d, Jumps)
    BY <1>7, JumpRoute DEF ConnectJump, Fresh
  <2>2. \A c \in Client : /\ c # d => conn'[c] = conn[c] /\ route'[c] = route[c]
                          /\ c = d => conn'[c] = "new"
    BY <1>0, <2>1 DEF New, SshTypeOK
  <2>3. \A c \in Client : (Up(c) <=> Up(c)') /\ (Up(c) => c # d)
    BY <2>1, <2>2 DEF Up
  <2>4. QED
    BY <1>3, <1>7, <2>2, <2>3 DEF ConnectJump
<1>8. CASE Open
  <2>1. /\ Me \in Client /\ conn[Me] = "new" /\ UNCHANGED <<route, lent>>
        /\ \A d \in Client : conn'[d] = IF d = Me THEN "open" ELSE conn[d]
    BY <1>0, <1>8, InConnect DEF Open, At, SshTypeOK
  <2>2. \A d \in Client : Up(d) => jump'[d] = jump[d]
    <3>1. CASE Callers = <<>>
      BY <1>8, <3>1 DEF Open
    <3>2. CASE Callers # <<>>
      <4>1. conn[Last(Callers).client] = "new" /\ Last(Callers).client \in Client
        BY <1>8, <3>2, CallerOf DEF Open
      <4>2. \A d \in Client : d # Last(Callers).client => jump'[d] = jump[d]
        BY <1>0, <1>8, <3>2, <4>1 DEF Open, SshTypeOK
      <4>3. QED
        BY <4>1, <4>2 DEF Up
    <3>3. QED
      BY <3>1, <3>2
  <2>3. \A d \in Client : (Up(d) => Up(d)') /\ (Up(d)' => Up(d) \/ d = Me)
    BY <2>1 DEF Up
  <2>4. ASSUME NEW c \in Client, Up(c)'
        PROVE  \E way \in [Needed(route'[c]) -> Client] : Standing(way, c)'
    <3>1. CASE c = Me
      BY <1>8, <3>1, WayOfOpen
    <3>2. CASE c # Me
      <4>1. Up(c)
        BY <2>3, <2>4, <3>2
      <4>2. \A d \in Client : Up(d) =>
                 /\ jump'[d] = jump[d] /\ route'[d] = route[d]
                 /\ Up(d)' \/ (d # c /\ \A e \in Client : jump[e] = d /\ d \notin lent => ~Up(e))
                 /\ d \in lent' => d \in lent \/ \A e \in Client : jump[e] # d
        BY <2>1, <2>2, <2>3
      <4>3. QED
        BY <1>1, <4>1, <4>2
    <3>3. QED
      BY <3>1, <3>2
  <2>5. QED
    BY <1>2, <2>4
<1>9. CASE CloseConnection
  <2>1. /\ Me \in Client /\ UNCHANGED <<route, jump, lent>>
        /\ \A d \in Client : conn'[d] = IF d = Me THEN "closed" ELSE conn[d]
    BY <1>0, <1>9, InClose DEF CloseConnection, At, ToClose, SshTypeOK
  <2>2. \A e \in Client : jump[e] = Me /\ Me \notin lent => ~Up(e)
    BY <1>9, CloseAlone DEF CloseConnection, Gone, Up
  <2>3. \A d \in Client : (Up(d)' => Up(d)) /\ (Up(d) => Up(d)' \/ d = Me)
    BY <2>1 DEF Up
  <2>4. QED
    BY <1>3, <2>1, <2>2, <2>3
<1>10. CASE CloseReturns
  <2>1. Gone(Me) /\ Me \in Client
    BY <1>10, CloseFrames DEF CloseReturns, At, SshInv, CloseInv
  <2>2. \A d \in Client : d # Me => jump'[d] = jump[d]
    BY <1>0, <1>10 DEF CloseReturns, SshTypeOK
  <2>3. \A d \in Client : Up(d) => jump'[d] = jump[d]
    BY <2>1, <2>2 DEF Up, Gone
  <2>4. QED
    BY <1>3, <1>10, <2>3 DEF CloseReturns, Up
<1>11. ASSUME NEW r, NEW key, NEW b, Given(r, key, b), Connect(r, key, b)
       PROVE  WayInv'
  <2>1. PICK d \in Client : conn[d] = "none" /\ New(d, r)
    BY <1>11 DEF Connect, Fresh
  <2>2. \A c \in Client : /\ c # d => conn'[c] = conn[c] /\ route'[c] = route[c]
                          /\ c = d => conn'[c] = "new"
    BY <1>0, <2>1 DEF New, SshTypeOK
  <2>3. \A c \in Client : (Up(c) <=> Up(c)') /\ (Up(c) => c # d)
    BY <2>1, <2>2 DEF Up
  <2>4. \A c \in lent' : c \in lent \/ c \in held
    BY <1>11 DEF Connect, Given
  <2>5. \A c \in lent' : c \in lent \/ \A e \in Client : jump[e] # c
    BY <2>4 DEF SshInv, JumpInv
  <2>6. jump' = jump
    BY <1>11 DEF Connect
  <2>7. QED
    BY <1>3, <2>2, <2>3, <2>5, <2>6
<1>12. CASE \E c \in Client : Lose(c)
  <2>1. /\ UNCHANGED <<route, jump, lent>> /\ \A d \in Client : Up(d)' <=> Up(d)
    BY <1>0, <1>12 DEF Lose, Up, SshTypeOK
  <2>2. QED
    BY <1>3, <2>1
<1>13. QED
  BY <1>5, <1>6, <1>7, <1>8, <1>9, <1>10, <1>11, <1>12 DEF SshNext, ConnectStep, CloseStep

----------------------------------------------------------------------------
(* The chains of jump hosts.                                               *)

\* A client is in its own chain, and so is what follows one that is in it.
LEMMA ChainHas ==
    ASSUME NEW c \in Client, NEW d \in Client, jump[d] = c \/ d = c
    PROVE  c \in Chain(d)
<1>1. Nobody \notin Client
  BY ClientAssumption
<1>2. ASSUME NEW S \in SUBSET Client, d \in S, FollowsJumps(S)
      PROVE  c \in S
  BY <1>1, <1>2 DEF FollowsJumps
<1>3. QED
  BY <1>2 DEF Chain

\* The chain of a client that follows is part of the chain.
LEMMA ChainFollows ==
    ASSUME NEW c \in Client, NEW d \in Client, NEW e \in Client, jump[d] = e, c \in Chain(e)
    PROVE  c \in Chain(d)
<1>1. Nobody \notin Client
  BY ClientAssumption
<1>2. ASSUME NEW S \in SUBSET Client, d \in S, FollowsJumps(S)
      PROVE  c \in S
  <2>1. e \in S
    BY <1>1, <1>2 DEF FollowsJumps
  <2>2. QED
    BY <1>2, <2>1 DEF Chain
<1>3. QED
  BY <1>2 DEF Chain

\* The same after a step.
LEMMA ChainHasThen ==
    ASSUME NEW c \in Client, NEW d \in Client, jump'[d] = c \/ d = c
    PROVE  c \in Chain(d)'
<1>1. Nobody \notin Client
  BY ClientAssumption
<1>2. ASSUME NEW S \in SUBSET Client, d \in S, FollowsJumps(S)'
      PROVE  c \in S
  BY <1>1, <1>2 DEF FollowsJumps
<1>3. QED
  BY <1>2 DEF Chain

\* The same after a step.
LEMMA ChainFollowsThen ==
    ASSUME NEW c \in Client, NEW d \in Client, NEW e \in Client, jump'[d] = e, c \in Chain(e)'
    PROVE  c \in Chain(d)'
<1>1. Nobody \notin Client
  BY ClientAssumption
<1>2. ASSUME NEW S \in SUBSET Client, d \in S, FollowsJumps(S)'
      PROVE  c \in S
  <2>1. e \in S
    BY <1>1, <1>2 DEF FollowsJumps
  <2>2. QED
    BY <1>2, <2>1 DEF Chain
<1>3. QED
  BY <1>2 DEF Chain

\* A new jump host makes chains longer, never shorter.
LEMMA ChainGrows ==
    ASSUME NEW d \in Client, NEW c \in Chain(d),
           \A e \in Client : jump[e] # Nobody => jump'[e] = jump[e]
    PROVE  c \in Chain(d)'
<1>1. ASSUME NEW S \in SUBSET Client, d \in S, FollowsJumps(S)'
      PROVE  c \in S
  <2>1. FollowsJumps(S)
    BY <1>1 DEF FollowsJumps
  <2>2. QED
    BY <1>1, <2>1 DEF Chain
<1>2. QED
  BY <1>1 DEF Chain

\* A client that lets go of a jump host with nothing behind it takes only this
\* one from the chains.
LEMMA ChainShrinks ==
    ASSUME NEW d \in Client, NEW c \in Chain(d), NEW m \in Client,
           NEW x \in Client \cup {Nobody}, jump[m] = x, x # Nobody => jump[x] = Nobody, c # x,
           \A e \in Client : e # m => jump'[e] = jump[e]
    PROVE  c \in Chain(d)'
<1>1. ASSUME NEW S \in SUBSET Client, d \in S, FollowsJumps(S)'
      PROVE  c \in S
  <2> DEFINE T == S \cup ({x} \cap Client)
  <2>1. FollowsJumps(T)
    <3>1. ASSUME NEW e \in T, jump[e] # Nobody
          PROVE  jump[e] \in T
      <4>1. CASE e = m
        <5>1. jump[e] = x /\ x # Nobody
          BY <3>1, <4>1
        <5>2. x \in Client
          BY <5>1
        <5>3. QED
          BY <5>1, <5>2
      <4>2. CASE e # m
        <5>1. e \in S
          <6>1. e = x => x # Nobody
            BY <3>1, ClientAssumption
          <6>2. e # x
            BY <3>1, <6>1
          <6>3. QED
            BY <3>1, <6>2
        <5>2. jump'[e] = jump[e]
          BY <1>1, <4>2, <5>1
        <5>3. QED
          BY <1>1, <3>1, <5>1, <5>2 DEF FollowsJumps
      <4>3. QED
        BY <4>1, <4>2
    <3>2. QED
      BY <3>1 DEF FollowsJumps
  <2>2. T \in SUBSET Client /\ d \in T
    BY <1>1
  <2>3. c \in T
    BY <2>1, <2>2 DEF Chain
  <2>4. QED
    BY <2>3
<1>2. QED
  BY <1>1 DEF Chain

\* The clients on the stack after a step.
Stacked == {stack[i].client : i \in DOMAIN stack}

\* An anchor that stays, or whose chain passes to another, keeps what it holds.
LEMMA AnchorsStay ==
    ASSUME AnchorInv, \A c \in Client : Alive(c)' => Alive(c),
           Anchors \subseteq Anchors', Anchors \subseteq Client,
           \A e \in Client : jump[e] # Nobody => jump'[e] = jump[e]
    PROVE  AnchorInv'
<1>1. ASSUME NEW c \in Client, Alive(c)'
      PROVE  \E d \in Anchors' : c \in Chain(d)'
  <2>1. PICK d \in Anchors : c \in Chain(d)
    BY <1>1 DEF AnchorInv
  <2>2. c \in Chain(d)'
    BY <2>1, ChainGrows
  <2>3. QED
    BY <2>1, <2>2
<1>2. QED
  BY <1>1 DEF AnchorInv

\* Anchors are clients.
LEMMA AnchorType ==
    ASSUME SshTypeOK
    PROVE  Anchors \subseteq Client /\ Stacked \subseteq Client
<1>1. stack \in Seq(Frames)
  BY DEF SshTypeOK, Frames, Labels
<1>2. \A i \in DOMAIN stack : stack[i] \in Frames
  BY <1>1, LenProperties, ElementOfSeq
<1>3. Stacked \subseteq Client
  BY <1>2 DEF Frames, Stacked
<1>4. QED
  BY <1>3 DEF SshTypeOK, Anchors, Stacked

\* The client that connects is reached from the one it is the jump host of.
LEMMA AnchorsOfOpen ==
    ASSUME SshInv, Open
    PROVE  AnchorInv'
<1>1. /\ Me \in Client /\ conn[Me] = "new" /\ tunnels' = tunnels /\ failed' = failed
      /\ \A d \in Client : conn'[d] = IF d = Me THEN "open" ELSE conn[d]
      /\ stack \in Seq(Frames) /\ ~Idle /\ DOMAIN stack = 1..Len(stack) /\ Len(stack) \in Nat \ {0}
      /\ Me = stack[Len(stack)].client
  BY InConnect DEF Open, At, SshInv, SshTypeOK, history
<1>2. \A c \in Client : Alive(c)' => Alive(c) \/ c = Me
  BY <1>1 DEF Alive
<1>3. CASE Callers = <<>>
  <2>1. Len(stack) = 1 /\ stack' = <<>>
    BY <1>1, <1>3, Returns DEF Open, Labels
  <2>2. Anchors = held \cup failed \cup {Me} /\ Anchors' = Anchors /\ jump' = jump
    BY <1>1, <1>3, <2>1 DEF Open, Anchors
  <2>3. ASSUME NEW c \in Client, Alive(c)'
        PROVE  \E d \in Anchors' : c \in Chain(d)'
    <3>1. \E d \in Anchors : c \in Chain(d)
      BY <1>1, <1>2, <2>2, <2>3, ChainHas DEF SshInv, AnchorInv
    <3>2. \A d : Chain(d)' = Chain(d)
      BY <2>2 DEF Chain, FollowsJumps
    <3>3. QED
      BY <2>2, <3>1, <3>2
  <2>4. QED
    BY <2>3 DEF AnchorInv
<1>4. CASE Callers # <<>>
  <2>1. PICK p, n : p = Last(Callers).client /\ n = Len(stack) - 1
    OBVIOUS
  <2>2. /\ Len(stack) # 1 /\ n \in 1..n /\ n \in Nat \ {0} /\ p = stack[n].client /\ p \in Client
        /\ jump[p] = Nobody /\ p # Me /\ jump' = [jump EXCEPT ![p] = Me] /\ held' = held
    <3>1. Len(stack) # 1 /\ p = stack[n].client /\ p \in Client /\ jump[p] = Nobody /\ p # Me
      BY <1>4, <2>1, CallerOf DEF Open
    <3>2. Len(stack) \in Nat \ {0, 1}
      BY <1>1, <3>1
    <3>3. n \in 1..n /\ n \in Nat \ {0}
      BY <2>1, <3>2, BeforeLast
    <3>4. QED
      BY <1>4, <2>1, <3>1, <3>3 DEF Open
  <2>3. /\ DOMAIN stack' = 1..n /\ \A i \in 1..(n - 1) : stack'[i] = stack[i]
        /\ stack'[n].client = stack[n].client
    <3>1. /\ stack' \in Seq(Frames) /\ Len(stack') = n /\ Me' = stack[n].client
          /\ \A i \in 1..(Len(stack) - 2) : stack'[i] = stack[i]
      BY <1>1, <2>1, <2>2, Returns DEF Open, Labels
    <3>2. Len(stack) - 2 = n - 1
      BY <1>1, <2>1
    <3>3. QED
      BY <3>1, <3>2, LenProperties DEF Me, Top
  <2>4. \A i \in 1..n : i \in 1..(n - 1) \/ i = n
    BY <2>2
  <2>5. \A i \in 1..n : stack'[i].client = stack[i].client
    BY <2>3, <2>4
  <2>6. Anchors \subseteq Anchors' \cup {Me} /\ p \in Anchors'
    <3>1. \A i \in DOMAIN stack : i \in 1..n \/ i = Len(stack)
      BY <1>1, <2>1
    <3>2. QED
      BY <1>1, <2>2, <2>3, <2>5, <3>1 DEF Anchors
  <2>7. /\ \A e \in Client : jump[e] # Nobody => jump'[e] = jump[e]
        /\ jump'[p] = Me
    BY <2>2 DEF SshInv, SshTypeOK
  <2>8. ASSUME NEW c \in Client, Alive(c)'
        PROVE  \E d \in Anchors' : c \in Chain(d)'
    <3>1. CASE c = Me
      <4>1. c \in Chain(p)'
        BY <2>2, <2>7, <3>1, ChainHasThen
      <4>2. QED
        BY <2>6, <4>1
    <3>2. CASE c # Me
      <4>1. PICK d \in Anchors : c \in Chain(d)
        BY <1>2, <2>8, <3>2 DEF SshInv, AnchorInv
      <4>2. d \in Client
        BY AnchorType DEF SshInv
      <4>3. c \in Chain(d)'
        BY <2>7, <4>1, <4>2, ChainGrows
      <4>4. CASE d \in Anchors'
        BY <4>3, <4>4
      <4>5. CASE d = Me
        <5>1. c \in Chain(p)'
          BY <1>1, <2>2, <2>7, <4>3, <4>5, ChainFollowsThen
        <5>2. QED
          BY <2>6, <5>1
      <4>6. QED
        BY <2>6, <4>4, <4>5
    <3>3. QED
      BY <3>1, <3>2
  <2>9. QED
    BY <2>8 DEF AnchorInv
<1>5. QED
  BY <1>3, <1>4

\* What close() leaves behind it has nothing open.
LEMMA AnchorsOfClose ==
    ASSUME SshInv, CloseReturns
    PROVE  AnchorInv'
<1>1. /\ stack \in Seq(Frames) /\ Len(stack) \in Nat \ {0} /\ DOMAIN stack = 1..Len(stack)
      /\ ~Idle /\ Me = stack[Len(stack)].client /\ Me \in Client /\ Gone(Me)
      /\ stack[1].client \in held /\ UNCHANGED <<conn, tunnels, failed>>
  BY CloseFrames DEF CloseReturns, At, SshInv, CloseInv
<1>2. PICK m, x : m = Me /\ x = jump[Me]
  OBVIOUS
<1>3. /\ x \in Client \cup {Nobody} /\ (x # Nobody => jump[x] = Nobody /\ Gone(x))
      /\ \A e \in Client : e # m => jump'[e] = jump[e]
  <2>1. Top.at = "end" => x = Nobody
    BY <1>2, CloseFrames DEF CloseReturns, SshInv, CloseInv
  <2>2. Top.at = "back" => x # Nobody /\ jump[x] = Nobody /\ Gone(x)
    BY <1>2, CloseFrames DEF CloseReturns, SshInv, CloseInv
  <2>3. QED
    BY <1>1, <1>2, <2>1, <2>2 DEF CloseReturns, At, SshInv, SshTypeOK
<1>4. \A d \in Anchors : d \in Anchors' \/ d = m
  <2>1. CASE Len(stack) = 1
    BY <1>1, <1>2, <2>1, Returns DEF CloseReturns, Labels, Anchors
  <2>2. CASE Len(stack) # 1
    <3>1. PICK n : n = Len(stack) - 1
      OBVIOUS
    <3>2. /\ stack' \in Seq(Frames) /\ Len(stack') = n /\ Me' = stack[n].client
          /\ \A i \in 1..(Len(stack) - 2) : stack'[i] = stack[i]
          /\ held' = held
      BY <1>1, <2>2, <3>1, Returns DEF CloseReturns, Labels
    <3>3. Len(stack) - 2 = n - 1 /\ (\A i \in 1..n : i \in 1..(n - 1) \/ i = n)
          /\ (\A i \in DOMAIN stack : i \in 1..n \/ i = Len(stack))
      <4>1. \A k \in Nat \ {0, 1} : /\ k - 2 = (k - 1) - 1
                                    /\ \A i \in 1..(k - 1) : i \in 1..((k - 1) - 1) \/ i = k - 1
                                    /\ \A i \in 1..k : i \in 1..(k - 1) \/ i = k
        OBVIOUS
      <4>2. PICK k : k = Len(stack)
        OBVIOUS
      <4>3. k \in Nat \ {0, 1} /\ n = k - 1 /\ DOMAIN stack = 1..k
        BY <1>1, <2>2, <3>1, <4>2
      <4>4. /\ k - 2 = n - 1 /\ (\A i \in 1..n : i \in 1..(n - 1) \/ i = n)
            /\ \A i \in 1..k : i \in 1..n \/ i = k
        BY <4>1, <4>3
      <4>5. QED
        BY <4>2, <4>3, <4>4
    <3>4. DOMAIN stack' = 1..n /\ stack'[n].client = stack[n].client
      BY <3>2, LenProperties DEF Me, Top
    <3>5. \A i \in 1..n : stack'[i].client = stack[i].client
      BY <3>2, <3>3, <3>4
    <3>6. QED
      BY <1>1, <1>2, <3>2, <3>3, <3>4, <3>5 DEF Anchors
  <2>3. QED
    BY <2>1, <2>2
<1>5. ASSUME NEW c \in Client, Alive(c)'
      PROVE  \E d \in Anchors' : c \in Chain(d)'
  <2>1. Alive(c) /\ c # m /\ c # x
    <3>1. Alive(c)
      BY <1>1, <1>5 DEF Alive
    <3>2. \A e : Gone(e) => ~Alive(e)
      BY DEF Alive, Gone
    <3>3. c # Nobody
      BY ClientAssumption
    <3>4. c # m
      BY <1>1, <1>2, <3>1, <3>2
    <3>5. c # x
      BY <1>3, <3>1, <3>2, <3>3
    <3>6. QED
      BY <3>1, <3>4, <3>5
  <2>2. PICK d \in Anchors : c \in Chain(d)
    BY <2>1 DEF SshInv, AnchorInv
  <2>3. d \in Client
    BY AnchorType DEF SshInv
  <2>4. c \in Chain(d)'
    BY <1>1, <1>2, <1>3, <2>1, <2>2, <2>3, ChainShrinks
  <2>5. CASE d = m
    <3>1. FollowsJumps({m, x} \cap Client)
      <4>1. ASSUME NEW e \in {m, x} \cap Client, jump[e] # Nobody
            PROVE  jump[e] \in {m, x} \cap Client
        <5>1. jump[m] = x
          BY <1>2
        <5>2. x \in Client => x # Nobody
          BY ClientAssumption
        <5>3. e = m
          BY <1>3, <4>1, <5>2
        <5>4. QED
          BY <1>3, <4>1, <5>1, <5>3
      <4>2. QED
        BY <4>1 DEF FollowsJumps
    <3>2. m \in {m, x} \cap Client /\ {m, x} \cap Client \in SUBSET Client
      BY <1>1, <1>2
    <3>3. c \in {m, x} \cap Client
      BY <2>2, <2>5, <3>1, <3>2 DEF Chain
    <3>4. QED
      BY <2>1, <3>3
  <2>6. QED
    BY <1>4, <2>2, <2>4, <2>5
<1>6. QED
  BY <1>5 DEF AnchorInv

\* The anchors of a step that keeps the clients on the stack, or adds some.
LEMMA AnchorsKept ==
    ASSUME held \subseteq held', failed \subseteq failed',
           \A i \in DOMAIN stack : \E j \in DOMAIN stack' : stack'[j].client = stack[i].client
    PROVE  Anchors \subseteq Anchors'
BY DEF Anchors

\* Whatever is open has an anchor, after every step.
LEMMA AnchorStep ==
    ASSUME SshInv, SshNext
    PROVE  AnchorInv'
<1> USE DEF history, args
<1>0. AnchorInv /\ SshTypeOK /\ Anchors \subseteq Client /\ Stacked \subseteq Client
  BY AnchorType DEF SshInv
<1>1. CASE DirectHost \/ GivenJump \/ Authenticate
  <2>1. /\ Continue("auth") \/ Continue("open")
        /\ UNCHANGED <<conn, tunnels, held, failed>>
    BY <1>1 DEF DirectHost, GivenJump, Authenticate
  <2>2. ~Idle /\ stack \in Seq(Frames)
    BY <1>1, InConnect DEF DirectHost, GivenJump, Authenticate, At
  <2>3. DOMAIN stack' = DOMAIN stack /\ \A i \in DOMAIN stack : stack'[i].client = stack[i].client
    BY <2>1, <2>2, SameClients DEF Labels
  <2>4. Anchors \subseteq Anchors'
    BY <2>1, <2>3, AnchorsKept
  <2>5. \A e \in Client : jump[e] # Nobody => jump'[e] = jump[e]
    <3>1. CASE GivenJump
      BY <1>0, <3>1, JumpIsLent DEF SshTypeOK
    <3>2. CASE DirectHost \/ Authenticate
      BY <3>2 DEF DirectHost, Authenticate
    <3>3. QED
      BY <1>1, <3>1, <3>2
  <2>6. \A c \in Client : Alive(c)' => Alive(c)
    BY <2>1 DEF Alive
  <2>7. QED
    BY <1>0, <2>4, <2>5, <2>6, AnchorsStay
<1>2. CASE ConnectJump
  <2>1. PICK d \in Client : /\ conn' = [conn EXCEPT ![d] = "new"]
                            /\ stack' = Append(stack, Frame(d, "jump"))
    BY <1>2 DEF ConnectJump, Fresh, New
  <2>2. /\ stack \in Seq(Frames) /\ ~Idle /\ UNCHANGED <<tunnels, held, failed, jump>>
        /\ DOMAIN stack = 1..Len(stack)
    BY <1>2, InConnect DEF ConnectJump, At
  <2>3. stack' \in Seq(Frames) /\ Len(stack') = Len(stack) + 1
        /\ \A i \in 1..Len(stack) : stack'[i] = stack[i]
    BY <2>1, <2>2, Calls DEF Labels
  <2>4. \A i \in DOMAIN stack : i \in DOMAIN stack'
    BY <2>2, <2>3, LenProperties
  <2>5. Anchors \subseteq Anchors'
    BY <2>2, <2>3, <2>4, AnchorsKept
  <2>6. \A c \in Client : Alive(c)' => Alive(c)
    BY <1>0, <2>1, <2>2 DEF Alive, SshTypeOK
  <2>7. QED
    BY <1>0, <2>2, <2>5, <2>6, AnchorsStay
<1>3. CASE ConnectFails \/ CloseFails
  <2>1. Raise /\ UNCHANGED <<conn, tunnels, jump>>
    BY <1>3 DEF ConnectFails, CloseFails
  <2>2. ~Idle /\ 1 \in DOMAIN stack
    <3>1. ~Idle /\ stack \in Seq(Frames)
      BY <1>3 DEF ConnectFails, CloseFails, At, SshInv, SshTypeOK, Frames, Labels
    <3>2. QED
      BY <3>1, TopType
  <2>3. /\ failed' = failed \cup Stacked /\ stack' = <<>> /\ held' = held \ {stack[1].client}
        /\ stack[1].client \in Stacked
    BY <2>1, <2>2 DEF Raise, Stacked
  <2>4. Anchors \subseteq Anchors'
    BY <2>3 DEF Anchors, Stacked
  <2>5. \A c \in Client : Alive(c)' => Alive(c)
    BY <2>1 DEF Alive
  <2>6. QED
    BY <1>0, <2>1, <2>4, <2>5, AnchorsStay
<1>4. CASE \E t \in Tunnel : CloseTunnel(t)
  <2>1. UNCHANGED <<conn, held, failed, stack, jump>> /\ \A c \in Client : tunnels'[c] \subseteq tunnels[c]
    BY <1>0, <1>4 DEF CloseTunnel, SshTypeOK
  <2>2. Anchors \subseteq Anchors' /\ \A c \in Client : Alive(c)' => Alive(c)
    BY <2>1 DEF Anchors, Alive
  <2>3. QED
    BY <1>0, <2>1, <2>2, AnchorsStay
<1>5. CASE \E c \in Client, t \in Tunnel : OpenTunnel(c, t)
  <2>1. UNCHANGED <<conn, held, failed, stack, jump>>
    BY <1>5 DEF OpenTunnel
  <2>2. \A c \in Client : tunnels'[c] # {} => tunnels[c] # {} \/ conn[c] = "open"
    BY <1>0, <1>5 DEF OpenTunnel, SshTypeOK
  <2>3. Anchors \subseteq Anchors' /\ \A c \in Client : Alive(c)' => Alive(c)
    BY <2>1, <2>2 DEF Anchors, Alive
  <2>4. QED
    BY <1>0, <2>1, <2>3, AnchorsStay
<1>6. CASE \E c \in Client : Lose(c)
  <2>1. /\ UNCHANGED <<tunnels, held, failed, stack, jump>>
        /\ \A c \in Client : conn'[c] = "open" => conn[c] = "open"
    BY <1>0, <1>6 DEF Lose, SshTypeOK
  <2>2. Anchors \subseteq Anchors' /\ \A c \in Client : Alive(c)' => Alive(c)
    BY <2>1 DEF Anchors, Alive
  <2>3. QED
    BY <1>0, <2>1, <2>2, AnchorsStay
<1>7. ASSUME NEW r, NEW key, NEW b, Connect(r, key, b)
      PROVE  AnchorInv'
  <2>1. PICK c \in Client : conn' = [conn EXCEPT ![c] = "new"]
    BY <1>7 DEF Connect, New, Fresh
  <2>2. stack = <<>> /\ UNCHANGED <<tunnels, held, failed, jump>>
    BY <1>7 DEF Connect, Idle
  <2>3. Anchors \subseteq Anchors'
    BY <2>2, AnchorsKept
  <2>4. \A d \in Client : Alive(d)' => Alive(d)
    BY <1>0, <2>1, <2>2 DEF Alive, SshTypeOK
  <2>5. QED
    BY <1>0, <2>2, <2>3, <2>4, AnchorsStay
<1>8. CASE \E c \in Client : Close(c)
  <2>1. stack = <<>> /\ UNCHANGED <<conn, tunnels, held, failed, jump>>
    BY <1>8 DEF Close, Idle
  <2>2. Anchors \subseteq Anchors'
    BY <2>1, AnchorsKept
  <2>3. \A d \in Client : Alive(d)' => Alive(d)
    BY <2>1 DEF Alive
  <2>4. QED
    BY <1>0, <2>1, <2>2, <2>3, AnchorsStay
<1>9. CASE CloseConnection
  <2>1. /\ stack \in Seq(Frames) /\ ~Idle /\ Me \in Client /\ DOMAIN stack = 1..Len(stack)
        /\ Me = stack[Len(stack)].client /\ Len(stack) \in Nat \ {0}
        /\ UNCHANGED <<tunnels, held, failed, jump>>
        /\ \A i \in DOMAIN stack : i \in Below \/ i = Len(stack)
    BY <1>9, CloseFrames DEF CloseConnection, At
  <2>2. \A c \in Client : Alive(c)' => Alive(c)
    BY <1>0, <1>9, <2>1 DEF CloseConnection, Alive, SshTypeOK
  <2>3. \A i \in DOMAIN stack : i \in DOMAIN stack' /\ stack'[i].client = stack[i].client
    <3>1. CASE jump[Me] = Nobody
      BY <1>9, <2>1, <3>1, SameClients DEF CloseConnection, JumpToClose, Labels
    <3>2. CASE jump[Me] # Nobody
      <4>1. jump[Me] \in Client
        BY <1>0, <2>1, <3>2 DEF SshTypeOK
      <4>2. stack' = Append(Append(Callers, Frame(Me, "back")), Frame(jump[Me], "tunnels"))
        BY <1>9, <2>1, <3>2, AtLabel DEF CloseConnection, JumpToClose
      <4>3. /\ stack' \in Seq(Frames) /\ Len(stack') = Len(stack) + 1
            /\ \A i \in Below : stack'[i] = stack[i]
            /\ stack'[Len(stack)] = Frame(Me, "back")
        BY <2>1, <4>1, <4>2, Waits DEF Labels
      <4>4. \A i \in DOMAIN stack : i \in DOMAIN stack'
        BY <2>1, <4>3, LenProperties
      <4>5. QED
        BY <2>1, <4>3, <4>4 DEF Frame
    <3>3. QED
      BY <3>1, <3>2
  <2>4. Anchors \subseteq Anchors'
    BY <2>1, <2>3, AnchorsKept
  <2>5. QED
    BY <1>0, <2>1, <2>2, <2>4, AnchorsStay
<1>10. QED
  BY <1>1, <1>2, <1>3, <1>4, <1>5, <1>6, <1>7, <1>8, <1>9, AnchorsOfOpen, AnchorsOfClose
     DEF SshNext, ConnectStep, CloseStep

----------------------------------------------------------------------------
(* The invariant and what it says.                                         *)

\* A call connects or closes, and every step leaves it at that.
LEMMA PhaseStep ==
    ASSUME SshInv, SshNext
    PROVE  Idle' \/ Connecting' \/ Closing'
<1>1. CASE ConnectStep
  BY <1>1, StaysConnecting
<1>2. CASE CloseStep
  BY <1>2, StaysClosing
<1>3. CASE ~ConnectStep /\ ~CloseStep
  <2>1. CASE (\E c \in Client : Lose(c)) /\ UNCHANGED stack
    BY <2>1 DEF SshInv, Idle, Connecting, Closing
  <2>2. QED
    BY <1>3, <2>1, Begins
<1>4. QED
  BY <1>1, <1>2, <1>3

\* At the start no client has been made.
LEMMA SshStarts ==
    ASSUME SshInit
    PROVE  SshInv
<1> USE DEF SshInit
<1>1. SshTypeOK
  BY DEF SshTypeOK
<1>2. FreshInv
  BY ClientAssumption DEF FreshInv
<1>3. JumpInv
  BY ClientAssumption DEF JumpInv, Up
<1>4. RouteInv
  BY DEF RouteInv
<1>5. Idle
  BY DEF Idle
<1>6. ConnectInv /\ CloseInv
  BY <1>5 DEF ConnectInv, CloseInv, Connecting, Closing
<1>7. WayInv
  BY DEF WayInv, Up
<1>8. KeyInv
  BY <1>5 DEF KeyInv, Connecting
<1>9. AnchorInv
  BY DEF AnchorInv, Alive
<1>10. QED
  BY <1>1, <1>2, <1>3, <1>4, <1>5, <1>6, <1>7, <1>8, <1>9 DEF SshInv

\* A step that leaves the clients alone keeps what is said of them.
LEMMA SshStays ==
    ASSUME SshInv, UNCHANGED sshVars
    PROVE  SshInv'
<1> USE DEF sshVars, history, args
<1>1. SshTypeOK' /\ FreshInv' /\ JumpInv' /\ RouteInv'
  BY DEF SshInv, SshTypeOK, FreshInv, JumpInv, RouteInv, Up
<1>2. ConnectInv'
  <2>1. /\ stack' = stack /\ conn' = conn /\ route' = route /\ jump' = jump
        /\ Top' = Top /\ Me' = Me /\ Below' = Below /\ (Connecting' <=> Connecting)
    BY DEF Connecting, Idle, Below, Top, Me
  <2>2. Linked(Me) <=> Linked(Me)'
    BY <2>1 DEF Linked
  <2>3. QED
    BY <2>1, <2>2 DEF SshInv, ConnectInv
<1>3. CloseInv'
  <2>1. /\ stack' = stack /\ jump' = jump /\ held' = held
        /\ Top' = Top /\ Me' = Me /\ Below' = Below /\ (Closing' <=> Closing)
    BY DEF Closing, Idle, Below, Top, Me
  <2>2. \A c : Gone(c) => GoneThen(c)
    BY DEF Gone, GoneThen
  <2>3. QED
    BY <2>1, <2>2 DEF SshInv, CloseInv, Gone, GoneThen
<1>4. WayInv'
  BY DEF SshInv, WayInv, Up, Leads
<1>5. KeyInv'
  BY DEF SshInv, KeyInv, Connecting, Idle, Top, Me
<1>6. AnchorInv'
  BY DEF SshInv, AnchorInv, Alive, Anchors, Chain, FollowsJumps
<1>7. (Idle \/ Connecting \/ Closing)'
  BY DEF SshInv, Idle, Connecting, Closing
<1>8. QED
  BY <1>1, <1>2, <1>3, <1>4, <1>5, <1>6, <1>7 DEF SshInv

\* SshInv is an invariant of the entry points, and of a caller of the class.
THEOREM ClientsKeepOrder == Spec => []SshInv
<1>1. Init => SshInv
  BY SshStarts DEF Init
<1>2. SshInv /\ [Next]_vars => SshInv'
  <2>1. ASSUME SshInv, SshNext
        PROVE  SshInv'
    BY <2>1, TypeStep, FreshStep, JumpStep, RouteStep, ConnectStepInv, CloseStepInv, WayStep,
       KeyStep, AnchorStep, PhaseStep DEF SshInv
  <2>2. QED
    BY <2>1, SshSteps, SshStays DEF SshInv
<1>3. QED
  BY <1>1, <1>2, PTL DEF Spec

\* A client is connected through the jump hosts of its list, in their order, for
\* every length of the list, although the recursive calls of connect_override()
\* start from its end (ssh_client.py:53-70).
THEOREM RouteIsFollowed == Spec => []FollowsRoute
<1>1. SshInv => FollowsRoute
  BY DEF SshInv, SshTypeOK, WayInv, FollowsRoute, Up
<1>2. QED
  BY <1>1, ClientsKeepOrder, PTL

\* Along a list of any length, a locked key is unlocked once (ssh_client.py:95-96).
THEOREM KeyUnlockedOnce == Spec => []UnlocksKeyOnce
<1>1. SshInv => UnlocksKeyOnce
  BY DEF SshInv, KeyInv, UnlocksKeyOnce
<1>2. QED
  BY <1>1, ClientsKeepOrder, PTL

\* Under an open connection only a lent jump host is closed, in any order of
\* calls of close() (ssh_client.py:133-136).
THEOREM JumpHostOutlives == Spec => []JumpOutlives
<1>1. SshInv => JumpOutlives
  BY DEF SshInv, JumpInv, JumpOutlives, Up
<1>2. QED
  BY <1>1, ClientsKeepOrder, PTL

\* A close() that returns has closed the whole chain of jump hosts; what else is
\* open between calls is for the caller to close, or a call has raised over it
\* (ssh_client.py:70, 127-136).
THEOREM NoConnectionOrphaned == Spec => []NoOrphanConnection
<1>1. ASSUME SshInv, Idle
      PROVE  NoOrphanConnection
  <2>1. Anchors = held \cup failed
    BY <1>1 DEF Idle, Anchors
  <2>2. QED
    BY <1>1, <2>1 DEF SshInv, AnchorInv, Alive, NoOrphanConnection
<1>2. SshInv => NoOrphanConnection
  BY <1>1 DEF NoOrphanConnection
<1>3. QED
  BY <1>2, ClientsKeepOrder, PTL
=============================================================================
