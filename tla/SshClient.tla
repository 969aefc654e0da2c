------------------------------ MODULE SshClient -----------------------------
(***************************************************************************)
(* ParamikoClient of remote_kernel/ssh_client.py: connect_override() along *)
(* a list of jump hosts, the forwarding tunnels, and close() back along    *)
(* the jump hosts.  One thread calls them; the calls recurse, and stack    *)
(* holds their frames, the innermost last.                                 *)
(*                                                                         *)
(* A route is the jump hosts and the target.  A jump host is a name or a   *)
(* client that is connected already.                                       *)
(***************************************************************************)
EXTENDS Naturals, Sequences, FiniteSets

CONSTANTS
    Client,     \* the instances of ParamikoClient
    Host,       \* names of hosts, [username@]host[:port]
    Tunnel,
    Nobody,     \* no client, no host
    Dialog      \* the password dialog works

ASSUME ClientAssumption ==
    /\ Client \cap Host = {} /\ Nobody \notin Client \cup Host
    /\ Dialog \in BOOLEAN

VARIABLES
    conn,       \* the connection of a client
    route,      \* the route it was asked for, its own host last
    jump,       \* _jump_host
    hasKey,     \* private_key is not None
    tunnels,    \* the tunnels in its list that are not closed
    listed,     \* the list of tunnels is not None
    pkey,       \* the key given for the current connect_override()
    reuse,      \* use_jump_pkey of that call
    stack,      \* the frames of the current call
    result,     \* how the last call has ended
    held,       \* history: clients returned to the caller, still to close
    failed,     \* history: clients a call was busy with when it raised
    lent,       \* history: clients given as a jump host
    asked       \* history: passphrases asked for in the current call

args == <<pkey, reuse>>
history == <<held, failed, lent, asked>>
sshVars == <<conn, route, jump, hasKey, tunnels, listed, args, stack, result,
             history>>

Fresh == {c \in Client : conn[c] = "none"}
Idle == stack = <<>>
Top == stack[Len(stack)]
Me == Top.client
Callers == SubSeq(stack, 1, Len(stack) - 1)
Last(s) == s[Len(s)]
Front(s) == SubSeq(s, 1, Len(s) - 1)

Frame(c, at) == [client |-> c, at |-> at]
Jumps == Front(route[Me])
At(label) == ~Idle /\ Top.at = label
Continue(label) == stack' = Append(Callers, [Top EXCEPT !.at = label])

\* The caller goes on at label, or has its result when this was the first frame.
Return(label) ==
    IF Callers = <<>> THEN stack' = <<>> /\ result' = "ok"
    ELSE /\ stack' = [Callers EXCEPT ![Len(Callers)].at = label]
         /\ UNCHANGED result

\* Nothing in ssh_client.py catches an exception.
Raise ==
    /\ stack' = <<>> /\ result' = "raised"
    /\ failed' = failed \cup {stack[i].client : i \in DOMAIN stack}
    /\ held' = held \ {stack[1].client}

----------------------------------------------------------------------------
(* connect_override()                                                      *)

New(c, r) ==
    /\ conn' = [conn EXCEPT ![c] = "new"]
    /\ route' = [route EXCEPT ![c] = r]

Connect(r, key, useJumpKey) ==
    /\ Idle /\ pkey' = key /\ reuse' = useJumpKey /\ asked' = 0
    /\ \E c \in Fresh : New(c, r) /\ stack' = <<Frame(c, "jump")>>
    /\ result' = "none"
    /\ lent' = lent \cup {r[i] : i \in {j \in DOMAIN r : r[j] \in Client}}
    /\ UNCHANGED <<jump, hasKey, tunnels, listed, held, failed>>

\* Mutant: the first item of the list is taken.
TakeFirst(jumps) == <<jumps[1], Tail(jumps)>>

\* The last item is the jump host, the items before it lead there.
TakeJump(jumps) == <<Last(jumps), Front(jumps)>>

DirectHost ==
    /\ At("jump") /\ Jumps = <<>> /\ Continue("auth")
    /\ UNCHANGED <<conn, route, jump, hasKey, tunnels, listed, args, result, history>>

\* A client in the list is connected: what comes before it is ignored.
GivenJump ==
    /\ At("jump") /\ Jumps # <<>>
    /\ LET j == TakeJump(Jumps)[1]
       IN  j \in Client /\ jump' = [jump EXCEPT ![Me] = j]
    /\ Continue("auth")
    /\ UNCHANGED <<conn, route, hasKey, tunnels, listed, args, result, history>>

\* The recursive call, on a client made for it.
ConnectJump ==
    /\ At("jump") /\ Jumps # <<>>
    /\ LET next == TakeJump(Jumps)
       IN  /\ next[1] \in Host
           /\ \E d \in Fresh : /\ New(d, Append(next[2], next[1]))
                                /\ stack' = Append(stack, Frame(d, "jump"))
    /\ UNCHANGED <<jump, hasKey, tunnels, listed, args, result, history>>

\* Mutant: every client loads the key it was given.
LoadsKey == FALSE

InheritsKey == jump[Me] # Nobody /\ reuse /\ hasKey[jump[Me]]

\* The key of the jump host, the key given, or a password; a locked key and
\* a password need the dialog.
Authenticate ==
    /\ At("auth") /\ Continue("open")
    /\ \/ InheritsKey /\ UNCHANGED asked
       \/ ~InheritsKey /\ pkey = "plain" /\ UNCHANGED asked
       \/ ~InheritsKey /\ pkey = "locked" /\ Dialog /\ asked' = asked + 1
       \/ ~InheritsKey /\ pkey = "none" /\ Dialog /\ UNCHANGED asked
    /\ hasKey' = [hasKey EXCEPT ![Me] = InheritsKey \/ pkey # "none"]
    /\ UNCHANGED <<conn, route, jump, tunnels, listed, args, result, held, failed, lent>>

\* paramiko connects, over a channel of the jump host where there is one.
Open ==
    /\ At("open")
    /\ jump[Me] # Nobody => conn[jump[Me]] = "open"
    /\ conn' = [conn EXCEPT ![Me] = "open"]
    /\ Return("auth")
    /\ IF Callers = <<>> THEN held' = held \cup {Me} /\ UNCHANGED jump
       ELSE jump' = [jump EXCEPT ![Last(Callers).client] = Me] /\ UNCHANGED held
    /\ UNCHANGED <<route, hasKey, tunnels, listed, args, failed, lent, asked>>

\* No known_hosts, no such host, no dialog, a wrong password, no connection.
ConnectFails ==
    /\ \E label \in {"jump", "auth", "open"} : At(label)
    /\ Raise
    /\ UNCHANGED <<conn, route, jump, hasKey, tunnels, listed, args, lent, asked>>

----------------------------------------------------------------------------
(* Tunnels and close()                                                     *)

\* create_forwarding_tunnel(), and the start of the tunnel.
OpenTunnel(c, t) ==
    /\ Idle /\ c \in held /\ conn[c] = "open" /\ listed[c]
    /\ \A d \in Client : t \notin tunnels[d]
    /\ tunnels' = [tunnels EXCEPT ![c] = @ \cup {t}]
    /\ UNCHANGED <<conn, route, jump, hasKey, listed, args, stack, result, history>>

Close(c) ==
    /\ Idle /\ c \in held
    /\ stack' = <<Frame(c, "tunnels")>> /\ result' = "none"
    /\ UNCHANGED <<conn, route, jump, hasKey, tunnels, listed, args, history>>

CloseTunnel(t) ==
    /\ At("tunnels") /\ listed[Me] /\ t \in tunnels[Me]
    /\ tunnels' = [tunnels EXCEPT ![Me] = @ \ {t}]
    /\ UNCHANGED <<conn, route, jump, hasKey, listed, args, stack, result, history>>

\* A tunnel that raises, or tunnels is None because of an earlier close().
CloseFails ==
    /\ At("tunnels") /\ (~listed[Me] \/ tunnels[Me] # {})
    /\ Raise
    /\ UNCHANGED <<conn, route, jump, hasKey, tunnels, listed, args, lent, asked>>

\* Mutants: the connection of the jump host goes first; the jump host is left.
JumpFirst == IF jump[Me] = Nobody THEN Me ELSE jump[Me]
ForgetJump == Nobody

ToClose == Me
JumpToClose == jump[Me]

CloseConnection ==
    /\ At("tunnels") /\ listed[Me] /\ tunnels[Me] = {}
    /\ listed' = [listed EXCEPT ![Me] = FALSE]
    /\ conn' = [conn EXCEPT ![ToClose] = "closed"]
    /\ IF JumpToClose = Nobody THEN Continue("end")
       ELSE stack' = Append(Append(Callers, [Top EXCEPT !.at = "back"]),
                            Frame(JumpToClose, "tunnels"))
    /\ UNCHANGED <<route, jump, hasKey, tunnels, args, result, history>>

CloseReturns ==
    /\ At("end") \/ At("back")
    /\ jump' = [jump EXCEPT ![Me] = IF Top.at = "back" THEN Nobody ELSE @]
    /\ IF Callers = <<>> THEN held' = held \ {Me} ELSE UNCHANGED held
    /\ Return("back")
    /\ UNCHANGED <<conn, route, hasKey, tunnels, listed, args, failed, lent, asked>>

\* The server or the network drops a connection.
Lose(c) ==
    /\ conn[c] = "open" /\ conn' = [conn EXCEPT ![c] = "lost"]
    /\ UNCHANGED <<route, jump, hasKey, tunnels, listed, args, stack, result, history>>

ConnectStep ==
    DirectHost \/ GivenJump \/ ConnectJump \/ Authenticate \/ Open \/ ConnectFails
CloseStep ==
    CloseFails \/ CloseConnection \/ CloseReturns \/ \E t \in Tunnel : CloseTunnel(t)
CallStep == ConnectStep \/ CloseStep

SshInit ==
    /\ conn = [c \in Client |-> "none"]
    /\ route = [c \in Client |-> <<>>] /\ jump = [c \in Client |-> Nobody]
    /\ hasKey = [c \in Client |-> FALSE]
    /\ tunnels = [c \in Client |-> {}] /\ listed = [c \in Client |-> TRUE]
    /\ pkey = "none" /\ reuse = TRUE /\ stack = <<>> /\ result = "none"
    /\ held = {} /\ failed = {} /\ lent = {} /\ asked = 0

----------------------------------------------------------------------------
(* Properties                                                              *)

SshTypeOK ==
    /\ conn \in [Client -> {"none", "new", "open", "closed", "lost"}]
    /\ route \in [Client -> Seq(Client \cup Host)]
    /\ jump \in [Client -> Client \cup {Nobody}]
    /\ hasKey \in [Client -> BOOLEAN] /\ listed \in [Client -> BOOLEAN]
    /\ tunnels \in [Client -> SUBSET Tunnel]
    /\ pkey \in {"none", "plain", "locked"} /\ reuse \in BOOLEAN
    /\ stack \in Seq([client : Client,
                      at : {"jump", "auth", "open", "tunnels", "back", "end"}])
    /\ result \in {"none", "ok", "raised"}
    /\ held \subseteq Client /\ failed \subseteq Client /\ lent \subseteq Client
    /\ asked \in Nat

\* The clients c connects through, itself included: all that is reached from it
\* along _jump_host.
FollowsJumps(S) == \A d \in S : jump[d] # Nobody => jump[d] \in S
Chain(c) ==
    {d \in Client : \A S \in SUBSET Client : c \in S /\ FollowsJumps(S) => d \in S}

\* The items of a route that count: all from the last client that was given on.
Needed(r) == {i \in DOMAIN r : \A j \in DOMAIN r : j > i => r[j] \notin Client}

\* The clients way[i] are connected one through the other, a client that was given
\* or this machine first, and their hosts are those of the route of c.
Leads(way, c) ==
    LET r == route[c]
    IN  /\ way[Len(r)] = c
        /\ \A i \in Needed(r) :
             IF r[i] \in Client THEN way[i] = r[i]
             ELSE /\ Last(route[way[i]]) = r[i]
                  /\ jump[way[i]] = IF i = 1 THEN Nobody ELSE way[i - 1]

\* A client is connected through the jump hosts of its list, in their order,
\* although every recursive call starts from the end (ssh_client.py:53-70).
FollowsRoute ==
    \A c \in held :
        conn[c] = "open" => \E way \in [Needed(route[c]) -> Client] : Leads(way, c)

\* A locked key is unlocked once in a call, by the first host of the route:
\* the others take it from their jump host (ssh_client.py:95-96).
UnlocksKeyOnce == Idle /\ reuse => asked <= 1

\* Outside of a call, an open connection or tunnel belongs to a client the
\* caller has still to close, or that a call has raised over (ssh_client.py:70, 127-136):
\* a close() that returns has closed the whole chain.
NoOrphanConnection ==
    Idle => \A c \in Client :
              conn[c] = "open" \/ tunnels[c] # {} =>
                  \E d \in held \cup failed : c \in Chain(d)

\* Nobody loses the jump host under an open connection, unless the caller has
\* lent it to several clients or closed it (ssh_client.py:133-136).
JumpOutlives ==
    \A c \in Client :
        /\ conn[c] = "open" /\ jump[c] # Nobody
        /\ conn[jump[c]] = "closed"
        => jump[c] \in lent
=============================================================================
