-------------------------------- MODULE WsHub --------------------------------
(***************************************************************************)
(* The WebSocket hub (ws/hub.go).  A connection has a handler, which       *)
(* registers it, greets it, reads until an error and takes it down, and a  *)
(* write pump, which empties its send channel into the socket.  Other      *)
(* goroutines, the senders, call Broadcast and SendToUser.                 *)
(*                                                                         *)
(* The hub's RWMutex is modelled as Go's is: a writer first keeps new      *)
(* readers out, then waits for those inside.  A section that only reads,   *)
(* or that holds the write lock, is one step; a broadcast takes the read   *)
(* lock in one step and then sends to one channel a step, until it has     *)
(* sent to all and lets go of the lock.  Of a message only what it says    *)
(* about who is online is kept; keepalive pings carry nothing.             *)
(***************************************************************************)
EXTENDS Naturals, FiniteSets, Sequences

CONSTANTS
  Conns,       \* connections (a bound: each is used once)
  Senders,     \* goroutines of the service that send events
  Users,
  Admins,      \* users whose token has the role "admin"
  User,        \* the user of each connection
  BufferSize,  \* capacity of client.send, 256
  Nobody       \* no goroutine

ASSUME HubAssumption ==
  /\ Nobody \notin Conns \cup Senders /\ Conns \cap Senders = {}
  /\ IsFiniteSet(Users)
  /\ User \in [Conns -> Users] /\ Admins \subseteq Users
  /\ BufferSize \in Nat \ {0}

VARIABLES
  clients,    \* Hub.clients
  userIndex,  \* Hub.userIndex, a map with the users that have an entry
  writer,     \* the goroutine that keeps new readers out of Hub.mu
  pc,         \* where each handler is; senders are always "sender"
  online,     \* the users counted by register or unregister of each handler
  sending,    \* the broadcast of each goroutine: message and channels to go
  buffer,     \* client.send
  closed,     \* connections whose client.send is closed
  pump,       \* the write pump of each connection
  view,       \* what the client of each connection was last told
  gauge,      \* the metric of unique users
  told,       \* auxiliary: the last list broadcast into each channel
  missed      \* auxiliary: connections whose last list met a full channel

hub == <<clients, userIndex>>
channel == <<buffer, told, missed>>
vars == <<hub, writer, pc, online, sending, channel, closed, pump, view, gauge>>

-----------------------------------------------------------------------------
Goroutines == Conns \cup Senders
OnlineUsers == DOMAIN userIndex

UsersMessage(users) == [kind |-> "online_users", users |-> users]
CountMessage(count) == [kind |-> "online_count", count |-> count]
Event == [kind |-> "event"]
Messages == {UsersMessage(users) : users \in SUBSET Users}
              \cup {CountMessage(n) : n \in 0..Cardinality(Users)} \cup {Event}

NotSending == [message |-> Event, targets |-> {}]

\* The goroutines inside a read section that lasts.
Readers == {g \in Goroutines : sending[g].targets # {}}

\* The next step of a handler that is not in the middle of a broadcast.
At(c, label) == pc[c] = label /\ sending[c].targets = {}
Goto(c, label) == pc' = [pc EXCEPT ![c] = label]

\* RLock, and the start of a loop of sends.
StartSending(g, message, targets) ==
  /\ writer = Nobody
  /\ sending' = [sending EXCEPT ![g] =
       [message |-> message, targets |-> targets]]

\* Mutant of TrySend: the capacity of the channel is not looked at.
SendUnbounded(c, message, broadcast) ==
  /\ buffer' = [buffer EXCEPT ![c] = Append(@, message)]
  /\ told' = IF broadcast /\ message.kind = "online_users"
             THEN [told EXCEPT ![c] = message.users] ELSE told
  /\ UNCHANGED missed

\* Mutant of TrySend: a plain send, which waits for room in the channel.
SendWhenRoom(c, message, broadcast) ==
  /\ Len(buffer[c]) < BufferSize
  /\ buffer' = [buffer EXCEPT ![c] = Append(@, message)]
  /\ UNCHANGED <<told, missed>>

\* select { case cl.send <- payload: default: }
TrySend(c, message, broadcast) ==
  LET list == broadcast /\ message.kind = "online_users" IN
    IF Len(buffer[c]) < BufferSize
    THEN /\ buffer' = [buffer EXCEPT ![c] = Append(@, message)]
         /\ told' = IF list THEN [told EXCEPT ![c] = message.users] ELSE told
         /\ missed' = IF list THEN missed \ {c} ELSE missed
    ELSE /\ missed' = IF list THEN missed \cup {c} ELSE missed
         /\ UNCHANGED <<buffer, told>>

\* One turn of the loop; RUnlock after the last.
Deliver(g, c) ==
  /\ c \in sending[g].targets
  /\ TrySend(c, sending[g].message, TRUE)
  /\ sending' = [sending EXCEPT ![g].targets = @ \ {c}]
  /\ UNCHANGED <<hub, writer, pc, online, closed, pump, view, gauge>>

-----------------------------------------------------------------------------
(* The handler of a connection *)

\* A token was accepted; the next call is Lock in register.
Connect(c) ==
  /\ pc[c] = "new"
  /\ Goto(c, "register")
  /\ UNCHANGED <<hub, writer, online, sending, channel, closed, pump, view, gauge>>

\* Lock keeps new readers out.
AnnounceWriter(c) ==
  /\ pc[c] \in {"register", "unregister"}
  /\ writer = Nobody
  /\ writer' = c
  /\ UNCHANGED <<hub, pc, online, sending, channel, closed, pump, view, gauge>>

\* Mutant of Locked: Lock does not wait for the readers.
LockedAtOnce(c) == writer = c /\ writer' = Nobody

\* Mutant of Locked: Unlock is deferred to the end of the function, past the
\* broadcasts.
LockKept(c) == writer = c /\ Readers = {} /\ UNCHANGED writer

\* Lock returns once the readers have left; Unlock follows in the same step.
Locked(c) == writer = c /\ Readers = {} /\ writer' = Nobody

Register(c) ==
  LET u == User[c] IN
    /\ pc[c] = "register"
    /\ Locked(c)
    /\ clients' = clients \cup {c}
    /\ userIndex' = [v \in OnlineUsers \cup {u} |->
         (IF v \in OnlineUsers THEN userIndex[v] ELSE {})
           \cup (IF v = u THEN {c} ELSE {})]
    /\ online' = [online EXCEPT ![c] = OnlineUsers \cup {u}]
    /\ Goto(c, "setGauge")
    /\ UNCHANGED <<sending, channel, closed, pump, view, gauge>>

\* Mutant of Left: the entry of a user whose last connection left stays.
LeftBehind(c) ==
  [v \in OnlineUsers |-> userIndex[v] \ {c}]

\* userIndex without connection c, and without its user after the last one.
Left(c) ==
  [v \in {v \in OnlineUsers : userIndex[v] # {c}} |-> userIndex[v] \ {c}]

Unregister(c) ==
  /\ pc[c] = "unregister"
  /\ Locked(c)
  /\ clients' = clients \ {c}
  /\ userIndex' = Left(c)
  /\ online' = [online EXCEPT ![c] = DOMAIN Left(c)]
  /\ Goto(c, "setGauge")
  /\ UNCHANGED <<sending, channel, closed, pump, view, gauge>>

\* The tail that register and unregister share, with the lock released.
SetGauge(c) ==
  /\ At(c, "setGauge")
  /\ gauge' = Cardinality(online[c])
  /\ Goto(c, "broadcastCount")
  /\ UNCHANGED <<hub, writer, online, sending, channel, closed, pump, view>>

BroadcastOnlineCount(c) ==
  /\ At(c, "broadcastCount")
  /\ StartSending(c, CountMessage(Cardinality(OnlineUsers)),
                  {d \in clients : User[d] \in Admins})
  /\ Goto(c, "broadcastUsers")
  /\ UNCHANGED <<hub, writer, online, channel, closed, pump, view, gauge>>

\* A connection that is still registered goes on with its greeting.
AfterBroadcast(c) == IF c \in clients THEN "snapshotUsers" ELSE "close"

\* Mutant of BroadcastOnlineUsers: it sends the users counted under Lock.
BroadcastCountedUsers(c) ==
  /\ At(c, "broadcastUsers")
  /\ StartSending(c, UsersMessage(online[c]), clients)
  /\ Goto(c, AfterBroadcast(c))
  /\ UNCHANGED <<hub, writer, online, channel, closed, pump, view, gauge>>

BroadcastOnlineUsers(c) ==
  /\ At(c, "broadcastUsers")
  /\ StartSending(c, UsersMessage(OnlineUsers), clients)
  /\ Goto(c, AfterBroadcast(c))
  /\ UNCHANGED <<hub, writer, online, channel, closed, pump, view, gauge>>

\* sendOnlineUsers and sendOnlineCount look under RLock ...
Snapshot(c) ==
  /\ writer = Nobody
  /\ \/ At(c, "snapshotUsers") /\ Goto(c, "greetUsers")
     \/ At(c, "snapshotCount") /\ Goto(c, "greetCount")
  /\ online' = [online EXCEPT ![c] = OnlineUsers]
  /\ UNCHANGED <<hub, writer, sending, channel, closed, pump, view, gauge>>

\* ... and send with the lock released.  Then both pumps start.
Greet(c) ==
  LET serve == pc[c] = "greetCount" \/ User[c] \notin Admins IN
    /\ \/ /\ At(c, "greetUsers")
          /\ TrySend(c, UsersMessage(online[c]), FALSE)
       \/ /\ At(c, "greetCount")
          /\ TrySend(c, CountMessage(Cardinality(online[c])), FALSE)
    /\ Goto(c, IF serve THEN "read" ELSE "snapshotCount")
    /\ pump' = IF serve THEN [pump EXCEPT ![c] = "running"] ELSE pump
    /\ UNCHANGED <<hub, writer, online, sending, closed, view, gauge>>

\* Mutant of ReadFails: the channel is closed before the client is unregistered.
ReadFailsAndCloses(c) ==
  /\ pc[c] = "read"
  /\ Goto(c, "unregister")
  /\ closed' = closed \cup {c}
  /\ UNCHANGED <<hub, writer, online, sending, channel, pump, view, gauge>>

\* The client closed the connection, or was silent for 90 seconds.
ReadFails(c) ==
  /\ pc[c] = "read"
  /\ Goto(c, "unregister")
  /\ UNCHANGED <<hub, writer, online, sending, channel, closed, pump, view, gauge>>

CloseChannel(c) ==
  /\ At(c, "close")
  /\ closed' = closed \cup {c}
  /\ Goto(c, "awaitPump")
  /\ UNCHANGED <<hub, writer, online, sending, channel, pump, view, gauge>>

\* <-done, and the deferred ws.Close.
Return(c) ==
  /\ pc[c] = "awaitPump" /\ pump[c] = "ended"
  /\ Goto(c, "gone")
  /\ UNCHANGED <<hub, writer, online, sending, channel, closed, pump, view, gauge>>

-----------------------------------------------------------------------------
(* The write pump *)

Told(seen, message) ==
  CASE message.kind = "online_users" -> [seen EXCEPT !.users = message.users]
    [] message.kind = "online_count" -> [seen EXCEPT !.count = message.count]
    [] OTHER -> seen

WriteMessage(c) ==
  /\ pump[c] = "running" /\ buffer[c] # <<>>
  /\ buffer' = [buffer EXCEPT ![c] = Tail(@)]
  /\ view' = [view EXCEPT ![c] = Told(@, Head(buffer[c]))]
  /\ UNCHANGED <<hub, writer, pc, online, sending, told, missed, closed, pump, gauge>>

\* A closed channel still hands out what is in it.
PumpEnds(c) ==
  /\ pump[c] = "running" /\ c \in closed /\ buffer[c] = <<>>
  /\ pump' = [pump EXCEPT ![c] = "ended"]
  /\ UNCHANGED <<hub, writer, pc, online, sending, channel, closed, view, gauge>>

\* A write of a message or a ping fails.
WriteFails(c) ==
  /\ pump[c] = "running"
  /\ pump' = [pump EXCEPT ![c] = "ended"]
  /\ UNCHANGED <<hub, writer, pc, online, sending, channel, closed, view, gauge>>

-----------------------------------------------------------------------------
(* Events of the hug service *)

SendEvent(s, targets) ==
  /\ s \in Senders /\ s \notin Readers
  /\ StartSending(s, Event, targets)
  /\ UNCHANGED <<hub, writer, pc, online, channel, closed, pump, view, gauge>>

Broadcast(s) == SendEvent(s, clients)
SendToUser(s, u) == u \in OnlineUsers /\ SendEvent(s, userIndex[u])

-----------------------------------------------------------------------------
Init ==
  /\ clients = {}
  /\ userIndex = [u \in {} |-> {}]
  /\ writer = Nobody
  /\ pc = [c \in Conns |-> "new"]
  /\ online = [c \in Conns |-> {}]
  /\ sending = [g \in Goroutines |-> NotSending]
  /\ buffer = [c \in Conns |-> <<>>]
  /\ closed = {}
  /\ pump = [c \in Conns |-> "waiting"]
  /\ view = [c \in Conns |-> [users |-> {}, count |-> 0]]
  /\ gauge = 0
  /\ told = [c \in Conns |-> {}]
  /\ missed = {}

\* What a handler does of its own accord.
Handle(c) ==
  \/ AnnounceWriter(c) \/ Register(c) \/ Unregister(c) \/ SetGauge(c)
  \/ BroadcastOnlineCount(c) \/ BroadcastOnlineUsers(c)
  \/ Snapshot(c) \/ Greet(c) \/ CloseChannel(c) \/ Return(c)

Pump(c) == WriteMessage(c) \/ PumpEnds(c)
Loop(g) == \E c \in Conns : Deliver(g, c)

Next ==
  \/ \E c \in Conns : Connect(c) \/ Handle(c) \/ ReadFails(c)
                        \/ Pump(c) \/ WriteFails(c)
  \/ \E g \in Goroutines : Loop(g)
  \/ \E s \in Senders : Broadcast(s) \/ \E u \in Users : SendToUser(s, u)

Spec == Init /\ [][Next]_vars

(* Handlers and loops of sends are scheduled.  Write pumps are not fair: a   *)
(* write has no deadline and takes as long as the peer lets it.  Nothing     *)
(* has to connect, to fail or to be sent.                                    *)
Fairness ==
  /\ \A c \in Conns : WF_vars(Handle(c))
  /\ \A g \in Goroutines : WF_vars(Loop(g))

FairSpec == Spec /\ Fairness

-----------------------------------------------------------------------------
Labels == {"new", "register", "setGauge", "broadcastCount", "broadcastUsers",
           "snapshotUsers", "greetUsers", "snapshotCount", "greetCount",
           "read", "unregister", "close", "awaitPump", "gone"}

TypeOK ==
  /\ clients \subseteq Conns
  /\ OnlineUsers \subseteq Users
  /\ userIndex \in [OnlineUsers -> SUBSET Conns]
  /\ writer \in Conns \cup {Nobody}
  /\ pc \in [Conns -> Labels]
  /\ online \in [Conns -> SUBSET Users]
  /\ sending \in [Goroutines -> [message: Messages, targets: SUBSET Conns]]
  /\ buffer \in [Conns -> Seq(Messages)]
  /\ \A c \in Conns : Len(buffer[c]) <= BufferSize
  /\ closed \subseteq Conns
  /\ pump \in [Conns -> {"waiting", "running", "ended"}]
  /\ view \in [Conns -> [users: SUBSET Users, count: 0..Cardinality(Users)]]
  /\ gauge \in 0..Cardinality(Users)
  /\ told \in [Conns -> SUBSET Users]
  /\ missed \subseteq Conns

\* "Unregister BEFORE closing the channel": no loop of sends still has to send
\* to a closed channel, and none can start to, by either of the two maps; a
\* send on a closed channel would panic.
NoSendOnClosed ==
  /\ \A g \in Goroutines : sending[g].targets \cap closed = {}
  /\ clients \cap closed = {}
  /\ \A u \in OnlineUsers : userIndex[u] \cap closed = {}

\* What a goroutine waits for does not wait for that goroutine: the handler that
\* keeps readers out of the lock is at Lock itself, in none of the loops it
\* waits for, and has none to run before Unlock; the pump a handler waits for
\* was started, and has nothing to wait for but its writes, because its channel
\* is closed (register, unregister, HandleWS).
WaitsEnd ==
  /\ writer # Nobody =>
       pc[writer] \in {"register", "unregister"} /\ writer \notin Readers
  /\ \A c \in Conns : pc[c] = "awaitPump" => c \in closed /\ pump[c] # "waiting"

\* A user is online exactly while one of their connections is registered, and
\* the index finds all of them (register and unregister with several
\* connections of a user).
IndexFollowsClients ==
  userIndex = [u \in {User[c] : c \in clients} |->
                 {c \in clients : User[c] = u}]

\* No handler is between its update of the maps and its broadcasts.
NothingToAnnounce ==
  \A c \in Conns : /\ pc[c] \notin {"setGauge", "broadcastCount", "broadcastUsers"}
                   /\ sending[c].targets = {}

\* Whatever the order in which connections come and go and their broadcasts
\* overtake each other, the last list broadcast into a channel names the users
\* who are online, unless there was no room for it (broadcastOnlineUsers).
BroadcastsConverge ==
  NothingToAnnounce => \A c \in clients \ missed : told[c] = OnlineUsers

Announced == INSTANCE Presence WITH connected <- clients

\* The loops of sends and the sections under Lock look like single steps:
\* connections join and leave at once, and a list that goes into a channel is
\* right when it does, not only when the loop began (register, unregister,
\* broadcastOnlineUsers).
ImplementsPresence == Announced!Spec

\* No handler is at work on behalf of a connection.
Quiet ==
  \A c \in Conns : /\ pc[c] \in {"new", "read", "awaitPump", "gone"}
                   /\ sending[c].targets = {}

\* A connection that is told everything in its channel knows who is online:
\* "Send current online state to newly connected clients."
LastMessageIsCurrent ==
  Quiet => \A c \in clients \ missed :
    pump[c] = "running" /\ buffer[c] = <<>> => view[c].users = OnlineUsers

\* No write to the socket of connection c takes for ever: its peer reads, or the
\* write fails.
WritesEnd(c) == WF_vars(Pump(c))

\* A handler always gets back to reading, or to the wait for its own pump: no
\* lock and no full channel holds it, although no peer ever reads and events
\* never end.  From that wait it returns if the writes of its own connection
\* end, and the code sets them no deadline (ws.Write, <-done in HandleWS); what
\* the peers of other connections do is nothing to it.
HandlersReturn ==
  \A c \in Conns :
    /\ pc[c] \notin {"new", "read", "awaitPump", "gone"}
         ~> pc[c] \in {"read", "awaitPump"}
    /\ WritesEnd(c) => (pc[c] = "awaitPump" ~> pc[c] = "gone")

=============================================================================
