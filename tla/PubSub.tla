-------------------------------- MODULE PubSub --------------------------------
(***************************************************************************)
(* pkg/pubsub, with the life of a client connection (pkg/connection,       *)
(* internal/slava/server).                                                 *)
(*                                                                         *)
(* A socket is served by one goroutine on a Connection, an object that     *)
(* sync.Pool hands from one socket to the next.  The hub keeps such objects *)
(* per channel; SUBSCRIBE, UNSUBSCRIBE and PUBLISH work under the locks of *)
(* their channels (KeyLocks, which LockMap is proved to implement), one    *)
(* channel or one receiver after the other.  Closing clears the object and *)
(* puts it into the pool first, and cleans the hub afterwards.             *)
(*                                                                         *)
(* A socket has one life.  Messages are numbers, per channel.  A write to  *)
(* a socket that is closed, on either side, is lost.  The subscribers of a *)
(* channel are a set: their order shows to no client.  Authentication, the *)
(* refusals of a slave and the shutdown of the server are left out.        *)
(***************************************************************************)
EXTENDS Naturals, Sequences, FiniteSets, SequencesExt

CONSTANTS
    Clients,      \* the sockets, each with its goroutine
    Objects,      \* the Connection objects the pool can hand out
    Channels,
    Topics,       \* the channel lists each client names in its requests
    Talk,         \* the channels each client publishes to
    Nil,          \* no object, no socket
    MaxRequests   \* bound on the requests of each client

ASSUME SetAssumption == IsFiniteSet(Channels) /\ Nil \notin Clients \cup Objects
ASSUME TopicsAssumption ==
    \A c \in Clients : Topics[c] \subseteq Seq(Channels) /\ Talk[c] \subseteq Channels
ASSUME BoundAssumption == MaxRequests \in [Clients -> Nat]

VARIABLES
    conn,         \* Connection.conn: the socket an object was last given
    subs,         \* Connection.subs
    pool,         \* connPool: the objects NewConn may get
    hub,          \* Hub.subs
    granted,      \* Hub.subsLocker: the channels each goroutine holds
    task,         \* what the goroutine of a socket is doing
    up,           \* the sockets connected to their client
    sent,         \* the number of messages published to each channel
    stream,       \* history: what each client has received, per channel
    heirs         \* history: the sockets whose object had not been cleaned

vars == <<conn, subs, pool, hub, granted, task, up, sent, stream, heirs>>

Locks == INSTANCE KeyLocks WITH Procs <- Clients, Keys <- Channels

Steps == {"off", "idle", "lock", "work", "closed", "gone"}
Ops == {"none", "subscribe", "unsubscribe", "publish", "clean"}

TaskType == [step : Steps, obj : Objects \cup {Nil}, op : Ops, todo : Seq(Channels),
             to : SUBSET Objects, count : Nat]
Events == [kind : {"subscribe", "unsubscribe", "message"}, n : Nat]

Offline == [step |-> "off", obj |-> Nil, op |-> "none", todo |-> <<>>, to |-> {}, count |-> 0]

\* Every object is as &Connection{}.
Init ==
    /\ conn = [o \in Objects |-> Nil]
    /\ subs = [o \in Objects |-> {}]
    /\ pool = Objects
    /\ hub = [ch \in Channels |-> {}]
    /\ Locks!Init
    /\ task = [c \in Clients |-> Offline]
    /\ up = {}
    /\ sent = [ch \in Channels |-> 0]
    /\ stream = [c \in Clients |-> [ch \in Channels |-> <<>>]]
    /\ heirs = {}

Obj(c) == task[c].obj

\* Connection.Write on an object: its socket's client receives an event of a channel.
Write(o, ch, event) ==
    stream' = IF conn[o] \in up
              THEN [stream EXCEPT ![conn[o]][ch] = Append(@, event)]
              ELSE stream

-------------------------------------------------------------------------------
(* Connections *)

\* The object still has readers of its last owner's: the hub, or the goroutine.
Unclean(o) == \/ \E ch \in Channels : o \in hub[ch]
              \/ \E d \in Clients : Obj(d) = o /\ task[d].step # "gone"

\* Handle: NewConn takes an object from the pool.
Accept(c) ==
    /\ task[c].step = "off"
    /\ \E o \in pool :
        /\ pool' = pool \ {o}
        /\ conn' = [conn EXCEPT ![o] = c]
        /\ task' = [task EXCEPT ![c] = [Offline EXCEPT !.step = "idle", !.obj = o]]
        /\ heirs' = IF Unclean(o) THEN heirs \cup {c} ELSE heirs
    /\ up' = up \cup {c}
    /\ UNCHANGED <<subs, hub, granted, sent, stream>>

\* The client goes away, at any moment; requests already read are still served.
Disconnect(c) ==
    /\ c \in up
    /\ up' = up \ {c}
    /\ UNCHANGED <<conn, subs, pool, hub, granted, task, sent, stream, heirs>>

\* closeClient, first half: Connection.Close clears the object and pools it.
Close(c) ==
    /\ task[c].step = "idle" /\ c \notin up
    /\ subs' = [subs EXCEPT ![Obj(c)] = {}]
    /\ pool' = pool \cup {Obj(c)}
    /\ task' = [task EXCEPT ![c].step = "closed"]
    /\ UNCHANGED <<conn, hub, granted, up, sent, stream, heirs>>

-------------------------------------------------------------------------------
(* Requests *)

Begin(c, op, channels) ==
    task' = [task EXCEPT ![c].step = "lock", ![c].op = op, ![c].todo = channels,
                         ![c].count = IF op = "clean" THEN @ ELSE @ + 1]

\* Handle: the next payload of the socket.
Ready(c) == task[c].step = "idle" /\ task[c].count < MaxRequests[c]

Subscribe(c) ==
    /\ Ready(c)
    /\ \E channels \in Topics[c] : channels # <<>> /\ Begin(c, "subscribe", channels)
    /\ UNCHANGED <<conn, subs, pool, hub, granted, up, sent, stream, heirs>>

\* GetChannels: the keys of a map, in any order.
GetChannels(o) == SetToSeqs(subs[o])

UnSubscribe(c) ==
    /\ Ready(c)
    /\ \E channels \in Topics[c] :
           IF channels = <<>> THEN \E all \in GetChannels(Obj(c)) : Begin(c, "unsubscribe", all)
                              ELSE Begin(c, "unsubscribe", channels)
    /\ UNCHANGED <<conn, subs, pool, hub, granted, up, sent, stream, heirs>>

Publish(c) ==
    /\ Ready(c)
    /\ \E ch \in Talk[c] : Begin(c, "publish", <<ch>>)
    /\ UNCHANGED <<conn, subs, pool, hub, granted, up, sent, stream, heirs>>

\* closeClient, second half: AfterClientClose, UnsubscribeAll of what the object has now.
AfterClientClose(c) ==
    /\ task[c].step = "closed"
    /\ \E channels \in GetChannels(Obj(c)) : Begin(c, "clean", channels)
    /\ UNCHANGED <<conn, subs, pool, hub, granted, up, sent, stream, heirs>>

\* Mutant: PUBLISH locks its channel for reading.
FootprintMutant(c) ==
    IF task[c].op = "publish" THEN [write |-> {}, read |-> ToSet(task[c].todo)]
                              ELSE [write |-> ToSet(task[c].todo), read |-> {}]

\* Locks(channels...)
Footprint(c) == [write |-> ToSet(task[c].todo), read |-> {}]

\* The locks are there; PUBLISH then looks up the subscribers and has its number.
Lock(c) ==
    /\ task[c].step = "lock"
    /\ Locks!Grant(c, Footprint(c))
    /\ IF task[c].op = "publish"
       THEN LET ch == Head(task[c].todo)
            IN  /\ task' = [task EXCEPT ![c].step = "work", ![c].to = hub[ch]]
                /\ sent' = [sent EXCEPT ![ch] = @ + 1]
       ELSE task' = [task EXCEPT ![c].step = "work"] /\ UNCHANGED sent
    /\ UNCHANGED <<conn, subs, pool, hub, up, stream, heirs>>

\* Working under the locks, channel ch is next.
At(c, ops, ch) == /\ task[c].step = "work" /\ task[c].op \in ops
                  /\ task[c].todo # <<>> /\ ch = Head(task[c].todo)

Advance(c) == task' = [task EXCEPT ![c].todo = Tail(@)]

\* subscribe0, and the reply to a new subscriber.
SubscribeOne(c) ==
    \E ch \in Channels :
        /\ At(c, {"subscribe"}, ch)
        /\ subs' = [subs EXCEPT ![Obj(c)] = @ \cup {ch}]
        /\ IF Obj(c) \in hub[ch] THEN UNCHANGED <<hub, stream>>
           ELSE /\ hub' = [hub EXCEPT ![ch] = @ \cup {Obj(c)}]
                /\ Write(Obj(c), ch, [kind |-> "subscribe", n |-> sent[ch]])
        /\ Advance(c)
        /\ UNCHANGED <<conn, pool, granted, up, sent, heirs>>

\* Mutant: the channel of the connection is removed, the hub keeps the connection.
LeaveMutant(c, ch) == hub[ch]

\* unsubscribe0: RemoveAllByVal.
Leave(c, ch) == hub[ch] \ {Obj(c)}

\* unsubscribe0, and the reply to whoever asked for it, if the channel is in the hub.
UnsubscribeOne(c) ==
    \E ch \in Channels :
        /\ At(c, {"unsubscribe", "clean"}, ch)
        /\ subs' = [subs EXCEPT ![Obj(c)] = @ \ {ch}]
        /\ hub' = [hub EXCEPT ![ch] = Leave(c, ch)]
        /\ IF task[c].op = "unsubscribe" /\ hub[ch] # {}
           THEN Write(Obj(c), ch, [kind |-> "unsubscribe", n |-> sent[ch]])
           ELSE UNCHANGED stream
        /\ Advance(c)
        /\ UNCHANGED <<conn, pool, granted, up, sent, heirs>>

\* Mutant: ForEach stops after the first receiver.
DeliverOneMutant(c) ==
    \E ch \in Channels, o \in task[c].to :
        /\ At(c, {"publish"}, ch)
        /\ Write(o, ch, [kind |-> "message", n |-> sent[ch]])
        /\ task' = [task EXCEPT ![c].to = {}]
        /\ UNCHANGED <<conn, subs, pool, hub, granted, up, sent, heirs>>

\* Publish: the message for one of the subscribers.
DeliverOne(c) ==
    \E ch \in Channels, o \in task[c].to :
        /\ At(c, {"publish"}, ch)
        /\ Write(o, ch, [kind |-> "message", n |-> sent[ch]])
        /\ task' = [task EXCEPT ![c].to = @ \ {o}]
        /\ UNCHANGED <<conn, subs, pool, hub, granted, up, sent, heirs>>

\* Everything is done: the deferred UnLocks, and the reply.
Finish(c) ==
    /\ task[c].step = "work" /\ task[c].to = {}
    /\ task[c].op # "publish" => task[c].todo = <<>>
    /\ granted' = [granted EXCEPT ![c] = Locks!Nothing]
    /\ task' = [task EXCEPT ![c] = [@ EXCEPT !.todo = <<>>, !.op = "none",
                    !.step = IF task[c].op = "clean" THEN "gone" ELSE "idle"]]
    /\ UNCHANGED <<conn, subs, pool, hub, up, sent, stream, heirs>>

-------------------------------------------------------------------------------
Work(c) == SubscribeOne(c) \/ UnsubscribeOne(c) \/ DeliverOne(c) \/ Finish(c)

Next == \E c \in Clients : \/ Accept(c) \/ Disconnect(c) \/ Close(c)
                           \/ Subscribe(c) \/ UnSubscribe(c) \/ Publish(c)
                           \/ AfterClientClose(c) \/ Lock(c) \/ Work(c)

Spec == Init /\ [][Next]_vars

-------------------------------------------------------------------------------
TypeOK ==
    /\ conn \in [Objects -> Clients \cup {Nil}]
    /\ subs \in [Objects -> SUBSET Channels]
    /\ pool \subseteq Objects
    /\ hub \in [Channels -> SUBSET Objects]
    /\ granted \in [Clients -> Locks!Request]
    /\ task \in [Clients -> TaskType]
    /\ up \subseteq Clients /\ heirs \subseteq Clients
    /\ sent \in [Channels -> Nat]
    /\ stream \in [Clients -> [Channels -> Seq(Events)]]

\* The goroutine serves its socket on an object of its own.
Serving(c) == task[c].step \in {"idle", "lock", "work"} /\ task[c].op # "clean"

\* The hub and the connection agree about who is subscribed, for every connection that is
\* served on a clean object, whatever else is subscribed, published and closed meanwhile.
\* (subscribe0, unsubscribe0, UnsubscribeAll, NewConn)
HubAgrees ==
    \A c \in Clients \ heirs :
        Serving(c) => \A ch \in Channels : ch \in subs[Obj(c)] <=> Obj(c) \in hub[ch]

\* A reply or message fits the one before it on the same channel: sessions open and close
\* in turn, messages come within a session only, each the successor of the last.
Follows(e, s) ==
    CASE e.kind = "message" -> /\ s # <<>> /\ Last(s).kind # "unsubscribe"
                               /\ e.n = Last(s).n + 1
      [] e.kind = "subscribe" -> s = <<>> \/ Last(s).kind = "unsubscribe"
      [] OTHER -> TRUE

\* What a client reads on a channel are whole sessions: from its subscription on every
\* message published there, once and in the order of publication, and none outside.
\* (Subscribe, UnSubscribe, Publish)
InOrder ==
    [][\A c \in Clients \ heirs', ch \in Channels :
          stream'[c][ch] # stream[c][ch] =>
              /\ Len(stream'[c][ch]) = Len(stream[c][ch]) + 1
              /\ Follows(Last(stream'[c][ch]), stream[c][ch])]_vars

\* The message that is being delivered has not reached the client yet.
Pending(c, ch) == \E p \in Clients : At(p, {"publish"}, ch) /\ Obj(c) \in task[p].to

\* Who is in the hub and connected has read everything that was published, but for the
\* message that is being delivered: nobody who leaves, joins or publishes costs another
\* client a message.
\* (Publish, subscribe0, UnsubscribeAll)
NothingMissed ==
    \A c \in up \ heirs, ch \in Channels :
        Obj(c) \in hub[ch] =>
            /\ stream[c][ch] # <<>> /\ Last(stream[c][ch]).kind # "unsubscribe"
            /\ sent[ch] = Last(stream[c][ch]).n + (IF Pending(c, ch) THEN 1 ELSE 0)

===============================================================================
