----------------------------- MODULE PubSubProofs -----------------------------
(***************************************************************************)
(* HubAgrees, NothingMissed and InOrder of PubSub, for any number of       *)
(* sockets, objects and channels.  The invariant says who owns an object   *)
(* (Owners), that the last owner of a clean object has left it (Departed), *)
(* that channels are locked one at a time (Held) and how the hub and what  *)
(* the clients have read fit together (HubAgrees, Sessions).               *)
(***************************************************************************)
EXTENDS PubSub, SequenceTheorems, FiniteSetTheorems, TLAPS

\* What the steps of a goroutine say of its socket, its object and its request.
Owners ==
    /\ \A c \in Clients :
        /\ task[c].step = "off" => /\ task[c].obj = Nil
                                   /\ stream[c] = [ch \in Channels |-> <<>>]
        /\ task[c].step # "off" => task[c].obj \in Objects
        /\ task[c].step \notin {"lock", "work"} => task[c].op = "none"
        /\ Serving(c) => conn[Obj(c)] = c /\ Obj(c) \notin pool
        /\ c \in up => Serving(c)
    /\ \A o \in Objects : /\ conn[o] \in Clients => Obj(conn[o]) = o
                          /\ o \in pool => subs[o] = {}

\* Whoever serves on a clean object is the only one to use it.
Departed ==
    \A c \in Clients \ heirs, d \in Clients :
        Serving(c) /\ ~Serving(d) /\ Obj(d) = Obj(c) => task[d].step = "gone"

\* A channel in work is locked by one goroutine, and a message goes to its subscribers.
Held ==
    /\ \A c \in Clients :
        /\ granted[c].read = {}
        /\ task[c].step # "work" => granted[c].write = {}
        /\ task[c].step = "work" => ToSet(task[c].todo) \subseteq granted[c].write
        /\ task[c].op = "publish" => task[c].todo # <<>>
        /\ task[c].to # {} => /\ task[c].step = "work" /\ task[c].op = "publish"
                              /\ task[c].to \subseteq hub[Head(task[c].todo)]
    /\ \A c, d \in Clients : c # d => granted[c].write \cap granted[d].write = {}

\* A client outside the hub has closed its last session; one inside has read what was
\* published.
Closed(c, ch) == stream[c][ch] # <<>> => Last(stream[c][ch]).kind = "unsubscribe"
Sessions ==
    /\ NothingMissed
    /\ \A c \in up \ heirs, ch \in Channels : Obj(c) \notin hub[ch] => Closed(c, ch)

IInv == TypeOK /\ Owners /\ Departed /\ Held /\ HubAgrees /\ Sessions

-------------------------------------------------------------------------------
(* The invariant, spelled out for one goroutine and for two *)

\* Nobody else uses the object of a goroutine that serves on a clean one.
LEMMA OwnObject ==
    ASSUME IInv, NEW c \in Clients \ heirs, Serving(c), NEW d \in Clients, d # c,
           task[d].step # "gone"
    PROVE  Obj(d) # Obj(c)
<1>1. CASE Serving(d)
  BY <1>1 DEF IInv, Owners
<1>2. CASE ~Serving(d)
  BY <1>2 DEF IInv, Departed
<1> QED
  BY <1>1, <1>2

\* A socket whose client is connected is served, on the object that was given it.
LEMMA Connected ==
    ASSUME IInv, NEW c \in up
    PROVE  c \in Clients /\ Serving(c) /\ Obj(c) \in Objects /\ conn[Obj(c)] = c
<1>1. c \in Clients
  BY DEF IInv, TypeOK
<1>2. Serving(c) /\ conn[Obj(c)] = c
  BY <1>1 DEF IInv, Owners
<1>3. Obj(c) \in Objects
  BY <1>1, <1>2 DEF IInv, Owners, Serving, Obj
<1> QED
  BY <1>1, <1>2, <1>3

\* The channel a goroutine is at is locked by it, and by nobody else.
LEMMA Alone ==
    ASSUME IInv, NEW ch \in Channels, NEW c \in Clients, NEW d \in Clients, c # d,
           task[c].step = "work", task[c].todo # <<>>, ch = Head(task[c].todo)
    PROVE  /\ ch \in granted[c].write /\ ch \notin granted[d].write
           /\ ~(task[d].step = "work" /\ task[d].todo # <<>> /\ ch = Head(task[d].todo))
<1>1. \A e \in Clients : task[e].step = "work" /\ task[e].todo # <<>> =>
                             Head(task[e].todo) \in granted[e].write
  <2> SUFFICES ASSUME NEW e \in Clients, task[e].step = "work", task[e].todo # <<>>
               PROVE  Head(task[e].todo) \in granted[e].write
    OBVIOUS
  <2>1. task[e].todo \in Seq(Channels)
    BY DEF IInv, TypeOK, TaskType
  <2>2. 1 \in DOMAIN task[e].todo /\ Head(task[e].todo) = task[e].todo[1]
    BY <2>1
  <2> QED
    BY <2>2 DEF IInv, Held, ToSet
<1>2. granted[c].write \cap granted[d].write = {}
  BY DEF IInv, Held
<1> QED
  BY <1>1, <1>2

-------------------------------------------------------------------------------
(* Initial states *)

THEOREM Initial == Init => IInv
<1> SUFFICES ASSUME Init PROVE IInv
  OBVIOUS
<1>1. granted = [c \in Clients |-> [write |-> {}, read |-> {}]]
  BY DEF Init, Locks!Init, Locks!Nothing
<1>2. TypeOK
  BY <1>1 DEF Init, TypeOK, Offline, TaskType, Steps, Ops, Locks!Request
<1>3. Owners
  BY SetAssumption DEF Init, Owners, Offline, Serving, Obj
<1>4. Departed /\ HubAgrees
  BY DEF Init, Departed, HubAgrees, Offline, Serving
<1>5. Held
  BY <1>1 DEF Init, Held, Offline
<1>6. Sessions
  BY DEF Init, Sessions, NothingMissed
<1> QED
  BY <1>2, <1>3, <1>4, <1>5, <1>6 DEF IInv

-------------------------------------------------------------------------------
(* Requests *)

\* What Begin leaves in the record of a goroutine.
LEMMA BeginRecord ==
    ASSUME TypeOK, NEW c \in Clients, NEW op \in Ops, NEW channels \in Seq(Channels),
           Begin(c, op, channels)
    PROVE  /\ task' \in [Clients -> TaskType]
           /\ \A d \in Clients \ {c} : task'[d] = task[d]
           /\ task'[c].step = "lock" /\ task'[c].op = op /\ task'[c].todo = channels
           /\ task'[c].obj = task[c].obj /\ task'[c].to = task[c].to
<1>1. task[c] \in TaskType
  BY DEF TypeOK
<1> DEFINE count == IF op = "clean" THEN task[c].count ELSE task[c].count + 1
           new == [task[c] EXCEPT !.step = "lock", !.op = op, !.todo = channels,
                                  !.count = count]
<1>2. task' = [task EXCEPT ![c] = new]
  BY DEF TypeOK, Begin
<1>3. count \in Nat
  BY <1>1 DEF TaskType
<1> HIDE DEF count
<1>4. new \in TaskType
  BY <1>1, <1>3 DEF TaskType, Steps
<1>5. /\ new.step = "lock" /\ new.op = op /\ new.todo = channels
      /\ new.obj = task[c].obj /\ new.to = task[c].to
  BY <1>1 DEF TaskType
<1> QED
  BY <1>2, <1>4, <1>5 DEF TypeOK

\* A request begins, or the clean-up of a socket: nobody else can tell.
LEMMA BeginStep ==
    ASSUME IInv, NEW c \in Clients, NEW op \in Ops \ {"none"}, NEW channels \in Seq(Channels),
           task[c].step = IF op = "clean" THEN "closed" ELSE "idle",
           op = "publish" => channels # <<>>,
           Begin(c, op, channels),
           UNCHANGED <<conn, subs, pool, hub, granted, up, sent, stream, heirs>>
    PROVE  IInv'
<1> USE DEF IInv
<1>1. /\ task' \in [Clients -> TaskType]
      /\ \A d \in Clients \ {c} : task'[d] = task[d]
      /\ task'[c].step = "lock" /\ task'[c].op = op /\ task'[c].todo = channels
      /\ task'[c].obj = task[c].obj /\ task'[c].to = task[c].to
  BY BeginRecord
<1>2. task[c].step \in {"idle", "closed"} /\ task[c].op = "none"
  BY DEF Owners
<1>3. \A d \in Clients : Serving(d)' <=> Serving(d)
  BY <1>1, <1>2 DEF Serving
<1>4. \A d \in Clients : Obj(d)' = Obj(d)
  BY <1>1 DEF Obj
<1>5. TypeOK'
  BY <1>1 DEF TypeOK
<1>6. Owners'
  <2>1. ASSUME NEW d \in Clients
        PROVE  /\ task'[d].step = "off" <=> task[d].step = "off"
               /\ task'[d].obj = task[d].obj
               /\ task'[d].step \notin {"lock", "work"} => task'[d].op = "none"
    BY <1>1, <1>2 DEF Owners
  <2> QED
    BY <2>1, <1>3, <1>4 DEF Owners
<1>7. Departed'
  BY <1>1, <1>2, <1>3, <1>4 DEF Departed
<1>8. Held'
  BY <1>1, <1>2 DEF Held
<1>9. HubAgrees'
  BY <1>3, <1>4 DEF HubAgrees
<1>10. \A d \in Clients, ch \in Channels : Pending(d, ch)' <=> Pending(d, ch)
  BY <1>1, <1>2, <1>4 DEF Pending, At
<1>11. up \subseteq Clients
  BY DEF TypeOK
<1>12. Sessions'
  BY <1>4, <1>10, <1>11 DEF Sessions, NothingMissed, Closed
<1> QED
  BY <1>5, <1>6, <1>7, <1>8, <1>9, <1>12

\* The channels of an object in some order.
LEMMA ChannelLists ==
    ASSUME TypeOK, NEW o \in Objects
    PROVE  GetChannels(o) \subseteq Seq(Channels)
<1>1. IsFiniteSet(subs[o]) /\ subs[o] \subseteq Channels
  BY SetAssumption, FS_Subset DEF TypeOK
<1>2. Cardinality(subs[o]) \in Nat
  BY <1>1, FS_CardinalityType
<1> QED
  BY <1>1, <1>2 DEF GetChannels, SetToSeqs

LEMMA RequestStep ==
    ASSUME IInv, NEW c \in Clients,
           Subscribe(c) \/ UnSubscribe(c) \/ Publish(c) \/ AfterClientClose(c)
    PROVE  IInv'
<1>1. Obj(c) \in Objects
  BY DEF IInv, Owners, Subscribe, UnSubscribe, Publish, AfterClientClose, Ready, Obj
<1>2. GetChannels(Obj(c)) \subseteq Seq(Channels)
  BY <1>1, ChannelLists DEF IInv
<1>3. CASE Subscribe(c)
  <2>1. PICK channels \in Topics[c] : Begin(c, "subscribe", channels)
    BY <1>3 DEF Subscribe
  <2>2. channels \in Seq(Channels)
    BY TopicsAssumption
  <2> QED
    BY <1>3, <2>1, <2>2, BeginStep DEF Subscribe, Ready, Ops
<1>4. CASE UnSubscribe(c)
  <2>1. PICK channels \in Seq(Channels) : Begin(c, "unsubscribe", channels)
    BY <1>2, <1>4, TopicsAssumption DEF UnSubscribe
  <2> QED
    BY <1>4, <2>1, BeginStep DEF UnSubscribe, Ready, Ops
<1>5. CASE Publish(c)
  <2>1. PICK ch \in Talk[c] : Begin(c, "publish", <<ch>>)
    BY <1>5 DEF Publish
  <2>2. <<ch>> \in Seq(Channels) /\ <<ch>> # <<>>
    BY TopicsAssumption
  <2> QED
    BY <1>5, <2>1, <2>2, BeginStep DEF Publish, Ready, Ops
<1>6. CASE AfterClientClose(c)
  <2>1. PICK channels \in Seq(Channels) : Begin(c, "clean", channels)
    BY <1>2, <1>6 DEF AfterClientClose
  <2> QED
    BY <1>6, <2>1, BeginStep DEF AfterClientClose, Ops
<1> QED
  BY <1>3, <1>4, <1>5, <1>6

-------------------------------------------------------------------------------
(* Connections *)

LEMMA AcceptStep ==
    ASSUME IInv, NEW c \in Clients, Accept(c)
    PROVE  IInv'
<1> USE DEF IInv
<1> PICK o \in pool : /\ pool' = pool \ {o}
                      /\ conn' = [conn EXCEPT ![o] = c]
                      /\ task' = [task EXCEPT ![c] = [Offline EXCEPT !.step = "idle",
                                                                     !.obj = o]]
                      /\ heirs' = IF Unclean(o) THEN heirs \cup {c} ELSE heirs
  BY DEF Accept
<1>1. /\ up' = up \cup {c}
      /\ UNCHANGED <<subs, hub, granted, sent, stream>>
  BY DEF Accept
<1>2. /\ o \in Objects
      /\ task[c].step = "off" /\ task[c].obj = Nil /\ c \notin up
      /\ stream[c] = [ch \in Channels |-> <<>>]
  BY DEF Accept, TypeOK, Owners, Serving
<1>3. /\ \A d \in Clients \ {c} : task'[d] = task[d]
      /\ task'[c].step = "idle" /\ task'[c].obj = o /\ task'[c].op = "none"
      /\ task'[c].to = {} /\ task'[c].todo = <<>>
      /\ task'[c] \in TaskType
  <2> DEFINE new == [Offline EXCEPT !.step = "idle", !.obj = o]
  <2>1. Offline \in TaskType /\ "idle" \in Steps
    BY DEF Offline, TaskType, Steps, Ops
  <2>2. new \in TaskType
    BY <1>2, <2>1 DEF TaskType
  <2>3. /\ new.step = "idle" /\ new.obj = o /\ new.op = Offline.op
        /\ new.to = Offline.to /\ new.todo = Offline.todo
    BY <2>1 DEF TaskType
  <2>4. Offline.op = "none" /\ Offline.to = {} /\ Offline.todo = <<>>
    BY DEF Offline
  <2> QED
    BY <2>2, <2>3, <2>4 DEF TypeOK
<1>4. \A d \in Clients \ {c} : (Serving(d)' <=> Serving(d)) /\ Obj(d)' = Obj(d)
  BY <1>3 DEF Serving, Obj
<1>5. Serving(c)' /\ Obj(c)' = o /\ ~Serving(c) /\ Obj(c) = Nil
  BY <1>2, <1>3 DEF Serving, Obj
<1>6. \A d \in Clients : Serving(d) => Obj(d) # o
  BY DEF Owners
<1>7. TypeOK'
  BY <1>1, <1>2, <1>3 DEF TypeOK
<1>8. Owners'
  <2>1. \A p \in Objects : conn'[p] = IF p = o THEN c ELSE conn[p]
    BY DEF TypeOK
  <2>2. \A p \in Objects : conn[p] # c
    BY <1>5, SetAssumption DEF Owners
  <2>3. ASSUME NEW d \in Clients \ {c}
        PROVE  /\ task'[d].step = "off" => /\ task'[d].obj = Nil
                                           /\ stream'[d] = [ch \in Channels |-> <<>>]
               /\ task'[d].step # "off" => task'[d].obj \in Objects
               /\ task'[d].step \notin {"lock", "work"} => task'[d].op = "none"
               /\ Serving(d)' => (conn[Obj(d)] = d /\ Obj(d) \notin pool)'
               /\ d \in up' => Serving(d)'
    <3>1. Serving(d) => Obj(d) \in Objects
      BY DEF Owners, Serving, Obj
    <3> QED
      BY <1>1, <1>3, <1>4, <1>6, <2>1, <3>1 DEF Owners
  <2>4. /\ task'[c].obj \in Objects /\ task'[c].op = "none" /\ task'[c].step = "idle"
        /\ (conn[Obj(c)] = c /\ Obj(c) \notin pool)'
    BY <1>2, <1>3, <1>5, <2>1
  <2>5. ASSUME NEW p \in Objects
        PROVE  /\ conn'[p] \in Clients => Obj(conn[p])' = p
               /\ p \in pool' => subs'[p] = {}
    BY <1>1, <1>4, <1>5, <2>1, <2>2 DEF Owners
  <2> QED
    BY <1>5, <2>3, <2>4, <2>5 DEF Owners
<1>9. Departed'
  <2> SUFFICES ASSUME NEW d \in Clients \ heirs', NEW e \in Clients,
                      Serving(d)', ~Serving(e)', Obj(e)' = Obj(d)'
               PROVE  task'[e].step = "gone"
    BY DEF Departed
  <2>1. e # c
    BY <1>5
  <2>2. CASE d = c
    BY <1>2, <1>3, <1>4, <1>5, <2>1, <2>2 DEF Unclean
  <2>3. CASE d # c
    BY <1>3, <1>4, <2>1, <2>3 DEF Departed
  <2> QED
    BY <2>2, <2>3
<1>10. Held'
  BY <1>1, <1>2, <1>3 DEF Held
<1>11. c \notin heirs' => \A ch \in Channels : o \notin hub[ch] /\ o \notin hub'[ch]
  BY <1>1 DEF Unclean
<1>12. HubAgrees'
  <2>1. subs[o] = {}
    BY <1>2 DEF Owners
  <2> QED
    BY <1>1, <1>2, <1>4, <1>5, <1>11, <2>1 DEF HubAgrees
<1>13. \A d \in Clients \ {c}, ch \in Channels : Pending(d, ch)' <=> Pending(d, ch)
  <2>1. \A p \in Clients, ch \in Channels : At(p, {"publish"}, ch)' <=> At(p, {"publish"}, ch)
    BY <1>2, <1>3 DEF At
  <2>2. task[c].to = {}
    BY <1>2 DEF Held
  <2> QED
    BY <1>3, <1>4, <2>1, <2>2 DEF Pending
<1>14. Sessions'
  BY <1>1, <1>2, <1>4, <1>5, <1>11, <1>13 DEF Sessions, NothingMissed, Closed, TypeOK
<1> QED
  BY <1>7, <1>8, <1>9, <1>10, <1>12, <1>14

LEMMA DisconnectStep ==
    ASSUME IInv, NEW c \in Clients, Disconnect(c)
    PROVE  IInv'
<1> USE DEF IInv
<1>0. /\ up' = up \ {c}
      /\ UNCHANGED <<conn, subs, pool, hub, granted, task, sent, stream, heirs>>
  BY DEF Disconnect
<1>1. \A d \in Clients :
          /\ (Serving(d)' <=> Serving(d)) /\ Obj(d)' = Obj(d)
          /\ \A ch \in Channels : Pending(d, ch)' <=> Pending(d, ch)
  BY <1>0 DEF Serving, Obj, Pending, At
<1>2. TypeOK' /\ Held'
  BY <1>0 DEF TypeOK, Held
<1>3. Owners'
  BY <1>0, <1>1 DEF Owners, Obj
<1>4. Departed' /\ HubAgrees'
  BY <1>0, <1>1 DEF Departed, HubAgrees
<1>5. up \subseteq Clients
  BY DEF TypeOK
<1>6. Sessions'
  BY <1>0, <1>1, <1>5 DEF Sessions, NothingMissed, Closed
<1> QED
  BY <1>2, <1>3, <1>4, <1>6

LEMMA CloseStep ==
    ASSUME IInv, NEW c \in Clients, Close(c)
    PROVE  IInv'
<1> USE DEF IInv
<1>1. /\ task[c].step = "idle" /\ c \notin up
      /\ subs' = [subs EXCEPT ![Obj(c)] = {}]
      /\ pool' = pool \cup {Obj(c)}
      /\ task' = [task EXCEPT ![c].step = "closed"]
      /\ UNCHANGED <<conn, hub, granted, up, sent, stream, heirs>>
  BY DEF Close
<1>2. task[c].op = "none" /\ Obj(c) \in Objects /\ Serving(c)
  BY <1>1 DEF Owners, Serving, Obj
<1>3. /\ \A d \in Clients \ {c} : task'[d] = task[d]
      /\ task'[c].step = "closed" /\ task'[c].obj = task[c].obj
      /\ task'[c].op = task[c].op /\ task'[c].to = task[c].to
      /\ task'[c].todo = task[c].todo
      /\ task' \in [Clients -> TaskType]
  BY ZenonT(60), <1>1 DEF TypeOK, TaskType, Steps
<1>4. \A d \in Clients \ {c} : (Serving(d)' <=> Serving(d)) /\ Obj(d)' = Obj(d)
  BY <1>3 DEF Serving, Obj
<1>5. ~Serving(c)' /\ Obj(c)' = Obj(c)
  BY <1>3 DEF Serving, Obj
<1>6. \A d \in Clients \ {c} : Serving(d) => Obj(d) # Obj(c)
  BY <1>2 DEF Owners
<1>7. TypeOK'
  BY <1>1, <1>2, <1>3 DEF TypeOK
<1>8. Owners'
  <2>1. \A p \in Objects : subs'[p] = IF p = Obj(c) THEN {} ELSE subs[p]
    BY <1>1 DEF TypeOK
  <2>2. ASSUME NEW d \in Clients
        PROVE  /\ task'[d].step = "off" => /\ task'[d].obj = Nil
                                           /\ stream'[d] = [ch \in Channels |-> <<>>]
               /\ task'[d].step # "off" => task'[d].obj \in Objects
               /\ task'[d].step \notin {"lock", "work"} => task'[d].op = "none"
               /\ Serving(d)' => (conn[Obj(d)] = d /\ Obj(d) \notin pool)'
               /\ d \in up' => Serving(d)'
    BY <1>1, <1>2, <1>3, <1>4, <1>5, <1>6 DEF Owners
  <2>3. ASSUME NEW p \in Objects
        PROVE  /\ conn'[p] \in Clients => Obj(conn[p])' = p
               /\ p \in pool' => subs'[p] = {}
    BY <1>1, <1>4, <1>5, <2>1 DEF Owners
  <2> QED
    BY <2>2, <2>3 DEF Owners
<1>9. Departed'
  BY <1>1, <1>3, <1>4, <1>5, <1>6 DEF Departed
<1>10. Held'
  BY <1>1, <1>2, <1>3 DEF Held
<1>11. HubAgrees'
  <2>1. \A p \in Objects \ {Obj(c)} : subs'[p] = subs[p]
    BY <1>1 DEF TypeOK
  <2>2. \A d \in Clients \ {c} : Serving(d) => Obj(d) \in Objects
    BY DEF Owners, Serving, Obj
  <2> QED
    BY <1>1, <1>4, <1>5, <1>6, <2>1, <2>2 DEF HubAgrees
<1>12. \A d \in Clients, ch \in Channels : Pending(d, ch)' <=> Pending(d, ch)
  BY <1>1, <1>3, <1>4, <1>5 DEF Pending, At
<1>13. up \subseteq Clients
  BY DEF TypeOK
<1>14. Sessions'
  BY <1>1, <1>4, <1>5, <1>12, <1>13 DEF Sessions, NothingMissed, Closed
<1> QED
  BY <1>7, <1>8, <1>9, <1>10, <1>11, <1>14

-------------------------------------------------------------------------------
(* The locks *)

\* Nobody publishes to a channel that nobody has locked.
LEMMA Granted ==
    ASSUME IInv, NEW c \in Clients, Lock(c)
    PROVE  /\ task[c].step = "lock" /\ task[c].to = {}
           /\ granted' = [granted EXCEPT ![c] = Footprint(c)]
           /\ \A d \in Clients \ {c} : ToSet(task[c].todo) \cap granted[d].write = {}
<1> USE DEF IInv
<1>1. task[c].step = "lock" /\ Locks!Grant(c, Footprint(c))
  BY DEF Lock
<1>2. task[c].to = {}
  BY <1>1 DEF Held
<1> QED
  BY <1>1, <1>2 DEF Locks!Grant, Locks!Compatible, Footprint

LEMMA LockStep ==
    ASSUME IInv, NEW c \in Clients, Lock(c)
    PROVE  IInv'
<1> USE DEF IInv
<1>1. /\ task[c].step = "lock" /\ task[c].to = {}
      /\ granted' = [granted EXCEPT ![c] = Footprint(c)]
      /\ \A d \in Clients \ {c} : ToSet(task[c].todo) \cap granted[d].write = {}
  BY Granted
<1>2. /\ UNCHANGED <<conn, subs, pool, hub, up, stream, heirs>>
      /\ task[c] \in TaskType
  BY DEF Lock, TypeOK
<1> DEFINE ch == Head(task[c].todo)
           publishes == task[c].op = "publish"
<1>3. publishes => /\ ch \in Channels /\ ch \in ToSet(task[c].todo)
                   /\ task' = [task EXCEPT ![c].step = "work", ![c].to = hub[ch]]
                   /\ sent' = [sent EXCEPT ![ch] = @ + 1]
  <2> HAVE publishes
  <2>1. task[c].todo \in Seq(Channels) /\ task[c].todo # <<>>
    BY <1>2 DEF TaskType, Held
  <2>2. ch \in Channels /\ ch = task[c].todo[1] /\ 1 \in DOMAIN task[c].todo
    BY <2>1
  <2> QED
    BY <2>2 DEF Lock, ToSet
<1>4. ~publishes => task' = [task EXCEPT ![c].step = "work"] /\ sent' = sent
  BY DEF Lock
<1>5. /\ \A d \in Clients \ {c} : task'[d] = task[d]
      /\ task'[c].step = "work" /\ task'[c].obj = task[c].obj
      /\ task'[c].op = task[c].op /\ task'[c].todo = task[c].todo
      /\ task'[c].to = IF publishes THEN hub[ch] ELSE {}
      /\ task' \in [Clients -> TaskType]
  <2>1. CASE publishes
    <3> DEFINE new == [task[c] EXCEPT !.step = "work", !.to = hub[ch]]
    <3>1. hub[ch] \subseteq Objects
      BY <1>3, <2>1 DEF TypeOK
    <3>2. task' = [task EXCEPT ![c] = new]
      BY <1>3, <2>1 DEF TypeOK
    <3>3. new \in TaskType
      BY <1>2, <3>1 DEF TaskType, Steps
    <3>4. /\ new.step = "work" /\ new.to = hub[ch] /\ new.obj = task[c].obj
          /\ new.op = task[c].op /\ new.todo = task[c].todo
      BY <1>2 DEF TaskType
    <3> QED
      BY <2>1, <3>2, <3>3, <3>4 DEF TypeOK
  <2>2. CASE ~publishes
    <3> DEFINE new == [task[c] EXCEPT !.step = "work"]
    <3>1. task' = [task EXCEPT ![c] = new]
      BY <1>4, <2>2 DEF TypeOK
    <3>2. new \in TaskType
      BY <1>2 DEF TaskType, Steps
    <3>3. /\ new.step = "work" /\ new.to = task[c].to /\ new.obj = task[c].obj
          /\ new.op = task[c].op /\ new.todo = task[c].todo
      BY <1>2 DEF TaskType
    <3> QED
      BY <1>1, <2>2, <3>1, <3>2, <3>3 DEF TypeOK
  <2> QED
    BY <2>1, <2>2
<1>6. \A d \in Clients : (Serving(d)' <=> Serving(d)) /\ Obj(d)' = Obj(d)
  BY <1>1, <1>5 DEF Serving, Obj
<1>7. Footprint(c) \in Locks!Request
  BY <1>2 DEF Footprint, Locks!Request, ToSet, TaskType
<1>8. TypeOK'
  BY <1>1, <1>2, <1>3, <1>4, <1>5, <1>7 DEF TypeOK
<1>9. Owners'
  BY <1>1, <1>2, <1>5, <1>6 DEF Owners
<1>10. Departed' /\ HubAgrees'
  BY <1>1, <1>2, <1>5, <1>6 DEF Departed, HubAgrees
<1>11. Held'
  <2>1. \A d \in Clients : granted'[d] = IF d = c THEN Footprint(c) ELSE granted[d]
    BY <1>1 DEF TypeOK
  <2>2. Footprint(c).write = ToSet(task[c].todo) /\ Footprint(c).read = {}
    BY DEF Footprint
  <2>3. ASSUME NEW d \in Clients
        PROVE  /\ granted'[d].read = {}
               /\ task'[d].step # "work" => granted'[d].write = {}
               /\ task'[d].step = "work" => ToSet(task'[d].todo) \subseteq granted'[d].write
               /\ task'[d].op = "publish" => task'[d].todo # <<>>
               /\ task'[d].to # {} => /\ task'[d].step = "work" /\ task'[d].op = "publish"
                                      /\ task'[d].to \subseteq hub'[Head(task'[d].todo)]
    BY <1>2, <1>5, <2>1, <2>2 DEF Held
  <2>4. ASSUME NEW d \in Clients, NEW e \in Clients, d # e
        PROVE  granted'[d].write \cap granted'[e].write = {}
    BY <1>1, <2>1, <2>2, <2>4 DEF Held
  <2> QED
    BY <2>3, <2>4 DEF Held
<1>12. Sessions'
  <2> SUFFICES ASSUME NEW d \in up \ heirs, NEW k \in Channels
               PROVE  /\ Obj(d) \in hub[k] =>
                             /\ stream[d][k] # <<>> /\ Last(stream[d][k]).kind # "unsubscribe"
                             /\ sent'[k] = Last(stream[d][k]).n
                                               + (IF Pending(d, k)' THEN 1 ELSE 0)
                      /\ Obj(d) \notin hub[k] => Closed(d, k)
    BY <1>2, <1>6 DEF Sessions, NothingMissed, Closed, TypeOK
  <2>1. /\ Obj(d) \in hub[k] => /\ stream[d][k] # <<>>
                                /\ Last(stream[d][k]).kind # "unsubscribe"
                                /\ sent[k] = Last(stream[d][k]).n
                                                 + (IF Pending(d, k) THEN 1 ELSE 0)
        /\ Obj(d) \notin hub[k] => Closed(d, k)
    BY DEF Sessions, NothingMissed
  <2>2. \A p \in Clients \ {c} : At(p, {"publish"}, k)' <=> At(p, {"publish"}, k)
    BY <1>5 DEF At
  <2>3. ~At(c, {"publish"}, k) /\ d \in Clients
    BY <1>1 DEF At, TypeOK
  <2>4. CASE publishes /\ k = ch
    <3>1. \A p \in Clients \ {c} : ~At(p, {"publish"}, k)
      <4> SUFFICES ASSUME NEW p \in Clients \ {c}, At(p, {"publish"}, k)
                   PROVE  FALSE
        OBVIOUS
      <4>1. task[p].todo \in Seq(Channels) /\ task[p].todo # <<>> /\ k = Head(task[p].todo)
            /\ task[p].step = "work"
        BY DEF At, TypeOK, TaskType
      <4>2. k \in ToSet(task[p].todo)
        BY <4>1 DEF ToSet
      <4> QED
        BY <1>1, <1>3, <2>4, <4>1, <4>2 DEF Held
    <3>2. ~Pending(d, k)
      BY <2>3, <3>1 DEF Pending
    <3>3. At(c, {"publish"}, k)' /\ task'[c].to = hub[k]
      BY <1>3, <1>5, <2>4 DEF At, Held
    <3>4. Pending(d, k)' <=> Obj(d) \in hub[k]
      BY <1>6, <2>2, <2>3, <3>1, <3>3 DEF Pending
    <3>5. sent'[k] = sent[k] + 1 /\ sent[k] \in Nat
      BY <1>3, <2>4 DEF TypeOK
    <3>6. Obj(d) \in hub[k] => sent[k] = Last(stream[d][k]).n + 0
      BY <2>1, <3>2
    <3>7. Obj(d) \in hub[k] => Last(stream[d][k]).n \in Nat
      <4> HAVE Obj(d) \in hub[k]
      <4>1. stream[d][k] \in Seq(Events) /\ stream[d][k] # <<>>
        BY <2>1, <2>3 DEF TypeOK
      <4>2. Last(stream[d][k]) \in Events
        BY <4>1 DEF Last
      <4> QED
        BY <4>2 DEF Events
    <3> QED
      BY <2>1, <3>4, <3>5, <3>6, <3>7
  <2>5. CASE ~(publishes /\ k = ch)
    <3>1. ~At(c, {"publish"}, k)'
      BY <1>5, <2>5 DEF At
    <3>2. Pending(d, k)' <=> Pending(d, k)
      BY <1>5, <1>6, <2>2, <2>3, <3>1 DEF Pending
    <3>3. sent'[k] = sent[k]
      BY <1>3, <1>4, <2>5 DEF TypeOK
    <3> QED
      BY <2>1, <3>2, <3>3
  <2> QED
    BY <2>4, <2>5
<1> QED
  BY <1>8, <1>9, <1>10, <1>11, <1>12

LEMMA FinishStep ==
    ASSUME IInv, NEW c \in Clients, Finish(c)
    PROVE  IInv'
<1> USE DEF IInv
<1>1. /\ task[c].step = "work" /\ task[c].to = {}
      /\ granted' = [granted EXCEPT ![c] = [write |-> {}, read |-> {}]]
      /\ task' = [task EXCEPT ![c] = [@ EXCEPT !.todo = <<>>, !.op = "none",
                      !.step = IF task[c].op = "clean" THEN "gone" ELSE "idle"]]
      /\ UNCHANGED <<conn, subs, pool, hub, up, sent, stream, heirs>>
  BY DEF Finish, Locks!Nothing
<1>2. /\ \A d \in Clients \ {c} : task'[d] = task[d]
      /\ task'[c].step = IF task[c].op = "clean" THEN "gone" ELSE "idle"
      /\ task'[c].op = "none" /\ task'[c].todo = <<>> /\ task'[c].to = {}
      /\ task'[c].obj = task[c].obj
      /\ task' \in [Clients -> TaskType]
  <2> DEFINE step == IF task[c].op = "clean" THEN "gone" ELSE "idle"
             new == [task[c] EXCEPT !.todo = <<>>, !.op = "none", !.step = step]
  <2>1. task[c] \in TaskType /\ step \in Steps
    BY DEF TypeOK, Steps
  <2>2. task' = [task EXCEPT ![c] = new]
    BY <1>1 DEF TypeOK
  <2> HIDE DEF step
  <2>3. new \in TaskType
    <3>1. <<>> \in Seq(Channels) /\ "none" \in Ops
      BY DEF Ops
    <3> QED
      BY <2>1, <3>1 DEF TaskType
  <2>4. /\ new.step = step /\ new.op = "none" /\ new.todo = <<>>
        /\ new.to = task[c].to /\ new.obj = task[c].obj
    BY <2>1 DEF TaskType
  <2> QED
    BY <1>1, <2>2, <2>3, <2>4 DEF TypeOK, step
<1>3. \A d \in Clients : (Serving(d)' <=> Serving(d)) /\ Obj(d)' = Obj(d)
  BY <1>1, <1>2 DEF Serving, Obj
<1>4. TypeOK'
  BY <1>1, <1>2 DEF TypeOK, Locks!Request
<1>5. Owners'
  BY <1>1, <1>2, <1>3 DEF Owners
<1>6. Departed' /\ HubAgrees'
  BY <1>1, <1>2, <1>3 DEF Departed, HubAgrees
<1>7. Held'
  <2>1. \A d \in Clients : granted'[d] = IF d = c THEN [write |-> {}, read |-> {}]
                                         ELSE granted[d]
    BY <1>1 DEF TypeOK
  <2> QED
    BY <1>1, <1>2, <2>1 DEF Held
<1>8. \A d \in Clients, ch \in Channels : Pending(d, ch)' <=> Pending(d, ch)
  BY <1>1, <1>2, <1>3 DEF Pending, At
<1>9. up \subseteq Clients
  BY DEF TypeOK
<1>10. Sessions'
  BY <1>1, <1>3, <1>8, <1>9 DEF Sessions, NothingMissed, Closed
<1> QED
  BY <1>4, <1>5, <1>6, <1>7, <1>10

-------------------------------------------------------------------------------
(* The work under the locks *)

\* An event is written to the socket of the object and to no other.
LEMMA Written ==
    ASSUME TypeOK, NEW o \in Objects, NEW ch \in Channels, NEW event \in Events,
           Write(o, ch, event)
    PROVE  /\ stream' \in [Clients -> [Channels -> Seq(Events)]]
           /\ \A c \in Clients, k \in Channels :
                  stream'[c][k] = IF c \in up /\ c = conn[o] /\ k = ch
                                  THEN Append(stream[c][k], event) ELSE stream[c][k]
<1>1. CASE conn[o] \in up
  <2> DEFINE r == conn[o]
             new == [stream[r] EXCEPT ![ch] = Append(stream[r][ch], event)]
  <2>1. r \in Clients /\ stream[r] \in [Channels -> Seq(Events)]
    BY <1>1 DEF TypeOK
  <2>2. new \in [Channels -> Seq(Events)]
    BY <2>1
  <2>3. stream' = [stream EXCEPT ![r] = new]
    BY <1>1 DEF Write, TypeOK
  <2>4. \A k \in Channels : new[k] = IF k = ch THEN Append(stream[r][k], event)
                                     ELSE stream[r][k]
    BY <2>1
  <2> HIDE DEF new
  <2>5. \A c \in Clients : stream'[c] = IF c = r THEN new ELSE stream[c]
    BY <2>3 DEF TypeOK
  <2> QED
    BY <1>1, <2>1, <2>2, <2>3, <2>4, <2>5 DEF TypeOK
<1>2. CASE conn[o] \notin up
  BY <1>2 DEF Write, TypeOK
<1> QED
  BY <1>1, <1>2

LEMMA Appended ==
    ASSUME NEW s \in Seq(Events), NEW e \in Events
    PROVE  /\ Append(s, e) # <<>> /\ Last(Append(s, e)) = e
           /\ Len(Append(s, e)) = Len(s) + 1
BY DEF Last

\* What the steps under the locks leave in the record of a goroutine.
LEMMA AdvanceRecord ==
    ASSUME TypeOK, NEW c \in Clients, Advance(c), task[c].todo # <<>>
    PROVE  /\ task' \in [Clients -> TaskType]
           /\ \A d \in Clients \ {c} : task'[d] = task[d]
           /\ task'[c].todo = Tail(task[c].todo)
           /\ ToSet(Tail(task[c].todo)) \subseteq ToSet(task[c].todo)
           /\ task'[c].step = task[c].step /\ task'[c].op = task[c].op
           /\ task'[c].obj = task[c].obj /\ task'[c].to = task[c].to
<1>1. task[c] \in TaskType
  BY DEF TypeOK
<1> DEFINE tail == Tail(task[c].todo)
           new == [task[c] EXCEPT !.todo = tail]
<1>2. task' = [task EXCEPT ![c] = new]
  BY DEF Advance, TypeOK
<1>3. task[c].todo \in Seq(Channels)
  BY <1>1 DEF TaskType
<1>4. tail \in Seq(Channels)
  BY <1>3
<1>5. ToSet(tail) \subseteq ToSet(task[c].todo)
  <2> DEFINE s == task[c].todo
  <2>1. Len(tail) = Len(s) - 1 /\ \A i \in 1 .. Len(tail) : tail[i] = s[i + 1]
    BY <1>3
  <2>2. DOMAIN tail = 1 .. Len(tail) /\ DOMAIN s = 1 .. Len(s) /\ Len(s) \in Nat
    BY <1>3, <1>4
  <2>3. \A i \in DOMAIN tail : i + 1 \in DOMAIN s
    BY <2>1, <2>2
  <2> QED
    BY <2>1, <2>2, <2>3 DEF ToSet
<1> HIDE DEF tail
<1>6. new \in TaskType
  BY <1>1, <1>4 DEF TaskType
<1>7. /\ new.todo = tail /\ new.step = task[c].step /\ new.op = task[c].op
      /\ new.obj = task[c].obj /\ new.to = task[c].to
  BY <1>1 DEF TaskType
<1> QED
  BY <1>2, <1>5, <1>6, <1>7 DEF TypeOK, tail

\* At a channel: it is a channel, and nobody else is at it, publishing or leaving.
LEMMA AtChannel ==
    ASSUME IInv, NEW c \in Clients, NEW ops, NEW ch \in Channels, At(c, ops, ch)
    PROVE  /\ task[c].step = "work" /\ task[c].op \in ops /\ task[c].todo # <<>>
           /\ Obj(c) \in Objects
           /\ \A p \in Clients \ {c}, other \in SUBSET Ops : ~At(p, other, ch)
<1>1. task[c].step = "work" /\ task[c].op \in ops /\ task[c].todo # <<>>
      /\ ch = Head(task[c].todo)
  BY DEF At
<1>2. Obj(c) \in Objects
  BY <1>1 DEF IInv, Owners, Obj
<1>3. ASSUME NEW p \in Clients \ {c}
      PROVE  ~(task[p].step = "work" /\ task[p].todo # <<>> /\ ch = Head(task[p].todo))
  BY <1>1, Alone
<1> QED
  BY <1>1, <1>2, <1>3 DEF At

\* Joining or leaving a channel disturbs neither owners, locks nor deliveries.
LEMMA MoveOn ==
    ASSUME IInv, NEW c \in Clients, NEW ch \in Channels,
           At(c, {"subscribe", "unsubscribe", "clean"}, ch), Advance(c),
           UNCHANGED <<conn, pool, granted, up, sent, heirs>>,
           hub' \in [Channels -> SUBSET Objects],
           \A k \in Channels \ {ch} : hub'[k] = hub[k]
    PROVE  /\ task' \in [Clients -> TaskType]
           /\ \A d \in Clients : /\ (Serving(d)' <=> Serving(d)) /\ Obj(d)' = Obj(d)
                                 /\ task'[d].step = task[d].step
                                 /\ task'[d].op = task[d].op
                                 /\ task'[d].obj = task[d].obj
           /\ Departed' /\ Held'
           /\ \A d \in Clients, k \in Channels : Pending(d, k)' <=> Pending(d, k)
           /\ \A d \in Clients : ~Pending(d, ch)
<1> USE DEF IInv
<1>1. /\ task[c].step = "work" /\ task[c].op # "publish" /\ task[c].todo # <<>>
      /\ ch = Head(task[c].todo)
      /\ \A p \in Clients \ {c} : ~At(p, {"publish"}, ch)
  <2>1. {"publish"} \in SUBSET Ops
    BY DEF Ops
  <2> QED
    BY <2>1, AtChannel DEF At
<1>2. /\ task' \in [Clients -> TaskType]
      /\ \A d \in Clients \ {c} : task'[d] = task[d]
      /\ task'[c].todo = Tail(task[c].todo)
      /\ ToSet(Tail(task[c].todo)) \subseteq ToSet(task[c].todo)
      /\ task'[c].step = task[c].step /\ task'[c].op = task[c].op
      /\ task'[c].obj = task[c].obj /\ task'[c].to = task[c].to
  BY <1>1, AdvanceRecord
<1>3. \A d \in Clients : /\ (Serving(d)' <=> Serving(d)) /\ Obj(d)' = Obj(d)
                         /\ task'[d].step = task[d].step
                         /\ task'[d].op = task[d].op
                         /\ task'[d].obj = task[d].obj
  BY <1>2 DEF Serving, Obj
<1>4. Departed'
  BY <1>3 DEF Departed
<1>5. Held'
  <2>1. task[c].to = {}
    BY <1>1 DEF Held
  <2>2. ASSUME NEW p \in Clients \ {c}, task[p].to # {}
        PROVE  task[p].to \subseteq hub'[Head(task[p].todo)]
    <3>1. /\ task[p].step = "work" /\ task[p].op = "publish" /\ task[p].todo # <<>>
          /\ task[p].to \subseteq hub[Head(task[p].todo)]
      BY <2>2 DEF Held
    <3>2. task[p].todo \in Seq(Channels)
      BY DEF TypeOK, TaskType
    <3>3. Head(task[p].todo) \in Channels /\ Head(task[p].todo) # ch
      BY <1>1, <3>1, <3>2 DEF At
    <3> QED
      BY <3>1, <3>3
  <2> QED
    BY <1>1, <1>2, <2>1, <2>2 DEF Held
<1>6. \A p \in Clients, k \in Channels : At(p, {"publish"}, k)' <=> At(p, {"publish"}, k)
  BY <1>1, <1>2 DEF At
<1>7. \A d \in Clients, k \in Channels : Pending(d, k)' <=> Pending(d, k)
  BY <1>2, <1>3, <1>6 DEF Pending
<1>8. \A d \in Clients : ~Pending(d, ch)
  BY <1>1 DEF Pending, At
<1> QED
  BY <1>2, <1>3, <1>4, <1>5, <1>7, <1>8

LEMMA SubscribeStep ==
    ASSUME IInv, NEW c \in Clients, SubscribeOne(c)
    PROVE  IInv'
<1> USE DEF IInv
<1> PICK ch \in Channels :
        /\ At(c, {"subscribe"}, ch)
        /\ subs' = [subs EXCEPT ![Obj(c)] = @ \cup {ch}]
        /\ IF Obj(c) \in hub[ch] THEN UNCHANGED <<hub, stream>>
           ELSE /\ hub' = [hub EXCEPT ![ch] = @ \cup {Obj(c)}]
                /\ Write(Obj(c), ch, [kind |-> "subscribe", n |-> sent[ch]])
        /\ Advance(c)
        /\ UNCHANGED <<conn, pool, granted, up, sent, heirs>>
  BY DEF SubscribeOne
<1> DEFINE o == Obj(c)
           event == [kind |-> "subscribe", n |-> sent[ch]]
<1>1. o \in Objects /\ Serving(c) /\ conn[o] = c /\ o \notin pool
  <2>1. o \in Objects /\ task[c].op = "subscribe" /\ task[c].step = "work"
    BY AtChannel
  <2>2. Serving(c)
    BY <2>1 DEF Serving
  <2> QED
    BY <2>1, <2>2 DEF Owners
<1>2. event \in Events
  BY DEF Events, TypeOK
<1>3. /\ hub' \in [Channels -> SUBSET Objects]
      /\ \A k \in Channels : hub'[k] = IF k = ch THEN hub[k] \cup {o} ELSE hub[k]
  <2>1. CASE o \in hub[ch]
    <3>1. hub' = hub /\ hub[ch] \cup {o} = hub[ch]
      BY <2>1
    <3> QED
      BY <3>1 DEF TypeOK
  <2>2. CASE o \notin hub[ch]
    <3>1. hub' = [hub EXCEPT ![ch] = hub[ch] \cup {o}]
      BY <2>2
    <3>2. hub \in [Channels -> SUBSET Objects] /\ hub[ch] \cup {o} \in SUBSET Objects
      BY <1>1 DEF TypeOK
    <3> QED
      BY <3>1, <3>2
  <2> QED
    BY <2>1, <2>2
<1>4. /\ stream' \in [Clients -> [Channels -> Seq(Events)]]
      /\ \A d \in Clients, k \in Channels :
             stream'[d][k] = IF d \in up /\ d = c /\ k = ch /\ o \notin hub[ch]
                             THEN Append(stream[d][k], event) ELSE stream[d][k]
  <2>1. CASE o \in hub[ch]
    BY <2>1 DEF TypeOK
  <2>2. CASE o \notin hub[ch]
    BY <1>1, <1>2, <2>2, Written
  <2> QED
    BY <2>1, <2>2
<1>5. At(c, {"subscribe", "unsubscribe", "clean"}, ch)
  BY DEF At
<1>6. /\ task' \in [Clients -> TaskType]
      /\ \A d \in Clients : /\ (Serving(d)' <=> Serving(d)) /\ Obj(d)' = Obj(d)
                            /\ task'[d].step = task[d].step
                            /\ task'[d].op = task[d].op
                            /\ task'[d].obj = task[d].obj
      /\ Departed' /\ Held'
      /\ \A d \in Clients, k \in Channels : Pending(d, k)' <=> Pending(d, k)
      /\ \A d \in Clients : ~Pending(d, ch)
  BY <1>3, <1>5, MoveOn
<1>7. \A p \in Objects : subs'[p] = IF p = o THEN subs[p] \cup {ch} ELSE subs[p]
  BY DEF TypeOK
<1>8. TypeOK'
  BY <1>1, <1>3, <1>4, <1>6 DEF TypeOK
<1>9. Owners'
  <2>1. ASSUME NEW d \in Clients, task'[d].step = "off"
        PROVE  stream'[d] = [k \in Channels |-> <<>>]
    <3>1. d # c /\ stream[d] = [k \in Channels |-> <<>>]
      BY <1>1, <1>6, <2>1 DEF Owners, Serving
    <3>2. \A k \in Channels : stream'[d][k] = stream[d][k]
      BY <1>4, <3>1
    <3>3. stream'[d] \in [Channels -> Seq(Events)]
      BY <1>4
    <3> QED
      BY <3>1, <3>2, <3>3
  <2>2. \A p \in Objects : /\ conn'[p] \in Clients => Obj(conn[p])' = p
                           /\ p \in pool' => subs'[p] = {}
    BY <1>1, <1>6, <1>7 DEF Owners
  <2>3. ASSUME NEW d \in Clients
        PROVE  /\ task'[d].step = "off" => task'[d].obj = Nil
               /\ task'[d].step # "off" => task'[d].obj \in Objects
               /\ task'[d].step \notin {"lock", "work"} => task'[d].op = "none"
               /\ Serving(d)' => (conn[Obj(d)] = d /\ Obj(d) \notin pool)'
               /\ d \in up' => Serving(d)'
    BY <1>6 DEF Owners
  <2> QED
    BY <2>1, <2>2, <2>3 DEF Owners
<1>10. \A d \in Clients \ {c} : Serving(d) => Obj(d) # o /\ Obj(d) \in Objects
  BY <1>1 DEF Owners, Serving, Obj
<1>11. HubAgrees'
  <2> SUFFICES ASSUME NEW d \in Clients \ heirs, Serving(d), NEW k \in Channels
               PROVE  k \in subs'[Obj(d)] <=> Obj(d) \in hub'[k]
    BY <1>6 DEF HubAgrees
  <2>1. k \in subs[Obj(d)] <=> Obj(d) \in hub[k]
    BY DEF HubAgrees
  <2>2. CASE d = c
    BY <1>1, <1>3, <1>7, <2>1, <2>2
  <2>3. CASE d # c
    BY <1>3, <1>7, <1>10, <2>1, <2>3
  <2> QED
    BY <2>2, <2>3
<1>12. Sessions'
  <2> SUFFICES ASSUME NEW d \in up \ heirs, NEW k \in Channels
               PROVE  /\ Obj(d) \in hub'[k] =>
                             /\ stream'[d][k] # <<>>
                             /\ Last(stream'[d][k]).kind # "unsubscribe"
                             /\ sent[k] = Last(stream'[d][k]).n
                                               + (IF Pending(d, k) THEN 1 ELSE 0)
                      /\ Obj(d) \notin hub'[k] => Closed(d, k)'
    BY <1>6 DEF Sessions, NothingMissed, Closed, TypeOK
  <2>1. d \in Clients /\ Serving(d) /\ Obj(d) \in Objects
    BY Connected
  <2>2. /\ Obj(d) \in hub[k] => /\ stream[d][k] # <<>>
                                /\ Last(stream[d][k]).kind # "unsubscribe"
                                /\ sent[k] = Last(stream[d][k]).n
                                                 + (IF Pending(d, k) THEN 1 ELSE 0)
        /\ Obj(d) \notin hub[k] => Closed(d, k)
    BY DEF Sessions, NothingMissed
  <2>3. CASE d = c /\ k = ch /\ o \notin hub[ch]
    <3>0. stream[d][k] \in Seq(Events)
      BY <2>1 DEF TypeOK
    <3>1. stream'[d][k] = Append(stream[d][k], event)
      BY <1>4, <2>1, <2>3
    <3>2. stream'[d][k] # <<>> /\ Last(stream'[d][k]) = event
      BY <1>2, <3>0, <3>1, Appended
    <3>3. ~Pending(d, k) /\ sent[k] \in Nat /\ o \in hub'[k]
      BY <1>3, <1>6, <2>1, <2>3 DEF TypeOK
    <3> QED
      BY <2>3, <3>2, <3>3
  <2>4. CASE ~(d = c /\ k = ch /\ o \notin hub[ch])
    <3>1. stream'[d][k] = stream[d][k]
      BY <1>4, <2>1, <2>4
    <3>2. Obj(d) \in hub'[k] <=> Obj(d) \in hub[k]
      BY <1>3, <1>10, <2>1, <2>4
    <3> QED
      BY <2>2, <3>1, <3>2 DEF Closed
  <2> QED
    BY <2>3, <2>4
<1> QED
  BY <1>6, <1>8, <1>9, <1>11, <1>12

LEMMA UnsubscribeStep ==
    ASSUME IInv, NEW c \in Clients, UnsubscribeOne(c)
    PROVE  IInv'
<1> USE DEF IInv
<1> PICK ch \in Channels :
        /\ At(c, {"unsubscribe", "clean"}, ch)
        /\ subs' = [subs EXCEPT ![Obj(c)] = @ \ {ch}]
        /\ hub' = [hub EXCEPT ![ch] = Leave(c, ch)]
        /\ IF task[c].op = "unsubscribe" /\ hub[ch] # {}
           THEN Write(Obj(c), ch, [kind |-> "unsubscribe", n |-> sent[ch]])
           ELSE UNCHANGED stream
        /\ Advance(c)
        /\ UNCHANGED <<conn, pool, granted, up, sent, heirs>>
  BY DEF UnsubscribeOne
<1> DEFINE o == Obj(c)
           event == [kind |-> "unsubscribe", n |-> sent[ch]]
           replies == task[c].op = "unsubscribe" /\ hub[ch] # {}
<1>1. /\ o \in Objects /\ task[c].step = "work"
      /\ Serving(c) => conn[o] = c /\ task[c].op = "unsubscribe"
      /\ task[c].op = "unsubscribe" => Serving(c)
  <2>1. o \in Objects /\ task[c].op \in {"unsubscribe", "clean"} /\ task[c].step = "work"
    BY AtChannel
  <2>2. Serving(c) <=> task[c].op = "unsubscribe"
    BY <2>1 DEF Serving
  <2> QED
    BY <2>1, <2>2 DEF Owners
<1>2. event \in Events
  BY DEF Events, TypeOK
<1>3. /\ hub' \in [Channels -> SUBSET Objects]
      /\ \A k \in Channels : hub'[k] = IF k = ch THEN hub[k] \ {o} ELSE hub[k]
  BY DEF TypeOK, Leave
<1>4. /\ stream' \in [Clients -> [Channels -> Seq(Events)]]
      /\ \A d \in Clients, k \in Channels :
             stream'[d][k] = IF d \in up /\ d = c /\ k = ch /\ replies
                             THEN Append(stream[d][k], event) ELSE stream[d][k]
  <2>1. CASE ~replies
    BY <2>1 DEF TypeOK
  <2>2. CASE replies
    BY <1>1, <1>2, <2>2, Written
  <2> QED
    BY <2>1, <2>2
<1>5. At(c, {"subscribe", "unsubscribe", "clean"}, ch)
  BY DEF At
<1>6. /\ task' \in [Clients -> TaskType]
      /\ \A d \in Clients : /\ (Serving(d)' <=> Serving(d)) /\ Obj(d)' = Obj(d)
                            /\ task'[d].step = task[d].step
                            /\ task'[d].op = task[d].op
                            /\ task'[d].obj = task[d].obj
      /\ Departed' /\ Held'
      /\ \A d \in Clients, k \in Channels : Pending(d, k)' <=> Pending(d, k)
  BY <1>3, <1>5, MoveOn
<1>7. \A p \in Objects : subs'[p] = IF p = o THEN subs[p] \ {ch} ELSE subs[p]
  BY DEF TypeOK
<1>8. TypeOK'
  BY <1>1, <1>3, <1>4, <1>6 DEF TypeOK
<1>9. Owners'
  <2>1. ASSUME NEW d \in Clients, task'[d].step = "off"
        PROVE  stream'[d] = [k \in Channels |-> <<>>]
    <3>1. d # c /\ stream[d] = [k \in Channels |-> <<>>]
      BY <1>1, <1>6, <2>1 DEF Owners
    <3>2. \A k \in Channels : stream'[d][k] = stream[d][k]
      BY <1>4, <3>1
    <3>3. stream'[d] \in [Channels -> Seq(Events)]
      BY <1>4
    <3> QED
      BY <3>1, <3>2, <3>3
  <2>2. \A p \in Objects : /\ conn'[p] \in Clients => Obj(conn[p])' = p
                           /\ p \in pool' => subs'[p] = {}
    BY <1>6, <1>7 DEF Owners
  <2>3. ASSUME NEW d \in Clients
        PROVE  /\ task'[d].step = "off" => task'[d].obj = Nil
               /\ task'[d].step # "off" => task'[d].obj \in Objects
               /\ task'[d].step \notin {"lock", "work"} => task'[d].op = "none"
               /\ Serving(d)' => (conn[Obj(d)] = d /\ Obj(d) \notin pool)'
               /\ d \in up' => Serving(d)'
    BY <1>6 DEF Owners
  <2> QED
    BY <2>1, <2>2, <2>3 DEF Owners
<1>10. \A d \in Clients \ heirs : Serving(d) /\ d # c => Obj(d) # o
  BY <1>1, OwnObject
<1>11. \A d \in Clients : Serving(d) => Obj(d) \in Objects
  BY DEF Owners, Serving, Obj
<1>12. HubAgrees'
  <2> SUFFICES ASSUME NEW d \in Clients \ heirs, Serving(d), NEW k \in Channels
               PROVE  k \in subs'[Obj(d)] <=> Obj(d) \in hub'[k]
    BY <1>6 DEF HubAgrees
  <2>1. k \in subs[Obj(d)] <=> Obj(d) \in hub[k]
    BY DEF HubAgrees
  <2>2. CASE d = c
    <3>1. Obj(d) = o /\ o \in Objects
      BY <1>1, <2>2
    <3>2. hub'[k] = (IF k = ch THEN hub[k] \ {o} ELSE hub[k])
      BY <1>3
    <3>3. subs'[Obj(d)] = subs[Obj(d)] \ {ch}
      BY <1>7, <3>1
    <3>4. CASE k = ch
      BY <3>1, <3>2, <3>3, <3>4
    <3>5. CASE k # ch
      BY <2>1, <3>2, <3>3, <3>5
    <3> QED
      BY <3>4, <3>5
  <2>3. CASE d # c
    <3>1. Obj(d) # o /\ Obj(d) \in Objects
      BY <1>10, <1>11, <2>3
    <3> QED
      BY <1>3, <1>7, <2>1, <3>1
  <2> QED
    BY <2>2, <2>3
<1>13. Sessions'
  <2> SUFFICES ASSUME NEW d \in up \ heirs, NEW k \in Channels
               PROVE  /\ Obj(d) \in hub'[k] =>
                             /\ stream'[d][k] # <<>>
                             /\ Last(stream'[d][k]).kind # "unsubscribe"
                             /\ sent[k] = Last(stream'[d][k]).n
                                               + (IF Pending(d, k) THEN 1 ELSE 0)
                      /\ Obj(d) \notin hub'[k] => Closed(d, k)'
    BY <1>6 DEF Sessions, NothingMissed, Closed, TypeOK
  <2>1. d \in Clients /\ Serving(d) /\ Obj(d) \in Objects
    BY Connected
  <2>2. /\ Obj(d) \in hub[k] => /\ stream[d][k] # <<>>
                                /\ Last(stream[d][k]).kind # "unsubscribe"
                                /\ sent[k] = Last(stream[d][k]).n
                                                 + (IF Pending(d, k) THEN 1 ELSE 0)
        /\ Obj(d) \notin hub[k] => Closed(d, k)
    BY DEF Sessions, NothingMissed
  <2>3. CASE d = c /\ k = ch /\ replies
    <3>1. stream[d][k] \in Seq(Events)
      BY <2>1 DEF TypeOK
    <3>2. stream'[d][k] = Append(stream[d][k], event)
      BY <1>4, <2>1, <2>3
    <3>3. Last(stream'[d][k]) = event
      BY <1>2, <3>1, <3>2, Appended
    <3>4. o \notin hub'[k]
      BY <1>3, <2>3
    <3> QED
      BY <2>3, <3>3, <3>4 DEF Closed
  <2>4. CASE ~(d = c /\ k = ch /\ replies)
    <3>1. stream'[d][k] = stream[d][k]
      BY <1>4, <2>1, <2>4
    <3>2. Obj(d) \in hub'[k] <=> Obj(d) \in hub[k]
      <4>1. CASE d = c /\ k = ch
        BY <1>1, <1>3, <2>1, <2>4, <4>1
      <4>2. CASE k # ch
        BY <1>3, <4>2
      <4>3. CASE d # c
        <5>1. Obj(d) # o
          BY <1>10, <2>1, <4>3
        <5> QED
          BY <1>3, <5>1
      <4> QED
        BY <4>1, <4>2, <4>3
    <3> QED
      BY <2>2, <3>1, <3>2 DEF Closed
  <2> QED
    BY <2>3, <2>4
<1> QED
  BY <1>6, <1>8, <1>9, <1>12, <1>13

LEMMA DeliverStep ==
    ASSUME IInv, NEW c \in Clients, DeliverOne(c)
    PROVE  IInv'
<1> USE DEF IInv
<1> PICK ch \in Channels, o \in task[c].to :
        /\ At(c, {"publish"}, ch)
        /\ Write(o, ch, [kind |-> "message", n |-> sent[ch]])
        /\ task' = [task EXCEPT ![c].to = @ \ {o}]
        /\ UNCHANGED <<conn, subs, pool, hub, granted, up, sent, heirs>>
  BY DEF DeliverOne
<1> DEFINE event == [kind |-> "message", n |-> sent[ch]]
<1>1. task[c] \in TaskType
  BY DEF TypeOK
<1>2. /\ o \in Objects /\ task[c].step = "work" /\ task[c].op = "publish"
      /\ o \in hub[ch]
      /\ \A p \in Clients \ {c} : ~At(p, {"publish"}, ch)
  <2>1. {"publish"} \in SUBSET Ops
    BY DEF Ops
  <2> QED
    BY <1>1, <2>1, AtChannel DEF At, Held, TaskType
<1>3. event \in Events
  BY DEF Events, TypeOK
<1>4. /\ stream' \in [Clients -> [Channels -> Seq(Events)]]
      /\ \A d \in Clients, k \in Channels :
             stream'[d][k] = IF d \in up /\ d = conn[o] /\ k = ch
                             THEN Append(stream[d][k], event) ELSE stream[d][k]
  BY <1>2, <1>3, Written
<1>5. /\ \A d \in Clients \ {c} : task'[d] = task[d]
      /\ task'[c].to = task[c].to \ {o} /\ task'[c].step = task[c].step
      /\ task'[c].op = task[c].op /\ task'[c].obj = task[c].obj
      /\ task'[c].todo = task[c].todo
      /\ task' \in [Clients -> TaskType]
  <2> DEFINE to == task[c].to \ {o}
             new == [task[c] EXCEPT !.to = to]
  <2>1. task' = [task EXCEPT ![c] = new]
    BY DEF TypeOK
  <2>2. to \subseteq Objects
    BY <1>1 DEF TaskType
  <2> HIDE DEF to
  <2>3. new \in TaskType
    BY <1>1, <2>2 DEF TaskType
  <2>4. /\ new.to = to /\ new.step = task[c].step /\ new.op = task[c].op
        /\ new.obj = task[c].obj /\ new.todo = task[c].todo
    BY <1>1 DEF TaskType
  <2> QED
    BY <2>1, <2>3, <2>4 DEF TypeOK, to
<1>6. \A d \in Clients : (Serving(d)' <=> Serving(d)) /\ Obj(d)' = Obj(d)
  BY <1>5 DEF Serving, Obj
<1>7. TypeOK'
  BY <1>4, <1>5 DEF TypeOK
<1>8. Owners'
  <2>1. ASSUME NEW d \in Clients, task'[d].step = "off"
        PROVE  stream'[d] = [k \in Channels |-> <<>>]
    <3>1. d \notin up /\ stream[d] = [k \in Channels |-> <<>>]
      BY <1>2, <1>5, <2>1 DEF Owners, Serving
    <3>2. \A k \in Channels : stream'[d][k] = stream[d][k]
      BY <1>4, <3>1
    <3>3. stream'[d] \in [Channels -> Seq(Events)]
      BY <1>4
    <3> QED
      BY <3>1, <3>2, <3>3
  <2>2. \A p \in Objects : /\ conn'[p] \in Clients => Obj(conn[p])' = p
                           /\ p \in pool' => subs'[p] = {}
    BY <1>6 DEF Owners
  <2>3. ASSUME NEW d \in Clients
        PROVE  /\ task'[d].step = "off" => task'[d].obj = Nil
               /\ task'[d].step # "off" => task'[d].obj \in Objects
               /\ task'[d].step \notin {"lock", "work"} => task'[d].op = "none"
               /\ Serving(d)' => (conn[Obj(d)] = d /\ Obj(d) \notin pool)'
               /\ d \in up' => Serving(d)'
    BY <1>5, <1>6 DEF Owners
  <2> QED
    BY <2>1, <2>2, <2>3 DEF Owners
<1>9. Departed' /\ HubAgrees'
  BY <1>5, <1>6 DEF Departed, HubAgrees
<1>10. Held'
  BY <1>1, <1>2, <1>5 DEF Held
<1>11. \A p \in Clients, k \in Channels : At(p, {"publish"}, k)' <=> At(p, {"publish"}, k)
  BY <1>5 DEF At
<1>12. Sessions'
  <2> SUFFICES ASSUME NEW d \in up \ heirs, NEW k \in Channels
               PROVE  /\ Obj(d) \in hub[k] =>
                             /\ stream'[d][k] # <<>>
                             /\ Last(stream'[d][k]).kind # "unsubscribe"
                             /\ sent[k] = Last(stream'[d][k]).n
                                               + (IF Pending(d, k)' THEN 1 ELSE 0)
                      /\ Obj(d) \notin hub[k] => Closed(d, k)'
    BY <1>6 DEF Sessions, NothingMissed, Closed, TypeOK
  <2>1. d \in Clients /\ Serving(d) /\ Obj(d) \in Objects /\ conn[Obj(d)] = d
    BY Connected
  <2>2. /\ Obj(d) \in hub[k] => /\ stream[d][k] # <<>>
                                /\ Last(stream[d][k]).kind # "unsubscribe"
                                /\ sent[k] = Last(stream[d][k]).n
                                                 + (IF Pending(d, k) THEN 1 ELSE 0)
        /\ Obj(d) \notin hub[k] => Closed(d, k)
    BY DEF Sessions, NothingMissed
  <2>3. CASE d = conn[o] /\ k = ch
    <3>1. Obj(d) = o
      BY <1>2, <2>1, <2>3 DEF Owners
    <3>2. stream'[d][k] = Append(stream[d][k], event) /\ stream[d][k] \in Seq(Events)
      <4>1. stream[d][k] \in Seq(Events)
        BY <2>1 DEF TypeOK
      <4> QED
        BY <1>4, <2>1, <2>3, <4>1
    <3>3. stream'[d][k] # <<>> /\ Last(stream'[d][k]) = event
      BY <1>3, <3>2, Appended
    <3>4. ~Pending(d, k)'
      <4>1. o \notin task'[c].to
        BY <1>5
      <4> QED
        BY <1>2, <1>5, <1>6, <1>11, <2>1, <2>3, <3>1, <4>1 DEF Pending
    <3>5. sent[k] \in Nat
      BY DEF TypeOK
    <3> QED
      BY <1>2, <2>3, <3>1, <3>3, <3>4, <3>5
  <2>4. CASE ~(d = conn[o] /\ k = ch)
    <3>1. stream'[d][k] = stream[d][k]
      BY <1>4, <2>1, <2>4
    <3>2. Pending(d, k)' <=> Pending(d, k)
      <4>1. CASE k # ch
        <5>1. ~At(c, {"publish"}, k)
          BY <4>1 DEF At
        <5> QED
          BY <1>5, <1>6, <1>11, <2>1, <5>1 DEF Pending
      <4>2. CASE d # conn[o]
        <5>1. Obj(d) # o
          BY <2>1, <4>2
        <5>2. \A p \in Clients : Obj(d) \in task'[p].to <=> Obj(d) \in task[p].to
          BY <1>5, <5>1
        <5> QED
          BY <1>6, <1>11, <2>1, <5>2 DEF Pending
      <4> QED
        BY <2>4, <4>1, <4>2
    <3> QED
      BY <2>2, <3>1, <3>2 DEF Closed
  <2> QED
    BY <2>3, <2>4
<1> QED
  BY <1>7, <1>8, <1>9, <1>10, <1>12

-------------------------------------------------------------------------------
(* Theorems *)

\* Every step of a goroutine, a client or a connection preserves the invariant.
LEMMA NextStep == IInv /\ [Next]_vars => IInv'
<1> SUFFICES ASSUME IInv, [Next]_vars PROVE IInv'
  OBVIOUS
<1>1. CASE Next
  <2> PICK c \in Clients : \/ Accept(c) \/ Disconnect(c) \/ Close(c)
                           \/ Subscribe(c) \/ UnSubscribe(c) \/ Publish(c)
                           \/ AfterClientClose(c) \/ Lock(c) \/ Work(c)
    BY <1>1 DEF Next
  <2> QED
    BY AcceptStep, DisconnectStep, CloseStep, RequestStep, LockStep, SubscribeStep,
       UnsubscribeStep, DeliverStep, FinishStep DEF Work
<1>2. CASE UNCHANGED vars
  BY <1>2 DEF vars, IInv, TypeOK, TaskType, Owners, Departed, Held, HubAgrees, Sessions,
     NothingMissed, Closed, Pending, At, Serving, Obj
<1> QED
  BY <1>1, <1>2

\* The invariant holds in every reachable state, whichever sockets come and go and
\* whatever they subscribe to and publish.
THEOREM Invariance == Spec => []IInv
<1>1. Init => IInv
  BY Initial
<1>2. IInv /\ [Next]_vars => IInv'
  BY NextStep
<1> QED
  BY <1>1, <1>2, PTL DEF Spec

\* Every reachable state is well typed.
THEOREM TypeCorrect == Spec => []TypeOK
<1>1. IInv => TypeOK
  BY DEF IInv
<1> QED
  BY <1>1, Invariance, PTL

\* The hub and the connections served on a clean object agree about who is subscribed.
THEOREM HubRight == Spec => []HubAgrees
<1>1. IInv => HubAgrees
  BY DEF IInv
<1> QED
  BY <1>1, Invariance, PTL

\* Nobody misses a message, but the one that is being delivered.
THEOREM NoneMissed == Spec => []NothingMissed
<1>1. IInv => NothingMissed
  BY DEF IInv, Sessions
<1> QED
  BY <1>1, Invariance, PTL

\* Only the work under the locks writes to clients, and what it writes fits what they
\* have read.
LEMMA StreamStep ==
    ASSUME IInv, [Next]_vars, NEW d \in Clients \ heirs, d \notin heirs', NEW k \in Channels,
           stream'[d][k] # stream[d][k]
    PROVE  /\ Len(stream'[d][k]) = Len(stream[d][k]) + 1
           /\ Follows(Last(stream'[d][k]), stream[d][k])
<1> USE DEF IInv
<1>1. stream[d][k] \in Seq(Events) /\ sent[k] \in Nat
  BY DEF TypeOK
<1>2. PICK c \in Clients : SubscribeOne(c) \/ UnsubscribeOne(c) \/ DeliverOne(c)
  <2>1. stream' # stream
    OBVIOUS
  <2>2. Next
    BY <2>1 DEF vars
  <2> QED
    BY <2>1, <2>2 DEF Next, Work, Accept, Disconnect, Close, Subscribe, UnSubscribe, Publish,
       AfterClientClose, Lock, Finish
<1>3. ASSUME NEW o \in Objects, NEW ch \in Channels,
             NEW kind \in {"subscribe", "unsubscribe", "message"},
             Write(o, ch, [kind |-> kind, n |-> sent[ch]])
      PROVE  /\ d \in up /\ d = conn[o] /\ k = ch /\ Obj(d) = o
             /\ Len(stream'[d][k]) = Len(stream[d][k]) + 1
             /\ Last(stream'[d][k]) = [kind |-> kind, n |-> sent[k]]
  <2> DEFINE event == [kind |-> kind, n |-> sent[ch]]
  <2>1. event \in Events
    BY DEF Events, TypeOK
  <2>2. stream'[d][k] = IF d \in up /\ d = conn[o] /\ k = ch
                        THEN Append(stream[d][k], event) ELSE stream[d][k]
    BY <1>3, <2>1, Written
  <2>3. d \in up /\ d = conn[o] /\ k = ch /\ stream'[d][k] = Append(stream[d][k], event)
    BY <2>2
  <2> HIDE DEF event
  <2>4. Len(stream'[d][k]) = Len(stream[d][k]) + 1 /\ Last(stream'[d][k]) = event
    BY <1>1, <2>1, <2>3, Appended
  <2>5. Obj(d) = o
    BY <2>3 DEF Owners
  <2> QED
    BY <2>3, <2>4, <2>5 DEF event
<1>4. CASE SubscribeOne(c)
  <2>1. PICK ch \in Channels :
            /\ At(c, {"subscribe"}, ch)
            /\ Obj(c) \notin hub[ch]
            /\ Write(Obj(c), ch, [kind |-> "subscribe", n |-> sent[ch]])
    BY <1>4 DEF SubscribeOne
  <2>2. Obj(c) \in Objects
    BY <2>1, AtChannel
  <2>3. /\ d \in up /\ k = ch /\ Obj(d) = Obj(c)
        /\ Len(stream'[d][k]) = Len(stream[d][k]) + 1
        /\ Last(stream'[d][k]) = [kind |-> "subscribe", n |-> sent[k]]
    BY <1>3, <2>1, <2>2
  <2>4. Closed(d, k)
    BY <2>1, <2>3 DEF Sessions
  <2> QED
    BY <2>3, <2>4 DEF Follows, Closed
<1>5. CASE UnsubscribeOne(c)
  <2>1. PICK ch \in Channels :
            /\ At(c, {"unsubscribe", "clean"}, ch)
            /\ Write(Obj(c), ch, [kind |-> "unsubscribe", n |-> sent[ch]])
    BY <1>5 DEF UnsubscribeOne
  <2>2. Obj(c) \in Objects
    BY <2>1, AtChannel
  <2>3. /\ Len(stream'[d][k]) = Len(stream[d][k]) + 1
        /\ Last(stream'[d][k]) = [kind |-> "unsubscribe", n |-> sent[k]]
    BY <1>3, <2>1, <2>2
  <2> QED
    BY <2>3 DEF Follows
<1>6. CASE DeliverOne(c)
  <2>1. PICK ch \in Channels, o \in task[c].to :
            /\ At(c, {"publish"}, ch)
            /\ Write(o, ch, [kind |-> "message", n |-> sent[ch]])
    BY <1>6 DEF DeliverOne
  <2>2. o \in Objects /\ o \in hub[ch]
    BY <2>1 DEF At, Held, TypeOK, TaskType
  <2>3. /\ d \in up /\ k = ch /\ Obj(d) = o
        /\ Len(stream'[d][k]) = Len(stream[d][k]) + 1
        /\ Last(stream'[d][k]) = [kind |-> "message", n |-> sent[k]]
    BY <1>3, <2>1, <2>2
  <2>4. Pending(d, k)
    BY <2>1, <2>3 DEF Pending
  <2>5. /\ stream[d][k] # <<>> /\ Last(stream[d][k]).kind # "unsubscribe"
        /\ sent[k] = Last(stream[d][k]).n + 1
    BY <2>2, <2>3, <2>4 DEF Sessions, NothingMissed
  <2> QED
    BY <2>3, <2>5 DEF Follows
<1> QED
  BY <1>2, <1>4, <1>5, <1>6

\* Clients read whole sessions: every message from their subscription on, once and in order.
THEOREM Ordered == Spec => InOrder
<1> DEFINE Fits ==
      \A c \in Clients \ heirs', ch \in Channels :
          stream'[c][ch] # stream[c][ch] =>
              /\ Len(stream'[c][ch]) = Len(stream[c][ch]) + 1
              /\ Follows(Last(stream'[c][ch]), stream[c][ch])
<1>1. IInv /\ [Next]_vars => [Fits]_vars
  <2> SUFFICES ASSUME IInv, [Next]_vars, NEW d \in Clients \ heirs', NEW k \in Channels,
                      stream'[d][k] # stream[d][k]
               PROVE  /\ Len(stream'[d][k]) = Len(stream[d][k]) + 1
                      /\ Follows(Last(stream'[d][k]), stream[d][k])
    OBVIOUS
  <2>1. d \notin heirs
    BY DEF vars, Next, Work, Accept, Disconnect, Close, Subscribe, UnSubscribe, Publish,
       AfterClientClose, Lock, SubscribeOne, UnsubscribeOne, DeliverOne, Finish
  <2> QED
    BY <2>1, StreamStep
<1> QED
  BY <1>1, Invariance, PTL DEF Spec, InOrder

===============================================================================
