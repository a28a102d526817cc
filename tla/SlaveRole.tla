------------------------------- MODULE SlaveRole -------------------------------
(***************************************************************************)
(* The slave's side of replication (pkg/database/replication_slave.go):     *)
(* SLAVEOF, SLAVEOF NO ONE and the cron against the goroutines that connect *)
(* with a master, load its dump and execute its commands.                   *)
(*                                                                         *)
(* slaveStatus.mutex guards most of its fields, configVersion tells a       *)
(* goroutine that the configuration has changed, and a context with a       *)
(* WaitGroup stops the one that receives.  Commands come one at a time from *)
(* one client.  A goroutine of setupMaster opens one connection, so that    *)
(* the goroutine names it; masterConn and masterChan are set together.      *)
(* What a master sends is left to Replication: here it is only "a payload". *)
(* Names that the two modules would share begin with "Role" here.           *)
(***************************************************************************)
EXTENDS Integers

CONSTANTS
    Hosts,          \* masters
    Setups,         \* goroutines of setupMaster, and their connections
    None,           \* the empty masterHost
    Nobody,         \* no goroutine, no connection
    Client, SlaveCron,  \* the goroutines of the client and of the cron
    MaxVersion,     \* bound on configVersion for a SLAVEOF NO ONE of the client
    MaxExecs        \* bound on the executed commands and dumps

ASSUME HostAssumption == None \notin Hosts
ASSUME ProcAssumption ==
    Nobody \notin Setups \cup {Client, SlaveCron} /\ {Client, SlaveCron} \cap Setups = {}
ASSUME BoundsAssumption == MaxVersion \in Nat /\ MaxExecs \in Nat

Procs == Setups \cup {Client, SlaveCron}

VARIABLES
    mutex,          \* who holds slaveStatus.mutex
    role,           \* server.role
    config,         \* [version, host], configVersion and masterHost
    cancel,         \* whose context slaveStatus.cancel cancels
    cancelled,      \* the contexts that are done
    conn,           \* masterConn and masterChan
    pc,             \* of every process
    setup,          \* locals of setupMaster: [version, own, ch, after]
    to,             \* the master a connection goes to
    links,          \* open connections
    executed,       \* history: commands and dumps that were executed, and the
    from            \* connection of the last one

roleVars ==
    <<mutex, role, config, cancel, cancelled, conn, pc, setup, to, links, executed, from>>

Goto(p, l) == pc' = [pc EXCEPT ![p] = l]

Lock(p) == mutex = Nobody /\ mutex' = p
Unlock == mutex' = Nobody

\* receiveAOF has counted itself in "running".
Receiving == {g \in Setups : pc[g] \in {"loop", "select", "payload"}}

Fresh(g) == pc[g] = "unused"

-------------------------------------------------------------------------------
(* SLAVEOF *)

\* execSlaveOf: nothing stops the goroutines of the configuration before.
SlaveOf(h, g) ==
    /\ pc[Client] = "idle" /\ Fresh(g)
    /\ mutex = Nobody
    /\ role' = "slave"
    /\ config' = [version |-> config.version + 1, host |-> h]
    /\ Goto(g, "start")
    /\ UNCHANGED <<mutex, cancel, cancelled, conn, setup, to, links, executed, from>>

SlaveOfNoOne ==
    /\ pc[Client] = "idle"
    /\ config.version < MaxVersion
    /\ Goto(Client, "none")
    /\ UNCHANGED <<mutex, role, config, cancel, cancelled, conn, setup, to, links,
                   executed, from>>

\* stopSlaveWithMutex up to its wait: the new version, and the cancellation.
BeginStop(p, host) ==
    /\ Lock(p)
    /\ config' = [version |-> config.version + 1, host |-> host]
    /\ cancelled' = cancelled \cup (IF cancel = Nobody THEN {} ELSE {cancel})
    /\ Goto(p, "wait")
    /\ UNCHANGED <<role, cancel, conn, setup, to, links, executed, from>>

\* It waits for the receiver, if it has one to cancel, and closes the connection.
Stopped(p) == pc[p] = "wait" /\ (cancel = Nobody \/ Receiving = {})

\* Mutant: masterConn and masterChan keep the closed connection.
CloseConnMutant ==
    /\ cancel' = Nobody
    /\ links' = links \ {conn}
    /\ UNCHANGED conn

CloseConn ==
    /\ cancel' = Nobody
    /\ conn' = Nobody
    /\ links' = links \ {conn}

\* slaveOfNone
AbortBegins(p) ==
    /\ p # SlaveCron
    /\ pc[p] = "none"
    /\ BeginStop(p, None)

AbortEnds(p) ==
    /\ p # SlaveCron
    /\ Stopped(p)
    /\ CloseConn
    /\ role' = "master"
    /\ Unlock
    /\ pc' = [pc EXCEPT ![p] = IF p = Client THEN "idle" ELSE setup[p].after]
    /\ setup' = [g \in Setups |-> IF g = p /\ setup[g].after = "none"
                                  THEN [setup[g] EXCEPT !.after = "end"] ELSE setup[g]]
    /\ UNCHANGED <<config, cancelled, to, executed, from>>

\* slaveCron sees, without the mutex, a connection that has been silent for too long.
MasterTimeOut ==
    /\ pc[SlaveCron] = "idle"
    /\ conn # Nobody
    /\ Goto(SlaveCron, "late")
    /\ UNCHANGED <<mutex, role, config, cancel, cancelled, conn, setup, to, links,
                   executed, from>>

\* reconnectWithMaster
ReconnectBegins ==
    /\ pc[SlaveCron] = "late"
    /\ \E g \in Setups : Fresh(g)
    /\ BeginStop(SlaveCron, config.host)

ReconnectEnds(g) ==
    /\ Stopped(SlaveCron)
    /\ Fresh(g)
    /\ CloseConn
    /\ Unlock
    /\ pc' = [pc EXCEPT ![SlaveCron] = "idle", ![g] = "start"]
    /\ UNCHANGED <<role, config, cancelled, setup, to, executed, from>>

-------------------------------------------------------------------------------
(* setupMaster *)

Start(g) ==
    /\ pc[g] = "start"
    /\ mutex = Nobody
    /\ cancel' = g
    /\ setup' = [setup EXCEPT ![g].version = config.version]
    /\ Goto(g, "dial")
    /\ UNCHANGED <<mutex, role, config, cancelled, conn, to, links, executed, from>>

\* An error of connectWithMaster or loadMasterRDB leads to slaveOfNone; some errors of
\* connectWithMaster have been there before.
Fail(g, after) ==
    /\ Goto(g, "none")
    /\ setup' = [setup EXCEPT ![g].after = after]

\* connectWithMaster reads the host without the mutex.
Dial(g) ==
    /\ pc[g] = "dial"
    /\ config.host # None
    /\ to' = [to EXCEPT ![g] = config.host]
    /\ links' = links \cup {g}
    /\ Goto(g, "greet")
    /\ UNCHANGED <<mutex, role, config, cancel, cancelled, conn, setup, executed, from>>

DialFails(g) ==
    /\ pc[g] = "dial"
    /\ Fail(g, "none")
    /\ UNCHANGED <<mutex, role, config, cancel, cancelled, conn, to, links, executed,
                   from>>

\* PING, AUTH and REPLCONF.
Greet(g) ==
    /\ pc[g] = "greet" /\ g \in links
    /\ Goto(g, "update")
    /\ UNCHANGED <<mutex, role, config, cancel, cancelled, conn, setup, to, links,
                   executed, from>>

\* A lost PING aborts once, another request twice; after an error reply to PING
\* connectWithMaster reports no error, and its caller goes on to receive.
GreetFails(g) ==
    /\ pc[g] = "greet"
    /\ \E after \in {"end", "none", "enter"} : Fail(g, after)
    /\ UNCHANGED <<mutex, role, config, cancel, cancelled, conn, to, links, executed,
                   from>>

\* The connection is put into place if the configuration has not changed, and PSYNC is
\* sent and answered with the mutex held.
Update(g) ==
    /\ pc[g] = "update"
    /\ config.version = setup[g].version
    /\ Lock(g)
    /\ conn' = g
    /\ Goto(g, "psync")
    /\ UNCHANGED <<role, config, cancel, cancelled, setup, to, links, executed, from>>

ConfigChanged(g) ==
    /\ pc[g] = "update"
    /\ mutex = Nobody
    /\ config.version # setup[g].version
    /\ Fail(g, "end")
    /\ UNCHANGED <<mutex, role, config, cancel, cancelled, conn, to, links, executed,
                   from>>

PSyncAnswered(g) ==
    /\ pc[g] = "psync" /\ g \in links
    /\ Unlock
    /\ \E next \in {"load", "enter"} : Goto(g, next)
    /\ UNCHANGED <<role, config, cancel, cancelled, conn, setup, to, links, executed,
                   from>>

PSyncFails(g) ==
    /\ pc[g] = "psync"
    /\ Unlock
    /\ Fail(g, "end")
    /\ UNCHANGED <<role, config, cancel, cancelled, conn, to, links, executed, from>>

\* loadMasterRDB reads the channel that is there now.
AwaitRDB(g) ==
    /\ pc[g] = "load"
    /\ setup' = [setup EXCEPT ![g].ch = conn]
    /\ Goto(g, "await")
    /\ UNCHANGED <<mutex, role, config, cancel, cancelled, conn, to, links, executed,
                   from>>

ReceiveRDB(g) ==
    /\ pc[g] = "await" /\ setup[g].ch # Nobody
    /\ Goto(g, "loaded")
    /\ UNCHANGED <<mutex, role, config, cancel, cancelled, conn, setup, to, links,
                   executed, from>>

\* The channel is closed, or what came is no dump.
RDBFails(g) ==
    /\ pc[g] = "await" /\ setup[g].ch # Nobody
    /\ Fail(g, "end")
    /\ UNCHANGED <<mutex, role, config, cancel, cancelled, conn, to, links, executed,
                   from>>

\* Mutant: any configuration after the goroutine's will do.
SameConfigMutant(g) == config.version >= setup[g].version

\* The configuration of the goroutine is still the one of the server.
SameConfig(g) == config.version = setup[g].version

Execute(g) ==
    /\ executed < MaxExecs
    /\ executed' = executed + 1
    /\ from' = setup[g].ch

\* The dump replaces the databases; the new file may fail to get into its place.
LoadRDB(g) ==
    /\ pc[g] = "loaded"
    /\ mutex = Nobody
    /\ SameConfig(g)
    /\ Execute(g)
    /\ \/ Goto(g, "enter") /\ UNCHANGED setup
       \/ Fail(g, "end")
    /\ UNCHANGED <<mutex, role, config, cancel, cancelled, conn, to, links>>

LoadTooLate(g) ==
    /\ pc[g] = "loaded"
    /\ mutex = Nobody
    /\ ~SameConfig(g)
    /\ Fail(g, "end")
    /\ UNCHANGED <<mutex, role, config, cancel, cancelled, conn, to, links, executed,
                   from>>

\* receiveAOF, not yet counted, makes a client of the connection that is there.
Enter(g) ==
    /\ pc[g] = "enter"
    /\ setup' = [setup EXCEPT ![g].own = conn]
    /\ Goto(g, "loop")
    /\ UNCHANGED <<mutex, role, config, cancel, cancelled, conn, to, links, executed,
                   from>>

\* Each turn of the loop reads the channel that is there now.
Select(g) ==
    /\ pc[g] = "loop"
    /\ setup' = [setup EXCEPT ![g].ch = conn]
    /\ Goto(g, "select")
    /\ UNCHANGED <<mutex, role, config, cancel, cancelled, conn, to, links, executed,
                   from>>

\* What was parsed before the connection closed is still delivered.
ReceivePayload(g) ==
    /\ pc[g] = "select" /\ setup[g].ch # Nobody
    /\ Goto(g, "payload")
    /\ UNCHANGED <<mutex, role, config, cancel, cancelled, conn, setup, to, links,
                   executed, from>>

\* The channel is closed, or what came is an error or no command: then the connection
\* stays open.
ReceiveFails(g) ==
    /\ pc[g] = "select" /\ setup[g].ch # Nobody
    /\ Goto(g, "end")
    /\ UNCHANGED <<mutex, role, config, cancel, cancelled, conn, setup, to, links,
                   executed, from>>

ContextDone(g) ==
    /\ pc[g] = "select" /\ g \in cancelled
    /\ Goto(g, "end")
    /\ links' = links \ {setup[g].own}
    /\ UNCHANGED <<mutex, role, config, cancel, cancelled, conn, setup, to, executed,
                   from>>

ExecPayload(g) ==
    /\ pc[g] = "payload"
    /\ mutex = Nobody
    /\ SameConfig(g)
    /\ Execute(g)
    /\ Goto(g, "loop")
    /\ UNCHANGED <<mutex, role, config, cancel, cancelled, conn, setup, to, links>>

\* The configuration has changed: receiveAOF returns and keeps the mutex.
PayloadTooLate(g) ==
    /\ pc[g] = "payload"
    /\ ~SameConfig(g)
    /\ Lock(g)
    /\ Goto(g, "end")
    /\ UNCHANGED <<role, config, cancel, cancelled, conn, setup, to, links, executed,
                   from>>

\* A connection breaks.
Break(g) ==
    /\ g \in links
    /\ links' = links \ {g}
    /\ UNCHANGED <<mutex, role, config, cancel, cancelled, conn, pc, setup, to,
                   executed, from>>

-------------------------------------------------------------------------------

RoleInit ==
    /\ mutex = Nobody
    /\ role = "master"
    /\ config = [version |-> 0, host |-> None]
    /\ cancel = Nobody /\ cancelled = {}
    /\ conn = Nobody
    /\ pc = [p \in Procs |-> IF p \in Setups THEN "unused" ELSE "idle"]
    /\ setup = [g \in Setups |->
                   [version |-> 0, own |-> Nobody, ch |-> Nobody, after |-> "end"]]
    /\ to = [g \in Setups |-> None]
    /\ links = {}
    /\ executed = 0 /\ from = Nobody

Commands ==
    \/ SlaveOfNoOne
    \/ \E h \in Hosts, g \in Setups : SlaveOf(h, g)
    \/ \E p \in Procs : AbortBegins(p) \/ AbortEnds(p)
    \/ MasterTimeOut \/ ReconnectBegins
    \/ \E g \in Setups : ReconnectEnds(g)

Connecting(g) ==
    \/ Start(g) \/ Dial(g) \/ DialFails(g) \/ Greet(g) \/ GreetFails(g)
    \/ Update(g) \/ ConfigChanged(g) \/ PSyncAnswered(g) \/ PSyncFails(g)
    \/ AwaitRDB(g) \/ ReceiveRDB(g) \/ RDBFails(g) \/ LoadRDB(g) \/ LoadTooLate(g)

Streaming(g) ==
    \/ Enter(g) \/ Select(g) \/ ReceivePayload(g) \/ ReceiveFails(g) \/ ContextDone(g)
    \/ ExecPayload(g) \/ PayloadTooLate(g)

RoleNext == Commands \/ \E g \in Setups : Connecting(g) \/ Streaming(g) \/ Break(g)

RoleSpec == RoleInit /\ [][RoleNext]_roleVars

-------------------------------------------------------------------------------
(* Properties *)

RoleTypeOK ==
    /\ mutex \in Procs \cup {Nobody}
    /\ role \in {"master", "slave"}
    /\ config \in [version : Nat, host : Hosts \cup {None}]
    /\ cancel \in Setups \cup {Nobody} /\ cancelled \in SUBSET Setups
    /\ conn \in Setups \cup {Nobody}
    /\ pc \in [Procs -> {"unused", "idle", "start", "dial", "greet", "update", "psync", "load",
                         "await", "loaded", "enter", "loop", "select", "payload", "late",
                         "none", "wait", "end"}]
    /\ setup \in [Setups -> [version : Nat,
                             own : Setups \cup {Nobody}, ch : Setups \cup {Nobody},
                             after : {"none", "enter", "end"}]]
    /\ to \in [Setups -> Hosts \cup {None}]
    /\ links \in SUBSET Setups
    /\ executed \in Nat /\ from \in Setups \cup {Nobody}

\* A slave executes no command and loads no dump of a master it has left: whatever is
\* executed came over a connection to the master that is configured now, and nothing is
\* executed after SLAVEOF NO ONE.  (configVersion against the goroutines that read host,
\* connection and channel without the mutex.)
AppliedFromMaster ==
    [][executed' # executed => /\ role = "slave"
                               /\ from' # Nobody
                               /\ to[from'] = config.host]_roleVars

\* Whoever gets the mutex finds a server that is a slave exactly if it has a master, and
\* no connection left over from one.  (execSlaveOf, slaveOfNone, stopSlaveWithMutex)
RoleMatches ==
    mutex = Nobody => /\ role = "slave" <=> config.host # None
                      /\ conn # Nobody => role = "slave"

===============================================================================
