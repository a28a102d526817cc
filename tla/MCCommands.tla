------------------------------- MODULE MCCommands -------------------------------
\* Two keys, two members, and a server that starts with one of several files.
EXTENDS Commands, TLC

CONSTANTS a, b, m1, m2

Command(op, keys, val, n) == [op |-> op, keys |-> keys, val |-> val, n |-> n]

\* Commands with one key.
MCStringCmds ==
    {Command(op, <<k>>, <<1>>, 0) : k \in Keys,
        op \in {"get", "getex persist", "set", "set nx", "set xx", "setnx", "getset",
                "getdel", "incr", "incrbyfloat", "del", "persist"}}
    \cup {Command("append", <<k>>, IF k = a THEN <<1>> ELSE <<Text>>, 0) : k \in Keys}
    \cup {Command("setrange", <<k>>, <<Text>>, n) : k \in Keys, n \in {0, 2}}
    \cup {Command("setbit", <<k>>, <<Text>>, 0) : k \in Keys}
    \cup {Command(op, <<k>>, <<0>>, 1) : k \in Keys,
             op \in {"setex", "psetex", "expire", "pexpireat"}}
    \cup {Command(op, <<a>>, <<0>>, 0) : op \in {"setex", "psetex"}}

MCZSetCmds ==
    {Command(op, <<k>>, m, 1) : k \in Keys, m \in {m1, m2},
        op \in {"zadd", "zincrby", "zrem"}}
    \cup {Command(op, <<k>>, m1, 1) : k \in Keys, op \in {"zpopmin", "zremrangebyscore"}}

\* Commands with two keys, or for all of them.
MCKeysCmds ==
    {Command(op, <<k, IF k = a THEN b ELSE a>>, <<0>>, 0) : k \in Keys,
        op \in {"mset", "msetnx", "rename", "renamenx", "copy", "copy replace", "del"}}
    \cup {Command("rename", <<a, a>>, <<>>, 0)}
    \cup {Command(op, <<>>, <<>>, 0) : op \in {"flushall", "flushdb"}}

MCCmds == MCStringCmds \cup MCZSetCmds \cup MCKeysCmds

Set == Command("set", <<a>>, <<0>>, 0)
Deadline(n) == Command("pexpireat", <<a>>, <<>>, n)
Add == Command("zadd", <<a>>, m1, 1)
Copy == Command("copy", <<a, b>>, <<>>, 0)
Extend == Command("append", <<a>>, <<1>>, 0)

\* No line of these files comes after the deadline of its key.
MCFiles == {<<>>, <<Set>>, <<Set, Deadline(1)>>, <<Set, Copy, Extend>>,
            <<Add, Copy>>, <<Add, Deadline(1)>>}

===============================================================================
