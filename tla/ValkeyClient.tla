---------------------------- MODULE ValkeyClient ----------------------------
(***************************************************************************)
(* The response cache's Valkey client (internal/valkey/client.go): every   *)
(* caller shares one connection under a mutex, writes one command and      *)
(* reads one reply within a deadline.  Replies carry no request number, so *)
(* a reply that a caller gave up on must never be read by the next one.    *)
(*                                                                         *)
(* A connection carries commands one way and reply tokens the other: a hit *)
(* is a length line followed by its payload.  Commands already sent on a   *)
(* connection the client has closed may still be executed.  The value a    *)
(* Set stores is named by its key and its call.  SetNX is left out: no     *)
(* code calls it.                                                          *)
(***************************************************************************)
EXTENDS Integers, Sequences

CONSTANTS Callers, Keys,
          None,         \* no value, no caller
          MaxCalls      \* bound: calls in all

VARIABLES mem,          \* Valkey: the value stored under each key
          executed,     \* the calls Valkey has executed
          up,           \* Valkey accepts connections
          wire,         \* wire[n]: commands sent on the n-th connection
          back,         \* back[n]: reply tokens on their way to the client
          dead,         \* connections the server side has closed
          conn,         \* the client's connection, 0 when it has none
          holder,       \* the caller holding the mutex
          call,         \* call[c]: the current call of caller c
          answer,       \* answer[c]: what that call returned
          calls         \* calls made so far

vars == <<mem, executed, up, wire, back, dead, conn, holder, call, answer, calls>>
server == <<mem, executed, up, wire, back, dead>>

CallIds == 1 .. MaxCalls
Values == Keys \X CallIds
Connections == 1 .. MaxCalls
Ops == {"get", "set", "del"}
Commands == [op : Ops, key : Keys, id : CallIds]
Tokens == [t : {"+", "-", ":", "$", "nil", "data"}, v : Values \cup {None}]
Idle == [pc |-> "idle", cmd |-> None]
NoAnswer == [is |-> "none", v |-> None]

TypeOK ==
    /\ mem \in [Keys -> Values \cup {None}]
    /\ executed \subseteq CallIds
    /\ up \in BOOLEAN
    /\ \A n \in Connections : wire[n] \in Seq(Commands) /\ back[n] \in Seq(Tokens)
    /\ dead \subseteq Connections
    /\ conn \in 0 .. Len(wire)
    /\ holder \in Callers \cup {None}
    /\ \A c \in Callers :
          /\ call[c].pc \in {"idle", "lock", "write", "line", "bulk", "done"}
          /\ call[c].pc = "idle" \/ call[c].cmd \in Commands
          /\ (holder = c) <=> (call[c].pc \in {"write", "line", "bulk"})
          /\ answer[c].is \in {"none", "hit", "miss", "ok", "error", "transport"}
          /\ answer[c].v \in Values \cup {None}
    /\ calls \in 0 .. MaxCalls

Init ==
    /\ mem = [k \in Keys |-> None]
    /\ executed = {}
    /\ up = TRUE
    /\ wire = [n \in Connections |-> <<>>]
    /\ back = [n \in Connections |-> <<>>]
    /\ dead = {}
    /\ conn = 0
    /\ holder = None
    /\ call = [c \in Callers |-> Idle]
    /\ answer = [c \in Callers |-> NoAnswer]
    /\ calls = 0

----------------------------------------------------------------------------
(* The callers.                                                            *)

\* The call returns and its deferred unlock runs.
Return(c, is, v) ==
    /\ call' = [call EXCEPT ![c].pc = "done"]
    /\ answer' = [answer EXCEPT ![c] = [is |-> is, v |-> v]]
    /\ holder' = None
    /\ UNCHANGED calls

ReturnHolding(c, is, v) ==
    /\ call' = [call EXCEPT ![c].pc = "done"]
    /\ answer' = [answer EXCEPT ![c] = [is |-> is, v |-> v]]
    /\ UNCHANGED <<holder, calls>>

\* dropLocked: what is still on the way on the old connection is not read.
dropLocked == conn' = 0

Call(c, op, k) ==
    /\ call[c].pc = "idle" /\ calls < MaxCalls
    /\ calls' = calls + 1
    /\ call' = [call EXCEPT ![c] =
                   [pc |-> "lock", cmd |-> [op |-> op, key |-> k, id |-> calls + 1]]]
    /\ UNCHANGED <<server, conn, holder, answer>>

\* roundTrip takes the mutex; ensureLocked dials when there is no connection.
\* A call opens at most one, so its number can name it.
EnsureReuses(c) ==
    /\ call[c].pc = "lock" /\ holder = None /\ conn # 0
    /\ holder' = c
    /\ call' = [call EXCEPT ![c].pc = "write"]
    /\ UNCHANGED <<server, conn, answer, calls>>

EnsureDials(c) ==
    /\ call[c].pc = "lock" /\ holder = None /\ conn = 0 /\ up
    /\ holder' = c
    /\ conn' = call[c].cmd.id
    /\ call' = [call EXCEPT ![c].pc = "write"]
    /\ UNCHANGED <<server, answer, calls>>

EnsureRefused(c) ==
    /\ call[c].pc = "lock" /\ holder = None /\ conn = 0
    /\ Return(c, "transport", None)
    /\ UNCHANGED <<server, conn>>

\* A write to a connection the peer has closed may still succeed locally.
WriteSends(c) ==
    /\ call[c].pc = "write"
    /\ wire' = IF conn \in dead THEN wire ELSE [wire EXCEPT ![conn] = Append(@, call[c].cmd)]
    /\ call' = [call EXCEPT ![c].pc = "line"]
    /\ UNCHANGED <<mem, executed, up, back, dead, conn, holder, answer, calls>>

WriteFails(c) ==
    /\ call[c].pc = "write"
    /\ dropLocked
    /\ Return(c, "transport", None)
    /\ UNCHANGED server

\* What Get, Set and Del make of the reply they are handed.
Outcome(op, tok) ==
    CASE op = "get" /\ tok.t = "$" -> "hit"
      [] op = "get" /\ tok.t = "nil" -> "miss"
      [] op = "set" /\ tok.t = "+" -> "ok"
      [] op = "del" /\ tok.t = ":" -> "ok"
      [] OTHER -> "error"

\* readReply reads the reply's line.  A bulk reply goes on with its payload; a
\* line that starts like no reply is an error, and drops the connection.
ReadLine(c) ==
    /\ call[c].pc = "line" /\ back[conn] # <<>>
    /\ LET tok == Head(back[conn])
       IN  CASE tok.t = "$" ->
                    /\ call' = [call EXCEPT ![c].pc = "bulk"]
                    /\ UNCHANGED <<conn, holder, answer, calls>>
             [] tok.t = "data" -> dropLocked /\ Return(c, "transport", None)
             [] OTHER -> Return(c, Outcome(call[c].cmd.op, tok), None) /\ UNCHANGED conn
    /\ back' = [back EXCEPT ![conn] = Tail(@)]
    /\ UNCHANGED <<mem, executed, up, wire, dead>>

ReadBulk(c) ==
    /\ call[c].pc = "bulk" /\ back[conn] # <<>>
    /\ LET tok == Head(back[conn])
       IN  Return(c, Outcome(call[c].cmd.op, [t |-> "$", v |-> tok.v]), tok.v)
    /\ back' = [back EXCEPT ![conn] = Tail(@)]
    /\ UNCHANGED <<mem, executed, up, wire, dead, conn>>

\* Mutant: the call returns without releasing the mutex.
ReadFailsHolding(c) ==
    /\ call[c].pc \in {"line", "bulk"}
    /\ dropLocked
    /\ ReturnHolding(c, "transport", None)
    /\ UNCHANGED server

\* Mutant: a Get that gives up keeps the connection.
ReadFailsKeepsOnGet(c) ==
    /\ call[c].pc \in {"line", "bulk"}
    /\ IF call[c].cmd.op = "get" THEN UNCHANGED conn ELSE dropLocked
    /\ Return(c, "transport", None)
    /\ UNCHANGED server

\* The deadline passes, or the connection ends, before the reply is whole.
ReadFails(c) ==
    /\ call[c].pc \in {"line", "bulk"}
    /\ dropLocked
    /\ Return(c, "transport", None)
    /\ UNCHANGED server

\* The caller takes the answer and may call again.
Take(c) ==
    /\ call[c].pc = "done"
    /\ call' = [call EXCEPT ![c] = Idle]
    /\ answer' = [answer EXCEPT ![c] = NoAnswer]
    /\ UNCHANGED <<server, conn, holder, calls>>

Close ==
    /\ holder = None /\ conn # 0
    /\ dropLocked
    /\ UNCHANGED <<server, holder, call, answer, calls>>

----------------------------------------------------------------------------
(* Valkey and the network.                                                 *)

Reply(cmd) ==
    CASE cmd.op = "get" ->
            IF mem[cmd.key] = None THEN <<[t |-> "nil", v |-> None]>>
            ELSE <<[t |-> "$", v |-> None], [t |-> "data", v |-> mem[cmd.key]]>>
      [] cmd.op = "set" -> <<[t |-> "+", v |-> None]>>
      [] OTHER -> <<[t |-> ":", v |-> None]>>

\* Replies on a connection the client has closed reach nobody.
Answers(n, reply) ==
    back' = IF n = conn THEN [back EXCEPT ![n] = @ \o reply] ELSE [back EXCEPT ![n] = <<>>]

Executes(n) ==
    /\ wire[n] # <<>>
    /\ LET cmd == Head(wire[n])
       IN  /\ mem' = CASE cmd.op = "set" -> [mem EXCEPT ![cmd.key] = <<cmd.key, cmd.id>>]
                       [] cmd.op = "del" -> [mem EXCEPT ![cmd.key] = None]
                       [] OTHER -> mem
           /\ executed' = executed \cup {cmd.id}
           /\ Answers(n, Reply(cmd))
    /\ wire' = [wire EXCEPT ![n] = Tail(@)]
    /\ UNCHANGED <<up, dead, conn, holder, call, answer, calls>>

\* An error reply (out of memory, still loading) changes nothing.
Refuses(n) ==
    /\ wire[n] # <<>>
    /\ Answers(n, <<[t |-> "-", v |-> None]>>)
    /\ wire' = [wire EXCEPT ![n] = Tail(@)]
    /\ UNCHANGED <<mem, executed, up, dead, conn, holder, call, answer, calls>>

Evicts(k) ==
    /\ mem[k] # None
    /\ mem' = [mem EXCEPT ![k] = None]
    /\ UNCHANGED <<executed, up, wire, back, dead, conn, holder, call, answer, calls>>

HangsUp(n) ==
    /\ n \notin dead
    /\ n = conn \/ wire[n] # <<>>
    /\ dead' = dead \cup {n}
    /\ wire' = [wire EXCEPT ![n] = <<>>]
    /\ UNCHANGED <<mem, executed, up, back, conn, holder, call, answer, calls>>

Stops ==
    /\ up
    /\ up' = FALSE
    /\ mem' = [k \in Keys |-> None]
    /\ dead' = dead \cup {n \in Connections : n = conn \/ wire[n] # <<>>}
    /\ wire' = [n \in Connections |-> <<>>]
    /\ UNCHANGED <<executed, back, conn, holder, call, answer, calls>>

Starts ==
    /\ ~up
    /\ up' = TRUE
    /\ UNCHANGED <<mem, executed, wire, back, dead, conn, holder, call, answer, calls>>

----------------------------------------------------------------------------
Serve(c) == EnsureReuses(c) \/ EnsureDials(c) \/ EnsureRefused(c)
Send(c) == WriteSends(c) \/ WriteFails(c)
Read(c) == ReadLine(c) \/ ReadBulk(c) \/ ReadFails(c)

Next ==
    \/ \E c \in Callers, op \in Ops, k \in Keys : Call(c, op, k)
    \/ \E c \in Callers : Serve(c) \/ Send(c) \/ Read(c) \/ Take(c)
    \/ Close
    \/ \E n \in Connections : Executes(n) \/ Refuses(n) \/ HangsUp(n)
    \/ \E k \in Keys : Evicts(k)
    \/ Stops
    \/ Starts

Spec == Init /\ [][Next]_vars

----------------------------------------------------------------------------
(* Properties.                                                             *)

(* A Get never returns what was stored under another key: a reply that an  *)
(* earlier caller gave up on half way is not read by the next one          *)
(* (roundTrip drops the connection on every failed read).                  *)
HitsOwnKey ==
    \A c \in Callers : answer[c].is = "hit" => answer[c].v # None /\ answer[c].v[1] = call[c].cmd.key

(* A Set or Del that reports success was executed by Valkey: neither an    *)
(* error reply nor the success of another command passes for it (Set, Del  *)
(* and roundTrip).                                                         *)
AckedExecuted ==
    \A c \in Callers : answer[c].is = "ok" => call[c].cmd.id \in executed

=============================================================================
