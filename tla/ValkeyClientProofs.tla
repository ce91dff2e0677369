------------------------- MODULE ValkeyClientProofs -------------------------
(***************************************************************************)
(* Proofs about the Valkey client, for any number of callers, keys and     *)
(* calls.  Replies carry no request number, so what has to be shown is     *)
(* that the connection a caller takes over is silent: whoever gave up on a *)
(* reply has dropped the connection it would have come on, and no          *)
(* connection is ever taken up again.                                      *)
(***************************************************************************)
EXTENDS ValkeyClient, TLAPS

Active == {"write", "line", "bulk"}
Waiting == {"lock", "write", "line", "bulk", "done"}

\* The shape of the state, as far as the argument needs it.
Shape ==
    /\ wire \in [Connections -> Seq(Commands)] /\ DOMAIN back = Connections
    /\ DOMAIN mem = Keys /\ \A k \in Keys : mem[k] # None => mem[k] \in Values /\ mem[k][1] = k
    /\ calls \in 0 .. MaxCalls /\ conn \in 0 .. calls
    /\ holder \in Callers \cup {None}
    /\ call \in [Callers -> {Idle} \cup [pc : Waiting, cmd : Commands]]
    /\ DOMAIN answer = Callers

\* The mutex, the numbers of the calls, and the connections nobody has used.
Silent(n) == wire[n] = <<>> /\ back[n] = <<>>
Unused(n) ==
    \/ n \in calls + 1 .. MaxCalls
    \/ \E c \in Callers : call[c].pc = "lock" /\ call[c].cmd.id = n
Ordered ==
    /\ \A c \in Callers : (holder = c) <=> (call[c].pc \in Active)
    /\ \A c \in Callers : call[c].pc \in Active => conn # 0
    /\ \A c \in Callers : call[c].pc # "idle" => call[c].cmd.id <= calls
    /\ \A c, d \in Callers :
          call[c].pc # "idle" /\ call[d].pc # "idle" /\ call[c].cmd.id = call[d].cmd.id
          => c = d
    /\ \A n \in Connections : Unused(n) => Silent(n) /\ n # conn

\* A value that a Get of this command may return.
Fits(cmd, v) == cmd.op = "get" /\ v # None /\ v[1] = cmd.key

\* The replies Valkey may send to a command, having executed those in done.
Answering(cmd, reply, done) ==
    \/ reply = <<[t |-> "-", v |-> None]>>
    \/ cmd.op = "get" /\ reply = <<[t |-> "nil", v |-> None]>>
    \/ \E v \in Values : /\ Fits(cmd, v)
              /\ reply = <<[t |-> "$", v |-> None], [t |-> "data", v |-> v]>>
    \/ /\ cmd.op \in {"set", "del"} /\ cmd.id \in done
       /\ reply = <<[t |-> IF cmd.op = "set" THEN "+" ELSE ":", v |-> None]>>

\* What is on the connection while a caller waits for its reply's line.
Awaiting(cmd) ==
    \/ wire[conn] = <<cmd>> /\ back[conn] = <<>>
    \/ wire[conn] = <<>> /\ (back[conn] = <<>> \/ Answering(cmd, back[conn], executed))

\* The connection carries the holder's conversation and nothing else.
Conversation ==
    /\ holder = None /\ conn # 0 => Silent(conn)
    /\ \A c \in Callers :
          /\ call[c].pc = "write" => Silent(conn)
          /\ call[c].pc = "line" => Awaiting(call[c].cmd)
          /\ call[c].pc = "bulk" =>
                /\ wire[conn] = <<>>
                /\ \E v \in Values : /\ Fits(call[c].cmd, v)
                          /\ back[conn] = <<[t |-> "data", v |-> v]>>

\* Answers are given to those who are done, and are right.
Answered ==
    \A c \in Callers :
        /\ call[c].pc # "done" => answer[c] = NoAnswer
        /\ answer[c].is = "hit" =>
              answer[c].v # None /\ answer[c].v[1] = call[c].cmd.key
        /\ answer[c].is = "ok" => call[c].cmd.id \in executed

IInv == Shape /\ Ordered /\ Conversation /\ Answered

----------------------------------------------------------------------------
(* Records and short sequences.                                            *)

LEMMA CallIs ==
    ASSUME Shape, NEW c \in Callers, call[c].pc # "idle"
    PROVE  /\ call[c] \in [pc : Waiting, cmd : Commands]
           /\ call[c].cmd \in Commands /\ call[c].cmd.id \in Connections
<1>1. call[c] \in [pc : Waiting, cmd : Commands]
  BY DEF Shape, Idle
<1> QED
  BY <1>1 DEF Commands, CallIds, Connections

LEMMA ShortSequences ==
    ASSUME NEW a, NEW b
    PROVE  /\ Head(<<a>>) = a /\ Tail(<<a>>) = <<>> /\ <<a>> # <<>>
           /\ Head(<<a, b>>) = a /\ Tail(<<a, b>>) = <<b>> /\ <<a, b>> # <<>>
           /\ <<>> \o <<a>> = <<a>> /\ <<>> \o <<a, b>> = <<a, b>>
           /\ Append(<<>>, a) = <<a>>
OBVIOUS

\* A caller that goes on keeps its command, and the others are left alone.
Moves(c, p) ==
    /\ call' \in [Callers -> {Idle} \cup [pc : Waiting, cmd : Commands]]
    /\ call'[c].pc = p /\ call'[c].cmd = call[c].cmd
    /\ \A d \in Callers : d # c => call'[d] = call[d]

LEMMA CallerMoves ==
    ASSUME Shape, NEW c \in Callers, call[c].pc # "idle",
           NEW p \in Waiting, call' = [call EXCEPT ![c].pc = p]
    PROVE  Moves(c, p)
<1>1. call[c] \in [pc : Waiting, cmd : Commands]
  BY CallIs
<1>2. [call[c] EXCEPT !.pc = p] \in [pc : Waiting, cmd : Commands]
  BY <1>1
<1>3. call' = [call EXCEPT ![c] = [call[c] EXCEPT !.pc = p]]
  OBVIOUS
<1>4. DOMAIN call = Callers
  BY DEF Shape
<1>5. call'[c] = [call[c] EXCEPT !.pc = p] /\ \A d \in Callers : d # c => call'[d] = call[d]
  BY <1>3, <1>4
<1>6. call' \in [Callers -> {Idle} \cup [pc : Waiting, cmd : Commands]]
  BY <1>2, <1>3 DEF Shape
<1> QED
  BY <1>1, <1>5, <1>6 DEF Moves

\* Only the holder is between taking the mutex and its answer.
LEMMA OneHolder ==
    ASSUME Ordered, NEW c \in Callers, call[c].pc \in Active
    PROVE  /\ holder = c /\ conn # 0
           /\ \A d \in Callers : d # c => call[d].pc \notin Active
BY DEF Ordered

\* A connection number no call has used stays unused only while its caller waits.
LEMMA ConnInUse ==
    ASSUME MaxCalls \in Nat, Shape, Ordered, conn # 0
    PROVE  conn \in Connections /\ ~Unused(conn)
<1>1. conn \in Connections
  BY DEF Shape, Connections
<1> QED
  BY <1>1 DEF Ordered

----------------------------------------------------------------------------
(* The steps of the callers.                                               *)

LEMMA InitInv ==
    ASSUME None \notin Callers, MaxCalls \in Nat, Init
    PROVE  IInv
<1>1. Shape
  BY DEF Init, Shape, Connections
<1>2. Ordered
  BY DEF Init, Ordered, Idle, Active, Unused, Silent, Connections
<1>3. Conversation /\ Answered
  BY DEF Init, Conversation, Answered, Idle, NoAnswer
<1> QED
  BY <1>1, <1>2, <1>3 DEF IInv

LEMMA CallStep ==
    ASSUME MaxCalls \in Nat, IInv, NEW c \in Callers, NEW op \in Ops, NEW k \in Keys,
           Call(c, op, k)
    PROVE  IInv'
<1> DEFINE cmd == [op |-> op, key |-> k, id |-> calls + 1]
<1>1. cmd \in Commands /\ calls + 1 \in Connections /\ calls' = calls + 1 /\ calls \in Nat
  BY DEF IInv, Shape, Call, Commands, CallIds, Connections
<1>2. /\ call'[c] = [pc |-> "lock", cmd |-> cmd] /\ call'[c].pc = "lock"
      /\ call'[c].cmd.id = calls + 1
      /\ \A d \in Callers : d # c => call'[d] = call[d]
  BY DEF IInv, Shape, Call
<1>3. call[c].pc = "idle"
  BY DEF Call
<1>4. Shape'
  <2>1. [pc |-> "lock", cmd |-> cmd] \in [pc : Waiting, cmd : Commands]
    BY <1>1 DEF Waiting
  <2>2. call' \in [Callers -> {Idle} \cup [pc : Waiting, cmd : Commands]]
    BY <1>1, <2>1 DEF IInv, Shape, Call
  <2>3. calls' \in 0 .. MaxCalls /\ conn' \in 0 .. calls'
    BY <1>1 DEF IInv, Shape, Call, Connections
  <2> QED
    BY <2>2, <2>3 DEF IInv, Shape, Call, server
<1>5. Ordered'
  <2>1. \A n \in Connections : Unused(n)' => Unused(n)
    <3> SUFFICES ASSUME NEW n \in Connections, Unused(n)' PROVE Unused(n)
      OBVIOUS
    <3>1. CASE n \in calls' + 1 .. MaxCalls
      BY <1>1, <3>1 DEF Unused
    <3>2. CASE \E d \in Callers : call'[d].pc = "lock" /\ call'[d].cmd.id = n
      <4>1. PICK d \in Callers : call'[d].pc = "lock" /\ call'[d].cmd.id = n
        BY <3>2
      <4>2. CASE d = c
        BY <1>1, <1>2, <4>1, <4>2 DEF Unused, Connections
      <4>3. CASE d # c
        BY <1>2, <4>1, <4>3 DEF Unused
      <4> QED
        BY <4>2, <4>3
    <3> QED
      BY <3>1, <3>2 DEF Unused
  <2>2. \A d \in Callers : call[d].pc # "idle" => call[d].cmd.id <= calls /\ call[d].cmd.id \in Nat
    BY CallIs DEF IInv, Ordered, Connections
  <2>3. \A d \in Callers : call'[d].pc # "idle" => call'[d].cmd.id <= calls'
    BY <1>1, <1>2, <2>2
  <2>4. \A d, e \in Callers :
          call'[d].pc # "idle" /\ call'[e].pc # "idle" /\ call'[d].cmd.id = call'[e].cmd.id
          => d = e
    BY <1>1, <1>2, <2>2 DEF IInv, Ordered
  <2>5. \A d \in Callers : call'[d].pc \in Active <=> call[d].pc \in Active
    BY <1>2, <1>3 DEF Active
  <2> QED
    BY <2>1, <2>3, <2>4, <2>5 DEF IInv, Ordered, Silent, Call, server
<1>6. Conversation'
  <2>1. /\ Silent(conn)' = Silent(conn)
        /\ \A m : Awaiting(m)' = Awaiting(m)
    BY DEF Silent, Awaiting, Answering, Call, server
  <2>2. wire' = wire /\ back' = back /\ conn' = conn /\ holder' = holder
    BY DEF Call, server
  <2> QED
    BY <1>2, <2>1, <2>2, Zenon DEF IInv, Conversation
<1>7. Answered'
  BY <1>2, <1>3 DEF IInv, Answered, NoAnswer, Call, server
<1> QED
  BY <1>4, <1>5, <1>6, <1>7 DEF IInv

\* What the numbers of the calls promise survives a caller that goes on.
LEMMA NumbersKept ==
    ASSUME Shape, Ordered, NEW c \in Callers, call[c].pc # "idle",
           NEW p \in Waiting \ {"lock"}, Moves(c, p), calls' = calls
    PROVE  /\ \A d \in Callers : call'[d].pc # "idle" => call'[d].cmd.id <= calls'
           /\ \A d, e \in Callers :
                 call'[d].pc # "idle" /\ call'[e].pc # "idle" /\ call'[d].cmd.id = call'[e].cmd.id
                 => d = e
           /\ \A n \in Connections : Unused(n)' => Unused(n)
<1>1. \A d \in Callers : call'[d].cmd = call[d].cmd /\ (call'[d].pc # "idle" => call[d].pc # "idle")
  BY DEF Moves
<1>2. \A d \in Callers : call'[d].pc = "lock" => call[d].pc = "lock"
  BY DEF Moves
<1>3. \A n \in Connections : Unused(n)' => Unused(n)
  BY <1>1, <1>2 DEF Unused
<1> QED
  BY <1>1, <1>3 DEF Ordered

\* A call that returns leaves a silent connection, or none.
LEMMA Returning ==
    ASSUME None \notin Callers, MaxCalls \in Nat, IInv,
           NEW c \in Callers, call[c].pc # "idle", holder \in {c, None},
           NEW is, NEW v, Return(c, is, v),
           wire' = wire, mem' = mem, executed' = executed,
           conn' \in {0, conn}, DOMAIN back' = Connections,
           \A n \in Connections : Unused(n) => back'[n] = back[n],
           conn' # 0 => Silent(conn)',
           is = "hit" => v # None /\ v[1] = call[c].cmd.key,
           is = "ok" => call[c].cmd.id \in executed
    PROVE  IInv'
<1>1. Moves(c, "done") /\ calls' = calls /\ holder' = None
  BY CallerMoves, Zenon DEF IInv, Return, Waiting
<1>2. \A d \in Callers : call'[d].pc \notin Active
  <2>1. \A d \in Callers : d # c => call[d].pc \notin Active
    BY DEF IInv, Ordered
  <2> QED
    BY <1>1, <2>1 DEF Moves, Active
<1>3. Shape'
  BY <1>1 DEF IInv, Shape, Moves, Return
<1>4. Ordered'
  <2>1. /\ \A d \in Callers : call'[d].pc # "idle" => call'[d].cmd.id <= calls'
        /\ \A d, e \in Callers :
              call'[d].pc # "idle" /\ call'[e].pc # "idle" /\ call'[d].cmd.id = call'[e].cmd.id
              => d = e
        /\ \A n \in Connections : Unused(n)' => Unused(n)
    BY <1>1, NumbersKept DEF IInv, Waiting
  <2>2. \A n \in Connections : Unused(n) => Silent(n)' /\ n # conn'
    BY DEF IInv, Ordered, Silent, Connections
  <2> QED
    BY <1>1, <1>2, <2>1, <2>2 DEF Ordered
<1>5. Conversation'
  BY <1>2 DEF Conversation, Active
<1>6. Answered'
  <2>1. /\ answer'[c] = [is |-> is, v |-> v]
        /\ \A d \in Callers : d # c => answer'[d] = answer[d]
    BY DEF IInv, Shape, Return
  <2>2. answer'[c].is = is /\ answer'[c].v = v
    BY <2>1
  <2> QED
    BY <1>1, <2>1, <2>2 DEF IInv, Answered, Moves
<1> QED
  BY <1>3, <1>4, <1>5, <1>6 DEF IInv

\* A caller takes the mutex over a silent connection.
LEMMA Taking ==
    ASSUME None \notin Callers, MaxCalls \in Nat, IInv,
           NEW c \in Callers, call[c].pc = "lock", holder = None, holder' = c,
           call' = [call EXCEPT ![c].pc = "write"],
           UNCHANGED <<server, answer, calls>>,
           (conn' = conn /\ conn # 0) \/ (conn = 0 /\ conn' = call[c].cmd.id)
    PROVE  IInv'
<1>0. UNCHANGED <<mem, executed, up, wire, back, dead>>
  BY DEF server
<1>1. Moves(c, "write")
  BY CallerMoves, Zenon DEF IInv, Waiting
<1>2. call[c].cmd.id \in Connections /\ call[c].cmd.id <= calls /\ Unused(call[c].cmd.id)
  BY CallIs DEF IInv, Ordered, Unused
<1>3. conn' \in 1 .. calls /\ Silent(conn')
  BY <1>2 DEF IInv, Shape, Ordered, Conversation, Connections
<1>4. \A d \in Callers : d # c => call[d].pc \notin Active
  BY DEF IInv, Ordered
<1>5. Shape'
  BY <1>0, <1>1, <1>3 DEF IInv, Shape, Moves
<1>6. Ordered'
  <2>1. /\ \A d \in Callers : call'[d].pc # "idle" => call'[d].cmd.id <= calls'
        /\ \A d, e \in Callers :
              call'[d].pc # "idle" /\ call'[e].pc # "idle" /\ call'[d].cmd.id = call'[e].cmd.id
              => d = e
        /\ \A n \in Connections : Unused(n)' => Unused(n)
    BY <1>1, NumbersKept DEF IInv, Waiting
  <2>2. ~Unused(call[c].cmd.id)'
    <3>1. call[c].cmd.id \notin calls' + 1 .. MaxCalls
      BY <1>2 DEF IInv, Shape, Connections
    <3>2. \A d \in Callers : call'[d].pc = "lock" => call'[d].cmd.id # call[c].cmd.id
      BY <1>1, <2>1 DEF Moves
    <3> QED
      BY <3>1, <3>2, <1>1 DEF Unused, Moves
  <2>3. \A n \in Connections : Unused(n)' => Silent(n)' /\ n # conn'
    BY <1>0, <1>1, <2>1, <2>2 DEF IInv, Ordered, Silent, Unused, Moves
  <2>4. \A d \in Callers : (holder' = d) <=> (call'[d].pc \in Active)
    BY <1>1, <1>4 DEF Moves, Active
  <2> QED
    BY <1>3, <2>1, <2>3, <2>4 DEF Ordered
<1>7. Conversation'
  <2>1. call'[c].pc = "write" /\ Silent(conn)' /\ holder' # None
    BY <1>0, <1>1, <1>3 DEF Moves, Silent
  <2>2. \A d \in Callers : d # c => call'[d].pc \notin Active
    BY <1>1, <1>4 DEF Moves
  <2> QED
    BY <2>1, <2>2 DEF Conversation, Active
<1>8. Answered'
  BY <1>0, <1>1 DEF IInv, Answered, Moves
<1> QED
  BY <1>5, <1>6, <1>7, <1>8 DEF IInv

LEMMA ServeStep ==
    ASSUME None \notin Callers, MaxCalls \in Nat, IInv, NEW c \in Callers, Serve(c)
    PROVE  IInv'
<1>1. CASE EnsureReuses(c)
  <2>1. /\ call[c].pc = "lock" /\ holder = None /\ holder' = c
        /\ call' = [call EXCEPT ![c].pc = "write"]
        /\ UNCHANGED <<server, answer, calls>> /\ conn' = conn /\ conn # 0
    BY <1>1 DEF EnsureReuses
  <2>2. (conn' = conn /\ conn # 0) \/ (conn = 0 /\ conn' = call[c].cmd.id)
    BY <2>1
  <2> QED
    BY <2>1, <2>2, Taking, Zenon
<1>2. CASE EnsureDials(c)
  BY <1>2, Taking, Zenon DEF EnsureDials
<1>3. CASE EnsureRefused(c)
  <2>1. /\ call[c].pc # "idle" /\ holder = None /\ conn = 0 /\ conn' = 0
        /\ Return(c, "transport", None)
        /\ wire' = wire /\ back' = back /\ mem' = mem /\ executed' = executed
    BY <1>3 DEF EnsureRefused, server
  <2>2. DOMAIN back' = Connections
    BY <2>1 DEF IInv, Shape
  <2> QED
    BY <2>1, <2>2, Returning
<1> QED
  BY <1>1, <1>2, <1>3 DEF Serve

\* A call that gives up drops the connection with whatever is still on it.
LEMMA GivesUp ==
    ASSUME None \notin Callers, MaxCalls \in Nat, IInv,
           NEW c \in Callers, call[c].pc \in Active,
           dropLocked, Return(c, "transport", None),
           wire' = wire, mem' = mem, executed' = executed,
           DOMAIN back' = Connections,
           \A n \in Connections : Unused(n) => back'[n] = back[n]
    PROVE  IInv'
<1>1. holder = c /\ call[c].pc # "idle"
  BY OneHolder DEF IInv, Active
<1> QED
  BY <1>1, Returning DEF dropLocked

LEMMA SendStep ==
    ASSUME None \notin Callers, MaxCalls \in Nat, IInv, NEW c \in Callers, Send(c)
    PROVE  IInv'
<1>1. CASE WriteSends(c)
  <2> DEFINE cmd == call[c].cmd
  <2>1. call[c].pc = "write" /\ call[c].pc # "idle" /\ call[c].pc \in Active
    BY <1>1 DEF WriteSends, Active
  <2>2. UNCHANGED <<mem, executed, back, conn, holder, answer, calls>>
    BY <1>1 DEF WriteSends
  <2>3. Moves(c, "line")
    BY <1>1, <2>1, CallerMoves, Zenon DEF IInv, Waiting, WriteSends
  <2>4. /\ holder = c /\ conn # 0 /\ conn \in Connections /\ ~Unused(conn)
        /\ \A d \in Callers : d # c => call[d].pc \notin Active
    BY <2>1, OneHolder, ConnInUse DEF IInv
  <2>5. cmd \in Commands /\ Silent(conn)
    BY <2>1, CallIs DEF IInv, Conversation
  <2>6. /\ wire' \in [Connections -> Seq(Commands)]
        /\ \A n \in Connections : n # conn => wire'[n] = wire[n]
        /\ wire'[conn] \in {<<>>, <<cmd>>}
    <3>1. CASE conn \in dead
      BY <1>1, <2>5, <3>1 DEF WriteSends, Silent, IInv, Shape
    <3>2. CASE conn \notin dead
      <4>1. wire' = [wire EXCEPT ![conn] = Append(wire[conn], cmd)]
        BY <1>1, <3>2 DEF WriteSends
      <4>2. Append(wire[conn], cmd) = <<cmd>> /\ <<cmd>> \in Seq(Commands)
        BY <2>5, ShortSequences DEF Silent
      <4> QED
        BY <2>4, <4>1, <4>2 DEF IInv, Shape
    <3> QED
      BY <3>1, <3>2
  <2>7. Shape'
    BY <2>2, <2>3, <2>6 DEF IInv, Shape, Moves
  <2>8. Ordered'
    <3>1. /\ \A d \in Callers : call'[d].pc # "idle" => call'[d].cmd.id <= calls'
          /\ \A d, e \in Callers :
                call'[d].pc # "idle" /\ call'[e].pc # "idle" /\ call'[d].cmd.id = call'[e].cmd.id
                => d = e
          /\ \A n \in Connections : Unused(n)' => Unused(n)
      BY <2>1, <2>2, <2>3, NumbersKept DEF IInv, Waiting
    <3>2. \A n \in Connections : Unused(n) => Silent(n)' /\ n # conn'
      BY <2>2, <2>4, <2>6 DEF IInv, Ordered, Silent
    <3>3. \A d \in Callers : call'[d].pc \in Active <=> call[d].pc \in Active
      BY <2>1, <2>3 DEF Moves, Active
    <3> QED
      BY <2>2, <3>1, <3>2, <3>3 DEF IInv, Ordered
  <2>9. Conversation'
    <3>1. Awaiting(call[c].cmd)'
      BY <2>2, <2>3, <2>5, <2>6 DEF Awaiting, Silent, Moves
    <3>2. \A d \in Callers : d # c => call'[d].pc \notin Active
      BY <2>3, <2>4 DEF Moves
    <3>3. call'[c].pc = "line" /\ holder' # None
      BY <2>2, <2>3, <2>4 DEF Moves
    <3> QED
      BY <3>1, <3>2, <3>3 DEF Conversation, Active
  <2>10. Answered'
    BY <2>1, <2>2, <2>3 DEF IInv, Answered, Moves
  <2> QED
    BY <2>7, <2>8, <2>9, <2>10 DEF IInv
<1>2. CASE WriteFails(c)
  BY <1>2, GivesUp DEF WriteFails, Active, server, IInv, Shape
<1> QED
  BY <1>1, <1>2 DEF Send

\* Reading takes the first token of the holder's connection.
LEMMA ReadsOne ==
    ASSUME MaxCalls \in Nat, IInv, conn # 0, back' = [back EXCEPT ![conn] = Tail(@)]
    PROVE  /\ conn \in Connections /\ DOMAIN back' = Connections
           /\ back'[conn] = Tail(back[conn])
           /\ \A n \in Connections : Unused(n) => back'[n] = back[n]
<1>1. conn \in Connections /\ ~Unused(conn)
  BY ConnInUse DEF IInv
<1> QED
  BY <1>1 DEF IInv, Shape

\* The line a waiting caller reads, and what is left behind it.
LEMMA LineRead ==
    ASSUME IInv, NEW c \in Callers, call[c].pc = "line", back[conn] # <<>>
    PROVE  /\ wire[conn] = <<>>
           /\ \/ /\ Head(back[conn]).t = "$"
                 /\ \E v \in Values : /\ Fits(call[c].cmd, v)
                                      /\ Tail(back[conn]) = <<[t |-> "data", v |-> v]>>
              \/ /\ Head(back[conn]).t \in {"-", "nil", "+", ":"} /\ Tail(back[conn]) = <<>>
                 /\ Outcome(call[c].cmd.op, Head(back[conn])) # "hit"
                 /\ Outcome(call[c].cmd.op, Head(back[conn])) = "ok"
                    => call[c].cmd.id \in executed
<1> DEFINE cmd == call[c].cmd
           b == back[conn]
<1>1. wire[conn] = <<>> /\ Answering(cmd, b, executed)
  BY DEF IInv, Conversation, Awaiting
<1>2. CASE b = <<[t |-> "-", v |-> None]>>
  <2>1. Head(b) = [t |-> "-", v |-> None] /\ Tail(b) = <<>>
    BY <1>2, ShortSequences
  <2> QED
    BY <1>1, <2>1 DEF Outcome
<1>3. CASE cmd.op = "get" /\ b = <<[t |-> "nil", v |-> None]>>
  <2>1. Head(b) = [t |-> "nil", v |-> None] /\ Tail(b) = <<>>
    BY <1>3, ShortSequences
  <2> QED
    BY <1>1, <1>3, <2>1 DEF Outcome
<1>4. CASE \E v \in Values : /\ Fits(cmd, v)
                             /\ b = <<[t |-> "$", v |-> None], [t |-> "data", v |-> v]>>
  <2>1. PICK v \in Values : /\ Fits(cmd, v)
                            /\ b = <<[t |-> "$", v |-> None], [t |-> "data", v |-> v]>>
    BY <1>4
  <2>2. Head(b) = [t |-> "$", v |-> None] /\ Tail(b) = <<[t |-> "data", v |-> v]>>
    BY <2>1, ShortSequences
  <2> QED
    BY <1>1, <2>1, <2>2
<1>5. CASE /\ cmd.op \in {"set", "del"} /\ cmd.id \in executed
           /\ b = <<[t |-> IF cmd.op = "set" THEN "+" ELSE ":", v |-> None]>>
  <2>1. /\ Head(b) = [t |-> IF cmd.op = "set" THEN "+" ELSE ":", v |-> None]
        /\ Tail(b) = <<>>
    BY <1>5, ShortSequences
  <2> QED
    BY <1>1, <1>5, <2>1 DEF Outcome
<1> QED
  BY <1>1, <1>2, <1>3, <1>4, <1>5, Zenon DEF Answering

LEMMA ReadBulkStep ==
    ASSUME None \notin Callers, MaxCalls \in Nat, IInv, NEW c \in Callers, ReadBulk(c)
    PROVE  IInv'
<1>1. /\ call[c].pc = "bulk" /\ call[c].pc # "idle" /\ call[c].pc \in Active
      /\ UNCHANGED <<mem, executed, wire, conn>>
  BY DEF ReadBulk, Active
<1>2. holder = c /\ conn # 0
  BY <1>1, OneHolder DEF IInv
<1>3. /\ conn \in Connections /\ DOMAIN back' = Connections
      /\ back'[conn] = Tail(back[conn])
      /\ \A n \in Connections : Unused(n) => back'[n] = back[n]
  BY <1>2, ReadsOne DEF ReadBulk
<1>4. PICK v \in Values : /\ Fits(call[c].cmd, v) /\ wire[conn] = <<>>
                          /\ back[conn] = <<[t |-> "data", v |-> v]>>
  BY <1>1 DEF IInv, Conversation
<1>5. Head(back[conn]) = [t |-> "data", v |-> v] /\ Tail(back[conn]) = <<>>
  BY <1>4, ShortSequences
<1>6. Head(back[conn]).v = v
  BY <1>5
<1>7. Outcome(call[c].cmd.op, [t |-> "$", v |-> v]) = "hit"
  BY <1>4 DEF Outcome, Fits
<1>8. Return(c, "hit", v)
  BY <1>6, <1>7 DEF ReadBulk
<1>9. Silent(conn)'
  BY <1>1, <1>3, <1>4, <1>5 DEF Silent
<1> QED
  BY <1>1, <1>2, <1>3, <1>4, <1>8, <1>9, Returning DEF Fits

LEMMA ReadLineStep ==
    ASSUME None \notin Callers, MaxCalls \in Nat, IInv, NEW c \in Callers, ReadLine(c)
    PROVE  IInv'
<1>1. /\ call[c].pc = "line" /\ call[c].pc # "idle" /\ call[c].pc \in Active
      /\ back[conn] # <<>> /\ UNCHANGED <<mem, executed, wire>>
  BY DEF ReadLine, Active
<1>2. /\ holder = c /\ conn # 0
      /\ \A d \in Callers : d # c => call[d].pc \notin Active
  BY <1>1, OneHolder DEF IInv
<1>3. /\ conn \in Connections /\ DOMAIN back' = Connections
      /\ back'[conn] = Tail(back[conn])
      /\ \A n \in Connections : Unused(n) => back'[n] = back[n]
  BY <1>2, ReadsOne DEF ReadLine
<1>4. CASE /\ Head(back[conn]).t \in {"-", "nil", "+", ":"} /\ Tail(back[conn]) = <<>>
           /\ Outcome(call[c].cmd.op, Head(back[conn])) # "hit"
           /\ Outcome(call[c].cmd.op, Head(back[conn])) = "ok" => call[c].cmd.id \in executed
  <2>1. Return(c, Outcome(call[c].cmd.op, Head(back[conn])), None) /\ conn' = conn
    BY <1>4 DEF ReadLine
  <2>2. Silent(conn)'
    BY <1>1, <1>3, <1>4, <2>1, LineRead, Zenon DEF Silent
  <2> QED
    BY <1>1, <1>2, <1>3, <1>4, <2>1, <2>2, Returning
<1>5. CASE /\ Head(back[conn]).t = "$"
           /\ \E v \in Values : /\ Fits(call[c].cmd, v)
                                /\ Tail(back[conn]) = <<[t |-> "data", v |-> v]>>
  <2>1. call' = [call EXCEPT ![c].pc = "bulk"] /\ UNCHANGED <<conn, holder, answer, calls>>
    BY <1>5 DEF ReadLine
  <2>2. Moves(c, "bulk")
    BY <1>1, <2>1, CallerMoves, Zenon DEF IInv, Waiting
  <2>3. Shape'
    BY <1>1, <1>3, <2>1, <2>2 DEF IInv, Shape, Moves
  <2>4. Ordered'
    <3>1. /\ \A d \in Callers : call'[d].pc # "idle" => call'[d].cmd.id <= calls'
          /\ \A d, e \in Callers :
                call'[d].pc # "idle" /\ call'[e].pc # "idle" /\ call'[d].cmd.id = call'[e].cmd.id
                => d = e
          /\ \A n \in Connections : Unused(n)' => Unused(n)
      BY <1>1, <2>1, <2>2, NumbersKept DEF IInv, Waiting
    <3>2. \A n \in Connections : Unused(n) => Silent(n)' /\ n # conn'
      BY <1>1, <1>3, <2>1 DEF IInv, Ordered, Silent
    <3>3. \A d \in Callers : call'[d].pc \in Active <=> call[d].pc \in Active
      BY <1>1, <2>2 DEF Moves, Active
    <3> QED
      BY <2>1, <3>1, <3>2, <3>3 DEF IInv, Ordered
  <2>5. Conversation'
    <3>1. \A d \in Callers : d # c => call'[d].pc \notin Active
      BY <1>2, <2>2 DEF Moves
    <3>2. call'[c].pc = "bulk" /\ call'[c].cmd = call[c].cmd /\ holder' # None
      BY <1>2, <2>1, <2>2 DEF Moves
    <3>3. /\ wire'[conn'] = <<>>
          /\ \E v \in Values : Fits(call'[c].cmd, v) /\ back'[conn'] = <<[t |-> "data", v |-> v]>>
      BY <1>1, <1>3, <1>5, <2>1, <3>2, LineRead, Zenon
    <3> QED
      BY <3>1, <3>2, <3>3, Zenon DEF Conversation, Active, Values, CallIds, Fits
  <2>6. Answered'
    BY <1>1, <2>1, <2>2 DEF IInv, Answered, Moves
  <2> QED
    BY <2>3, <2>4, <2>5, <2>6 DEF IInv
<1> QED
  BY <1>1, <1>4, <1>5, LineRead, Zenon

LEMMA ReadStep ==
    ASSUME None \notin Callers, MaxCalls \in Nat, IInv, NEW c \in Callers, Read(c)
    PROVE  IInv'
<1>1. CASE ReadFails(c)
  BY <1>1, GivesUp DEF ReadFails, Active, server, IInv, Shape
<1> QED
  BY <1>1, ReadLineStep, ReadBulkStep DEF Read

LEMMA TakeStep ==
    ASSUME None \notin Callers, IInv, NEW c \in Callers, Take(c)
    PROVE  IInv'
<1>1. /\ call[c].pc = "done" /\ call[c].pc # "idle"
      /\ UNCHANGED <<mem, executed, up, wire, back, dead, conn, holder, calls>>
  BY DEF Take, server
<1>2. /\ call'[c] = Idle /\ call'[c].pc = "idle"
      /\ answer'[c] = NoAnswer /\ answer'[c].is = "none"
      /\ \A d \in Callers : d # c => call'[d] = call[d] /\ answer'[d] = answer[d]
  BY DEF IInv, Shape, Take, Idle, NoAnswer
<1>3. Shape'
  BY <1>1 DEF IInv, Shape, Take
<1>4. Ordered'
  <2>1. \A n : Unused(n)' => Unused(n)
    BY <1>1, <1>2 DEF Unused
  <2>2. \A d \in Callers : call'[d].pc \in Active <=> call[d].pc \in Active
    BY <1>1, <1>2 DEF Active
  <2> QED
    BY <1>1, <1>2, <2>1, <2>2 DEF IInv, Ordered, Silent
<1>5. Conversation'
  BY <1>1, <1>2, Zenon DEF IInv, Conversation, Silent, Awaiting, Answering
<1>6. Answered'
  BY <1>1, <1>2 DEF IInv, Answered
<1> QED
  BY <1>3, <1>4, <1>5, <1>6 DEF IInv

LEMMA CloseStep ==
    ASSUME None \notin Callers, IInv, Close
    PROVE  IInv'
<1>1. /\ holder = None /\ conn' = 0
      /\ UNCHANGED <<mem, executed, up, wire, back, dead, holder, call, answer, calls>>
  BY DEF Close, dropLocked, server
<1>2. \A c \in Callers : call[c].pc \notin Active
  BY <1>1 DEF IInv, Ordered
<1>3. Shape'
  BY <1>1 DEF IInv, Shape
<1>4. Ordered'
  BY <1>1, <1>2 DEF IInv, Ordered, Unused, Silent, Connections
<1>5. Conversation'
  BY <1>1, <1>2 DEF Conversation, Active
<1>6. Answered'
  BY <1>1 DEF IInv, Answered
<1> QED
  BY <1>3, <1>4, <1>5, <1>6 DEF IInv

----------------------------------------------------------------------------
(* The steps of Valkey and the network.                                    *)

\* What the server may do to the client's connection: nothing, lose the
\* command on it, or answer that command.
Untouched == wire'[conn] = wire[conn] /\ back'[conn] = back[conn]
Loses == wire'[conn] = <<>> /\ back'[conn] = back[conn]
Responds ==
    /\ wire[conn] # <<>> /\ wire'[conn] = Tail(wire[conn])
    /\ back[conn] = <<>> => Answering(Head(wire[conn]), back'[conn], executed')

LEMMA ServerStep ==
    ASSUME IInv, UNCHANGED <<conn, holder, call, answer, calls>>,
           wire' \in [Connections -> Seq(Commands)], DOMAIN back' = Connections,
           DOMAIN mem' = Keys,
           \A k \in Keys : mem'[k] # None => mem'[k] \in Values /\ mem'[k][1] = k,
           executed \subseteq executed',
           \A n \in Connections : Unused(n) => Silent(n)',
           conn # 0 => Untouched \/ Loses \/ Responds
    PROVE  IInv'
<1>1. Shape'
  BY DEF IInv, Shape
<1>2. Ordered'
  <2>1. \A n : Unused(n)' = Unused(n)
    BY DEF Unused
  <2> QED
    BY <2>1 DEF IInv, Ordered
<1>3. Conversation'
  <2>1. ASSUME conn # 0, Silent(conn) PROVE Silent(conn)'
    BY <2>1 DEF Untouched, Loses, Responds, Silent
  <2>2. ASSUME NEW c \in Callers, call[c].pc = "line" PROVE Awaiting(call[c].cmd)'
    <3>1. Awaiting(call[c].cmd) /\ conn # 0
      BY <2>2 DEF IInv, Conversation, Ordered, Active
    <3>2. \A b : Answering(call[c].cmd, b, executed) => Answering(call[c].cmd, b, executed')
      BY DEF Answering
    <3>3. CASE Untouched \/ Loses
      BY <3>1, <3>2, <3>3 DEF Untouched, Loses, Awaiting
    <3>4. CASE Responds
      <4>1. wire[conn] = <<call[c].cmd>> /\ back[conn] = <<>>
        BY <3>1, <3>4 DEF Responds, Awaiting
      <4>2. Head(wire[conn]) = call[c].cmd /\ wire'[conn] = <<>>
        BY <3>4, <4>1, ShortSequences DEF Responds
      <4> QED
        BY <3>4, <4>1, <4>2 DEF Responds, Awaiting
    <3> QED
      BY <3>1, <3>3, <3>4
  <2>3. ASSUME NEW c \in Callers, call[c].pc = "bulk"
        PROVE  wire'[conn] = <<>> /\ back'[conn] = back[conn]
    BY <2>3 DEF IInv, Conversation, Ordered, Active, Untouched, Loses, Responds
  <2>4. \A c \in Callers : call[c].pc = "write" => conn # 0
    BY DEF IInv, Ordered, Active
  <2> QED
    BY <2>1, <2>2, <2>3, <2>4, Zenon DEF IInv, Conversation
<1>4. Answered'
  BY DEF IInv, Answered
<1> QED
  BY <1>1, <1>2, <1>3, <1>4 DEF IInv

\* A connection with a command on it is not an unused one.
LEMMA BusyIsUsed ==
    ASSUME IInv, NEW n \in Connections, wire[n] # <<>>
    PROVE  ~Unused(n)
BY DEF IInv, Ordered, Silent

\* Executes and Refuses take the first command and answer it.
LEMMA AnswerStep ==
    ASSUME MaxCalls \in Nat, IInv, NEW n \in Connections, NEW reply,
           wire[n] # <<>>, wire' = [wire EXCEPT ![n] = Tail(@)], Answers(n, reply),
           UNCHANGED <<conn, holder, call, answer, calls>>,
           DOMAIN mem' = Keys,
           \A k \in Keys : mem'[k] # None => mem'[k] \in Values /\ mem'[k][1] = k,
           executed \subseteq executed',
           <<>> \o reply = reply, Answering(Head(wire[n]), reply, executed')
    PROVE  IInv'
<1>1. wire[n] \in Seq(Commands) /\ Tail(wire[n]) \in Seq(Commands)
  BY DEF IInv, Shape
<1>2. /\ wire' \in [Connections -> Seq(Commands)] /\ DOMAIN back' = Connections
      /\ wire'[n] = Tail(wire[n])
      /\ \A m \in Connections : m # n => wire'[m] = wire[m] /\ back'[m] = back[m]
      /\ n = conn => back'[n] = back[n] \o reply
  BY <1>1 DEF IInv, Shape, Answers
<1>3. \A m \in Connections : Unused(m) => Silent(m)'
  BY <1>2, BusyIsUsed DEF IInv, Ordered, Silent
<1>4. ASSUME conn # 0 PROVE Untouched \/ Loses \/ Responds
  <2>1. CASE n = conn
    <3>1. back[conn] = <<>> => back'[conn] = reply
      BY <1>2, <2>1
    <3>2. wire[conn] # <<>> /\ wire'[conn] = Tail(wire[conn])
      BY <1>2, <2>1
    <3> QED
      BY <2>1, <3>1, <3>2 DEF Responds
  <2>2. CASE n # conn
    BY <1>2, <1>4, <2>2, ConnInUse DEF Untouched, IInv
  <2> QED
    BY <2>1, <2>2
<1> QED
  BY <1>2, <1>3, <1>4, ServerStep

LEMMA ExecutesStep ==
    ASSUME MaxCalls \in Nat, IInv, NEW n \in Connections, Executes(n)
    PROVE  IInv'
<1> DEFINE cmd == Head(wire[n])
<1>1. /\ wire[n] # <<>> /\ wire' = [wire EXCEPT ![n] = Tail(@)]
      /\ Answers(n, Reply(cmd)) /\ executed' = executed \cup {cmd.id}
      /\ UNCHANGED <<conn, holder, call, answer, calls>>
      /\ mem' = CASE cmd.op = "set" -> [mem EXCEPT ![cmd.key] = <<cmd.key, cmd.id>>]
                  [] cmd.op = "del" -> [mem EXCEPT ![cmd.key] = None]
                  [] OTHER -> mem
  BY DEF Executes
<1>2. wire[n] \in Seq(Commands)
  BY DEF IInv, Shape
<1>3. cmd \in Commands
  BY <1>1, <1>2
<1>4. cmd.op \in Ops /\ cmd.key \in Keys /\ cmd.id \in CallIds
  BY <1>3 DEF Commands
<1> HIDE DEF cmd
<1>5. /\ DOMAIN mem' = Keys
      /\ \A k \in Keys : mem'[k] # None => mem'[k] \in Values /\ mem'[k][1] = k
  <2>1. <<cmd.key, cmd.id>> \in Values /\ <<cmd.key, cmd.id>>[1] = cmd.key
    BY <1>4 DEF Values
  <2>2. CASE cmd.op = "set"
    BY <1>1, <1>4, <2>1, <2>2 DEF IInv, Shape
  <2>3. CASE cmd.op = "del"
    BY <1>1, <1>4, <2>3 DEF IInv, Shape
  <2>4. CASE cmd.op = "get"
    BY <1>1, <2>4 DEF IInv, Shape
  <2> QED
    BY <1>4, <2>2, <2>3, <2>4 DEF Ops
<1>6. Answering(cmd, Reply(cmd), executed') /\ <<>> \o Reply(cmd) = Reply(cmd)
  <2>1. CASE cmd.op = "get" /\ mem[cmd.key] = None
    <3>1. Reply(cmd) = <<[t |-> "nil", v |-> None]>>
      BY <2>1 DEF Reply
    <3> QED
      BY <2>1, <3>1, ShortSequences DEF Answering
  <2>2. CASE cmd.op = "get" /\ mem[cmd.key] # None
    <3>1. Reply(cmd) = <<[t |-> "$", v |-> None], [t |-> "data", v |-> mem[cmd.key]]>>
      BY <2>2 DEF Reply
    <3>2. mem[cmd.key] \in Values /\ Fits(cmd, mem[cmd.key])
      BY <1>4, <2>2 DEF IInv, Shape, Fits
    <3> QED
      BY <3>1, <3>2, ShortSequences DEF Answering
  <2>3. CASE cmd.op \in {"set", "del"}
    <3>1. Reply(cmd) = <<[t |-> IF cmd.op = "set" THEN "+" ELSE ":", v |-> None]>>
      BY <2>3 DEF Reply
    <3> QED
      BY <1>1, <2>3, <3>1, ShortSequences DEF Answering
  <2> QED
    BY <1>4, <2>1, <2>2, <2>3 DEF Ops
<1> QED
  BY <1>1, <1>5, <1>6, AnswerStep, Zenon DEF cmd

LEMMA RefusesStep ==
    ASSUME MaxCalls \in Nat, IInv, NEW n \in Connections, Refuses(n)
    PROVE  IInv'
<1> DEFINE reply == <<[t |-> "-", v |-> None]>>
<1>1. /\ wire[n] # <<>> /\ wire' = [wire EXCEPT ![n] = Tail(@)]
      /\ Answers(n, reply) /\ mem' = mem /\ executed' = executed
      /\ UNCHANGED <<conn, holder, call, answer, calls>>
  BY DEF Refuses
<1>2. <<>> \o reply = reply /\ Answering(Head(wire[n]), reply, executed')
  BY ShortSequences DEF Answering
<1>3. /\ DOMAIN mem' = Keys
      /\ \A k \in Keys : mem'[k] # None => mem'[k] \in Values /\ mem'[k][1] = k
  BY <1>1 DEF IInv, Shape
<1> HIDE DEF reply
<1> QED
  BY <1>1, <1>2, <1>3, AnswerStep, Zenon

LEMMA OutageStep ==
    ASSUME MaxCalls \in Nat, IInv,
           (\E n \in Connections : HangsUp(n)) \/ (\E k \in Keys : Evicts(k)) \/ Stops \/ Starts
    PROVE  IInv'
<1>1. UNCHANGED <<executed, back, conn, holder, call, answer, calls>>
  BY DEF HangsUp, Evicts, Stops, Starts
<1>2. /\ DOMAIN mem' = Keys
      /\ \A k \in Keys : mem'[k] # None => mem'[k] \in Values /\ mem'[k][1] = k
  BY DEF IInv, Shape, HangsUp, Evicts, Stops, Starts
<1>3. /\ wire' \in [Connections -> Seq(Commands)]
      /\ \A n \in Connections : wire'[n] = wire[n] \/ wire'[n] = <<>>
  <2>1. <<>> \in Seq(Commands)
    OBVIOUS
  <2> QED
    BY <2>1, Zenon DEF IInv, Shape, HangsUp, Evicts, Stops, Starts
<1>4. DOMAIN back' = Connections /\ \A n \in Connections : Unused(n) => Silent(n)'
  BY <1>1, <1>3 DEF IInv, Shape, Ordered, Silent
<1>5. conn # 0 => Untouched \/ Loses
  BY <1>1, <1>3, ConnInUse DEF IInv, Untouched, Loses
<1> QED
  BY <1>1, <1>2, <1>3, <1>4, <1>5, ServerStep

----------------------------------------------------------------------------
(* The theorems.                                                           *)

LEMMA Inductive ==
    ASSUME None \notin Callers, MaxCalls \in Nat, IInv, [Next]_vars
    PROVE  IInv'
<1>1. CASE \E c \in Callers, op \in Ops, k \in Keys : Call(c, op, k)
  BY <1>1, CallStep
<1>2. CASE \E c \in Callers : Serve(c) \/ Send(c) \/ Read(c) \/ Take(c)
  BY <1>2, ServeStep, SendStep, ReadStep, TakeStep
<1>3. CASE Close
  BY <1>3, CloseStep
<1>4. CASE \E n \in Connections : Executes(n) \/ Refuses(n)
  BY <1>4, ExecutesStep, RefusesStep
<1>5. CASE (\E n \in Connections : HangsUp(n)) \/ (\E k \in Keys : Evicts(k)) \/ Stops \/ Starts
  BY <1>5, OutageStep
<1>6. CASE UNCHANGED vars
  <2>1. UNCHANGED <<mem, executed, up, wire, back, dead, conn, holder, call, answer, calls>>
    BY <1>6 DEF vars
  <2>2. Shape'
    BY <2>1 DEF IInv, Shape
  <2>3. Ordered'
    BY <2>1 DEF IInv, Ordered, Unused, Silent
  <2>4. Conversation'
    BY <2>1, Zenon DEF IInv, Conversation, Silent, Awaiting
  <2>5. Answered'
    BY <2>1 DEF IInv, Answered
  <2> QED
    BY <2>2, <2>3, <2>4, <2>5 DEF IInv
<1> QED
  BY <1>1, <1>2, <1>3, <1>4, <1>5, <1>6 DEF Next

(* For any callers, keys and number of calls: a Get that hits returns a    *)
(* value stored under the key it asked for, whichever calls timed out, and *)
(* whenever the connection broke, before it (roundTrip and dropLocked).    *)
THEOREM HitsOwnKeyAlways ==
    ASSUME None \notin Callers, MaxCalls \in Nat
    PROVE  Spec => []HitsOwnKey
<1>1. Init => IInv
  BY InitInv
<1>2. IInv /\ [Next]_vars => IInv'
  BY Inductive
<1>3. IInv => HitsOwnKey
  BY DEF IInv, Answered, HitsOwnKey
<1> QED
  BY <1>1, <1>2, <1>3, PTL DEF Spec

(* For any callers, keys and number of calls: a Set or Del that reports    *)
(* success was executed by Valkey, so neither an error nor the reply to    *)
(* another caller's command passes for it (Set, Del and roundTrip).        *)
THEOREM AckedExecutedAlways ==
    ASSUME None \notin Callers, MaxCalls \in Nat
    PROVE  Spec => []AckedExecuted
<1>1. Init => IInv
  BY InitInv
<1>2. IInv /\ [Next]_vars => IInv'
  BY Inductive
<1>3. IInv => AckedExecuted
  BY DEF IInv, Answered, AckedExecuted
<1> QED
  BY <1>1, <1>2, <1>3, PTL DEF Spec
=============================================================================
