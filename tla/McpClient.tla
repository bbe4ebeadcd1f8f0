------------------------------ MODULE McpClient ------------------------------
(***************************************************************************)
(* The MCP client over SSE transports (internal/mcp: client, sse, bridge,  *)
(* bootstrap): connecting the configured servers, registering their tools  *)
(* with the tool registry, executing those tools, disconnecting, closing.  *)
(* A server and its HTTP connections are outside: a POST may fail before   *)
(* or after it has arrived, an answer may come twice, late, badly framed   *)
(* or never, and the event stream may end at any moment.  Close of such a  *)
(* transport sets a flag, after which it sends nothing; its stream is left *)
(* as it is.  `closed' is that flag, and open means it is not set.         *)
(*                                                                         *)
(* Left out: JSON, headers, the state field of a connection (nobody reads  *)
(* it); StdioTransport has the other transport.                            *)
(***************************************************************************)
EXTENDS Naturals, Sequences, FiniteSets, SequencesExt

CONSTANTS
    Servers,        \* server names
    Configured,     \* the configuration: a sequence of server names
    Tools,
    ToolsOf,        \* ToolsOf[s]: the tools server s lists
    Managers,       \* goroutines that connect and disconnect; one of them boots
    Users,          \* goroutines that execute tools
    Boot,           \* the manager that boots
    Nobody,         \* no server
    MaxConns,       \* bound: connections made in all
    MaxSends        \* bound: requests on one connection

ASSUME ClientAssumption ==
    /\ IsFiniteSet(Servers) /\ Configured \in Seq(Servers)
    /\ ToolsOf \in [Servers -> SUBSET Tools]
    /\ Boot \in Managers /\ Nobody \notin Servers
    /\ MaxConns \in Nat /\ MaxSends \in Nat

VARIABLES
    servers,    \* Client.servers: name -> connection, 0 for none
    conns,      \* the connections made so far
    registry,   \* tool -> the server of the adapter registered for it
    task        \* what each goroutine does

clientVars == <<servers, conns, registry, task>>

Goroutines == Managers \union Users

(* sent numbers the requests, pending is the transport's map: request ->    *)
(* goroutine; asked and answered are the server's; listed: the client has   *)
(* the server's tools; boot: it was connected when the bridge began.        *)
NewConn(s) ==
    [name |-> s, closed |-> FALSE, sent |-> 0, pending |-> {},
     asked |-> {}, answered |-> {}, listed |-> FALSE, boot |-> FALSE]

(* at is the place within the operation, for the Send of a request or       *)
(* between two; reply is the goroutine's response channel.                  *)
Rest == [at |-> "idle", for |-> "none", server |-> Nobody, conn |-> 0, id |-> 0, reply |-> 0,
         todo |-> <<>>]

ClientInit ==
    /\ servers = [s \in Servers |-> 0]
    /\ conns = <<>>
    /\ registry = [t \in Tools |-> Nobody]
    /\ task = [g \in Goroutines |->
                  IF g = Boot THEN [Rest EXCEPT !.at = "boot", !.todo = Configured] ELSE Rest]

At(g, place) == task[g].at = place

Goes(g, place) == task' = [task EXCEPT ![g].at = place]

(* The end of a task: what the booting manager still has to do comes next.  *)
Ended(g) ==
    IF g = Boot /\ task[g].for = "connect" /\ task[g].todo # <<>>
    THEN [Rest EXCEPT !.at = "boot", !.todo = Tail(task[g].todo)]
    ELSE IF task[g].for = "list"
    THEN [Rest EXCEPT !.at = "register", !.todo = Tail(task[g].todo)]
    ELSE Rest

Ends(g) == task' = [task EXCEPT ![g] = Ended(g)]

-----------------------------------------------------------------------------
(* The SSE reader: a line of an event; the event it makes is dispatched at  *)
(* a blank line, if it has data.                                            *)
ReadLine(event, line) ==
    CASE line = "event" -> [event EXCEPT !.type = "message"]
      [] line = "other" -> [event EXCEPT !.type = "other"]
      [] line = "data"  -> [event EXCEPT !.data = TRUE]
      [] line = "blank" -> [type |-> "", data |-> FALSE,
                            out |-> event.out \/ (event.type = "message" /\ event.data)]
      [] OTHER -> event

Dispatched(lines) ==
    FoldLeft(ReadLine, [type |-> "", data |-> FALSE, out |-> FALSE], lines).out

Framings ==
    {<<"comment", "event", "data", "id", "data", "blank">>, <<"data", "event", "blank">>,
     <<"data", "blank">>, <<"other", "data", "blank">>, <<"event", "blank", "data", "blank">>}

-----------------------------------------------------------------------------
(* Connect: a look at the map, then all the rest without the lock.          *)
Connect(g, s) ==
    /\ g \in Managers
    /\ \/ At(g, "idle")
       \/ At(g, "boot") /\ task[g].todo # <<>> /\ s = Head(task[g].todo)
    /\ LET b == task[g]
       IN  task' = [task EXCEPT ![g] =
              IF servers[s] = 0
              THEN [b EXCEPT !.at = "open", !.for = "connect", !.server = s]
              ELSE IF At(g, "boot") THEN [b EXCEPT !.todo = Tail(b.todo)] ELSE b]
    /\ UNCHANGED <<servers, conns, registry>>

(* newSSETransport.                                                         *)
Open(g) ==
    /\ At(g, "open")
    /\ \/ /\ Len(conns) < MaxConns
          /\ conns' = Append(conns, NewConn(task[g].server))
          /\ task' = [task EXCEPT ![g].at = "send", ![g].conn = Len(conns')]
       \/ Ends(g) /\ UNCHANGED conns
    /\ UNCHANGED <<servers, registry>>

Conn(g) == conns[task[g].conn]

(* The variant: the transport is not closed.                               *)
LeftOpen(g) == conns

Closed(g) == [conns EXCEPT ![task[g].conn].closed = TRUE]

(* A request that failed: Connect closes its transport and gives up.        *)
SendFails(g) ==
    /\ conns' = IF task[g].for = "connect" THEN Closed(g) ELSE conns
    /\ Ends(g)

(* The variant: the entry is made when the POST has returned.              *)
PendingAfterPost(place) == place = "posted"

PendingFrom(place) == place = "send"

(* Send: the entry in pending, then the POST.                               *)
Entered(g, place, conn) ==
    IF PendingFrom(place)
    THEN [conn EXCEPT !.pending = conn.pending \union {[id |-> conn.sent, of |-> g]}]
    ELSE conn

RegisterRequest(g) ==
    /\ At(g, "send")
    /\ Conn(g).sent < MaxSends
    /\ IF Conn(g).closed
       THEN SendFails(g)
       ELSE /\ conns' = [conns EXCEPT ![task[g].conn] =
                            Entered(g, "send", [Conn(g) EXCEPT !.sent = Conn(g).sent + 1])]
            /\ task' = [task EXCEPT ![g].at = "post", ![g].id = Conn(g).sent + 1]
    /\ UNCHANGED <<servers, registry>>

PostArrives(g) ==
    /\ At(g, "post")
    /\ conns' = [conns EXCEPT ![task[g].conn].asked = @ \union {task[g].id}]
    /\ Goes(g, "posted")
    /\ UNCHANGED <<servers, registry>>

PostReturns(g) ==
    /\ At(g, "posted")
    /\ conns' = [conns EXCEPT ![task[g].conn] = Entered(g, "posted", Conn(g))]
    /\ Goes(g, "wait")
    /\ UNCHANGED <<servers, registry>>

(* The POST fails before it arrives or after, the wait is cancelled, or     *)
(* what came cannot be used: the entry stays in pending.                    *)
Fail(g) ==
    /\ task[g].at \in {"post", "posted", "wait"}
    /\ SendFails(g)
    /\ UNCHANGED <<servers, registry>>

(* The response arrived: Connect goes on from initialize to tools/list and  *)
(* from there to its end, the bridge has its list, ExecuteTool its result.  *)
(* A list may be absent from the answer.                                    *)
TakeReply(g) ==
    /\ At(g, "wait")
    /\ task[g].reply = task[g].id
    /\ LET again == [task[g] EXCEPT !.at = "send", !.id = 0, !.reply = 0]
       IN  \/ /\ task[g].for = "connect" /\ task[g].id = 1
              /\ task' = [task EXCEPT ![g] = again]
              /\ UNCHANGED conns
           \/ /\ task[g].for = "connect" /\ task[g].id # 1
              /\ \E listed \in BOOLEAN :
                    conns' = [conns EXCEPT ![task[g].conn].listed = listed]
              /\ Goes(g, "store")
           \/ /\ task[g].for = "list"
              /\ \E listed \in BOOLEAN :
                    conns' = [conns EXCEPT ![task[g].conn].listed = listed]
              /\ task' = [task EXCEPT ![g] = [again EXCEPT !.at = "listed"]]
           \/ task[g].for = "call" /\ Ends(g) /\ UNCHANGED conns
    /\ UNCHANGED <<servers, registry>>

Store(g) ==
    /\ At(g, "store")
    /\ servers' = [servers EXCEPT ![task[g].server] = task[g].conn]
    /\ Ends(g)
    /\ UNCHANGED <<conns, registry>>

-----------------------------------------------------------------------------
(* The server answers what it was asked, once more maybe; the reader gives  *)
(* a dispatched answer to whoever is in pending for it.  A stream that has  *)
(* ended is a server that answers no more: nobody is told.                  *)
ServerAnswers(k, id, lines) ==
    LET who == {p \in conns[k].pending : p.id = id}
    IN  /\ id \in conns[k].asked
        /\ IF Dispatched(lines)
           THEN /\ conns' = [conns EXCEPT ![k].pending = @ \ who,
                                          ![k].answered = @ \union {id}]
                /\ task' = [g \in Goroutines |->
                      IF task[g].conn = k /\ task[g].id = id /\ \E p \in who : p.of = g
                      THEN [task[g] EXCEPT !.reply = id] ELSE task[g]]
           ELSE UNCHANGED <<conns, task>>
        /\ UNCHANGED <<servers, registry>>

-----------------------------------------------------------------------------
(* Bridge.RegisterAllTools, after the last configured server: the connected *)
(* servers in any order.                                                    *)
ListServers ==
    /\ At(Boot, "boot")
    /\ task[Boot].todo = <<>>
    /\ \E order \in SetToSeqs({s \in Servers : servers[s] # 0}) :
          task' = [task EXCEPT ![Boot].at = "register", ![Boot].todo = order]
    /\ conns' = [k \in DOMAIN conns |->
                    [conns[k] EXCEPT !.boot = servers[conns[k].name] = k]]
    /\ UNCHANGED <<servers, registry>>

(* The variant: one name that is taken ends the server's registration.     *)
NoneOnClash(s) ==
    IF \E t \in ToolsOf[s] : registry[t] # Nobody
    THEN registry ELSE [t \in Tools |-> IF t \in ToolsOf[s] THEN s ELSE registry[t]]

(* The adapters of one server; a name that is taken is refused.             *)
Registered(s) ==
    [t \in Tools |-> IF t \in ToolsOf[s] /\ registry[t] = Nobody THEN s ELSE registry[t]]

(* One server: its tools are known and registered, or are asked for once    *)
(* more, or the server has been disconnected.                               *)
RegisterServer ==
    LET s == Head(task[Boot].todo)
        k == servers[s]
    IN  /\ At(Boot, "register")
        /\ task[Boot].todo # <<>>
        /\ IF k # 0 /\ ~conns[k].listed
           THEN /\ task' = [task EXCEPT ![Boot].at = "send", ![Boot].for = "list",
                                        ![Boot].conn = k, ![Boot].server = s]
                /\ UNCHANGED registry
           ELSE /\ task' = [task EXCEPT ![Boot].todo = Tail(@)]
                /\ registry' = IF k = 0 THEN registry ELSE Registered(s)
        /\ UNCHANGED <<servers, conns>>

RegisterListed ==
    /\ At(Boot, "listed")
    /\ registry' = IF Conn(Boot).listed THEN Registered(task[Boot].server) ELSE registry
    /\ Ends(Boot)
    /\ UNCHANGED <<servers, conns>>

Booted ==
    /\ At(Boot, "register")
    /\ task[Boot].todo = <<>>
    /\ task' = [task EXCEPT ![Boot] = Rest]
    /\ UNCHANGED <<servers, conns, registry>>

-----------------------------------------------------------------------------
(* ExecuteTool through the adapter that is registered for the tool.         *)
ExecuteTool(g, t) ==
    /\ g \in Users
    /\ At(g, "idle")
    /\ registry[t] # Nobody
    /\ servers[registry[t]] # 0
    /\ task' = [task EXCEPT ![g] = [Rest EXCEPT
                   !.at = "send", !.for = "call", !.server = registry[t],
                   !.conn = servers[registry[t]]]]
    /\ UNCHANGED <<servers, conns, registry>>

(* Disconnect: the connection, its transport closed, the entry deleted.     *)
Disconnect(g, s) ==
    /\ g \in Managers
    /\ At(g, "idle")
    /\ servers[s] # 0
    /\ task' = [task EXCEPT ![g] = [Rest EXCEPT !.at = "close", !.for = "disconnect",
                                                !.server = s, !.conn = servers[s]]]
    /\ UNCHANGED <<servers, conns, registry>>

CloseTransport(g) ==
    /\ At(g, "close")
    /\ conns' = Closed(g)
    /\ Goes(g, "delete")
    /\ UNCHANGED <<servers, registry>>

Delete(g) ==
    /\ At(g, "delete")
    /\ servers' = [servers EXCEPT ![task[g].server] = 0]
    /\ Ends(g)
    /\ UNCHANGED <<conns, registry>>

(* Client.Close, under the client's lock.                                   *)
Close(g) ==
    /\ g \in Managers
    /\ At(g, "idle")
    /\ conns' = [k \in DOMAIN conns |->
                    IF servers[conns[k].name] = k THEN [conns[k] EXCEPT !.closed = TRUE]
                    ELSE conns[k]]
    /\ servers' = [s \in Servers |-> 0]
    /\ UNCHANGED <<registry, task>>

-----------------------------------------------------------------------------
ClientNext ==
    \/ \E g \in Goroutines, s \in Servers : Connect(g, s) \/ Disconnect(g, s)
    \/ \E g \in Goroutines :
          \/ Open(g) \/ RegisterRequest(g) \/ PostArrives(g) \/ PostReturns(g) \/ Fail(g)
          \/ TakeReply(g) \/ Store(g) \/ CloseTransport(g) \/ Delete(g) \/ Close(g)
    \/ \E g \in Goroutines, t \in Tools : ExecuteTool(g, t)
    \/ \E k \in DOMAIN conns :
          \E id \in conns[k].asked, lines \in Framings : ServerAnswers(k, id, lines)
    \/ ListServers \/ RegisterServer \/ RegisterListed \/ Booted

ClientSpec == ClientInit /\ [][ClientNext]_clientVars

-----------------------------------------------------------------------------
ClientTypeOK ==
    /\ servers \in [Servers -> 0 .. Len(conns)]
    /\ registry \in [Tools -> Servers \union {Nobody}]
    /\ \A k \in DOMAIN conns :
          /\ conns[k].name \in Servers
          /\ conns[k].sent \in 0 .. MaxSends
          /\ conns[k].asked \subseteq 1 .. conns[k].sent
    /\ \A g \in Goroutines :
          task[g].conn \in 0 .. Len(conns) /\ task[g].todo \in Seq(Servers)

(* The answer to a request that somebody waits for reaches that goroutine,  *)
(* also when it comes before the POST has returned (sse.go:161): nobody     *)
(* waits for what the reader has already seen.                              *)
NoAnswerLost ==
    \A g \in Goroutines :
        task[g].at \in {"posted", "wait"} /\ task[g].id \in Conn(g).answered
            => task[g].reply = task[g].id

(* With one goroutine that connects and disconnects, every transport that   *)
(* is open is the one its server's entry holds, or that goroutine is at     *)
(* work on it: a Connect that fails half-way, a reconnect and Close leave   *)
(* none behind that nobody can close (client.go:72, 82, 92, 99, 125).       *)
OpenIsReachable ==
    \A k \in DOMAIN conns :
        conns[k].closed \/ servers[conns[k].name] = k
            \/ \E g \in Managers : task[g].conn = k

(* With one goroutine that connects and disconnects, after the boot every   *)
(* tool that a connected server listed is in the registry, for a server     *)
(* that has it: a server that cannot be reached or does not answer, or a    *)
(* name two servers share, takes nothing from the others (bootstrap.go:15,  *)
(* bridge.go:31).                                                           *)
BootComplete ==
    task[Boot].at \notin {"register", "listed"} /\ task[Boot].for # "list"
        => \A k \in DOMAIN conns :
              conns[k].boot /\ conns[k].listed =>
                  \A t \in ToolsOf[conns[k].name] :
                      registry[t] # Nobody /\ t \in ToolsOf[registry[t]]
=============================================================================
