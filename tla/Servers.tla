------------------------------- MODULE Servers -------------------------------
(***************************************************************************)
(* A program with an HTTP server (HttpServer) and a WebSocket server       *)
(* (WsServer) whose clients the functions of its requests tell of what     *)
(* they do. A goroutine of the program is that of a request.               *)
(***************************************************************************)
EXTENDS HttpServer, WsServer

CONSTANT Uses     \* what programs use: among "http", "ws" and "both"

ASSUME ServersAssumption == "both" \in Uses => Requests \subseteq Scripts

VARIABLE use      \* what this program uses

vars == <<use, httpVars, wsVars>>

ServersInit == use \in Uses /\ HttpInit /\ WsInit /\ (use = "both" => fallback)

(* While its function writes to a client a request does nothing else.      *)
Attends(r) == Free(r) /\ (Return(r) \/ send(r, "typed", 0))
ExitBoth == ~listens /\ Exit    \* a server that is served keeps the process alive

HttpOfBoth ==
    \/ \E r \in Requests, method \in Methods, path \in Paths : Arrive(r, method, path)
    \/ \E r \in Requests : Handles_(r) \/ Attends(r)
    \/ \E who \in {Main} \cup Requests : (who \in Requests => Free(who)) /\ close(who)
    \/ \E who \in Closers : Drained(who) \/ Timeout(who)
    \/ listen \/ ScriptEnds \/ ExitBoth
WsOfBoth ==
    \/ \E c \in Conns : Goes(c) \/ Peer(c)
    \/ \E g \in Scripts : Works(g)
    \/ CloseServer
    \/ \E r \in Requests : req[r].phase \in Functions /\ closes[r] # "waits" /\ Broadcast(r)

ServersNext ==
    /\ UNCHANGED use
    /\ \/ use = "http" /\ HttpNext /\ UNCHANGED wsVars
       \/ use = "ws" /\ WsNext /\ UNCHANGED httpVars
       \/ use = "both" /\ HttpOfBoth /\ UNCHANGED wsVars
       \/ use = "both" /\ Up /\ WsOfBoth /\ UNCHANGED httpVars

(* Scripts run, functions return and a timer fires: what the program does  *)
(* by itself goes on. What a peer does is up to the peer.                  *)
GoesOn ==
    /\ UNCHANGED use
    /\ \/ /\ UNCHANGED wsVars
          /\ \/ \E r \in Requests : Handles_(r) \/ (Free(r) /\ Return(r))
             \/ \E who \in Closers : Drained(who) \/ Timeout(who)
       \/ Up /\ WsMoves /\ UNCHANGED httpVars

ServersSpec == ServersInit /\ [][ServersNext]_vars /\ WF_vars(GoesOn)

==============================================================================
