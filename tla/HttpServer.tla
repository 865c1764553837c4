----------------------------- MODULE HttpServer -----------------------------
(***************************************************************************)
(* A server of std.http (internal/std/http.go): its table of routes, to    *)
(* which the program may add while requests are served, the goroutine of   *)
(* each request with the functions of the program it calls, and close.     *)
(* A path is the sequence of its parts; a function of the program makes    *)
(* any sequence of calls on res, and names a header in any spelling.       *)
(***************************************************************************)
EXTENDS Integers, Sequences, SequencesExt, FiniteSets, Ordered

CONSTANTS
    Requests,
    Methods, Paths,    \* of the requests
    Entries,           \* routes the program may add: [use, method, pattern, calls]
    Timers,            \* callbacks of timers and goroutines that may close the server
    MaxRoutes,         \* bound: routes added
    MaxCalls           \* bound: routes added, calls of close and calls on res, together

ASSUME HttpAssumption ==
    /\ MaxRoutes \in Nat /\ MaxCalls \in Nat
    /\ \A e \in Entries : e.use => e.calls # "nothing"

AnyMethod == "any"          \* the method of all and use
Headers == {"Content-Type", "Cache-Control", "Set-Cookie"}
Spellings == Headers \cup {"cache-control"}
canonical(k) == IF k = "cache-control" THEN "Cache-Control" ELSE k
None == 0              \* no header of this name; a value is the number of the
Own == -1              \* call that set it, or the type the answer itself has
Default == 0           \* the handler given to createServer
Static == -1           \* who answers: a static directory, the server itself or
Server == -2           \* a goroutine that was started by a function
Late == -3

VARIABLES
    routes,     \* s.routes
    fallback,   \* whether createServer was given a handler
    req,        \* per request: its goroutine, w and res
    server,     \* "new", "open", "closed"
    closes,     \* per goroutine, its call of close: "none", "waits", "drained", "timeout"
    main,       \* the script: "runs" or "done"
    gone        \* whether the process has exited

serverVars == <<server, closes, main, gone>>
httpVars == <<routes, fallback, req, serverVars>>

\* ran, known and asked: the functions called, the routes there were, the calls
NoRequest == [phase |-> "none", method |-> AnyMethod, path |-> <<>>, chain |-> <<>>, handler |-> Server,
              sent |-> FALSE, status |-> 0, pending |-> [k \in Spellings |-> None],
              headers |-> [h \in Headers |-> None], value |-> FALSE,
              leaked |-> FALSE, answers |-> <<>>, ran |-> <<>>, known |-> 0, asked |-> <<>>]

Main == "main"
Closers == {Main} \cup Timers \cup Requests

HttpInit ==
    /\ routes = <<>> /\ fallback \in BOOLEAN
    /\ req = [r \in Requests |-> NoRequest]
    /\ server = "new" /\ closes = [who \in Closers |-> "none"]
    /\ main = "runs" /\ gone = FALSE

(***************************************************************************)
(* The table of routes.                                                    *)
(***************************************************************************)
Stars(pattern) == {i \in DOMAIN pattern : pattern[i] = "*"}
Literal(pattern) == {i \in DOMAIN pattern : \A k \in Stars(pattern) : i < k}
IsParam(part) == part \in {":id"}

matchRoute(pattern, path) ==
    \/ pattern = path
    \/ /\ Len(pattern) = Len(path) \/ (pattern # <<>> /\ Last(pattern) = "*")
       /\ \A i \in Literal(pattern) :
             i \in DOMAIN path /\ (IsParam(pattern[i]) \/ pattern[i] = path[i])

matchPrefix(pattern, path) == IsPrefix(pattern, path)

Guards(e, q) == e.use /\ matchPrefix(e.pattern, q.path)
Handles(e, q) == ~e.use /\ e.method \in {AnyMethod, q.method} /\ matchRoute(e.pattern, q.path)

(* The first route that matches, and the use entries before it.            *)
Matching(q) == {i \in DOMAIN routes : Handles(routes[i], q)}
First(q) == IF Matching(q) = {} THEN Server ELSE CHOOSE i \in Matching(q) : \A k \in Matching(q) : i <= k
Before(q) == IF First(q) = Server THEN Len(routes) ELSE First(q)
ChainToAnyRoute(q) ==    \* mutant: a route of another method ends the search
    LET ends(i) == \E k \in 1..i : ~routes[k].use /\ matchRoute(routes[k].pattern, q.path)
    IN  Ascending({i \in 1..Before(q) : Guards(routes[i], q) /\ ~ends(i)})
Chain(q) == Ascending({i \in 1..Before(q) : Guards(routes[i], q)})

Up == ~gone

Register(e) ==
    /\ Up /\ Len(routes) < MaxRoutes /\ routes' = Append(routes, e)
    /\ UNCHANGED <<fallback, req, serverVars>>

Arrive(r, method, path) ==
    /\ Up /\ server = "open" /\ req[r].phase = "none"
    /\ req' = [req EXCEPT ![r].phase = "arrives", ![r].method = method, ![r].path = path]
    /\ UNCHANGED <<routes, fallback, serverVars>>

Route(r) ==
    LET q == req[r]
    IN  /\ Up /\ q.phase = "arrives"
        /\ req' = [req EXCEPT ![r].phase = "chain", ![r].known = Len(routes),
                              ![r].chain = Chain(q), ![r].handler = First(q)]
        /\ UNCHANGED <<routes, fallback, serverVars>>

(***************************************************************************)
(* The functions of the program: middleware, the handler of the route, or  *)
(* else the handler of createServer.                                       *)
(***************************************************************************)
Functions == {"middleware", "handler"}
Enter(r, i, phase) == [req[r] EXCEPT !.phase = phase, !.ran = Append(@, i)]
Typed(headers) == [headers EXCEPT !["Content-Type"] = Own]
Answer(r, by, status, headers) ==
    [req[r] EXCEPT !.answers = Append(@, [by |-> by, status |-> status, headers |-> headers])]

Middleware(r) ==
    LET q == req[r]
        i == Head(q.chain)
        rest == Tail(q.chain)
    IN  /\ Up /\ q.phase = "chain" /\ ~q.sent /\ q.chain # <<>>
        /\ \/ /\ routes[i].calls = "function"
              /\ req' = [req EXCEPT ![r] = [Enter(r, i, "middleware") EXCEPT !.chain = rest]]
           \/ /\ routes[i].calls = "files"    \* one has the name of the path, or none
              /\ \/ req' = [req EXCEPT ![r] = [Answer(r, Static, 200, Typed(q.headers)) EXCEPT !.phase = "done"]]
                 \/ req' = [req EXCEPT ![r].chain = rest]
        /\ UNCHANGED <<routes, fallback, serverVars>>

Stop(r) ==
    /\ Up /\ req[r].phase = "chain" /\ req[r].sent
    /\ req' = [req EXCEPT ![r].phase = "done"]
    /\ UNCHANGED <<routes, fallback, serverVars>>

HandlerAnyway(r) ==    \* mutant: a middleware may have answered
    LET q == req[r]
        i == q.handler
    IN  /\ Up /\ q.phase = "chain" /\ q.chain = <<>>
        /\ req' = [req EXCEPT ![r] =
              IF i # Server /\ routes[i].calls = "function" THEN Enter(r, i, "handler")
              ELSE IF fallback THEN Enter(r, Default, "handler")
              ELSE [q EXCEPT !.phase = "replies"]]
        /\ UNCHANGED <<routes, fallback, serverVars>>
Handler(r) ==
    LET q == req[r]
        i == q.handler
    IN  /\ Up /\ q.phase = "chain" /\ ~q.sent /\ q.chain = <<>>
        /\ req' = [req EXCEPT ![r] =
              IF i # Server /\ routes[i].calls = "function" THEN Enter(r, i, "handler")
              ELSE IF fallback THEN Enter(r, Default, "handler")
              ELSE [q EXCEPT !.phase = "replies"]]
        /\ UNCHANGED <<routes, fallback, serverVars>>

(* What a function returns is kept; nothing, when it failed.               *)
Return(r) ==
    LET q == req[r]
    IN  /\ Up /\ q.phase \in Functions /\ closes[r] # "waits"
        /\ \E value \in BOOLEAN :
              req' = [req EXCEPT ![r].value = value,
                                 ![r].phase = IF q.phase = "handler" THEN "replies" ELSE "chain"]
        /\ UNCHANGED <<routes, fallback, serverVars>>

(* The answer of the server when no function gave one.                     *)
Reply(r) ==
    LET q == req[r]
    IN  /\ Up /\ q.phase = "replies"
        /\ req' = [req EXCEPT ![r] =
              IF q.sent THEN [q EXCEPT !.phase = "done"]
              ELSE [Answer(r, Server, IF q.value THEN 200 ELSE 404, Typed(q.headers)) EXCEPT !.phase = "done"]]
        /\ UNCHANGED <<routes, fallback, serverVars>>

(***************************************************************************)
(* The calls of a function on res. Once there is an answer they do nothing.*)
(***************************************************************************)
Calls(r) == Len(req[r].asked) + Len(routes) + Cardinality({who \in Closers : closes[who] # "none"})
Asks(r) == Up /\ req[r].phase \in Functions /\ ~req[r].sent /\ Calls(r) < MaxCalls
Asked(r, what, x) == [req[r] EXCEPT !.asked = Append(@, <<what, x>>)]
Number(r) == Len(req[r].asked) + 1    \* of the next call

setStatus(r, code) ==
    /\ Asks(r) /\ req' = [req EXCEPT ![r] = [Asked(r, "status", code) EXCEPT !.status = code]]
    /\ UNCHANGED <<routes, fallback, serverVars>>

setHeader(r, k) ==
    /\ Asks(r) /\ req' = [req EXCEPT ![r] = [Asked(r, "header", k) EXCEPT !.pending[k] = Number(r)]]
    /\ UNCHANGED <<routes, fallback, serverVars>>

(* A cookie goes to w at once.                                             *)
cookie(r) ==
    /\ Asks(r) /\ req' = [req EXCEPT ![r] =
                     [Asked(r, "cookie", "Set-Cookie") EXCEPT !.headers["Set-Cookie"] = Number(r)]]
    /\ UNCHANGED <<routes, fallback, serverVars>>

(* What is pending goes under its spelling, what w has under any.          *)
removePending(r, k) ==    \* mutant: leaves what w has
    /\ Asks(r) /\ req' = [req EXCEPT ![r] = [Asked(r, "none", k) EXCEPT !.pending[k] = None]]
    /\ UNCHANGED <<routes, fallback, serverVars>>
removeHeader(r, k) ==
    /\ Asks(r) /\ req' = [req EXCEPT ![r] = [Asked(r, "none", k) EXCEPT
                     !.pending[k] = None, !.headers[canonical(k)] = None]]
    /\ UNCHANGED <<routes, fallback, serverVars>>

(* json, send, text and html ("typed") and end take the pending status,    *)
(* redirect 302, http.json 200; all but end may be given one.              *)
Replies == {"typed", "end", "redirect", "http.json"}
Status(q, how, code) ==
    CASE code # 0           -> code
      [] how = "redirect"   -> 302
      [] how = "http.json"  -> 200
      [] OTHER              -> IF q.status > 0 THEN q.status ELSE 200

(* Of the spellings of a name that are pending, one that the map names     *)
(* last, which is any, wins.                                               *)
PendingOf(q, h) == {q.pending[k] : k \in {k \in Spellings : canonical(k) = h}} \ {None}
Flushes(q) ==
    {w \in [Headers -> Range(q.headers) \cup Range(q.pending)] : \A h \in Headers :
        w[h] \in IF PendingOf(q, h) = {} THEN {q.headers[h]} ELSE PendingOf(q, h)}

(* The type of what is sent replaces one that was set; that of redirect    *)
(* does not.                                                               *)
Sets(how, w) ==
    \/ how \in {"typed", "http.json"}
    \/ how = "redirect" /\ w["Content-Type"] = None

Sends(r, by, how, code) ==
    \E w \in Flushes(req[r]) :
        LET written == IF Sets(how, w) THEN Typed(w) ELSE w
        IN  req' = [req EXCEPT ![r] = [Answer(r, by, Status(req[r], how, code), written) EXCEPT
                !.sent = TRUE, !.headers = written, !.pending = NoRequest.pending,
                !.asked = Append(@, <<how, code>>)]]

send(r, how, code) ==
    /\ Up /\ req[r].phase \in Functions /\ ~req[r].sent
    /\ Sends(r, Last(req[r].ran), how, code)
    /\ UNCHANGED <<routes, fallback, serverVars>>

(* A goroutine a function starts keeps res, and may answer at any time.    *)
Spawn(r) ==
    /\ Asks(r) /\ ~req[r].leaked
    /\ req' = [req EXCEPT ![r] = [Asked(r, "spawn", 0) EXCEPT !.leaked = TRUE]]
    /\ UNCHANGED <<routes, fallback, serverVars>>
sendLate(r) ==
    /\ Up /\ req[r].leaked /\ ~req[r].sent /\ Sends(r, Late, "typed", 0)
    /\ UNCHANGED <<routes, fallback, serverVars>>

(***************************************************************************)
(* The server: listen, close (Shutdown of net/http stops Serve at once and *)
(* returns when no request is under way, or after five seconds), and the   *)
(* process, which lives while the script runs or a server is served. Only  *)
(* these two keep it: a callback of a timer, a goroutine or a request that *)
(* waits in close does not.                                                *)
(***************************************************************************)
Busy == {r \in Requests : req[r].phase \notin {"none", "done"}}

listen ==
    /\ Up /\ main = "runs" /\ server = "new" /\ server' = "open"
    /\ UNCHANGED <<routes, fallback, req, closes, main, gone>>

(* Each goroutine may call it, once (a bound), and after others did.       *)
close(who) ==
    /\ Up /\ server # "new" /\ closes[who] = "none"
    /\ who = Main => main = "runs"
    /\ who \in Requests => req[who].phase \in Functions
    /\ \A r \in Requests : Calls(r) < MaxCalls
    /\ server' = "closed" /\ closes' = [closes EXCEPT ![who] = "waits"]
    /\ UNCHANGED <<routes, fallback, req, main, gone>>

Drained(who) ==
    /\ Up /\ closes[who] = "waits" /\ Busy = {}
    /\ closes' = [closes EXCEPT ![who] = "drained"]
    /\ UNCHANGED <<routes, fallback, req, server, main, gone>>
Timeout(who) ==
    /\ Up /\ closes[who] = "waits" /\ Busy # {}
    /\ closes' = [closes EXCEPT ![who] = "timeout"]
    /\ UNCHANGED <<routes, fallback, req, server, main, gone>>

ScriptEndsWhileClosing ==    \* mutant: close does not wait for Shutdown
    /\ Up /\ main = "runs" /\ main' = "done"
    /\ UNCHANGED <<routes, fallback, req, server, closes, gone>>
ScriptEnds ==
    /\ Up /\ main = "runs" /\ closes[Main] # "waits" /\ main' = "done"
    /\ UNCHANGED <<routes, fallback, req, server, closes, gone>>

Exit ==
    /\ Up /\ main = "done" /\ server # "open" /\ gone' = TRUE
    /\ UNCHANGED <<routes, fallback, req, server, closes, main>>

ServerSteps == \E who \in Closers : close(who) \/ Drained(who) \/ Timeout(who)
Handles_(r) == Route(r) \/ Middleware(r) \/ Stop(r) \/ Handler(r) \/ Reply(r)
Function(r) ==
    \/ \E code \in {201} : setStatus(r, code)
    \/ cookie(r) \/ Spawn(r)
    \/ \E k \in Spellings : setHeader(r, k) \/ removeHeader(r, k)
    \/ send(r, "typed", 400)
    \/ \E how \in Replies : send(r, how, 0)

HttpNext ==
    \/ \E e \in Entries : Register(e)
    \/ \E r \in Requests : Handles_(r) \/ Return(r) \/ Function(r) \/ sendLate(r)
    \/ \E r \in Requests, method \in Methods, path \in Paths : Arrive(r, method, path)
    \/ listen \/ ServerSteps \/ ScriptEnds \/ Exit

-----------------------------------------------------------------------------
(* A request is answered once, and the function that answers is the last   *)
(* the server calls for it: neither the chain nor the handler nor the      *)
(* answer by what was returned follows (http.go:530-577). A function that  *)
(* hands res to a goroutine gives this up.                                 *)
AnsweredOnce ==
    \A r \in Requests : LET q == req[r] IN ~q.leaked =>
        /\ Len(q.answers) <= 1
        /\ q.phase = "done" => q.answers # <<>>
        /\ \A i \in DOMAIN q.answers :
              q.answers[i].by \notin {Static, Server} => q.answers[i].by = Last(q.ran)

(* The calls on res that were about a header, in whatever spelling; one    *)
(* way, if they all use one, and not both cookie and setHeader. The last   *)
(* of them tells the value.                                                *)
LastOf(S) == {i \in S : \A j \in S : j <= i}
About(asked, h) ==
    {i \in DOMAIN asked : asked[i][1] \in {"header", "cookie", "none"} /\ canonical(asked[i][2]) = h}
OneWay(asked, h) ==
    \A i, j \in About(asked, h) : asked[i][2] = asked[j][2] /\ {asked[i][1], asked[j][1]} # {"header", "cookie"}
HeaderAsked(asked, h) ==
    IF About(asked, h) = {} THEN {None}
    ELSE {IF asked[i][1] = "none" THEN None ELSE i : i \in LastOf(About(asked, h))}
StatusAsked(asked) ==
    {asked[i][2] : i \in LastOf({i \in DOMAIN asked : asked[i][1] = "status"})}

(* The answer a function gives carries the status that the functions       *)
(* called until then asked for last, and every header as they asked for it *)
(* last, removals included, as long as the calls about that header are of  *)
(* one way; but the type of content is the one of json, send, text or html *)
(* whatever was set, and redirect and http.json have a status of their own *)
(* (http.go:132-364).                                                      *)
AnswerCarries ==
    \A r \in Requests : \A i \in DOMAIN req[r].answers :
        LET a == req[r].answers[i]
            asked == req[r].asked
            how == Last(asked)[1]
            typed(h) ==
                /\ h = "Content-Type" /\ how # "end"
                /\ how = "redirect" => HeaderAsked(asked, h) = {None}
        IN  a.by \notin {Static, Server} =>
                /\ \A h \in Headers : OneWay(asked, h) =>
                      a.headers[h] \in IF typed(h) THEN {Own} ELSE HeaderAsked(asked, h)
                /\ Last(asked) \in {<<"typed", 0>>, <<"end", 0>>} =>
                      a.status \in IF StatusAsked(asked) = {} THEN {200} ELSE StatusAsked(asked)

(* The handler of a request runs after every function of use that was      *)
(* added before the route and whose prefix the path has, and those in the  *)
(* order they were added, whatever is added meanwhile (http.go:497-515).   *)
GuardsRun ==
    \A r \in Requests : LET q == req[r] IN
        /\ \A i, j \in DOMAIN q.ran : i < j /\ q.ran[j] # Default => q.ran[i] < q.ran[j]
        /\ q.phase = "handler" =>
              \A i \in 1..q.known :
                  Guards(routes[i], q) /\ routes[i].calls = "function" /\ (q.handler = Server \/ i < q.handler)
                  => i \in Range(q.ran)

(* stdlib.md:770: use registers "middleware run before route handlers". It *)
(* does not hold of a route that was added before the call of use.         *)
UseRuns ==
    \A r \in Requests : LET q == req[r] IN q.phase = "handler" =>
        \A i \in 1..q.known : Guards(routes[i], q) /\ routes[i].calls = "function" => i \in Range(q.ran)

(* When the script closes the server, no request that was under way is cut *)
(* off by the end of the process, whoever else closes it before, meanwhile *)
(* or after, but one that takes longer than the script waits               *)
(* (http.go:589-594). A close of a timer, a goroutine or a request alone   *)
(* promises nothing: the script may have ended, and then nothing waits.    *)
NoneCut == gone /\ closes[Main] \in {"waits", "drained"} => Busy = {}
=============================================================================
