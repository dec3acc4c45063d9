---- MODULE HttpServer ----
(***************************************************************************)
(* src/runtime/http_server.go and http_server_events.go: the listeners of  *)
(* an HTTP server, the goroutines that emit its events, and its two        *)
(* channels of one place each, for its address and for its last error.     *)
(*                                                                         *)
(* An emission copies the listeners under a lock and calls them without    *)
(* it.  Listeners run in the goroutine that emits and may call any method. *)
(* routine[g] is what the goroutine g has to do, innermost first.  Of      *)
(* net/http only what the code uses is modelled: Serve accepts, fails or   *)
(* is closed; Shutdown waits for connections until its time is over.       *)
(***************************************************************************)
EXTENDS Naturals, Sequences, SequencesExt, FiniteSetsExt

CONSTANTS
  Mains,              (* goroutines of the program                          *)
  Serves,             (* goroutines that Listen starts                      *)
  Connections,        (* goroutines that net/http starts                    *)
  ServerPrograms,     (* what programs do: the events they listen for, the  *)
                      (* calls they make                                    *)
  MaxServerListeners, (* over a behaviour                                   *)
  MaxServerCalls      (* calls and connections over a behaviour             *)

ASSUME HttpServerAssumption == {MaxServerListeners, MaxServerCalls} \subseteq Nat

VARIABLES
  listeners,   (* events.listeners: by event, the numbers of listeners      *)
  registered,  (* every listener there ever was, by number; with what has   *)
               (* been made of it, as history                               *)
  routine,
  address,     (* what is in server.listener                                *)
  lastError,   (* what is in server.errs                                    *)
  shutdown,    (* of the nethttp.Server                                     *)
  program,
  (* --- history --- *)
  published, serverCalls

httpVars == <<listeners, registered, routine, address, lastError, shutdown, program,
              published, serverCalls>>

ServerEvents == {"request", "connection", "listening", "close", "error", "clientError",
                 "upgrade"}
Goroutines == Mains \union Serves \union Connections

ASSUME ServerProgramsAssumption == \A p \in ServerPrograms : p.events \subseteq ServerEvents

HttpServerInit ==
  /\ program \in ServerPrograms
  /\ listeners = [e \in ServerEvents |-> <<>>] /\ registered = <<>>
  /\ routine = [g \in Goroutines |-> <<>>]
  /\ address = 0 /\ lastError = 0 /\ shutdown = FALSE
  /\ published = 0 /\ serverCalls = 0

----------------------------------------------------------------------------
(* What goroutines have to do.                                             *)
To(what) == [do |-> what]
Emits(e) == [do |-> "emit", event |-> e]
EmitsError(e) == <<Emits(e), Emits("error")>>
Doing(g, what) == routine[g] # <<>> /\ Head(routine[g]).do = what
Does(g, steps) == routine' = [routine EXCEPT ![g] = steps \o @]
DoesInstead(g, steps) == routine' = [routine EXCEPT ![g] = steps \o Tail(@)]

RunsProgram(g) == (g \in Mains /\ routine[g] = <<>>) \/ Doing(g, "handler")
ServerCalling(g, method) ==
  /\ RunsProgram(g)
  /\ method \in program.calls /\ serverCalls < MaxServerCalls
  /\ serverCalls' = serverCalls + 1

KeepRegistered == UNCHANGED <<listeners, registered, program>>
KeepServer == UNCHANGED <<address, lastError, shutdown, program, published>>

----------------------------------------------------------------------------
(* Listeners.                                                              *)
ServerOn(g, e, once) ==
  /\ RunsProgram(g) /\ Len(registered) < MaxServerListeners
  /\ registered' = Append(registered,
       [event |-> e, once |-> once, removed |-> FALSE, due |-> 0, heard |-> 0,
        overlapped |-> FALSE])
  /\ listeners' = [listeners EXCEPT ![e] = Append(@, Len(registered) + 1)]
  /\ KeepServer /\ UNCHANGED <<routine, serverCalls>>

(* A mistake: the listener is looked up by its place, not by its number.   *)
WithoutPlace(list, id) == IF id \in DOMAIN list THEN RemoveAt(list, id) ELSE list

Without(list, id) == RemoveFirst(list, id)

Removes(e, id) ==
  /\ listeners' = [listeners EXCEPT ![e] = Without(@, id)]
  /\ registered' = [registered EXCEPT ![id].removed = TRUE]

ServerOff(g, id) ==
  /\ ServerCalling(g, "off")
  /\ Removes(registered[id].event, id)
  /\ KeepServer /\ UNCHANGED routine

RemoveAllListeners(g, e) ==
  /\ ServerCalling(g, "off")
  /\ listeners' = [listeners EXCEPT ![e] = <<>>]
  /\ registered' = [id \in DOMAIN registered |->
                      IF registered[id].event = e THEN [registered[id] EXCEPT !.removed = TRUE]
                                                  ELSE registered[id]]
  /\ KeepServer /\ UNCHANGED routine

----------------------------------------------------------------------------
(* Emissions: copy the listeners, call them one by one, take away those    *)
(* given to once after their call.                                         *)
Telling(id) ==
  {g \in Goroutines : \E i \in DOMAIN routine[g] :
     LET step == routine[g][i]
     IN \/ step.do = "tell" /\ id \in Range(step.left)
        \/ step.do = "forget" /\ step.id = id}

Snapshot(g) ==
  LET e == Head(routine[g]).event
      taken == Range(listeners[e])
  IN /\ Doing(g, "emit")
     /\ DoesInstead(g, IF listeners[e] = <<>> THEN <<>>
                       ELSE <<[do |-> "tell", event |-> e, left |-> listeners[e]]>>)
     /\ registered' = [id \in DOMAIN registered |->
          IF id \in taken
          THEN [registered[id] EXCEPT !.due = @ + 1, !.overlapped = @ \/ Telling(id) # {}]
          ELSE registered[id]]
     /\ UNCHANGED <<listeners, serverCalls>> /\ KeepServer

Tell(g) ==
  LET step == Head(routine[g])
      id == Head(step.left)
      rest == IF Len(step.left) = 1 THEN <<>> ELSE <<[step EXCEPT !.left = Tail(@)]>>
  IN /\ Doing(g, "tell")
     /\ registered' = [registered EXCEPT ![id].heard = @ + 1]
     /\ DoesInstead(g, <<To("handler")>>
          \o (IF registered[id].once THEN <<[do |-> "forget", event |-> step.event, id |-> id]>>
                                     ELSE <<>>)
          \o rest)
     /\ UNCHANGED <<listeners, serverCalls>> /\ KeepServer

HandlerReturns(g) ==
  /\ Doing(g, "handler")
  /\ DoesInstead(g, <<>>)
  /\ KeepRegistered /\ KeepServer /\ UNCHANGED serverCalls

Forget(g) ==
  /\ Doing(g, "forget")
  /\ Removes(Head(routine[g]).event, Head(routine[g]).id)
  /\ DoesInstead(g, <<>>)
  /\ UNCHANGED serverCalls /\ KeepServer

ServerEmit(g, e) ==
  /\ ServerCalling(g, "emit")
  /\ Does(g, <<Emits(e)>>)
  /\ KeepRegistered /\ KeepServer

----------------------------------------------------------------------------
(* Listening.  The address is sent before the event, and Serve started     *)
(* after it.                                                               *)
Listen(g) ==
  /\ ServerCalling(g, "listen")
  /\ \/ Does(g, <<To("publish"), Emits("listening"), To("go")>>)
     \/ Does(g, EmitsError("error"))
  /\ KeepRegistered /\ KeepServer

Publish(g) ==
  /\ Doing(g, "publish") /\ address = 0
  /\ address' = 1 /\ published' = published + 1
  /\ DoesInstead(g, <<>>)
  /\ UNCHANGED <<lastError, shutdown, serverCalls>> /\ KeepRegistered

StartServe(g, s) ==
  /\ Doing(g, "go") /\ routine[s] = <<>>
  /\ routine' = [routine EXCEPT ![g] = Tail(@), ![s] = <<To("go serve")>>]
  /\ KeepRegistered /\ KeepServer /\ UNCHANGED serverCalls

(* Addr takes the address out of the channel and puts it back.             *)
Addr(g) ==
  /\ ServerCalling(g, "addr")
  /\ IF address = 1 THEN Does(g, <<To("put back")>>) ELSE UNCHANGED routine
  /\ address' = 0
  /\ UNCHANGED <<lastError, shutdown, published>> /\ KeepRegistered

PutBack(g) ==
  /\ Doing(g, "put back") /\ address = 0
  /\ address' = 1
  /\ DoesInstead(g, <<>>)
  /\ UNCHANGED <<lastError, shutdown, published, serverCalls>> /\ KeepRegistered

----------------------------------------------------------------------------
(* Serving.  The connection's event is emitted by the goroutine that       *)
(* accepts; net/http then starts the connection's own.  A request emits no *)
(* protocol event or some; one stands for all of them.                     *)
ServeStarts(s) ==
  /\ Doing(s, "go serve")
  /\ DoesInstead(s, IF shutdown THEN <<>> ELSE <<To("serve")>>)
  /\ KeepRegistered /\ KeepServer /\ UNCHANGED serverCalls

AcceptConnection(s, c) ==
  /\ Doing(s, "serve") /\ ~shutdown
  /\ routine[c] = <<>> /\ serverCalls < MaxServerCalls
  /\ serverCalls' = serverCalls + 1
  /\ routine' = [routine EXCEPT ![s] = <<Emits("connection"), [do |-> "start", connection |-> c]>> \o @,
                                ![c] = <<To("wait")>>]
  /\ KeepRegistered /\ KeepServer

StartConnection(s) ==
  LET c == Head(routine[s]).connection IN
  /\ Doing(s, "start")
  /\ \E events \in {<<Emits("request")>>, <<Emits("upgrade"), Emits("request")>>,
                    EmitsError("clientError")} :
        routine' = [routine EXCEPT ![s] = Tail(@), ![c] = events]
  /\ KeepRegistered /\ KeepServer /\ UNCHANGED serverCalls

(* Serve answers that the server is closed, or an error.                   *)
ServeReturns(s) ==
  /\ Doing(s, "serve")
  /\ \/ shutdown /\ DoesInstead(s, <<>>)
     \/ ~shutdown /\ DoesInstead(s, EmitsError("error") \o <<To("report")>>)
  /\ KeepRegistered /\ KeepServer /\ UNCHANGED serverCalls

Report(s) ==
  /\ Doing(s, "report") /\ lastError = 0
  /\ lastError' = 1
  /\ DoesInstead(s, <<>>)
  /\ UNCHANGED <<address, shutdown, published, serverCalls>> /\ KeepRegistered

LastError(g) ==
  /\ ServerCalling(g, "last error")
  /\ lastError' = 0
  /\ UNCHANGED <<address, shutdown, published, routine>> /\ KeepRegistered

----------------------------------------------------------------------------
(* Closing.                                                                *)
ServerClose(g) ==
  /\ ServerCalling(g, "close")
  /\ shutdown' = TRUE
  /\ Does(g, <<To("shut down")>>)
  /\ UNCHANGED <<address, lastError, published>> /\ KeepRegistered

(* Shutdown waits for Serve without a limit, and for connections as long   *)
(* as its context allows.                                                  *)
ShutdownReturns(g) ==
  LET connected == \E c \in Connections : routine[c] # <<>> IN
  /\ Doing(g, "shut down")
  /\ \A s \in Serves : To("serve") \notin Range(routine[s])
  /\ DoesInstead(g, IF connected THEN EmitsError("error") ELSE <<Emits("close")>>)
  /\ KeepRegistered /\ KeepServer /\ UNCHANGED serverCalls

HttpServerNext ==
  \/ \E g \in Goroutines :
       \/ \E e \in program.events :
            \/ \E once \in BOOLEAN : ServerOn(g, e, once)
            \/ RemoveAllListeners(g, e) \/ ServerEmit(g, e)
       \/ \E id \in DOMAIN registered : ServerOff(g, id)
       \/ Snapshot(g) \/ Tell(g) \/ HandlerReturns(g) \/ Forget(g)
       \/ Listen(g) \/ Publish(g) \/ Addr(g) \/ PutBack(g) \/ LastError(g)
       \/ ServerClose(g) \/ ShutdownReturns(g)
       \/ \E s \in Serves : StartServe(g, s)
  \/ \E s \in Serves :
       \/ \E c \in Connections : AcceptConnection(s, c)
       \/ ServeStarts(s) \/ StartConnection(s) \/ ServeReturns(s) \/ Report(s)

HttpServerSpec == HttpServerInit /\ [][HttpServerNext]_httpVars

----------------------------------------------------------------------------
(* Listeners are numbers of listeners, channels hold at most one thing,    *)
(* goroutines have steps to do that the code has.                          *)
HttpServerTypeOK ==
  /\ program \in ServerPrograms /\ shutdown \in BOOLEAN
  /\ \A e \in ServerEvents : \A i \in DOMAIN listeners[e] :
        listeners[e][i] \in DOMAIN registered /\ registered[listeners[e][i]].event = e
  /\ {address, lastError} \subseteq {0, 1}
  /\ \A g \in Goroutines : \A i \in DOMAIN routine[g] :
        routine[g][i].do \in {"emit", "tell", "handler", "forget", "publish", "go", "put back",
                              "go serve", "serve", "start", "wait", "report", "shut down"}
  /\ serverCalls \in 0..MaxServerCalls

(* The emissions under way that are still to call a listener, each by its  *)
(* goroutine and its place in what that goroutine has to do.               *)
StillTelling(id) ==
  UNION {{<<g, n>> : n \in {n \in 0..(Len(routine[g]) - 1) :
                              LET step == routine[g][Len(routine[g]) - n]
                              IN step.do = "tell" /\ id \in Range(step.left)}} : g \in Goroutines}

(* Whatever goroutines and listeners do meanwhile, listeners are only lost *)
(* by their own removal; an emission calls each of those that were there   *)
(* at its start exactly once, in the order of registration; one given to   *)
(* once is taken away after its call and called again only by an emission  *)
(* that began before that.  (events.on, off, emit, snapshot)               *)
ListenersHear ==
  /\ \A e \in ServerEvents :
        /\ Range(listeners[e]) =
             {id \in DOMAIN registered : registered[id].event = e /\ ~registered[id].removed}
        /\ \A i, j \in DOMAIN listeners[e] : i < j => listeners[e][i] < listeners[e][j]
  /\ \A id \in DOMAIN registered :
        LET r == registered[id] IN
        /\ r.heard + Cardinality(StillTelling(id)) = r.due
        /\ r.once /\ r.due > 1 => r.overlapped
        /\ r.once /\ r.heard > 0 /\ Telling(id) = {} => r.removed

(* A published address stays in the channel, or is in the hands of one who *)
(* is about to put it back.  (Listen, Addr)                                *)
AddressKept ==
  published = address + Cardinality({g \in Goroutines : \E i \in DOMAIN routine[g] :
                                       routine[g][i].do = "put back"})

(* What a server was given and told, it keeps and passes on.               *)
ServerKeeps == ListenersHear /\ AddressKept
====
