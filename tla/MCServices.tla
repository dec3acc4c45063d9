---- MODULE MCServices ----
(* Instances of the scheduler, the worker threads, streams, shared memory, *)
(* bigints, the storage and the HTTP server.                               *)
EXTENDS Services

MCHandlers == {<<"fn", "none">>, <<"none", "fn">>, <<"bad", "none">>}

MCPrograms ==
  {{"sleep", "settled", kind} : kind \in Combinators}
    \union {{"sleep", "then", "throw"}, {"sleep", "then", "any"}, {"sleep", "finally"},
            {"sleep", "then", "finally"}, {"sleep", "race", "await"}, {"io", "then", "await"},
            {"timer", "clear", "sleep", "then"}}

Script(kind, events, methods) == [kind |-> kind, events |-> events, calls |-> methods]

MCScripts ==
  {Script("WriteStream", {"finish", "drain"}, {"write", "end", "off"}),
   Script("WriteStream", {"finish", "error"}, {"write", "end", "throw"}),
   Script("ReadStream", {"end", "error"}, {"read", "close", "data"}),
   Script("CompressionStream", {"end", "drain"}, {"write", "end", "read"}),
   Script("CompressionStream", {"finish", "error"}, {"write", "end", "data"}),
   Script("Socket", {"close", "error"}, {"read", "close", "off"}),
   Script("Socket", {"close", "drain"}, {"write", "close", "throw"}),
   Script("Server", {"connection", "close"}, {"accept", "close", "off"}),
   Script("Watcher", {"change", "close"}, {"poll", "close", "throw"})}

MCOperands ==
  UNION {{-n, n} : n \in (0..9) \union (14..18) \union (31..33) \union (127..129) \union (254..258)}
MCShifts == {-1, 0, 1, 3, 4, 5}

ServerProgram(events, methods) == [events |-> events, calls |-> methods]
MCServerPrograms ==
  {ServerProgram({"request"}, {"emit", "off"}),
   ServerProgram({"listening"}, {"listen", "addr"}),
   ServerProgram({"connection"}, {"listen", "close"}),
   ServerProgram({"close"}, {"close"}),
   ServerProgram({"clientError", "upgrade"}, {"listen"}),
   ServerProgram({"listening"}, {"listen", "last error"})}
====
