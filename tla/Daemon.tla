------------------------------- MODULE Daemon -------------------------------
(***************************************************************************)
(* takld's main: the start, step by step, with its ways to give up; the    *)
(* goroutines it leaves running, any of which may fail and stop the whole; *)
(* and the way out, which runs main's deferred calls in reverse order with *)
(* a grace period for each server.  Go's runtime ends every goroutine with *)
(* the process, wherever it is.                                            *)
(***************************************************************************)
EXTENDS Settings, Naturals

CONSTANTS
  Files,      \* settings a config file may hold
  Flags,      \* settings a command line may hold
  MaxCalls    \* bound: calls a server handles at once

ASSUME DaemonAssumption ==
  /\ MaxCalls \in Nat \ {0}
  /\ \A layer \in Files \cup Flags : "advertise" \in DOMAIN layer => layer["advertise"] \in Host

VARIABLES
  set,        \* the effective settings
  main,       \* where main stands
  cancelled,  \* stop() was called, or a signal came
  faulty,     \* goroutines that returned an error
  agent, engine, grpc, http,   \* the goroutines main started
  gossip,     \* the memberlist
  store,      \* the database
  client,     \* the sync client
  calls,      \* calls in progress in each server
  expired     \* servers whose grace period ran out

servers == <<grpc, http, calls>>
vars == <<set, main, cancelled, faulty, agent, engine, grpc, http, gossip, store, client, calls, expired>>

Server == {"http", "grpc"}

Init ==
  /\ \E file \in Files, flags \in Flags : set = Settings(file, flags)
  /\ main = "check" /\ cancelled = FALSE /\ faulty = {}
  /\ agent = "off" /\ engine = "off" /\ grpc = "off" /\ http = "off"
  /\ gossip = "off" /\ store = "none" /\ client = "none"
  /\ calls = [s \in Server |-> 0] /\ expired = {}

Goto(from, to) == main = from /\ main' = to

-----------------------------------------------------------------------------
(* The start. Every failure is an os.Exit, which runs no deferred call. *)

\* os.Exit ends everything at once; what was open stays as it was on disk.
Exit(from) ==
  /\ Goto(from, "failed")
  /\ agent' = "off" /\ gossip' = "off"
  /\ UNCHANGED <<set, cancelled, faulty, engine, servers, store, client, expired>>

\* The file that cannot be read, the settings that are refused, the
\* credentials that cannot be loaded.
CheckFails == Exit("check")

Check ==
  /\ ~Refused(set) /\ LoadsCredentials(set)
  /\ Goto("check", "open")
  /\ UNCHANGED <<set, cancelled, faulty, agent, engine, servers, gossip, store, client, expired>>

OpenFails == Exit("open")

Open ==
  /\ Goto("open", "join")
  /\ store' = "open"
  /\ UNCHANGED <<set, cancelled, faulty, agent, engine, servers, gossip, client, expired>>

\* A bad key, or a gossip port that is taken.
JoinFails == set.bind /\ Exit("join")

\* NewCluster; seeds that cannot be reached are only a warning.
Join ==
  /\ Goto("join", "listen")
  /\ set.bind => ValidKey(set)
  /\ gossip' = IF set.bind THEN "on" ELSE "off"
  /\ agent' = "starting"
  /\ UNCHANGED <<set, cancelled, faulty, engine, servers, store, client, expired>>

\* The sync port is taken; the agent's goroutine is already running.
ListenFails == set.sync # Unset /\ Exit("listen")

\* Listen, start the sync server, the engine and the HTTP API.
Listen ==
  /\ Goto("listen", "run")
  /\ grpc' = IF set.sync # Unset THEN "serving" ELSE "off"
  /\ engine' = IF Synchronises(set) THEN "on" ELSE "off"
  /\ client' = IF Synchronises(set) THEN "open" ELSE "none"
  /\ http' = "serving"
  /\ UNCHANGED <<set, cancelled, faulty, agent, gossip, store, calls, expired>>

-----------------------------------------------------------------------------
(* The goroutines. *)

Alive == main \notin {"failed", "exited"}

\* Agent.Run: Start may fail, and a ticker with no interval panics.
AgentStarts ==
  /\ Alive /\ agent = "starting" /\ set.tick > 0
  /\ agent' = "on"
  /\ UNCHANGED <<set, main, cancelled, faulty, engine, servers, gossip, store, client, expired>>

AgentPanics ==
  /\ Alive /\ agent = "starting" /\ set.tick = 0
  /\ main' = "failed" /\ agent' = "off"
  /\ UNCHANGED <<set, cancelled, faulty, engine, servers, gossip, store, client, expired>>

Fails(g) ==
  /\ faulty' = faulty \cup {g}
  /\ cancelled' = TRUE

AgentFails ==
  /\ Alive /\ agent = "starting"
  /\ agent' = "ended" /\ Fails("agent")
  /\ UNCHANGED <<set, main, engine, servers, gossip, store, client, expired>>

\* A listener that fails takes no new connection; the ones it has go on.
ServeFails ==
  /\ Alive /\ grpc = "serving"
  /\ grpc' = "deaf" /\ Fails("grpc")
  /\ UNCHANGED <<set, main, agent, engine, http, gossip, store, client, calls, expired>>

HttpFails ==
  /\ Alive /\ http = "serving"
  /\ http' = "deaf" /\ Fails("http")
  /\ UNCHANGED <<set, main, agent, engine, grpc, gossip, store, client, calls, expired>>

\* Agent.Run and Engine.Run return when the context is done.
AgentEnds ==
  /\ Alive /\ cancelled /\ agent = "on"
  /\ agent' = "ended"
  /\ UNCHANGED <<set, main, cancelled, faulty, engine, servers, gossip, store, client, expired>>

EngineEnds ==
  /\ Alive /\ cancelled /\ engine = "on"
  /\ engine' = "ended"
  /\ UNCHANGED <<set, main, cancelled, faulty, agent, servers, gossip, store, client, expired>>

Signal ==
  /\ main \in {"listen", "run"} /\ ~cancelled
  /\ cancelled' = TRUE
  /\ UNCHANGED <<set, main, faulty, agent, engine, servers, gossip, store, client, expired>>

CallArrives(s) ==
  /\ Alive /\ calls[s] < MaxCalls
  /\ (IF s = "http" THEN http ELSE grpc) \in {"serving", "deaf"}
  /\ calls' = [calls EXCEPT ![s] = @ + 1]
  /\ UNCHANGED <<set, main, cancelled, faulty, agent, engine, grpc, http, gossip, store, client, expired>>

CallEnds(s) ==
  /\ Alive /\ calls[s] > 0
  /\ calls' = [calls EXCEPT ![s] = @ - 1]
  /\ UNCHANGED <<set, main, cancelled, faulty, agent, engine, grpc, http, gossip, store, client, expired>>

-----------------------------------------------------------------------------
(* The way out: Shutdown of the HTTP server, then the deferred calls, last  *)
(* registered first.                                                        *)

StopHttp ==
  /\ cancelled /\ Goto("run", "drainHttp")
  /\ http' = "ended"
  /\ UNCHANGED <<set, cancelled, faulty, agent, engine, grpc, gossip, store, client, calls, expired>>

StopGrpc == grpc' = IF grpc = "off" THEN "off" ELSE "stopping"

HttpDrained_LeavesGrpc ==
  /\ calls["http"] = 0 /\ Goto("drainHttp", "client")
  /\ UNCHANGED <<set, cancelled, faulty, agent, engine, servers, gossip, store, client, expired>>

HttpDrained ==
  /\ calls["http"] = 0 /\ Goto("drainHttp", "drainGrpc")
  /\ StopGrpc
  /\ UNCHANGED <<set, cancelled, faulty, agent, engine, http, gossip, store, client, calls, expired>>

HttpGraceOver ==
  /\ calls["http"] > 0 /\ Goto("drainHttp", "drainGrpc")
  /\ expired' = expired \cup {"http"}
  /\ StopGrpc
  /\ UNCHANGED <<set, cancelled, faulty, agent, engine, http, gossip, store, client, calls>>

GrpcDrained ==
  /\ calls["grpc"] = 0 /\ Goto("drainGrpc", "client")
  /\ grpc' = IF grpc = "off" THEN "off" ELSE "ended"
  /\ UNCHANGED <<set, cancelled, faulty, agent, engine, http, gossip, store, client, calls, expired>>

GrpcGraceOver_Never == FALSE /\ UNCHANGED vars

\* The timer fires first: Stop closes the connections and waits for nobody.
GrpcGraceOver ==
  /\ calls["grpc"] > 0 /\ Goto("drainGrpc", "client")
  /\ grpc' = "ended"
  /\ expired' = expired \cup {"grpc"}
  /\ UNCHANGED <<set, cancelled, faulty, agent, engine, http, gossip, store, client, calls>>

CloseClient ==
  /\ Goto("client", "leave")
  /\ client' = IF client = "open" THEN "closed" ELSE client
  /\ UNCHANGED <<set, cancelled, faulty, agent, engine, servers, gossip, store, expired>>

\* Cluster.Shutdown: a Leave that times out leaves the memberlist running.
Leave ==
  /\ Goto("leave", "close")
  /\ gossip' \in IF gossip = "on" THEN {"left", "on"} ELSE {gossip}
  /\ UNCHANGED <<set, cancelled, faulty, agent, engine, servers, store, client, expired>>

CloseStore ==
  /\ Goto("close", "return")
  /\ store' = "closed"
  /\ UNCHANGED <<set, cancelled, faulty, agent, engine, servers, gossip, client, expired>>

Return ==
  /\ Goto("return", "exited")
  /\ agent' = "off" /\ engine' = "off" /\ gossip' = "off"
  /\ calls' = [s \in Server |-> 0]
  /\ UNCHANGED <<set, cancelled, faulty, grpc, http, store, client, expired>>

Starting == Check \/ Open \/ Join \/ Listen
GivingUp == CheckFails \/ OpenFails \/ JoinFails \/ ListenFails
Stopping == \/ StopHttp \/ HttpDrained \/ HttpGraceOver \/ GrpcDrained \/ GrpcGraceOver
            \/ CloseClient \/ Leave \/ CloseStore \/ Return
Running == \/ AgentStarts \/ AgentPanics \/ AgentFails \/ AgentEnds \/ EngineEnds
           \/ ServeFails \/ HttpFails \/ Signal
           \/ \E s \in Server : CallArrives(s) \/ CallEnds(s)

Next == Starting \/ GivingUp \/ Running \/ Stopping

Spec == Init /\ [][Next]_vars

(* main goes on, and the timers of the two grace periods fire; that a call  *)
(* in progress ever ends is not assumed.                                    *)
FairSpec == Spec /\ WF_vars(Starting) /\ WF_vars(Stopping)

-----------------------------------------------------------------------------
\* What main advertises to its peers (the NodeMeta of the memberlist) names a
\* host: never the wildcard it listens on, whatever the settings, the resolver
\* and the interfaces are.
AdvertisesAHost ==
  gossip = "on" /\ set.sync # Unset => AdvertisedAddr(set.sync, RunnerIP(set)) \notin {NoHost, "any"}

\* The store is closed under no handler that was promised a grace period: the
\* deferred calls run so that both servers are done, or out of time, before
\* st.Close, also when a server had failed before.
StoreOutlivesHandlers ==
  store = "closed" => \A s \in Server : calls[s] = 0 \/ s \in expired

\* No half-dead daemon: when a goroutine fails, or a signal comes, the whole
\* process ends, whatever the calls in progress do.
EndsAsAWhole == (cancelled \/ faulty # {}) ~> ~Alive
=============================================================================
