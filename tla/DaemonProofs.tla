---------------------------- MODULE DaemonProofs ----------------------------
(***************************************************************************)
(* The two safety properties of takld's main, for every configuration, every *)
(* resolver, every set of interfaces and any number of calls at once.       *)
(***************************************************************************)
EXTENDS Daemon, TLAPS, WellFoundedInduction, NaturalsInduction

-----------------------------------------------------------------------------
(* Addresses. *)

\* A non-empty set of naturals has a least element: Min is defined on it.
LEMMA MinInSet ==
  ASSUME NEW S \in SUBSET Nat, S # {}
  PROVE  Min(S) \in S
<1> DEFINE R == {ss \in Nat \X Nat : ss[1] < ss[2]}
<1>1. IsWellFoundedOn(R, Nat)
  BY NatLessThanWellFounded DEF OpToRel
<1>2. \A x, y \in Nat : y < x => <<y, x>> \in R
  OBVIOUS
<1> HIDE DEF R
<1>3. PICK x \in S : \A y \in S : ~ (<<y, x>> \in R)
  BY <1>1, WFMin, Zenon
<1>4. \A y \in S : x <= y
  <2> SUFFICES ASSUME NEW y \in S PROVE ~ (y < x)
    OBVIOUS
  <2> QED
    BY <1>2, <1>3, Zenon
<1> QED
  BY <1>4, Zenon DEF Min

\* What the scan of a list of IPs returns is one it looks for, or nothing;
\* and it returns something when there is one (the loops of
\* resolveAdvertiseIP and discoverAdvertiseIP).
LEMMA FirstInFinds ==
  ASSUME NEW T, NEW ips \in Seq(T), NEW S
  PROVE  /\ FirstIn(ips, S) \in S \cup {NoHost}
         /\ (\E i \in DOMAIN ips : ips[i] \in S) => FirstIn(ips, S) \in S
<1> DEFINE good == {i \in DOMAIN ips : ips[i] \in S}
<1>1. good \in SUBSET Nat
  OBVIOUS
<1>2. good # {} => Min(good) \in good
  BY <1>1, MinInSet, Zenon
<1>3. FirstIn(ips, S) = IF good = {} THEN NoHost ELSE ips[Min(good)]
  BY DEF FirstIn
<1> HIDE DEF good
<1>4. good # {} => FirstIn(ips, S) \in S
  BY <1>2, <1>3 DEF good
<1> QED
  BY <1>3, <1>4 DEF good

\* An address that is resolved is one other hosts can reach, or nothing.
LEMMA ResolvesToRoutable ==
  ASSUME NEW host \in Host
  PROVE  ResolveAdvertiseIP(host) \in Routable \cup {NoHost}
<1>1. CASE host \in {NoHost} \cup IPs
  BY <1>1, Zenon DEF ResolveAdvertiseIP, IPs, NoHost
<1>2. CASE host \notin {NoHost} \cup IPs
  <2>1. Lookup[host] \in Seq(IPs)
    BY <1>2, SettingsAssumption DEF Host
  <2>2. FirstIn(Lookup[host], {"v4"}) \in {"v4", NoHost} /\ FirstIn(Lookup[host], Routable) \in Routable \cup {NoHost}
    BY <2>1, FirstInFinds
  <2>3. "v4" \in Routable
    BY DEF Routable, IPs
  <2> QED
    BY <1>2, <2>2, <2>3 DEF ResolveAdvertiseIP
<1> QED
  BY <1>1, <1>2

\* The same for the addresses the daemon listens on and for its interfaces.
LEMMA DiscoversRoutable ==
  ASSUME NEW a, NEW b
  PROVE  DiscoverAdvertiseIP(<<a, b>>) \in Routable \cup {NoHost}
<1> DEFINE addrs == <<a, b>>
           ips   == [i \in DOMAIN addrs |-> IF addrs[i] \in Host THEN ResolveAdvertiseIP(addrs[i]) ELSE NoHost]
<1>1. \A i \in DOMAIN addrs : ips[i] \in Routable \cup {NoHost}
  BY ResolvesToRoutable
<1>2. ips \in Seq(Routable \cup {NoHost})
  <2>1. DOMAIN addrs = 1..2
    OBVIOUS
  <2>2. ips \in [1..2 -> Routable \cup {NoHost}]
    BY <1>1, <2>1, Zenon
  <2> QED
    BY <2>2
<1>3. FirstIn(ips, IPs) \in Routable \cup {NoHost}
  <2>1. \A i \in DOMAIN ips : ips[i] \in IPs => ips[i] \in Routable
    BY <1>1, Zenon DEF IPs, Routable, NoHost
  <2>2. {i \in DOMAIN ips : ips[i] \in IPs} = {i \in DOMAIN ips : ips[i] \in Routable}
    BY <2>1 DEF Routable
  <2>3. FirstIn(ips, IPs) = FirstIn(ips, Routable)
    BY <2>2 DEF FirstIn
  <2> QED
    BY <1>2, <2>3, FirstInFinds, Zenon
<1>4. FirstIn(Interfaces, {"v4"}) \in {"v4", NoHost}
  BY SettingsAssumption, FirstInFinds
<1>5. "v4" \in Routable
  BY DEF Routable, IPs
<1> QED
  BY <1>3, <1>4, <1>5 DEF DiscoverAdvertiseIP

\* The address a runner is given is an IP, and not the wildcard: in the worst
\* case it is loopback.
LEMMA RunnerIPNamesAHost ==
  ASSUME NEW s, s.advertise \in Host
  PROVE  RunnerIP(s) \notin {NoHost, "any"}
<1> DEFINE ips == <<ResolveAdvertiseIP(s.advertise), DiscoverAdvertiseIP(<<s.sync, s.http>>), "loop">>
           T   == Routable \cup {NoHost, "loop"}
<1>1. ips \in Seq(T)
  BY ResolvesToRoutable, DiscoversRoutable
<1>2. ips[3] = "loop" /\ 3 \in DOMAIN ips
  OBVIOUS
<1> HIDE DEF ips
<1>3. {i \in DOMAIN ips : ips[i] \in IPs} = {i \in DOMAIN ips : ips[i] \in T \ {NoHost}}
  <2>1. \A x \in T : x \in IPs <=> x \in T \ {NoHost}
    BY Zenon DEF Routable, IPs, NoHost
  <2>2. \A i \in DOMAIN ips : ips[i] \in T
    BY <1>1
  <2> QED
    BY <2>1, <2>2
<1>4. FirstIn(ips, IPs) = FirstIn(ips, T \ {NoHost})
  BY <1>3 DEF FirstIn
<1>5. FirstIn(ips, T \ {NoHost}) \in T \ {NoHost}
  <2>1. ips[3] \in T \ {NoHost}
    BY <1>2 DEF NoHost
  <2> HIDE DEF T
  <2> QED
    BY <1>1, <1>2, <2>1, FirstInFinds
<1> QED
  BY <1>4, <1>5, Zenon DEF RunnerIP, ips, Routable, IPs, NoHost

\* THEOREM: what the daemon advertises to its peers names a host, never the
\* wildcard it may listen on (advertisedAddr over runnerIP).
THEOREM AdvertisedAddressIsReal == Spec => []AdvertisesAHost
<1> DEFINE Inv == set.advertise \in Host
<1>1. Init => Inv
  <2> SUFFICES ASSUME NEW file \in Files, NEW flags \in Flags, set = Settings(file, flags)
               PROVE  Inv
    BY DEF Init
  <2>1. Default.advertise \in Host /\ "advertise" \in DOMAIN Default
    BY DEF Default, Host
  <2>2. Load(Default, file).advertise \in Host /\ "advertise" \in DOMAIN Load(Default, file)
    BY <2>1, DaemonAssumption DEF Load
  <2> HIDE DEF Host
  <2>3. Load(Load(Default, file), flags).advertise \in Host
    BY <2>2, DaemonAssumption DEF Load
  <2> QED
    BY <2>3 DEF Settings
<1>2. Inv /\ [Next]_vars => Inv'
  <2>1. [Next]_vars => UNCHANGED set
    BY Zenon DEF Next, vars, Starting, Check, Open, Join, Listen, GivingUp, CheckFails, OpenFails, JoinFails,
           ListenFails, Exit, Running, AgentStarts, AgentPanics, AgentFails, AgentEnds, EngineEnds, ServeFails,
           HttpFails, Signal, CallArrives, CallEnds, Stopping, StopHttp, HttpDrained, HttpGraceOver, GrpcDrained,
           GrpcGraceOver, CloseClient, Leave, CloseStore, Return
  <2> QED
    BY <2>1, Zenon
<1>3. Inv => AdvertisesAHost
  BY RunnerIPNamesAHost DEF AdvertisesAHost, AdvertisedAddr
<1> QED
  BY <1>1, <1>2, <1>3, PTL DEF Spec

-----------------------------------------------------------------------------
(* The way out. *)

\* A server that is out of time, or has no call left.
Done(s) == calls[s] = 0 \/ s \in expired

\* The inductive invariant: from the point where main is done with a server,
\* that server takes no call any more and its calls have ended or are out of
\* time; a server that was never started has none.
ShutdownInv ==
  /\ calls \in [Server -> Nat]
  /\ main \in {"check", "open", "join", "listen"} => http = "off" /\ grpc = "off"
  /\ http = "off" => calls["http"] = 0
  /\ grpc = "off" => calls["grpc"] = 0
  /\ main \in {"drainHttp", "drainGrpc", "client", "leave", "close", "return"} => http = "ended"
  /\ main \in {"drainGrpc", "client", "leave", "close", "return"} => Done("http") /\ grpc \notin {"serving", "deaf"}
  /\ main \in {"client", "leave", "close", "return"} => Done("grpc")
  /\ store = "closed" => main \in {"return", "failed", "exited"} /\ Done("http") /\ Done("grpc")

\* THEOREM: the store is closed under no handler that still has its grace
\* period (the order of main's deferred calls).
THEOREM StoreClosedLast == Spec => []StoreOutlivesHandlers
<1>1. Init => ShutdownInv
  BY DEF Init, ShutdownInv, Done, Server
<1>2. ShutdownInv /\ [Next]_vars => ShutdownInv'
  <2> SUFFICES ASSUME ShutdownInv, [Next]_vars PROVE ShutdownInv'
    OBVIOUS
  <2> USE DEF Goto, servers
  <2>1. CASE Check \/ Open \/ Join \/ Listen
    BY <2>1 DEF ShutdownInv, Done, Check, Open, Join, Listen
  <2>2. CASE GivingUp
    BY <2>2 DEF ShutdownInv, Done, GivingUp, CheckFails, OpenFails, JoinFails, ListenFails, Exit
  <2>3. CASE AgentStarts \/ AgentPanics \/ AgentFails \/ AgentEnds \/ EngineEnds \/ Signal
    BY <2>3 DEF ShutdownInv, Done, Alive, Fails, AgentStarts, AgentPanics, AgentFails, AgentEnds, EngineEnds, Signal
  <2>4. CASE ServeFails \/ HttpFails
    BY <2>4 DEF ShutdownInv, Done, Alive, Fails, ServeFails, HttpFails
  <2>5. ASSUME NEW s \in Server, CallArrives(s) PROVE ShutdownInv'
    <3>1. calls'[s] = calls[s] + 1 /\ calls' \in [Server -> Nat] /\ \A t \in Server \ {s} : calls'[t] = calls[t]
      BY <2>5 DEF CallArrives, ShutdownInv
    <3>2. CASE s = "http"
      BY <2>5, <3>1, <3>2 DEF CallArrives, ShutdownInv, Done, Alive, Server
    <3>3. CASE s = "grpc"
      BY <2>5, <3>1, <3>3 DEF CallArrives, ShutdownInv, Done, Alive, Server
    <3> QED
      BY <3>2, <3>3 DEF Server
  <2>6. ASSUME NEW s \in Server, CallEnds(s) PROVE ShutdownInv'
    <3>1. calls[s] > 0 /\ calls'[s] = calls[s] - 1 /\ calls' \in [Server -> Nat]
      BY <2>6 DEF CallEnds, ShutdownInv
    <3>2. \A t \in Server \ {s} : calls'[t] = calls[t]
      BY <2>6 DEF CallEnds, ShutdownInv
    <3> QED
      BY <2>6, <3>1, <3>2 DEF CallEnds, ShutdownInv, Done, Server
  <2>7. CASE StopHttp
    BY <2>7 DEF ShutdownInv, Done, StopHttp
  <2>8. CASE HttpDrained \/ HttpGraceOver
    BY <2>8 DEF ShutdownInv, Done, HttpDrained, HttpGraceOver, StopGrpc
  <2>9. CASE GrpcDrained \/ GrpcGraceOver
    BY <2>9 DEF ShutdownInv, Done, GrpcDrained, GrpcGraceOver
  <2>10. CASE CloseClient \/ Leave \/ CloseStore
    BY <2>10 DEF ShutdownInv, Done, CloseClient, Leave, CloseStore
  <2>11. CASE Return
    BY <2>11 DEF ShutdownInv, Done, Return, Server
  <2>12. CASE UNCHANGED vars
    BY <2>12 DEF ShutdownInv, Done, vars
  <2> QED
    BY <2>1, <2>2, <2>3, <2>4, <2>5, <2>6, <2>7, <2>8, <2>9, <2>10, <2>11, <2>12, Zenon DEF Next, Starting, Running, Stopping
<1>3. ShutdownInv => StoreOutlivesHandlers
  BY DEF ShutdownInv, StoreOutlivesHandlers, Done, Server
<1> QED
  BY <1>1, <1>2, <1>3, PTL DEF Spec
=============================================================================
