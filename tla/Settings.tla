------------------------------ MODULE Settings ------------------------------
(***************************************************************************)
(* What takld makes of its configuration before it starts anything: the    *)
(* layers of settings (config.Default, the file, the flags), the addresses *)
(* it derives from them, and the checks that refuse to start.              *)
(*                                                                         *)
(* A setting layer is a function from the names it sets to their values.   *)
(* An address is its host; ports play no part.  Hosts are names, literal   *)
(* IPs of four sorts, or empty.                                            *)
(***************************************************************************)
EXTENDS Sequences, FiniteSetsExt

CONSTANTS
  Lookup,      \* Lookup[name]: the IPs the resolver returns, in order
  Interfaces   \* the IPs of the interfaces that are up and not loopback, in order

NoHost == ""
IPs == {"any", "loop", "v4", "v6"}      \* unspecified, loopback, and real ones
Host == {NoHost} \cup IPs \cup DOMAIN Lookup
Unset == "unset"                        \* an address left empty
Malformed == "malformed"                \* one SplitHostPort refuses
Addr == Host \cup {Unset, Malformed}

ASSUME SettingsAssumption ==
  /\ \A name \in DOMAIN Lookup : Lookup[name] \in Seq(IPs)
  /\ Interfaces \in Seq(IPs)
  /\ DOMAIN Lookup \cap (IPs \cup {NoHost, Unset, Malformed}) = {}

-----------------------------------------------------------------------------
(* Settings: flags that were given win over the file, the file over the     *)
(* defaults; a file that is not there sets nothing.                         *)

Default ==
  [bind |-> TRUE, peers |-> <<>>, profile |-> "lan", key |-> "none", http |-> "loop", sync |-> "loop",
   advertise |-> NoHost, token |-> FALSE, pprof |-> FALSE, tls |-> "none", tick |-> 1,
   insecureSync |-> FALSE, insecureGossip |-> FALSE]

Load(base, file) == [s \in DOMAIN base |-> IF s \in DOMAIN file THEN file[s] ELSE base[s]]

Settings(file, flags) == Load(Load(Default, file), flags)

CompactList(list) == SelectSeq(list, LAMBDA v : v # "")

Profile(s) == IF s.profile = "wan" THEN "wan" ELSE "lan"

-----------------------------------------------------------------------------
(* Addresses. *)

Routable == IPs \ {"loop", "any"}

\* The first of some IPs that is in S.
FirstIn(ips, S) ==
  LET good == {i \in DOMAIN ips : ips[i] \in S} IN IF good = {} THEN NoHost ELSE ips[Min(good)]

ResolveAdvertiseIP(host) ==
  IF host = NoHost THEN NoHost
  ELSE IF host \in IPs THEN IF host \in Routable THEN host ELSE NoHost
  ELSE LET v4 == FirstIn(Lookup[host], {"v4"})
       IN  IF v4 # NoHost THEN v4 ELSE FirstIn(Lookup[host], Routable)

DiscoverAdvertiseIP(addrs) ==
  LET ips   == [i \in DOMAIN addrs |-> IF addrs[i] \in Host THEN ResolveAdvertiseIP(addrs[i]) ELSE NoHost]
      found == FirstIn(ips, IPs)
  IN  IF found # NoHost THEN found ELSE FirstIn(Interfaces, {"v4"})

RunnerIP(s) ==
  FirstIn(<<ResolveAdvertiseIP(s.advertise), DiscoverAdvertiseIP(<<s.sync, s.http>>), "loop">>, IPs)

AdvertisedAddr_Verbatim(listen, ip) == listen

AdvertisedAddr(listen, ip) == IF listen \in {NoHost, "any"} THEN ip ELSE listen

AddrExposed(addr) ==
  CASE addr \in {Unset, Malformed, "loop", "localhost"} -> FALSE
    [] addr \in {NoHost, "any", "v4", "v6"} -> TRUE
    [] OTHER -> Lookup[addr] = <<>> \/ \E i \in DOMAIN Lookup[addr] : Lookup[addr][i] # "loop"

-----------------------------------------------------------------------------
(* The reasons to refuse, and what the settings start. *)

Refused(s) ==
  \/ s.sync = Malformed
  \/ s.tls = "partial"
  \/ /\ AddrExposed(s.sync) /\ s.tls = "none" /\ ~s.insecureSync
     /\ s.bind \/ CompactList(s.peers) # <<>>
  \/ s.bind /\ Profile(s) = "wan" /\ s.key = "none" /\ ~s.insecureGossip
  \/ s.pprof /\ ~s.token

LoadsCredentials(s) == s.tls = "none" \/ s.tls = "readable"
ValidKey(s) == s.key # "bad"
Synchronises(s) == s.bind \/ CompactList(s.peers) # <<>>
=============================================================================
