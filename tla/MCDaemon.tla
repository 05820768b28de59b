------------------------------ MODULE MCDaemon ------------------------------
EXTENDS Daemon

\* A name of the host itself, one of a dual-stack peer, one nobody knows.
Names == [localhost |-> <<"loop">>, dual |-> <<"v6", "v4">>, unknown |-> <<>>]

\* No network card: an address must come from the settings, or is loopback.
NoCard == <<>>

Nothing == [s \in {} |-> 0]

\* Files that set the addresses in every way.
AddressFiles == { [sync |-> sync, http |-> "any", advertise |-> adv, tls |-> "readable"] :
                    sync \in Addr, adv \in Host }

\* Files that decide what is started.
ModeFiles == { [bind |-> bind, sync |-> sync, peers |-> peers, tick |-> tick] :
                 bind \in BOOLEAN, sync \in {Unset, "loop"}, peers \in {<<>>, <<"">>, <<"p1", "">>}, tick \in {0, 1} }

\* Files that are refused without the right flags, or at all.
DoubtfulFiles == { [profile |-> profile, key |-> key, sync |-> sync, tls |-> tls] :
                     profile \in {"wan", "other"}, key \in {"none", "good", "bad"},
                     sync \in {"loop", "v4"}, tls \in {"none", "partial", "unreadable"} }

SomeFiles == {Nothing} \cup AddressFiles \cup ModeFiles \cup DoubtfulFiles
SomeFlags == { Nothing, [insecureSync |-> TRUE, insecureGossip |-> TRUE], [pprof |-> TRUE],
               [pprof |-> TRUE, token |-> TRUE], [bind |-> FALSE, peers |-> <<"p2">>] }
=============================================================================
