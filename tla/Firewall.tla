------------------------------ MODULE Firewall ------------------------------
(***************************************************************************)
(* The ruleset nft.rs renders, as the kernel evaluates it: the first rule  *)
(* of a chain that matches decides, the chain's policy if none does.  A    *)
(* packet is a record of source, destination, destination port and whether *)
(* conntrack knows its connection.                                         *)
(***************************************************************************)
EXTENDS Naturals, Sequences

CONSTANTS
  Hosts,      \* the addresses of the container subnet, the bridge's included
  bridge_ip

DnsPort == 53
ResolverPorts == {DnsPort, 853}
Ports == ResolverPorts \cup {443}

Rule(matches, verdict) == [matches |-> matches, verdict |-> verdict]

Verdict(chain) ==
  LET hits == {i \in 1..Len(chain) : chain[i].matches}
  IN  chain[CHOOSE i \in hits : \A j \in hits : i <= j].verdict

\* Mutant: the allow set is consulted before resolver ports are dropped.
Forward_allow_first(p, allow4) ==
  Verdict(<<Rule(p.established, "accept"),
            Rule(<<p.src, p.dst>> \in allow4, "accept"),
            Rule(p.src \in Hosts /\ p.dport \in ResolverPorts, "drop"),
            Rule(TRUE, "drop")>>)

\* render_forward_chain over the pairs of the allow4 set.
Forward(p, allow4) ==
  Verdict(<<Rule(p.established, "accept"),
            Rule(p.src \in Hosts /\ p.dport \in ResolverPorts, "drop"),
            Rule(<<p.src, p.dst>> \in allow4, "accept"),
            Rule(p.src \in Hosts, "drop"),
            Rule(TRUE, "drop")>>)

\* render_input_chain for a packet that arrives at the bridge.
Input(p) ==
  Verdict(<<Rule(p.established, "accept"),
            Rule(p.dst = bridge_ip /\ p.dport = DnsPort, "accept"),
            Rule(p.src \in Hosts, "drop"),
            Rule(TRUE, "accept")>>)

=============================================================================
