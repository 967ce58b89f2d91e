------------------------------- MODULE ToolOutput -------------------------------
(* services/parsers and the helpers at the head of services/test_engine.py:     *)
(* what is read from the report of a tool on a device.  A device d is the set   *)
(* of its traits, a scan the services it shows, and any other report the set of *)
(* facts that services/evaluation.py looks at.                                  *)
EXTENDS FiniteSets

\* Services on TCP ports: "tls" is TLS on a port that only its banner tells, "odd"
\* a port outside nmap's default ports and the engine's list of common ones.
Tcp == {"telnet", "ssh", "http", "https", "tls", "odd"}

Common == Tcp \ {"odd"}

\* UDP services that answer a scan, and those that leave it open|filtered.
Udp == {"ntp", "bacnet", "dns"}
UdpSilent == {"ntp?", "bacnet?", "dns?"}

\* Logins of a web page: HTTP's own; a static form that is posted; the tokens of an
\* EasyIO controller; any other page that asks for a password.
Logins == {"basic_login", "form_login", "easyio", "page_login"}

\* The rest of what a test can find.  An SSH server may offer more than three of
\* the algorithms listed as weak, or up to three, or others that ssh-audit marks.
Behaviours == {"vendor", "dhcp", "syncs", "weak_versions", "weak_ciphers", "bad_cert",
               "weak_ssh", "few_weak_ssh", "frowned_ssh", "default_login", "lockout",
               "redirects", "headers"}

\* The port of "tls" is 8443, 8080 or 4443; that of "odd" is 322.
Numbers == {"usual_tls", "rtsps"}

Traits == Tcp \cup Udp \cup UdpSilent \cup Logins \cup Behaviours \cup Numbers

\* What an attempt gives its evaluator: the facts, whether a tool failed or looked
\* at less than was asked, and whether the failure is raised.
Answer(facts) == [facts |-> facts, failed |-> FALSE, raised |-> FALSE]
Failing(facts) == [facts |-> facts, failed |-> TRUE, raised |-> FALSE]
Error == [facts |-> {}, failed |-> TRUE, raised |-> TRUE]

--------------------------------------------------------------------------------
(* Scans.                                                                        *)

NoScan == [on |-> FALSE, seen |-> {}, named |-> FALSE]

\* The open ports, open|filtered ones included, of a host that is up, and whether
\* their banners were looked at.
Scan(seen, named) == [on |-> TRUE, seen |-> seen, named |-> named]

\* An answer that is XML counts, whether nmap failed or not, and whether the host
\* was up or, for an outage, silent; any other answer is raised.
Views(seen, out) == {seen} \cup (IF out THEN {{}} ELSE {})

\* The ports of a fast TCP probe: those of the device's record, and the common ones.
ProbePorts(record) == Common \cup (record \cap Tcp)

\* A connect to each port, open if the device accepts it in time; a device too slow
\* for the short timeouts, or for nmap in an older scanner, shows none.
Connects(d, ports) == {d \cap ports, {}}

\* The services are named by their port only.
TcpProbe(d, ports) == {Scan(v, FALSE) : v \in Connects(d, ports)}

TcpInventory(d, record) == TcpProbe(d, ProbePorts(record))

\* The UDP ports of U06; a scan that fails shows none.
UdpInventory(d) == {Scan(d \cap (Udp \cup UdpSilent), FALSE), Scan({}, FALSE)}

\* Two scans in one, a port of both being kept once.
Merge(a, b) == Scan(a.seen \cup b.seen, a.named \/ b.named)

\* Services on ports that are open, not open|filtered.
Definite(seen) == seen \cap (Tcp \cup Udp)

\* What each port is taken for: the service usual on it, or the one that its banner
\* names.
Recognised(scan) == scan.seen \ (IF scan.named THEN {} ELSE {"tls"})

WebPorts(scan) == Recognised(scan) \cap {"http", "https", "tls"}

SshPorts(scan) == Recognised(scan) \cap {"ssh"}

\* The web service to assess: one with TLS before one without.
PreferredWeb(scan) ==
  IF WebPorts(scan) \cap {"https", "tls"} # {} THEN WebPorts(scan) \cap {"https", "tls"}
  ELSE WebPorts(scan)

--------------------------------------------------------------------------------
(* TLS.                                                                          *)

\* Each protocol that is offered.
Protocols(d) == {"versions"} \cup (d \cap {"weak_versions"})

\* Each cipher suite, weak by its name, its protocol or testssl's own severity.
Suites(d) == {"ciphers"} \cup (d \cap {"weak_ciphers"})

\* The certificate, valid once its chain is trusted.
Certificate(d) == {"cert", IF "bad_cert" \in d THEN "cert_issue" ELSE "cert_valid"}

\* The JSON of testssl on the service s: its protocols (-p), its suites (-E) or all.
TestsslJson(test, s, d) ==
  IF s \notin d THEN {}
  ELSE CASE test = "U10" -> Protocols(d)
         [] test = "U11" -> Suites(d)
         [] OTHER -> Protocols(d) \cup Suites(d) \cup Certificate(d)

\* Its text, if no JSON came with it: a line that says "not offered" says "offered",
\* so that a list of protocols has weak ones on it whatever the device; rows of
\* suites add their protocols; nothing is said of trust.
TestsslText(test, s, d) ==
  IF s \notin d THEN {}
  ELSE {"text"} \cup (CASE test = "U10" -> {"versions", "weak_versions"}
                        [] test = "U11" -> Suites(d) \cup Protocols(d)
                        [] OTHER -> {"versions", "weak_versions", "cert"})

\* What Python's ssl module sees: versions up to what it still speaks itself, the
\* ciphers negotiated, none of them judged, and a certificate it does not verify.
PythonViews(s, d, out) ==
  LET found == {"python", "versions", "ciphers", "cert", "cert_valid", "cert_issue"}
  IN IF s \notin d THEN {{"python"}}
     ELSE {found, found \cup (d \cap {"weak_versions"})} \cup (IF out THEN {{"python"}} ELSE {})

\* The cipher scripts of nmap, or nothing if they fail.
NmapSuites(s, d) ==
  {{}} \cup (IF s \in d THEN {Protocols(d) \cup Suites(d)} ELSE {})

\* Its suites completed by those; the source of the report is then no longer
\* testssl.
WithSuites(facts, suites) ==
  IF suites = {} THEN facts
  ELSE (facts \ {"testssl"}) \cup suites \cup {"complete"}

\* A report completed by another: lists are joined, single fields kept, so that a
\* chain found trusted stays trusted.
MergeTls(facts, other) ==
  facts \cup (IF "cert_valid" \in facts THEN other \ {"cert_issue"} ELSE other)

--------------------------------------------------------------------------------
(* SSH, credentials, addresses, web servers.                                     *)

\* Up to three weak algorithms make a warning, more of them a failure.
SshStrength(many, few) ==
  IF many THEN {"version", "very_weak"} ELSE IF few THEN {"version", "weak"} ELSE {"version"}

\* ssh-audit's JSON: the algorithms that are listed as weak count.
SshJson(d) ==
  IF "ssh" \notin d THEN {}
  ELSE SshStrength("weak_ssh" \in d, "few_weak_ssh" \in d)

\* Its text, read if there is no JSON: whatever it marks counts as well.
SshText(d) ==
  IF "ssh" \notin d THEN {}
  ELSE SshStrength({"weak_ssh", "frowned_ssh"} \cap d # {}, "few_weak_ssh" \in d)

SshReports(d) == {SshJson(d), SshText(d)}

\* hydra tried something if it printed anything.
HydraReport(d) == {"ran"} \cup (IF "default_login" \in d THEN {"found"} ELSE {})

Ping(up) == IF up THEN {"reachable"} ELSE {}

\* The line of an address in a table of neighbours, if it has one.
Lines == {"resolved", "incomplete", "none"}

\* A line counts unless the address is being resolved or could not be.
NeighborTable(line) == line = "resolved"

\* The scanner's own table, read for the address and as a whole, or its Windows
\* host's: one of them that has the address is enough.
ArpScan(own, host) == NeighborTable(own) \/ NeighborTable(host)

\* What is read of it: the address, no vendor.
ArpCache(shown) == IF shown THEN {"mac"} ELSE {}

\* The vendor that is known already; else the one that the scanner's list of prefixes
\* or the backend's names for the address.
ResolveVendor(hint, address, listed) ==
  IF hint # {} THEN {hint}
  ELSE {{}} \cup (IF address # {} /\ listed THEN {{"vendor"}} ELSE {})

\* The packets that reach an observer: the device's own, if it asks at all, those of
\* others on the network, and some that are no query.
Packets(asks) == SUBSET ({"other", "garbled"} \cup (IF asks THEN {"own"} ELSE {}))

\* A query counts if it comes from the device's address; all are answered.
Observer(packets) == IF "own" \in packets THEN {"observed"} ELSE {}

\* The script dhcp-discover: an offer of a server, which says nothing of the device.
DhcpDiscover(answered) == IF answered THEN {"offer_seen"} ELSE {}

\* nikto prints a banner whatever it finds; of its findings, missing headers count.
Nikto(d, reached) ==
  {"nikto"} \cup (IF reached /\ "headers" \notin d THEN {"missing_headers"} ELSE {})

\* The headers of a response; if none could be captured, none is missing.
HeaderFindings(d, captured) ==
  IF captured /\ "headers" \notin d THEN {"missing_headers"} ELSE {}
================================================================================
