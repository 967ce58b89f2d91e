------------------------------- MODULE Assessment -------------------------------
(* services/test_engine.py: what the automatic tests of one run ask of the      *)
(* device, what they pass on to one another through the engine's caches and the *)
(* device's row, and the verdicts that come of it.  A tool either answers with  *)
(* what the device shows, or fails, or ends with nothing seen because the cable *)
(* was out: nmap's XML of a silent host and testssl's output after a kill are   *)
(* parsed like any other answer.  The tests that work on the host's own adapter *)
(* are in HostAdapter.                                                          *)
EXTENDS Evaluation, WebLogin, Naturals, Sequences

CONSTANTS
  Devices,      \* what a device may be like: sets of traits
  Entries,      \* the services on the whitelist
  Profiles,     \* the device profiles that an administrator has activated
  MaxLaunches,  \* bound: launches of the run
  MaxOutages    \* bound: tests that an outage of the cable touches

\* The tests by order of their identifiers; the fingerprint phase comes before the
\* first that is not among DISCOVERY_TESTS.
Plan == <<"U01", "U02", "U04", "U06", "U08", "fingerprint", "U09", "U10", "U11", "U12",
          "U15", "U16", "U17", "U18", "U19", "U26", "U28", "U29", "U35">>

Tests == {Plan[i] : i \in DOMAIN Plan}

\* A profile asks for ports, hints at others, may name the vendor of the devices at
\* hand, and lists tests that do not apply to them.
ASSUME AssessmentAssumption ==
  /\ Devices \subseteq SUBSET Traits
  /\ Entries \subseteq Tcp \cup Udp
  /\ Profiles \subseteq [required : SUBSET Tcp, hints : SUBSET Tcp, vendor : BOOLEAN,
                         skips : SUBSET Tests]
  /\ MaxLaunches \in Nat /\ MaxOutages \in Nat

VARIABLES
  device,    \* the traits of the device, which do not change during a launch
  launch,    \* the launches so far
  todo,      \* the tests that remain, in the order of their identifiers
  port,      \* _PORT_SCAN_CACHE[run]
  u08,       \* _PORT_SCAN_CACHE[run + "_u08"]
  tls,       \* _TESTSSL_CACHE[run]: the facts of one entry, {} for none
  skips,     \* skip_test_ids, as far as the ports make them
  excluded,  \* skip_test_ids, as far as a profile makes them
  record,    \* the device's row: what the tests have learned
  known,     \* the row as the engine loaded it at launch, and never again
  last,      \* the last verdict stored
  outages,   \* tests touched by an outage so far
  quiet      \* no outage, failed tool or partial port scan in this launch so far

caches == <<port, u08, tls>>
vars == <<device, launch, todo, caches, skips, excluded, record, known, last, outages, quiet>>

\* What the row holds: the address, its vendor, open ports, the odd one among them.
Fields == {"mac", "vendor", "ports", "odd"}

Scans == {NoScan} \cup [on : {TRUE}, seen : SUBSET (Tcp \cup Udp \cup UdpSilent),
                        named : BOOLEAN]

NoVerdict == [test |-> "none", verdict |-> "none"]

TlsFacts == {"testssl", "python", "text", "complete", "versions", "weak_versions",
             "ciphers", "weak_ciphers", "cert", "cert_valid", "cert_issue"}

TypeOK ==
  /\ device \in Devices
  /\ launch \in 0..MaxLaunches
  /\ todo \in 0..(Len(Plan) + 1)
  /\ port \in Scans /\ u08 \in Scans
  /\ tls \subseteq TlsFacts
  /\ skips \subseteq Tests /\ excluded \subseteq Tests
  /\ record \subseteq Fields /\ known \subseteq Fields
  /\ last \in [test : Tests \cup {"none"}, verdict : Verdicts \cup {"none"}]
  /\ outages \in 0..MaxOutages
  /\ quiet \in BOOLEAN

Init ==
  /\ device \in Devices
  /\ launch = 0 /\ todo = 0
  /\ port = NoScan /\ u08 = NoScan /\ tls = {}
  /\ skips = {} /\ excluded = {}
  /\ record = {} /\ known = {}
  /\ last = NoVerdict
  /\ outages = 0
  /\ quiet = TRUE

--------------------------------------------------------------------------------
(* A test's attempt.  Each operator below is the set of results that            *)
(* _dispatch_test may have for it: the answer for its evaluator, and the caches *)
(* when it ends; "out" says that an outage touches the attempt.                 *)

\* The result of an attempt that leaves the caches alone.
Result(a) == [answer |-> a, port |-> port, u08 |-> u08, tls |-> tls]

\* A tool that fails raises; _run_single_test makes an error of it.
Raised == Result(Error)

\* A test with one tool: it sees what there is, or nothing, or fails.
Ask(facts, out) == {Error, Answer(facts)} \cup (IF out THEN {Answer({})} ELSE {})

Evidence == port.on \/ u08.on

Merged == Merge(port, u08)

\* U02: nmap in three ways, the tables of neighbours, the row the engine loaded, and
\* a resolver for the vendor, with what the row says as a hint.
Identify(out) ==
  LET Found == {ArpCache(ArpScan(own, host)) \cup (known \cap {"mac"}) :
                  own \in Lines, host \in Lines}
      Vendors(address) ==
        ResolveVendor(known \cap {"vendor"}, address, "vendor" \in device)
  IN {Error} \cup UNION {{Answer(m \cup v) : v \in Vendors(m)} : m \in Found}

\* U04: the observer, if the address is known by now; else what nmap discovers,
\* which is never raised.
Lease ==
  {Answer(DhcpDiscover(answered)) : answered \in BOOLEAN} \cup {Failing({})}
    \cup (IF "dhcp" \in device /\ "mac" \in known \cup record
          THEN {Answer({"observed"}), Answer({"observed", "acknowledged"})}
          ELSE {})

\* All that a scan could show.
Shown == device \cap (Tcp \cup Udp \cup UdpSilent)

\* U06: nmap over all ports, or the fast TCP probe where there is no host scanner or
\* nmap found nothing; then UDP, whose failure is only noted.
TcpScans(out) ==
  {Scan(v, FALSE) : v \in Views(device \cap Tcp, out)} \cup TcpInventory(device, known)

PortScans(out) == {Merge(t, u) : t \in TcpScans(out), u \in UdpInventory(device)}

PortScan(out) ==
  {Raised} \cup
  {[Result(IF s.seen = Shown THEN Answer({}) ELSE Failing({})) EXCEPT !.port = s] :
     s \in PortScans(out)}

\* U08: versions on the TCP ports that U06 found, else on nmap's default ports.
ServiceScan(out) ==
  LET scope == IF port.seen \cap Tcp # {} THEN port.seen \cap Tcp ELSE Common
  IN {Raised} \cup
     {[Result(Answer({})) EXCEPT !.u08 = Scan(v, TRUE)] : v \in Views(device \cap scope, out)}

\* TCP 322 is allowed whatever the list says.
Whitelist == Entries \cup (IF "rtsps" \in device THEN {"odd"} ELSE {})

Unlisted(seen) == IF seen \subseteq Whitelist THEN {} ELSE {"unlisted"}

\* U09: the evidence of U06 and U08, or a scan of its own.
Compliance(out) ==
  IF Evidence THEN {Result(Answer(Unlisted(Definite(Merged.seen))))}
  ELSE {Raised} \cup
       {[Result(Answer(Unlisted(v))) EXCEPT !.port = Scan(v, FALSE)] :
          v \in Views(device \cap Tcp, out)}

\* The scan that later tests consult: U06's, even an empty one, before U08's.
Consulted == IF port.on THEN port ELSE u08

\* The port the TLS tests talk to: 443, unless it is closed and another is known by
\* its name or is one of the ports usual for TLS.
TlsTarget ==
  IF /\ "https" \notin Consulted.seen
     /\ "tls" \in Recognised(Consulted) \/ ("tls" \in Consulted.seen /\ "usual_tls" \in device)
    THEN "tls"
    ELSE "https"

\* _tls_cache_satisfies_test.
TlsCached(test) ==
  /\ tls # {}
  /\ test \in {"U10", "U11"} => "testssl" \in tls \/ "python" \notin tls
  /\ test = "U11" => "complete" \in tls
  /\ test = "U12" => "cert" \in tls

\* A run of testssl, completed by Python's view if it shows no version at all, and
\* for U11 by nmap's if it shows no suite.
Reports(test, out) ==
  Views(TestsslJson(test, TlsTarget, device), out)
    \cup Views(TestsslText(test, TlsTarget, device), out)

Parsed(test, v) ==
  v \cup {"testssl"} \cup (IF test # "U11" \/ "ciphers" \in v THEN {"complete"} ELSE {})

Completed(v, out) ==
  IF "versions" \in v THEN {v}
  ELSE {MergeTls(v, p) : p \in PythonViews(TlsTarget, device, out)}

WithNmap(test, v) ==
  IF test # "U11" \/ "ciphers" \in v THEN {v}
  ELSE {WithSuites(v, n) : n \in NmapSuites(TlsTarget, device)}

TestsslFacts(test, out) ==
  UNION {UNION {WithNmap(test, c) : c \in Completed(Parsed(test, v), out)} :
           v \in Reports(test, out)}

\* Python's quick probe, which U12 tries first.
QuickProbe(test, out) ==
  {f \in PythonViews(TlsTarget, device, out) : test = "U12" /\ "versions" \in f}

\* U10, U11 and U12: the cache, then the quick probe, then testssl.
TlsTest(test, out) ==
  IF TlsCached(test) THEN {Result(Answer(tls))}
  ELSE {Raised} \cup
       {[Result(Answer(f)) EXCEPT !.tls = f] :
          f \in QuickProbe(test, out) \cup TestsslFacts(test, out)}

\* U15.
SshAudit(out) == UNION {Ask(r, out) : r \in SshReports(device)}

\* The web ports a login is looked for on: what the scans tell, else the usual ones.
LoginPorts(usual) ==
  IF Evidence THEN WebPorts(port) \cup WebPorts(u08) ELSE usual

\* U16.
Credentials(out) == DefaultCredentials(device, LoginPorts({"http"}), out)

\* U17.
BruteForce(out) ==
  BruteForceProtection(device, SshPorts(Merged) # {}, LoginPorts({"http", "https"}), out)

\* U18: any error means that no HTTP service was detected.
Redirect ==
  {Answer(IF "http" \in device THEN {"http_open"} \cup (device \cap {"redirects"}) ELSE {}),
   Failing({})}

\* U19: what cannot be told is inferred from the services.
OsScan == {Answer({}), Failing({})}

\* U26 and U29: the observer, then U06's UDP scan, then a scan of its own, which
\* must answer for NTP only.
UdpTest(service, silent, mustAnswer, out) ==
  LET before == port.seen \cap {silent} # {}
      now == IF service \in device THEN {"open"}
             ELSE IF silent \in device THEN {"inconclusive"} ELSE {}
      With(v) == IF before /\ "open" \notin v THEN v \cup {"inconclusive"} ELSE v
      observed == {Observer(p) : p \in Packets("syncs" \in device)} \ {{}}
  IN {Answer(o) : o \in observed}
       \cup (IF service \in port.seen THEN {Answer({"open"})}
             ELSE {IF mustAnswer THEN Error ELSE Failing({"inconclusive"})}
                    \cup {Answer(With(v)) : v \in Views(now, out)})

\* U28 has one verdict, unless its scan fails.
BacnetTest == {Answer({})} \cup (IF "bacnet" \in port.seen THEN {} ELSE {Error})

\* The headers of the web service that was found.
CapturedHeaders(out) ==
  LET reached == PreferredWeb(Consulted) \cap device # {}
  IN {Answer(HeaderFindings(device, reached))}
       \cup (IF reached THEN {Failing(HeaderFindings(device, FALSE))} ELSE {})

\* U35: nikto, on the service that was found or on port 80, and the headers.
WebAssessment(out) ==
  LET reached == PreferredWeb(Consulted) \cap device # {} \/ "http" \in device
  IN {Error} \cup
     {[h EXCEPT !.facts = @ \cup n] :
        h \in CapturedHeaders(out), n \in {Nikto(device, r) : r \in {reached, reached /\ ~out}}}

\* The tests that leave the caches alone.
Answers(test, out) ==
  CASE test = "U01" -> Ask(Ping(TRUE), out)
    [] test = "U02" -> Identify(out)
    [] test = "U04" -> Lease
    [] test = "U15" -> SshAudit(out)
    [] test = "U16" -> Credentials(out)
    [] test = "U17" -> BruteForce(out)
    [] test = "U18" -> Redirect
    [] test = "U19" -> OsScan
    [] test = "U26" -> UdpTest("ntp", "ntp?", TRUE, out)
    [] test = "U28" -> BacnetTest
    [] test = "U29" -> UdpTest("dns", "dns?", FALSE, out)
    [] test = "U35" -> WebAssessment(out)

Dispatch(test, out) ==
  CASE test = "U06" -> PortScan(out)
    [] test = "U08" -> ServiceScan(out)
    [] test = "U09" -> Compliance(out)
    [] test \in {"U10", "U11", "U12"} -> TlsTest(test, out)
    [] OTHER -> {Result(a) : a \in Answers(test, out)}

--------------------------------------------------------------------------------
(* The engine's loop.                                                            *)

\* A launch.  The device may have been changed since the last one.
Launch ==
  /\ todo = 0 /\ launch < MaxLaunches
  /\ launch' = launch + 1
  /\ device' \in Devices
  /\ todo' = 1
  /\ port' = NoScan /\ tls' = {}
  /\ known' = record
  /\ last' = NoVerdict
  /\ quiet' = TRUE
  /\ UNCHANGED <<u08, skips, excluded, record, outages>>

Current == Plan[todo]

Advance == todo' = todo + 1

Running == todo \in 1..Len(Plan)

\* Mutant: a verdict by the name that compute_diff uses.
SkipNotApplicable ==
  /\ Running /\ Current \in skips \cup excluded
  /\ last' = [test |-> Current, verdict |-> "n/a"]
  /\ Advance
  /\ UNCHANGED <<device, launch, caches, skips, excluded, record, known, outages, quiet>>

\* A test whose service was not detected, or that does not apply to the profile.
Skip ==
  /\ Running /\ Current \in skips \cup excluded
  /\ last' = [test |-> Current, verdict |-> "na"]
  /\ Advance
  /\ UNCHANGED <<device, launch, caches, skips, excluded, record, known, outages, quiet>>

\* What a scan leaves in the row.
Kept(seen) == (IF seen = {} THEN {} ELSE {"ports"}) \cup (seen \cap {"odd"})

\* _enrich_device_from_result, on the result r of the current test.
Enriched(r) ==
  CASE Current = "U02" -> record \cup (r.answer.facts \cap {"mac", "vendor"})
    [] Current = "U06" /\ "ports" \notin record -> record \cup Kept(r.port.seen)
    [] Current = "U08" /\ r.u08.seen # {} -> (record \ {"ports", "odd"}) \cup Kept(r.u08.seen)
    [] OTHER -> record

\* An attempt, its result stored.
RunTest(out) ==
  /\ Running /\ Current \notin skips \cup excluded \cup {"fingerprint"}
  /\ out => outages < MaxOutages
  /\ \E r \in Dispatch(Current, out) :
       /\ last' = [test |-> Current,
                   verdict |-> IF r.answer.raised THEN "error"
                               ELSE Evaluate(Current, r.answer.facts)]
       /\ port' = r.port /\ u08' = r.u08 /\ tls' = r.tls
       /\ record' = IF r.answer.raised THEN record ELSE Enriched(r)
       /\ quiet' = (quiet /\ ~out /\ ~r.answer.failed)
  /\ outages' = IF out THEN outages + 1 ELSE outages
  /\ Advance
  /\ UNCHANGED <<device, launch, skips, excluded, known>>

\* An attempt at whose end the run is paused for the cable: the verdict is
\* dropped and the test tried again, but what the attempt cached stays.
Retry ==
  /\ Running /\ Current \notin skips \cup excluded \cup {"fingerprint"}
  /\ outages < MaxOutages
  /\ \E r \in Dispatch(Current, TRUE) : port' = r.port /\ u08' = r.u08 /\ tls' = r.tls
  /\ outages' = outages + 1
  /\ quiet' = FALSE
  /\ UNCHANGED <<device, launch, todo, skips, excluded, record, known, last>>

TlsTests == {"U10", "U11", "U12"}
WebTests == {"U16", "U17", "U18", "U35"}

\* _compute_port_skips.
PortSkips(scan) ==
  (IF {"https", "tls"} \cap WebPorts(scan) # {} THEN {} ELSE TlsTests)
    \cup (IF "ssh" \in scan.seen THEN {} ELSE {"U15"})
    \cup (IF WebPorts(scan) # {} THEN {} ELSE WebTests)

\* Mutant: whatever the scans gave, the ports they show are all there are.
SkippedAlways == PortSkips(IF u08.on THEN u08 ELSE port)

\* The tests to skip: by U08's services, or by U06's ports, or none at all.
Skipped ==
  IF u08.on THEN PortSkips(u08)
  ELSE IF port.on THEN PortSkips(port)
  ELSE {}

\* _match_profile, on the ports seen and the vendor of the row as it was loaded.
Score(profile, seen) ==
  (IF profile.required \subseteq seen THEN 2 * Cardinality(profile.required) ELSE 0)
    + Cardinality(profile.hints \cap seen)
    + (IF profile.vendor /\ "vendor" \in known THEN 5 ELSE 0)

\* The profiles that may be the best; the first of equals in the table's order is.
Matching(seen) ==
  {p \in Profiles : /\ Score(p, seen) >= 2
                    /\ \A q \in Profiles : Score(q, seen) <= Score(p, seen)}

\* _run_fingerprint_phase.
Fingerprint ==
  LET seen == (IF u08.on THEN u08 ELSE port).seen
  IN /\ skips' = Skipped
     /\ IF Matching(seen) = {} THEN excluded' = {}
        ELSE \E p \in Matching(seen) : excluded' = p.skips
     /\ record' = (record \ {"ports", "odd"}) \cup Kept(seen)

\* If the phase fails, no test is skipped.
FingerprintPhase ==
  /\ Running /\ Current = "fingerprint"
  /\ Fingerprint \/ UNCHANGED <<skips, excluded, record>>
  /\ Advance
  /\ UNCHANGED <<device, launch, caches, known, last, outages, quiet>>

\* Mutant: U08's entry is forgotten at the end.
EndKeeping ==
  /\ todo # 0
  /\ todo' = 0
  /\ port' = NoScan /\ tls' = {}
  /\ skips' = {} /\ excluded' = {}
  /\ UNCHANGED <<device, launch, u08, record, known, last, outages, quiet>>

\* The engine is done, cancelled, or dies with the process.
End ==
  /\ todo # 0
  /\ todo' = 0
  /\ port' = NoScan /\ u08' = NoScan /\ tls' = {}
  /\ skips' = {} /\ excluded' = {}
  /\ UNCHANGED <<device, launch, record, known, last, outages, quiet>>

Next ==
  \/ Launch \/ Skip \/ Retry \/ FingerprintPhase \/ End
  \/ \E out \in BOOLEAN : RunTest(out)

Spec == Init /\ [][Next]_vars

--------------------------------------------------------------------------------
(* Properties.                                                                   *)

\* The weakness a test fails for, or that keeps it from passing.
Weak(test) ==
  CASE test = "U04" -> "dhcp" \notin device
    [] test = "U09" -> ~(device \cap (Tcp \cup Udp) \subseteq Whitelist)
    [] test = "U10" -> "weak_versions" \in device
    [] test = "U11" -> "weak_ciphers" \in device
    [] test = "U12" -> "bad_cert" \in device
    [] test = "U15" -> "weak_ssh" \in device
    [] test = "U16" -> "default_login" \in device
    [] test = "U17" -> "lockout" \notin device
    [] test = "U18" -> "http" \in device /\ "redirects" \notin device
    [] test \in {"U26", "U29"} -> "syncs" \notin device
    [] test = "U35" -> {"http", "https"} \cap device # {} /\ "headers" \notin device
    [] OTHER -> FALSE

\* A tool's text, read for want of its JSON, tells less: testssl's seems to offer every
\* protocol, and of ssh-audit's whatever is marked counts.
Misread(test) ==
  \/ test = "U10" /\ "text" \in tls
  \/ test = "U15" /\ "frowned_ssh" \in device

\* A test other than the ping fails only a device that has the weakness, or one whose
\* text report is misread: neither a failed tool, nor an outage, nor what an earlier
\* launch learned of the device before it was repaired can make it fail.
NoFalseAlarm ==
  last.verdict = "fail" /\ last.test # "U01" /\ todo # 0 =>
    Weak(last.test) \/ Misread(last.test)

\* As long as every tool of the launch answered in full, a test passes only a device
\* without the weakness it looks for, whichever test filled the caches.
PassIsEarned ==
  quiet /\ last.verdict = "pass" => ~Weak(last.test)

\* The services a test needs.
Subject(test) ==
  CASE test \in TlsTests -> {"https", "tls"}
    [] test = "U15" -> {"ssh"}
    [] OTHER -> {"http", "https", "tls"}

\* For want of their service tests are skipped only on the evidence of a scan of this
\* launch, and then, if the tools answered in full, because the device lacks it.
SkipsAreGrounded ==
  /\ skips # {} => Evidence
  /\ quiet => \A t \in skips : Subject(t) \cap device = {}

\* Weak ciphers are rejected: test_library.py on U11.
WeakCiphersRejected ==
  quiet /\ last.test = "U11" /\ {"https", "weak_ciphers"} \subseteq device =>
    last.verdict = "fail"
================================================================================
