--------------------------- MODULE Assessment_proofs ---------------------------
(* Proofs about the automatic tests, for any devices, whitelist and profiles and *)
(* any number of launches and outages.                                           *)
EXTENDS Assessment, TLAPS

Names == {"U01", "U02", "U04", "U06", "U08", "fingerprint", "U09", "U10", "U11", "U12",
          "U15", "U16", "U17", "U18", "U19", "U26", "U28", "U29", "U35"}

\* The plan's tests, and the places that matter below.
LEMMA PlanIs ==
  /\ Tests = Names /\ Len(Plan) = 19
  /\ \A i \in 1..19 : Plan[i] \in Names
  /\ \A i \in 1..19 : Plan[i] = "U06" <=> i = 4
  /\ \A i \in 1..19 : Plan[i] = "U08" <=> i = 5
  /\ \A i \in 1..19 : Plan[i] = "fingerprint" <=> i = 6
  /\ \A i \in 1..19 : Plan[i] = "U09" <=> i = 7
  /\ \A i \in 1..19 : Plan[i] = "U10" <=> i = 8
  /\ \A i \in 1..19 : Plan[i] = "U11" <=> i = 9
  /\ \A i \in 1..19 : Plan[i] = "U12" <=> i = 10
<1> DEFINE p == Plan
<1>1. Len(p) = 19 /\ DOMAIN p = 1..19
  BY DEF Plan
<1>2. /\ p[1] = "U01" /\ p[2] = "U02" /\ p[3] = "U04" /\ p[4] = "U06" /\ p[5] = "U08"
      /\ p[6] = "fingerprint" /\ p[7] = "U09" /\ p[8] = "U10" /\ p[9] = "U11"
      /\ p[10] = "U12" /\ p[11] = "U15" /\ p[12] = "U16" /\ p[13] = "U17" /\ p[14] = "U18"
      /\ p[15] = "U19" /\ p[16] = "U26" /\ p[17] = "U28" /\ p[18] = "U29" /\ p[19] = "U35"
  BY DEF Plan
<1>3. Tests = {p[i] : i \in DOMAIN p}
  BY DEF Tests
<1> HIDE DEF p
<1>4. \A i \in 1..19 : i \in {1, 2, 3, 4, 5, 6, 7, 8, 9, 10, 11, 12, 13, 14, 15, 16, 17, 18, 19}
  OBVIOUS
<1>5. Tests = Names
  BY <1>1, <1>2, <1>3, <1>4 DEF Names
<1>6. \A i \in 1..19 : p[i] \in Names
  BY <1>2, <1>4 DEF Names
<1>7. /\ \A i \in 1..19 : p[i] = "U06" <=> i = 4
      /\ \A i \in 1..19 : p[i] = "U08" <=> i = 5
      /\ \A i \in 1..19 : p[i] = "fingerprint" <=> i = 6
      /\ \A i \in 1..19 : p[i] = "U09" <=> i = 7
      /\ \A i \in 1..19 : p[i] = "U10" <=> i = 8
      /\ \A i \in 1..19 : p[i] = "U11" <=> i = 9
      /\ \A i \in 1..19 : p[i] = "U12" <=> i = 10
  BY <1>2, <1>4
<1> QED
  BY <1>1, <1>5, <1>6, <1>7 DEF p

\* Each test has the rule of its name.
LEMMA EvaluateIs ==
  ASSUME NEW e
  PROVE  /\ Evaluate("U01", e) = EvalU01(e) /\ Evaluate("U02", e) = EvalU02(e)
         /\ Evaluate("U04", e) = EvalU04(e) /\ Evaluate("U06", e) = EvalU06(e)
         /\ Evaluate("U08", e) = EvalU08(e) /\ Evaluate("U09", e) = EvalU09(e)
         /\ Evaluate("U10", e) = EvalU10(e) /\ Evaluate("U11", e) = EvalU11(e)
         /\ Evaluate("U12", e) = EvalU12(e) /\ Evaluate("U15", e) = EvalU15(e)
         /\ Evaluate("U16", e) = EvalU16(e) /\ Evaluate("U17", e) = EvalU17(e)
         /\ Evaluate("U18", e) = EvalU18(e) /\ Evaluate("U19", e) = EvalU19(e)
         /\ Evaluate("U26", e) = EvalU26(e) /\ Evaluate("U28", e) = EvalU28(e)
         /\ Evaluate("U29", e) = EvalU29(e) /\ Evaluate("U35", e) = EvalU35(e)
BY DEF Evaluate

\* Every rule gives a verdict.
LEMMA EvaluateTypes ==
  ASSUME NEW test \in Names \ {"fingerprint"}, NEW e
  PROVE  Evaluate(test, e) \in Verdicts
BY EvaluateIs DEF Names, Verdicts, EvalU01, EvalU02, EvalU04, EvalU06, EvalU08, EvalU09,
   EvalU10, EvalU11, EvalU12, EvalU15, EvalU16, EvalU17, EvalU18, EvalU19, EvalU26, EvalU28,
   EvalU29, EvalU35

--------------------------------------------------------------------------------
(* What the scans leave in their caches.                                         *)

\* A scan in a cache shows nothing the device does not have.  U06 and U09 look at
\* no banners, U08 at all of them.
PortSound(s) == s \in Scans /\ s.seen \subseteq device /\ s.named = FALSE

U08Sound(s) == s \in Scans /\ s.seen \subseteq device /\ s.named = s.on

\* The fields of a result.
LEMMA ResultIs ==
  ASSUME NEW a
  PROVE  /\ Result(a).answer = a /\ Result(a).port = port
         /\ Result(a).u08 = u08 /\ Result(a).tls = tls
BY DEF Result

\* The fields of a result that puts another entry into a cache.
LEMMA ResultWith ==
  ASSUME NEW a, NEW x
  PROVE  /\ [Result(a) EXCEPT !.port = x] =
              [answer |-> a, port |-> x, u08 |-> u08, tls |-> tls]
         /\ [Result(a) EXCEPT !.u08 = x] =
              [answer |-> a, port |-> port, u08 |-> x, tls |-> tls]
         /\ [Result(a) EXCEPT !.tls = x] =
              [answer |-> a, port |-> port, u08 |-> u08, tls |-> x]
BY DEF Result

\* The fields of an answer.
LEMMA AnswerIs ==
  /\ \A f : /\ Answer(f).facts = f /\ Answer(f).failed = FALSE /\ Answer(f).raised = FALSE
            /\ Failing(f).facts = f /\ Failing(f).failed = TRUE /\ Failing(f).raised = FALSE
  /\ Error.facts = {} /\ Error.failed = TRUE /\ Error.raised = TRUE
BY DEF Answer, Failing, Error

\* A view is what there is, or nothing for an outage.
LEMMA ViewsAre ==
  ASSUME NEW seen, NEW out, NEW v \in Views(seen, out)
  PROVE  v = seen \/ (out /\ v = {})
BY DEF Views

\* The fields of a scan.
LEMMA ScanIs ==
  ASSUME NEW seen
  PROVE  /\ Scan(seen, FALSE).on = TRUE /\ Scan(seen, TRUE).on = TRUE
         /\ Scan(seen, FALSE).seen = seen /\ Scan(seen, TRUE).seen = seen
         /\ Scan(seen, FALSE).named = FALSE /\ Scan(seen, TRUE).named = TRUE
BY DEF Scan

\* A scan of what the device shows is an entry of a cache.
LEMMA ScanSound ==
  ASSUME NEW seen \in SUBSET Shown
  PROVE  PortSound(Scan(seen, FALSE)) /\ U08Sound(Scan(seen, TRUE))
<1>1. seen \subseteq device /\ seen \in SUBSET (Tcp \cup Udp \cup UdpSilent)
  BY DEF Shown
<1>2. Scan(seen, FALSE) \in Scans /\ Scan(seen, TRUE) \in Scans
  BY <1>1 DEF Scan, Scans
<1>3. PortSound(Scan(seen, FALSE))
  BY <1>1, <1>2, ScanIs DEF PortSound
<1>4. U08Sound(Scan(seen, TRUE))
  BY <1>1, <1>2, ScanIs DEF U08Sound
<1> QED
  BY <1>3, <1>4

\* The scans that U06 may end with show no more than the device does.
LEMMA PortScansAre ==
  ASSUME NEW out, NEW s \in PortScans(out)
  PROVE  PortSound(s) /\ s.on = TRUE
<1>1. \E t \in TcpScans(out), u \in UdpInventory(device) : s = Merge(t, u)
  BY DEF PortScans
<1> PICK t \in TcpScans(out), u \in UdpInventory(device) : s = Merge(t, u)
  BY <1>1
<1>2. t.seen \subseteq device \cap Tcp /\ t.named = FALSE
  <2>1. CASE t \in TcpInventory(device, known)
    <3>1. \E v \in Connects(device, ProbePorts(known)) : t = Scan(v, FALSE)
      BY <2>1 DEF TcpInventory, TcpProbe
    <3>2. ProbePorts(known) \subseteq Tcp
      BY DEF ProbePorts, Common
    <3>3. \A v \in Connects(device, ProbePorts(known)) : v \subseteq device \cap Tcp
      BY <3>2 DEF Connects
    <3> PICK v \in Connects(device, ProbePorts(known)) : t = Scan(v, FALSE)
      BY <3>1
    <3> QED
      BY <3>3 DEF Scan
  <2>2. CASE t \in {Scan(v, FALSE) : v \in Views(device \cap Tcp, out)}
    <3> PICK v \in Views(device \cap Tcp, out) : t = Scan(v, FALSE)
      BY <2>2
    <3>1. v \subseteq device \cap Tcp
      BY ViewsAre
    <3> QED
      BY <3>1 DEF Scan
  <2> QED
    BY <2>1, <2>2 DEF TcpScans
<1>3. u.seen \subseteq device \cap (Udp \cup UdpSilent) /\ u.named = FALSE
  <2>1. \E v \in {device \cap (Udp \cup UdpSilent), {}} : u = Scan(v, FALSE)
    BY DEF UdpInventory
  <2> QED
    BY <2>1 DEF Scan
<1> PICK seen : seen = t.seen \cup u.seen
  OBVIOUS
<1>4. seen \in SUBSET Shown
  BY <1>2, <1>3 DEF Shown
<1>5. s = Scan(seen, FALSE)
  BY <1>2, <1>3 DEF Merge
<1> QED
  BY <1>4, <1>5, ScanSound, ScanIs

\* U06 leaves a scan that is whole unless it says that it failed.
LEMMA PortScanIs ==
  ASSUME NEW out \in BOOLEAN, NEW r \in PortScan(out), PortSound(port)
  PROVE  /\ r.u08 = u08 /\ r.tls = tls
         /\ PortSound(r.port) /\ (port.on => r.port.on)
         /\ ~r.answer.failed => r.port.on /\ r.port.seen = Shown
<1>1. CASE r = Raised
  BY <1>1, ResultIs, AnswerIs DEF Raised
<1>2. CASE r # Raised
  <2>2. \E s \in PortScans(out) :
          r = [Result(IF s.seen = Shown THEN Answer({}) ELSE Failing({})) EXCEPT !.port = s]
    BY <1>2 DEF PortScan
  <2> PICK s \in PortScans(out) :
          r = [Result(IF s.seen = Shown THEN Answer({}) ELSE Failing({})) EXCEPT !.port = s]
    BY <2>2
  <2>3. PortSound(s) /\ s.on = TRUE
    BY PortScansAre
  <2>4. r = [answer |-> IF s.seen = Shown THEN Answer({}) ELSE Failing({}),
             port |-> s, u08 |-> u08, tls |-> tls]
    BY ResultWith
  <2> QED
    BY <2>3, <2>4, AnswerIs
<1> QED
  BY <1>1, <1>2

\* U08 looks at the TCP ports that U06 found, or at the common ones.
LEMMA ServiceScanIs ==
  ASSUME NEW out \in BOOLEAN, NEW r \in ServiceScan(out), PortSound(port), U08Sound(u08)
  PROVE  /\ r.port = port /\ r.tls = tls
         /\ U08Sound(r.u08) /\ (u08.on => r.u08.on)
         /\ ~out /\ ~r.answer.failed /\ port.seen = Shown =>
              r.u08.on /\ r.u08.seen = device \cap Tcp
<1> DEFINE scope == IF port.seen \cap Tcp # {} THEN port.seen \cap Tcp ELSE Common
<1>1. CASE r = Raised
  BY <1>1, ResultIs, AnswerIs DEF Raised
<1>2. CASE r # Raised
  <2>1. \E v \in Views(device \cap scope, out) :
          r = [Result(Answer({})) EXCEPT !.u08 = Scan(v, TRUE)]
    BY <1>2 DEF ServiceScan
  <2>2. PICK v \in Views(device \cap scope, out) :
          r = [answer |-> Answer({}), port |-> port, u08 |-> Scan(v, TRUE), tls |-> tls]
    BY <2>1, ResultWith
  <2>3. scope \subseteq Tcp
    BY DEF Common
  <2>4. v \subseteq device \cap Tcp
    BY <2>3, ViewsAre
  <2>5. U08Sound(Scan(v, TRUE))
    BY <2>4, ScanSound DEF Shown
  <2>6. ASSUME ~out, port.seen = Shown PROVE v = device \cap Tcp
    <3>1. v = device \cap scope
      BY <2>6, ViewsAre
    <3>2. port.seen \cap Tcp = device \cap Tcp
      BY <2>6 DEF Shown
    <3> QED
      BY <3>1, <3>2, <2>3
  <2> QED
    BY <2>2, <2>5, <2>6, ScanIs
<1> QED
  BY <1>1, <1>2

\* U09 scans by itself only if there is no evidence yet.
LEMMA ComplianceIs ==
  ASSUME NEW out \in BOOLEAN, NEW r \in Compliance(out), PortSound(port)
  PROVE  /\ r.u08 = u08 /\ r.tls = tls
         /\ PortSound(r.port) /\ (port.on => r.port.on)
         /\ Evidence => r = Result(Answer(Unlisted(Definite(Merged.seen))))
         /\ ~Evidence => \/ r = Raised
                         \/ \E v \in SUBSET (device \cap Tcp) : r.answer = Answer(Unlisted(v))
<1>1. CASE Evidence
  <2>1. r = Result(Answer(Unlisted(Definite(Merged.seen))))
    BY <1>1 DEF Compliance
  <2> QED
    BY <1>1, <2>1, ResultIs
<1>2. CASE ~Evidence /\ r = Raised
  BY <1>2, ResultIs DEF Raised
<1>3. CASE ~Evidence /\ r # Raised
  <2>1. \E v \in Views(device \cap Tcp, out) :
          r = [Result(Answer(Unlisted(v))) EXCEPT !.port = Scan(v, FALSE)]
    BY <1>3 DEF Compliance
  <2> PICK v \in Views(device \cap Tcp, out) :
          r = [answer |-> Answer(Unlisted(v)), port |-> Scan(v, FALSE), u08 |-> u08, tls |-> tls]
    BY <2>1, ResultWith
  <2>2. v \subseteq device \cap Tcp
    BY ViewsAre
  <2>3. PortSound(Scan(v, FALSE)) /\ Scan(v, FALSE).on = TRUE
    BY <2>2, ScanSound, ScanIs DEF Shown
  <2> QED
    BY <1>3, <2>2, <2>3
<1> QED
  BY <1>1, <1>2, <1>3

--------------------------------------------------------------------------------
(* What the TLS tests leave in theirs.                                           *)

\* An entry accuses the device of nothing it does not do, but for versions that were
\* read from text; it calls a certificate good only if it is.  A text is a complete
\* report of testssl, so that no later test but U12 replaces it.
TlsSound(f) ==
  /\ f \subseteq TlsFacts
  /\ "weak_versions" \in f => "weak_versions" \in device \/ "text" \in f
  /\ "weak_ciphers" \in f => "weak_ciphers" \in device
  /\ "cert_valid" \in f /\ "cert_issue" \notin f => "bad_cert" \notin device
  /\ "text" \in f => {"testssl", "complete"} \subseteq f

\* If suites were listed, so were the weak ones; likewise for versions.
SuitesSeen(f) == "ciphers" \in f /\ "weak_ciphers" \in device => "weak_ciphers" \in f

VersionsSeen(f) == "versions" \in f /\ "weak_versions" \in device => "weak_versions" \in f

\* The report of testssl before it is parsed.
ReportSound(test, v) ==
  /\ v \subseteq TlsFacts \ {"testssl", "complete", "python"}
  /\ "weak_versions" \in v => "weak_versions" \in device \/ "text" \in v
  /\ "weak_ciphers" \in v => "weak_ciphers" \in device
  /\ "cert_valid" \in v /\ "cert_issue" \notin v => "bad_cert" \notin device
  /\ "text" \in v => "versions" \in v /\ (test = "U11" => "ciphers" \in v)

\* What Python's ssl module or nmap adds.
LEMMA OthersAre ==
  ASSUME NEW s, NEW out \in BOOLEAN
  PROVE  /\ \A p \in PythonViews(s, device, out) :
              /\ p \subseteq TlsFacts \ {"testssl", "complete", "text", "weak_ciphers"}
              /\ "weak_versions" \in p => "weak_versions" \in device
              /\ "cert_valid" \in p => "cert_issue" \in p
              /\ s \notin device => p = {"python"}
         /\ \A n \in NmapSuites(s, device) :
              /\ n \subseteq {"versions", "weak_versions", "ciphers", "weak_ciphers"}
              /\ "weak_versions" \in n => "weak_versions" \in device
              /\ "weak_ciphers" \in n => "weak_ciphers" \in device
              /\ n # {} /\ "weak_ciphers" \in device => "weak_ciphers" \in n
              /\ s \notin device => n = {}
<1>1. ASSUME NEW p \in PythonViews(s, device, out)
      PROVE  /\ p \subseteq TlsFacts \ {"testssl", "complete", "text", "weak_ciphers"}
             /\ "weak_versions" \in p => "weak_versions" \in device
             /\ "cert_valid" \in p => "cert_issue" \in p
             /\ s \notin device => p = {"python"}
  <2> DEFINE found == {"python", "versions", "ciphers", "cert", "cert_valid", "cert_issue"}
  <2>1. \/ p = {"python"}
        \/ s \in device /\ p \in {found, found \cup (device \cap {"weak_versions"})}
    BY <1>1 DEF PythonViews
  <2> QED
    BY <2>1 DEF TlsFacts
<1>2. ASSUME NEW n \in NmapSuites(s, device)
      PROVE  /\ n \subseteq {"versions", "weak_versions", "ciphers", "weak_ciphers"}
             /\ "weak_versions" \in n => "weak_versions" \in device
             /\ "weak_ciphers" \in n => "weak_ciphers" \in device
             /\ n # {} /\ "weak_ciphers" \in device => "weak_ciphers" \in n
             /\ s \notin device => n = {}
  BY <1>2 DEF NmapSuites, Protocols, Suites
<1> QED
  BY <1>1, <1>2

\* The reports, and how much they tell if no outage cuts them off.
LEMMA ReportsAre ==
  ASSUME NEW test \in TlsTests, NEW out \in BOOLEAN, NEW v \in Reports(test, out)
  PROVE  /\ ReportSound(test, v)
         /\ TlsTarget \notin device => v = {}
         /\ ~out /\ TlsTarget \in device =>
              /\ test = "U10" => "versions" \in v /\ VersionsSeen(v) /\ SuitesSeen(v)
              /\ test = "U11" => "ciphers" \in v /\ SuitesSeen(v)
<1> PICK s : s = TlsTarget
  OBVIOUS
<1>1. v \in {TestsslJson(test, s, device), TestsslText(test, s, device)} \/ (out /\ v = {})
  BY ViewsAre DEF Reports
<1>2. ReportSound(test, {})
  BY DEF ReportSound
<1>3. CASE s \in device /\ v = TestsslJson(test, s, device)
  <2>1. /\ test = "U10" => v = Protocols(device)
        /\ test = "U11" => v = Suites(device)
        /\ test = "U12" => v = Protocols(device) \cup Suites(device) \cup Certificate(device)
    BY <1>3 DEF TestsslJson
  <2> QED
    BY <1>3, <2>1 DEF TlsTests, Protocols, Suites, Certificate, ReportSound, TlsFacts,
                      VersionsSeen, SuitesSeen
<1>4. CASE s \in device /\ v = TestsslText(test, s, device)
  <2>1. /\ test = "U10" => v = {"text", "versions", "weak_versions"}
        /\ test = "U11" => v = {"text"} \cup Suites(device) \cup Protocols(device)
        /\ test = "U12" => v = {"text", "versions", "weak_versions", "cert"}
    BY <1>4 DEF TestsslText
  <2> QED
    BY <1>4, <2>1 DEF TlsTests, Protocols, Suites, ReportSound, TlsFacts, VersionsSeen, SuitesSeen
<1>5. CASE s \notin device
  <2>1. v = {}
    BY <1>1, <1>5 DEF TestsslJson, TestsslText
  <2> QED
    BY <1>2, <1>5, <2>1
<1>6. CASE out /\ v = {}
  BY <1>2, <1>6
<1> QED
  BY <1>1, <1>3, <1>4, <1>5, <1>6

\* A parsed report, completed by Python's view of the service and by nmap's suites,
\* is an entry of the cache.
LEMMA TestsslFactsAre ==
  ASSUME NEW test \in TlsTests, NEW out \in BOOLEAN, NEW f \in TestsslFacts(test, out)
  PROVE  /\ TlsSound(f)
         /\ ~out /\ test = "U10" => VersionsSeen(f)
         /\ ~out /\ test \in {"U10", "U11"} => SuitesSeen(f)
<1> PICK s : s = TlsTarget
  OBVIOUS
<1>1. \E v \in Reports(test, out) : \E c \in Completed(Parsed(test, v), out) :
        f \in WithNmap(test, c)
  BY DEF TestsslFacts
<1> PICK v \in Reports(test, out) : \E c \in Completed(Parsed(test, v), out) :
        f \in WithNmap(test, c)
  BY <1>1
<1> PICK u : u = Parsed(test, v)
  OBVIOUS
<1> PICK c \in Completed(u, out) : f \in WithNmap(test, c)
  OBVIOUS
<1>2. /\ ReportSound(test, v)
      /\ s \notin device => v = {}
      /\ ~out /\ s \in device =>
           /\ test = "U10" => "versions" \in v /\ VersionsSeen(v) /\ SuitesSeen(v)
           /\ test = "U11" => "ciphers" \in v /\ SuitesSeen(v)
  BY ReportsAre
<1>3. u = v \cup {"testssl"} \cup (IF test # "U11" \/ "ciphers" \in v THEN {"complete"} ELSE {})
  BY DEF Parsed
<1>4. TlsSound(u)
  BY <1>2, <1>3 DEF ReportSound, TlsSound, TlsFacts
<1>5. /\ TlsSound(c)
      /\ ("versions" \in u => c = u)
      /\ ("versions" \notin u => u \subseteq c \/ "cert_issue" \in u)
      /\ (s \notin device => c \subseteq {"testssl", "complete", "python"})
      /\ ("text" \in c => c = u)
      /\ (u \ {"cert_issue"} \subseteq c)
  <2>1. CASE "versions" \in u
    <3>1. c = u
      BY <2>1 DEF Completed
    <3> QED
      BY <1>2, <1>3, <1>4, <2>1, <3>1
  <2>2. CASE "versions" \notin u
    <3>1. PICK p \in PythonViews(s, device, out) : c = MergeTls(u, p)
      BY <2>2 DEF Completed
    <3>2. /\ p \subseteq TlsFacts \ {"testssl", "complete", "text", "weak_ciphers"}
          /\ "weak_versions" \in p => "weak_versions" \in device
          /\ "cert_valid" \in p => "cert_issue" \in p
          /\ s \notin device => p = {"python"}
      BY OthersAre
    <3>3. "text" \notin u
      BY <1>2, <1>3, <2>2 DEF ReportSound
    <3>4. c = u \cup p \/ ("cert_valid" \in u /\ c = u \cup (p \ {"cert_issue"}))
      BY <3>1 DEF MergeTls
    <3>5. TlsSound(c)
      BY <1>4, <3>2, <3>3, <3>4 DEF TlsSound
    <3>6. s \notin device => c \subseteq {"testssl", "complete", "python"}
      BY <1>2, <1>3, <3>2, <3>4
    <3> QED
      BY <2>2, <3>2, <3>3, <3>4, <3>5, <3>6
  <2> QED
    BY <2>1, <2>2
<1>6. \/ f = c
      \/ /\ test = "U11" /\ "ciphers" \notin c
         /\ \E n \in NmapSuites(s, device) : f = WithSuites(c, n)
  BY DEF WithNmap
<1>7. CASE f = c
  <2>1. ASSUME ~out, test = "U10" PROVE VersionsSeen(f) /\ SuitesSeen(f)
    <3>1. CASE s \in device
      <4>1. c = u /\ VersionsSeen(v) /\ SuitesSeen(v)
        BY <1>2, <1>3, <1>5, <2>1, <3>1
      <4> QED
        BY <1>3, <1>7, <4>1 DEF VersionsSeen, SuitesSeen
    <3>2. CASE s \notin device
      BY <1>5, <1>7, <3>2 DEF VersionsSeen, SuitesSeen
    <3> QED
      BY <3>1, <3>2
  <2>2. ASSUME ~out, test = "U11" PROVE SuitesSeen(f)
    <3>1. CASE s \in device
      BY <1>2, <1>3, <1>5, <1>7, <2>2, <3>1 DEF SuitesSeen
    <3>2. CASE s \notin device
      BY <1>5, <1>7, <3>2 DEF SuitesSeen
    <3> QED
      BY <3>1, <3>2
  <2> QED
    BY <1>5, <1>7, <2>1, <2>2
<1>8. CASE f # c
  <2>1. PICK n \in NmapSuites(s, device) : f = WithSuites(c, n)
    BY <1>6, <1>8
  <2>2. /\ n \subseteq {"versions", "weak_versions", "ciphers", "weak_ciphers"}
        /\ "weak_versions" \in n => "weak_versions" \in device
        /\ "weak_ciphers" \in n => "weak_ciphers" \in device
        /\ n # {} /\ "weak_ciphers" \in device => "weak_ciphers" \in n
    BY OthersAre
  <2>3. n # {} /\ f = (c \ {"testssl"}) \cup n \cup {"complete"}
    BY <1>8, <2>1 DEF WithSuites
  <2>4. test = "U11" /\ "ciphers" \notin c
    BY <1>6, <1>8
  <2>5. "text" \notin c
    BY <1>2, <1>3, <1>5, <2>4 DEF ReportSound
  <2>6. TlsSound(f)
    BY <1>5, <2>2, <2>3, <2>5 DEF TlsSound, TlsFacts
  <2>7. SuitesSeen(f)
    BY <2>2, <2>3 DEF SuitesSeen
  <2> QED
    BY <2>4, <2>6, <2>7
<1> QED
  BY <1>7, <1>8

\* What a TLS test answers, and what it leaves.
LEMMA TlsTestIs ==
  ASSUME NEW test \in TlsTests, NEW out \in BOOLEAN, NEW r \in TlsTest(test, out), TlsSound(tls)
  PROVE  /\ r.port = port /\ r.u08 = u08
         /\ TlsSound(r.tls)
         /\ TlsCached(test) => r = Result(Answer(tls))
         /\ r = Raised \/ r.answer = Answer(r.tls)
         /\ ~r.answer.failed /\ ~TlsCached(test) =>
              r.tls \in QuickProbe(test, out) \cup TestsslFacts(test, out)
<1>1. CASE TlsCached(test)
  <2>1. r = Result(Answer(tls))
    BY <1>1 DEF TlsTest
  <2> QED
    BY <1>1, <2>1, ResultIs
<1>2. CASE ~TlsCached(test) /\ r = Raised
  BY <1>2, ResultIs, AnswerIs DEF Raised
<1>3. CASE ~TlsCached(test) /\ r # Raised
  <2>1. \E f \in QuickProbe(test, out) \cup TestsslFacts(test, out) :
          r = [Result(Answer(f)) EXCEPT !.tls = f]
    BY <1>3 DEF TlsTest
  <2> PICK f \in QuickProbe(test, out) \cup TestsslFacts(test, out) :
          r = [answer |-> Answer(f), port |-> port, u08 |-> u08, tls |-> f]
    BY <2>1, ResultWith
  <2>2. TlsSound(f)
    <3>1. CASE f \in TestsslFacts(test, out)
      BY <3>1, TestsslFactsAre
    <3>2. CASE f \in QuickProbe(test, out)
      BY <3>2, OthersAre DEF QuickProbe, TlsSound
    <3> QED
      BY <3>1, <3>2
  <2> QED
    BY <1>3, <2>2
<1> QED
  BY <1>1, <1>2, <1>3

--------------------------------------------------------------------------------
(* What the tests make of it.                                                    *)

\* Which attempt belongs to which test.
LEMMA DispatchIs ==
  ASSUME NEW out
  PROVE  /\ Dispatch("U06", out) = PortScan(out)
         /\ Dispatch("U08", out) = ServiceScan(out)
         /\ Dispatch("U09", out) = Compliance(out)
         /\ \A test \in TlsTests : Dispatch(test, out) = TlsTest(test, out)
         /\ \A test \in Names \ ({"U06", "U08", "U09", "fingerprint"} \cup TlsTests) :
              Dispatch(test, out) = {Result(a) : a \in Answers(test, out)}
BY DEF Dispatch, TlsTests, Names

\* Likewise for the tests that leave the caches alone.
LEMMA AnswersAre ==
  ASSUME NEW out
  PROVE  /\ Answers("U04", out) = Lease /\ Answers("U15", out) = SshAudit(out)
         /\ Answers("U16", out) = Credentials(out) /\ Answers("U17", out) = BruteForce(out)
         /\ Answers("U18", out) = Redirect
         /\ Answers("U26", out) = UdpTest("ntp", "ntp?", TRUE, out)
         /\ Answers("U28", out) = BacnetTest
         /\ Answers("U29", out) = UdpTest("dns", "dns?", FALSE, out)
         /\ Answers("U35", out) = WebAssessment(out)
BY DEF Answers

\* The weakness each test looks for.
LEMMA WeakIs ==
  /\ Weak("U04") <=> "dhcp" \notin device
  /\ Weak("U09") <=> ~(device \cap (Tcp \cup Udp) \subseteq Whitelist)
  /\ Weak("U10") <=> "weak_versions" \in device
  /\ Weak("U11") <=> "weak_ciphers" \in device
  /\ Weak("U12") <=> "bad_cert" \in device
  /\ Weak("U15") <=> "weak_ssh" \in device
  /\ Weak("U16") <=> "default_login" \in device
  /\ Weak("U17") <=> "lockout" \notin device
  /\ Weak("U18") <=> "http" \in device /\ "redirects" \notin device
  /\ Weak("U26") <=> "syncs" \notin device
  /\ Weak("U29") <=> "syncs" \notin device
  /\ Weak("U35") <=> {"http", "https"} \cap device # {} /\ "headers" \notin device
  /\ \A test \in {"U01", "U02", "U06", "U08", "U19", "U28"} : ~Weak(test)
BY DEF Weak

\* U15 fails only for algorithms it found weak; whoever has many of them does fail.
LEMMA SshAuditIs ==
  ASSUME NEW out \in BOOLEAN, NEW a \in SshAudit(out)
  PROVE  /\ EvalU15(a.facts) = "fail" => {"weak_ssh", "frowned_ssh"} \cap device # {}
         /\ ~out /\ ~a.failed /\ EvalU15(a.facts) = "pass" => "weak_ssh" \notin device
<1>1. PICK report \in SshReports(device) : a \in Ask(report, out)
  BY DEF SshAudit
<1>2. \/ a = Error \/ a = Answer(report) \/ (out /\ a = Answer({}))
  BY <1>1 DEF Ask
<1>3. /\ "very_weak" \in report => {"weak_ssh", "frowned_ssh"} \cap device # {}
      /\ "weak_ssh" \in device => report \cap {"version"} = {} \/ "very_weak" \in report
      /\ report \subseteq {"version", "weak", "very_weak"}
      /\ "version" \notin report => report = {}
  BY DEF SshReports, SshJson, SshText, SshStrength
<1> QED
  BY <1>2, <1>3, AnswerIs DEF EvalU15

\* U16 fails only a default login that was found; if hydra has run it would find one.
LEMMA CredentialsIs ==
  ASSUME NEW out \in BOOLEAN, NEW a \in Credentials(out)
  PROVE  /\ EvalU16(a.facts) = "fail" => "default_login" \in device
         /\ ~out /\ ~a.failed /\ EvalU16(a.facts) = "pass" => "default_login" \notin device
<1> PICK ports : ports = LoginPorts({"http"})
  OBVIOUS
<1> PICK reached : reached = (ports \cap device # {})
  OBVIOUS
<1>1. a \in EasyIO(device, reached) \cup HydraDefaults(device, out)
            \cup {NotRun, Failing({})}
  BY DEF Credentials, DefaultCredentials
<1>2. \/ a = Answer(HydraReport(device)) \/ a = Failing({"ran"}) \/ a = Failing({})
      \/ a = Error \/ a = Answer({}) \/ (out /\ a = Answer({"ran"}))
  BY <1>1 DEF EasyIO, HydraDefaults, NotRun
<1> QED
  BY <1>2, AnswerIs DEF EvalU16, HydraReport

\* U17 passes only what it saw locked out, or, in an outage, gone.
LEMMA BruteForceIs ==
  ASSUME NEW out \in BOOLEAN, NEW a \in BruteForce(out), ~out, ~a.failed,
         EvalU17(a.facts) = "pass"
  PROVE  "lockout" \in device
<1> PICK ssh : ssh = (SshPorts(Merged) # {})
  OBVIOUS
<1> PICK ports : ports = LoginPorts({"http", "https"})
  OBVIOUS
<1>1. a \in SshProbe(device, out) \cup WebProbe(device, out) \cup {NotRun, Failing({})}
  BY DEF BruteForce, BruteForceProtection
<1>2. \/ a = Answer({"ran"} \cup (device \cap {"lockout"}))
      \/ a = Failing({"ran"}) \/ a = Failing({}) \/ a = Answer({})
  BY <1>1 DEF SshProbe, WebProbe, HydraProbe, OwnAttempts, NotRun
<1> QED
  BY <1>2, AnswerIs DEF EvalU17

\* U26 and U29 pass only a device whose own query was observed.
LEMMA UdpTestIs ==
  ASSUME NEW service, NEW silent, NEW mustAnswer \in BOOLEAN, NEW out \in BOOLEAN,
         NEW a \in UdpTest(service, silent, mustAnswer, out), "observed" \in a.facts
  PROVE  "syncs" \in device
<1> DEFINE before == port.seen \cap {silent} # {}
           now == IF service \in device THEN {"open"}
                  ELSE IF silent \in device THEN {"inconclusive"} ELSE {}
           With(v) == IF before /\ "open" \notin v THEN v \cup {"inconclusive"} ELSE v
           observed == {Observer(p) : p \in Packets("syncs" \in device)} \ {{}}
<1>1. \/ \E o \in observed : a = Answer(o)
      \/ a = Answer({"open"}) \/ a = Error \/ a = Failing({"inconclusive"})
      \/ \E v \in Views(now, out) : a = Answer(With(v))
  BY DEF UdpTest
<1>2. \A v \in Views(now, out) : "observed" \notin With(v)
  BY ViewsAre
<1>3. \E o \in observed : a = Answer(o)
  <2>1. /\ a # Answer({"open"}) /\ a # Error /\ a # Failing({"inconclusive"})
        /\ \A v \in Views(now, out) : a # Answer(With(v))
    <3>1. a # Answer({"open"})
      BY AnswerIs
    <3>2. a # Error
      BY AnswerIs
    <3>3. a # Failing({"inconclusive"})
      BY AnswerIs
    <3>4. ASSUME NEW v \in Views(now, out) PROVE a # Answer(With(v))
      <4> PICK w : w = With(v)
        OBVIOUS
      <4>1. Answer(w).facts = w
        BY AnswerIs
      <4> QED
        BY <1>2, <4>1
    <3> QED
      BY <3>1, <3>2, <3>3, <3>4
  <2> QED
    BY <1>1, <2>1
<1> PICK o \in observed : a = Answer(o)
  BY <1>3
<1>4. PICK p \in Packets("syncs" \in device) : o = Observer(p)
  OBVIOUS
<1>5. "own" \in p
  BY <1>4, AnswerIs DEF Observer
<1> QED
  BY <1>4, <1>5 DEF Packets

\* U04 passes only an acknowledged lease.
LEMMA LeaseIs ==
  ASSUME NEW a \in Lease, EvalU04(a.facts) = "pass"
  PROVE  "dhcp" \in device
<1>1. \/ \E b \in BOOLEAN : a = Answer(DhcpDiscover(b))
      \/ a = Failing({})
      \/ "dhcp" \in device
  BY DEF Lease
<1>2. ASSUME NEW b \in BOOLEAN, a = Answer(DhcpDiscover(b)) PROVE FALSE
  <2>1. a.facts = DhcpDiscover(b)
    BY <1>2, AnswerIs
  <2> QED
    BY <2>1 DEF DhcpDiscover, EvalU04
<1>3. a # Failing({})
  BY AnswerIs DEF EvalU04
<1> QED
  BY <1>1, <1>2, <1>3

\* U18 tells a redirection from its lack, if HTTP answers.
LEMMA RedirectIs ==
  ASSUME NEW a \in Redirect
  PROVE  /\ EvalU18(a.facts) = "fail" => "http" \in device /\ "redirects" \notin device
         /\ ~a.failed /\ EvalU18(a.facts) = "pass" => ~("http" \in device /\ "redirects" \notin device)
<1> PICK f : f = IF "http" \in device THEN {"http_open"} \cup (device \cap {"redirects"}) ELSE {}
  OBVIOUS
<1>1. a = Answer(f) \/ a = Failing({})
  BY DEF Redirect
<1>2. CASE a = Answer(f)
  BY <1>2, AnswerIs DEF EvalU18
<1>3. CASE a = Failing({})
  BY <1>3, AnswerIs DEF EvalU18
<1> QED
  BY <1>1, <1>2, <1>3

\* U35 finds missing headers if it reaches a web service.
LEMMA WebAssessmentIs ==
  ASSUME NEW out \in BOOLEAN, NEW a \in WebAssessment(out), ~out, ~a.failed,
         EvalU35(a.facts) = "pass", port.on, port.seen = Shown, port.named = FALSE,
         {"http", "https"} \cap device # {}
  PROVE  "headers" \in device
<1> PICK reached : reached = (PreferredWeb(Consulted) \cap device # {} \/ "http" \in device)
  OBVIOUS
<1>1. reached
  <2>1. CASE "http" \in device
    BY <2>1
  <2>2. CASE "https" \in device
    <3>1. Consulted = port
      BY DEF Consulted
    <3>2. "https" \in port.seen
      BY <2>2 DEF Shown, Tcp
    <3>3. "https" \in WebPorts(port)
      BY <3>2 DEF WebPorts, Recognised
    <3>4. "https" \in PreferredWeb(port)
      BY <3>3 DEF PreferredWeb
    <3> QED
      BY <2>2, <3>1, <3>4
  <2> QED
    BY <2>1, <2>2
<1>2. a # Error
  BY AnswerIs
<1>3. \E h \in CapturedHeaders(out), n \in {Nikto(device, r) : r \in {reached, reached /\ ~out}} :
        a = [h EXCEPT !.facts = @ \cup n]
  BY <1>2 DEF WebAssessment
<1>4. PICK h \in CapturedHeaders(out), r \in {reached, reached /\ ~out} :
        a = [h EXCEPT !.facts = @ \cup Nikto(device, r)]
  BY <1>3
<1> PICK n : n = Nikto(device, r)
  OBVIOUS
<1>5. n = Nikto(device, TRUE)
  BY <1>1, <1>4
<1>6. \E f : h = Answer(f) \/ h = Failing(f)
  BY DEF CapturedHeaders
<1>7. a.facts = h.facts \cup n
  BY <1>4, <1>6 DEF Answer, Failing
<1>8. "missing_headers" \notin n
  BY <1>7 DEF EvalU35, Nikto
<1> QED
  BY <1>5, <1>8 DEF Nikto

--------------------------------------------------------------------------------
(* The invariant.                                                                *)

\* The caches hold no more than the device shows.
CachesSound == PortSound(port) /\ U08Sound(u08) /\ TlsSound(tls)

\* Between launches nothing is kept, and before the fingerprint nothing is skipped.
Fresh ==
  /\ todo = 0 => port = NoScan /\ u08 = NoScan /\ tls = {}
  /\ todo <= 6 => skips = {} /\ excluded = {}

\* As long as nothing went wrong, U06 and U08 have seen all there is, no test before
\* U10 has filled the cache of the TLS tests, and U10 and U11 have left weak suites
\* in it.
Whole ==
  quiet =>
    /\ todo > 4 => port.on /\ port.seen = Shown
    /\ todo > 5 => u08.on /\ u08.seen = device \cap Tcp
    /\ todo <= 8 => tls = {}
    /\ todo <= 10 => SuitesSeen(tls)

\* The report that U10 has read is the one in the cache until U11 is through.
TextKept == last.test = "U10" /\ todo # 0 => todo = 9

AssessInv ==
  /\ TypeOK /\ CachesSound /\ Fresh /\ Whole /\ TextKept
  /\ NoFalseAlarm /\ PassIsEarned /\ SkipsAreGrounded

\* A result whose caches are sound and have lost no scan.
ResultSound(r) ==
  /\ PortSound(r.port) /\ U08Sound(r.u08) /\ TlsSound(r.tls)
  /\ port.on => r.port.on
  /\ u08.on => r.u08.on

\* Whole, as it will hold once the result is stored.
ResultWhole(r) ==
  /\ todo + 1 > 4 => r.port.on /\ r.port.seen = Shown
  /\ todo + 1 > 5 => r.u08.on /\ r.u08.seen = device \cap Tcp
  /\ todo + 1 <= 8 => r.tls = {}
  /\ todo + 1 <= 10 => SuitesSeen(r.tls)

\* The places of the tests that fill the caches.
LEMMA PlacesAre ==
  ASSUME NEW n \in 1..19, NEW test, Plan[n] = test
  PROVE  /\ test = "U06" <=> n = 4
         /\ test = "U08" <=> n = 5
         /\ test = "fingerprint" <=> n = 6
         /\ test = "U09" <=> n = 7
         /\ test = "U10" <=> n = 8
         /\ test = "U11" <=> n = 9
         /\ test = "U12" <=> n = 10
         /\ test \in Names
BY PlanIs

\* Whatever an attempt ends with, in an outage or not, its caches are sound.
LEMMA AttemptSound ==
  ASSUME CachesSound, NEW test \in Names \ {"fingerprint"}, NEW out \in BOOLEAN,
         NEW r \in Dispatch(test, out)
  PROVE  ResultSound(r)
<1>1. CASE test = "U06"
  BY <1>1, DispatchIs, PortScanIs DEF CachesSound, ResultSound
<1>2. CASE test = "U08"
  BY <1>2, DispatchIs, ServiceScanIs DEF CachesSound, ResultSound
<1>3. CASE test = "U09"
  BY <1>3, DispatchIs, ComplianceIs DEF CachesSound, ResultSound
<1>4. CASE test \in TlsTests
  BY <1>4, DispatchIs, TlsTestIs DEF CachesSound, ResultSound
<1>5. CASE test \notin {"U06", "U08", "U09"} \cup TlsTests
  <2>1. \E a \in Answers(test, out) : r = Result(a)
    BY <1>5, DispatchIs
  <2> QED
    BY <2>1, ResultIs DEF CachesSound, ResultSound
<1> QED
  BY <1>1, <1>2, <1>3, <1>4, <1>5

\* An attempt of a launch in which nothing went wrong leaves whole caches, unless it
\* fails itself.
LEMMA AttemptWhole ==
  ASSUME CachesSound, Whole, quiet, todo \in 1..19, NEW test, Plan[todo] = test,
         test # "fingerprint", NEW out \in BOOLEAN, ~out, NEW r \in Dispatch(test, out),
         ~r.answer.failed
  PROVE  ResultWhole(r)
<1>1. /\ test = "U06" <=> todo = 4
      /\ test = "U08" <=> todo = 5
      /\ test = "fingerprint" <=> todo = 6
      /\ test = "U09" <=> todo = 7
      /\ test = "U10" <=> todo = 8
      /\ test = "U11" <=> todo = 9
      /\ test = "U12" <=> todo = 10
      /\ test \in Names
  BY PlacesAre
<1>2. /\ todo > 4 => port.on /\ port.seen = Shown
      /\ todo > 5 => u08.on /\ u08.seen = device \cap Tcp
      /\ todo <= 8 => tls = {}
      /\ todo <= 10 => SuitesSeen(tls)
  BY DEF Whole
<1>3. CASE test = "U06"
  <2>1. r.u08 = u08 /\ r.tls = tls /\ r.port.on /\ r.port.seen = Shown
    BY <1>3, DispatchIs, PortScanIs DEF CachesSound
  <2> QED
    BY <1>1, <1>2, <1>3, <2>1 DEF ResultWhole
<1>4. CASE test = "U08"
  <2>1. r.port = port /\ r.tls = tls /\ r.u08.on /\ r.u08.seen = device \cap Tcp
    BY <1>1, <1>2, <1>4, DispatchIs, ServiceScanIs DEF CachesSound
  <2> QED
    BY <1>1, <1>2, <1>4, <2>1 DEF ResultWhole
<1>5. CASE test = "U09"
  <2>1. Evidence
    <3>1. todo = 7 /\ 7 > 4
      BY <1>1, <1>5
    <3>2. port.on
      BY <1>2, <3>1
    <3> QED
      BY <3>2 DEF Evidence
  <2>2. r.port = port /\ r.u08 = u08 /\ r.tls = tls
    BY <1>5, <2>1, DispatchIs, ComplianceIs, ResultIs DEF CachesSound
  <2> QED
    BY <1>1, <1>2, <1>5, <2>2 DEF ResultWhole
<1>6. CASE test \in TlsTests
  <2>0. r \in TlsTest(test, out) /\ TlsSound(tls)
    BY <1>6, DispatchIs DEF CachesSound
  <2>1. /\ r.port = port /\ r.u08 = u08
        /\ TlsCached(test) => r = Result(Answer(tls))
        /\ ~TlsCached(test) => r.tls \in QuickProbe(test, out) \cup TestsslFacts(test, out)
    BY <1>6, <2>0, TlsTestIs
  <2>2. todo \in {8, 9, 10}
    BY <1>1, <1>6 DEF TlsTests
  <2>3. todo # 10 => test \in {"U10", "U11"}
    BY <1>1, <2>2
  <2>4. todo # 10 => SuitesSeen(r.tls)
    <3>1. CASE TlsCached(test)
      <4>1. r.tls = tls
        BY <2>1, <3>1, ResultIs
      <4> QED
        BY <1>2, <2>2, <4>1
    <3>2. CASE ~TlsCached(test) /\ test \in {"U10", "U11"}
      <4>1. r.tls \in TestsslFacts(test, out)
        BY <2>1, <3>2 DEF QuickProbe
      <4> QED
        BY <1>6, <3>2, <4>1, TestsslFactsAre
    <3> QED
      BY <2>3, <3>1, <3>2
  <2> QED
    BY <1>2, <2>1, <2>2, <2>4 DEF ResultWhole
<1>7. CASE test \notin {"U06", "U08", "U09"} \cup TlsTests
  <2>1. \E a \in Answers(test, out) : r = Result(a)
    BY <1>1, <1>7, DispatchIs
  <2>2. r.port = port /\ r.u08 = u08 /\ r.tls = tls
    BY <2>1, ResultIs
  <2>3. todo \notin {4, 5, 7, 8, 9, 10}
    BY <1>1, <1>7 DEF TlsTests
  <2>4. todo \in Nat
    OBVIOUS
  <2> QED
    BY <1>2, <2>2, <2>3, <2>4 DEF ResultWhole
<1> QED
  BY <1>3, <1>4, <1>5, <1>6, <1>7

\* The tests whose rules know no failure.
LEMMA NeverFails ==
  ASSUME NEW test \in {"U02", "U04", "U06", "U08", "U12", "U17", "U19", "U26", "U28", "U29", "U35"},
         NEW e
  PROVE  Evaluate(test, e) # "fail"
BY EvaluateIs DEF EvalU02, EvalU04, EvalU06, EvalU08, EvalU12, EvalU17, EvalU19, EvalU26,
   EvalU28, EvalU29, EvalU35

\* A TLS test that gives a verdict gives it on the report it leaves in the cache.
LEMMA TlsAnswer ==
  ASSUME TlsSound(tls), NEW test \in TlsTests, NEW out \in BOOLEAN,
         NEW r \in TlsTest(test, out), ~r.answer.raised
  PROVE  r.answer.facts = r.tls /\ TlsSound(r.tls)
<1>1. TlsSound(r.tls) /\ (r = Raised \/ r.answer = Answer(r.tls))
  BY TlsTestIs
<1>2. r # Raised
  BY ResultIs, AnswerIs DEF Raised
<1> QED
  BY <1>1, <1>2, AnswerIs

\* An unlisted service was found open on the device.
LEMMA UnlistedIs ==
  ASSUME CachesSound, NEW out \in BOOLEAN, NEW r \in Compliance(out),
         "unlisted" \in r.answer.facts
  PROVE  ~(device \cap (Tcp \cup Udp) \subseteq Whitelist)
<1>1. \E v \in SUBSET (device \cap (Tcp \cup Udp)) : r.answer = Answer(Unlisted(v))
  <2>1. CASE Evidence
    <3>1. r = Result(Answer(Unlisted(Definite(Merged.seen))))
      BY <2>1, ComplianceIs DEF CachesSound
    <3>2. Merged.seen = port.seen \cup u08.seen
      BY ScanIs DEF Merged, Merge, Scan
    <3>3. Definite(Merged.seen) \subseteq device \cap (Tcp \cup Udp)
      BY <3>2 DEF Definite, CachesSound, PortSound, U08Sound
    <3> QED
      BY <3>1, <3>3, ResultIs
  <2>2. CASE ~Evidence
    <3>1. \/ r = Raised
          \/ \E v \in SUBSET (device \cap Tcp) : r.answer = Answer(Unlisted(v))
      BY <2>2, ComplianceIs DEF CachesSound
    <3>2. r # Raised
      BY ResultIs, AnswerIs DEF Raised
    <3> QED
      BY <3>1, <3>2
  <2> QED
    BY <2>1, <2>2
<1> PICK v \in SUBSET (device \cap (Tcp \cup Udp)) : r.answer = Answer(Unlisted(v))
  BY <1>1
<1>2. "unlisted" \in Unlisted(v)
  BY AnswerIs
<1> QED
  BY <1>2 DEF Unlisted

\* A failure is the device's, or a text's.
LEMMA FailsRightly ==
  ASSUME CachesSound, NEW test \in Names \ {"fingerprint", "U01"}, NEW out \in BOOLEAN,
         NEW r \in Dispatch(test, out), ~r.answer.raised,
         Evaluate(test, r.answer.facts) = "fail"
  PROVE  \/ Weak(test)
         \/ test = "U10" /\ "text" \in r.tls
         \/ test = "U15" /\ "frowned_ssh" \in device
<1>1. test \in {"U09", "U10", "U11", "U15", "U16", "U18"}
  BY NeverFails DEF Names
<1>2. CASE test = "U09"
  <2>1. "unlisted" \in r.answer.facts
    BY <1>2, EvaluateIs DEF EvalU09
  <2>2. r \in Compliance(out)
    BY <1>2, DispatchIs
  <2> QED
    BY <1>2, <2>1, <2>2, UnlistedIs, WeakIs
<1>3. CASE test \in {"U10", "U11"}
  <2>1. r \in TlsTest(test, out) /\ test \in TlsTests
    BY <1>3, DispatchIs DEF TlsTests
  <2>2. r.answer.facts = r.tls /\ TlsSound(r.tls)
    BY <2>1, TlsAnswer DEF CachesSound
  <2>3. CASE test = "U10"
    BY <2>2, <2>3, EvaluateIs, WeakIs DEF EvalU10, TlsSound
  <2>4. CASE test = "U11"
    BY <2>2, <2>4, EvaluateIs, WeakIs DEF EvalU11, TlsSound
  <2> QED
    BY <1>3, <2>3, <2>4
<1>4. CASE test \in {"U15", "U16", "U18"}
  <2>1. test \in Names \ ({"U06", "U08", "U09", "fingerprint"} \cup TlsTests)
    BY <1>4 DEF Names, TlsTests
  <2>2. r \in {Result(a) : a \in Answers(test, out)}
    BY <2>1, DispatchIs
  <2>3. PICK a \in Answers(test, out) : r = Result(a)
    BY <2>2
  <2>4. r.answer = a
    BY <2>3, ResultIs
  <2>5. CASE test = "U15"
    BY <2>4, <2>5, AnswersAre, SshAuditIs, EvaluateIs, WeakIs
  <2>6. CASE test = "U16"
    BY <2>4, <2>6, AnswersAre, CredentialsIs, EvaluateIs, WeakIs
  <2>7. CASE test = "U18"
    BY <2>4, <2>7, AnswersAre, RedirectIs, EvaluateIs, WeakIs
  <2> QED
    BY <1>4, <2>5, <2>6, <2>7
<1> QED
  BY <1>1, <1>2, <1>3, <1>4

\* A pass is earned if nothing has gone wrong so far.
LEMMA PassesRightly ==
  ASSUME CachesSound, Whole, quiet, todo \in 1..19, NEW test, Plan[todo] = test,
         test # "fingerprint", NEW out \in BOOLEAN, ~out, NEW r \in Dispatch(test, out),
         ~r.answer.failed, ~r.answer.raised,
         Evaluate(test, r.answer.facts) = "pass"
  PROVE  ~Weak(test)
<1>1. /\ test = "U09" <=> todo = 7
      /\ test = "U10" <=> todo = 8
      /\ test = "U11" <=> todo = 9
      /\ test = "U12" <=> todo = 10
      /\ test \in Names
      /\ test \in {"U16", "U17", "U18", "U19", "U26", "U28", "U29", "U35"} => todo > 4
  <2>1. /\ test = "U04" => todo = 3
        /\ test = "U02" => todo = 2
        /\ test = "U01" => todo = 1
        /\ todo \in {1, 2, 3, 4} => test \in {"U01", "U02", "U04", "U06"}
    BY PlanIs DEF Plan
  <2> QED
    BY <2>1, PlacesAre
<1>2. /\ todo > 4 => port.on /\ port.seen = Shown
      /\ todo <= 8 => tls = {}
      /\ todo <= 10 => SuitesSeen(tls)
  BY DEF Whole
<1>3. ASSUME test = "U09" PROVE ~Weak(test)
  <2>1. port.on /\ port.seen = Shown
    BY <1>1, <1>2, <1>3
  <2>2. Evidence
    BY <2>1 DEF Evidence
  <2>3. r \in Compliance(out)
    BY <1>3, DispatchIs
  <2>4. r = Result(Answer(Unlisted(Definite(Merged.seen))))
    BY <2>2, <2>3, ComplianceIs DEF CachesSound
  <2>5. "unlisted" \notin Unlisted(Definite(Merged.seen))
    <3>1. "unlisted" \notin r.answer.facts
      BY <1>3, EvaluateIs DEF EvalU09
    <3> QED
      BY <2>4, <3>1, ResultIs, AnswerIs
  <2>6. Definite(Merged.seen) \subseteq Whitelist
    BY <2>5 DEF Unlisted
  <2>7. Merged.seen = port.seen \cup u08.seen
    BY ScanIs DEF Merged, Merge, Scan
  <2>8. device \cap (Tcp \cup Udp) \subseteq Whitelist
    BY <2>1, <2>6, <2>7 DEF Definite, Shown
  <2> QED
    BY <1>3, <2>8, WeakIs
<1>4. ASSUME test \in TlsTests PROVE ~Weak(test)
  <2>1. r \in TlsTest(test, out) /\ TlsSound(tls)
    BY <1>4, DispatchIs DEF CachesSound
  <2>2. r.answer.facts = r.tls /\ TlsSound(r.tls)
    BY <1>4, <2>1, TlsAnswer
  <2>3. /\ TlsCached(test) => r = Result(Answer(tls))
        /\ ~TlsCached(test) => r.tls \in QuickProbe(test, out) \cup TestsslFacts(test, out)
    BY <1>4, <2>1, TlsTestIs
  <2>4. CASE test = "U10"
    <3>1. tls = {}
      BY <1>1, <1>2, <2>4
    <3>2. ~TlsCached(test)
      BY <3>1 DEF TlsCached
    <3>3. r.tls \in TestsslFacts(test, out)
      BY <2>3, <2>4, <3>2 DEF QuickProbe
    <3>4. VersionsSeen(r.tls)
      BY <1>4, <2>4, <3>3, TestsslFactsAre
    <3> QED
      BY <2>2, <2>4, <3>4, EvaluateIs, WeakIs DEF VersionsSeen, EvalU10
  <2>5. CASE test = "U11"
    <3>1. SuitesSeen(tls)
      BY <1>1, <1>2, <2>5
    <3>2. SuitesSeen(r.tls)
      <4>1. CASE TlsCached(test)
        BY <2>3, <3>1, <4>1, ResultIs
      <4>2. CASE ~TlsCached(test)
        <5>1. r.tls \in TestsslFacts(test, out)
          BY <2>3, <2>5, <4>2 DEF QuickProbe
        <5> QED
          BY <1>4, <2>5, <5>1, TestsslFactsAre
      <4> QED
        BY <4>1, <4>2
    <3> QED
      BY <2>2, <2>5, <3>2, EvaluateIs, WeakIs DEF SuitesSeen, EvalU11
  <2>6. CASE test = "U12"
    BY <2>2, <2>6, EvaluateIs, WeakIs DEF TlsSound, EvalU12
  <2> QED
    BY <1>4, <2>4, <2>5, <2>6 DEF TlsTests
<1>5. ASSUME test \in Names \ ({"U06", "U08", "U09", "fingerprint"} \cup TlsTests)
      PROVE  ~Weak(test)
  <2>1. r \in {Result(a) : a \in Answers(test, out)}
    BY <1>5, DispatchIs
  <2>2. PICK a \in Answers(test, out) : r = Result(a)
    BY <2>1
  <2>3. r.answer = a
    BY <2>2, ResultIs
  <2>4. CASE test = "U04"
    BY <2>3, <2>4, AnswersAre, LeaseIs, EvaluateIs, WeakIs
  <2>5. CASE test = "U15"
    BY <2>3, <2>5, AnswersAre, SshAuditIs, EvaluateIs, WeakIs
  <2>6. CASE test = "U16"
    BY <2>3, <2>6, AnswersAre, CredentialsIs, EvaluateIs, WeakIs
  <2>7. CASE test = "U17"
    BY <2>3, <2>7, AnswersAre, BruteForceIs, EvaluateIs, WeakIs
  <2>8. CASE test = "U18"
    BY <2>3, <2>8, AnswersAre, RedirectIs, EvaluateIs, WeakIs
  <2>9. CASE test \in {"U26", "U29"}
    <3>1. "observed" \in a.facts
      BY <2>3, <2>9, EvaluateIs DEF EvalU26, EvalU29
    <3>2. "syncs" \in device
      BY <2>9, <3>1, AnswersAre, UdpTestIs
    <3> QED
      BY <2>9, <3>2, WeakIs
  <2>10. CASE test = "U35"
    <3>1. a \in WebAssessment(out) /\ ~a.failed /\ EvalU35(a.facts) = "pass"
      BY <2>3, <2>10, AnswersAre, EvaluateIs
    <3>2. port.on /\ port.seen = Shown /\ port.named = FALSE
      BY <1>1, <1>2, <2>10 DEF CachesSound, PortSound
    <3>3. {"http", "https"} \cap device # {} => "headers" \in device
      BY <3>1, <3>2, WebAssessmentIs
    <3> QED
      BY <2>10, <3>3, WeakIs
  <2>11. CASE test \in {"U01", "U02", "U19", "U28"}
    BY <2>11, WeakIs
  <2> QED
    BY <1>5, <2>4, <2>5, <2>6, <2>7, <2>8, <2>9, <2>10, <2>11 DEF Names, TlsTests
<1>6. ASSUME test \in {"U06", "U08"} PROVE ~Weak(test)
  BY <1>6, WeakIs
<1> QED
  BY <1>1, <1>3, <1>4, <1>5, <1>6 DEF Names

--------------------------------------------------------------------------------
(* The invariant is inductive.                                                   *)

\* At the start nothing is known.
LEMMA AssessInit ==
  ASSUME Init
  PROVE  AssessInv
<1>1. NoScan \in Scans /\ NoScan.seen = {} /\ NoScan.named = FALSE /\ NoScan.on = FALSE
  BY DEF NoScan, Scans
<1>2. TypeOK
  <2>1. Len(Plan) = 19
    BY PlanIs
  <2>2. launch \in 0..MaxLaunches /\ todo \in 0..(Len(Plan) + 1) /\ outages \in 0..MaxOutages
    BY <2>1, AssessmentAssumption DEF Init, AssessmentAssumption
  <2> QED
    BY <1>1, <2>2 DEF Init, TypeOK, NoVerdict
<1>3. CachesSound
  BY <1>1 DEF Init, CachesSound, PortSound, U08Sound, TlsSound
<1>4. Fresh /\ Whole /\ TextKept
  BY DEF Init, Fresh, Whole, TextKept, NoVerdict, SuitesSeen
<1>5. NoFalseAlarm /\ PassIsEarned /\ SkipsAreGrounded
  BY DEF Init, NoFalseAlarm, PassIsEarned, SkipsAreGrounded, NoVerdict
<1> QED
  BY <1>2, <1>3, <1>4, <1>5 DEF AssessInv

\* A launch begins with empty caches and another device, of which nothing is said.
LEMMA LaunchKeeps ==
  ASSUME AssessInv, Launch
  PROVE  AssessInv'
<1>1. NoScan \in Scans /\ NoScan.seen = {} /\ NoScan.named = FALSE /\ NoScan.on = FALSE
  BY DEF NoScan, Scans
<1>2. TypeOK /\ port = NoScan /\ u08 = NoScan /\ tls = {} /\ skips = {} /\ excluded = {}
  BY DEF AssessInv, Fresh, Launch
<1>3. TypeOK'
  <2>1. Len(Plan) = 19
    BY PlanIs
  <2>2. todo' \in 0..(Len(Plan) + 1) /\ launch' \in 0..MaxLaunches
    BY <1>2, <2>1, AssessmentAssumption DEF Launch, TypeOK, AssessmentAssumption
  <2> QED
    BY <1>1, <1>2, <2>2 DEF Launch, TypeOK, NoVerdict
<1>4. CachesSound'
  BY <1>1, <1>2 DEF Launch, CachesSound, PortSound, U08Sound, TlsSound
<1>5. Fresh' /\ Whole' /\ TextKept'
  BY <1>2 DEF Launch, Fresh, Whole, TextKept, NoVerdict, SuitesSeen
<1>6. NoFalseAlarm' /\ PassIsEarned' /\ SkipsAreGrounded'
  BY <1>2 DEF Launch, NoFalseAlarm, PassIsEarned, SkipsAreGrounded, NoVerdict
<1> QED
  BY <1>3, <1>4, <1>5, <1>6 DEF AssessInv

\* Places as numbers.
LEMMA TodoIs ==
  ASSUME TypeOK
  PROVE  /\ todo \in 0..20 /\ todo \in Nat
         /\ Running => todo \in 1..19 /\ Plan[todo] = Current /\ Current \in Names
         /\ Running /\ todo' = todo + 1 => todo' \in 0..(Len(Plan) + 1)
<1>1. Len(Plan) = 19
  BY PlanIs
<1>2. todo \in 0..20 /\ todo \in Nat
  BY <1>1 DEF TypeOK
<1>3. ASSUME Running
      PROVE  todo \in 1..19 /\ Plan[todo] = Current /\ Current \in Names
  <2>1. todo \in 1..19
    BY <1>1, <1>3 DEF Running
  <2> QED
    BY <2>1, PlanIs DEF Current
<1>4. ASSUME Running, todo' = todo + 1 PROVE todo' \in 0..(Len(Plan) + 1)
  BY <1>1, <1>2, <1>4 DEF Running
<1> QED
  BY <1>2, <1>3, <1>4

\* A test that does not apply is left out, and with it whatever it would have cached.
LEMMA SkipKeeps ==
  ASSUME AssessInv, Skip
  PROVE  AssessInv'
<1>1. /\ TypeOK /\ CachesSound /\ Fresh /\ Whole /\ TextKept
      /\ SkipsAreGrounded
  BY DEF AssessInv
<1>2. todo \in 1..19 /\ Current \in Names /\ todo' = todo + 1 /\ todo > 6
  <2>1. skips # {} \/ excluded # {}
    BY DEF Skip
  <2> QED
    BY <1>1, <2>1, TodoIs DEF Skip, Advance, Fresh
<1>3. last' = [test |-> Current, verdict |-> "na"]
  BY DEF Skip
<1>4. UNCHANGED <<device, launch, skips, excluded, record, known, outages, quiet>>
      /\ port' = port /\ u08' = u08 /\ tls' = tls
  BY DEF Skip, caches
<1>5. TypeOK'
  <2>1. Current \in Tests
    BY <1>2, PlanIs
  <2>2. last' \in [test : Tests \cup {"none"}, verdict : Verdicts \cup {"none"}]
    BY <1>3, <2>1 DEF Verdicts
  <2>3. todo' \in 0..(Len(Plan) + 1)
    BY <1>1, <1>2, TodoIs DEF Skip
  <2> QED
    BY <1>1, <1>4, <2>2, <2>3 DEF TypeOK
<1>6. CachesSound'
  BY <1>1, <1>4 DEF CachesSound, PortSound, U08Sound, TlsSound
<1>7. Fresh' /\ Whole'
  BY <1>1, <1>2, <1>4 DEF Fresh, Whole, Shown, SuitesSeen
<1>8. TextKept'
  <2>1. Current = "U10" => todo = 8
    BY <1>1, <1>2, PlacesAre, TodoIs DEF Skip
  <2> QED
    BY <1>2, <1>3, <2>1 DEF TextKept
<1>9. NoFalseAlarm' /\ PassIsEarned'
  BY <1>3 DEF NoFalseAlarm, PassIsEarned
<1>10. SkipsAreGrounded'
  BY <1>1, <1>4 DEF SkipsAreGrounded, Evidence, Subject
<1> QED
  BY <1>5, <1>6, <1>7, <1>8, <1>9, <1>10 DEF AssessInv

\* The end of a launch forgets.
LEMMA EndKeeps ==
  ASSUME AssessInv, End
  PROVE  AssessInv'
<1>1. NoScan \in Scans /\ NoScan.seen = {} /\ NoScan.named = FALSE /\ NoScan.on = FALSE
  BY DEF NoScan, Scans
<1>2. TypeOK /\ CachesSound /\ TextKept /\ PassIsEarned /\ SkipsAreGrounded
  BY DEF AssessInv
<1>3. TypeOK'
  <2>1. Len(Plan) = 19
    BY PlanIs
  <2> QED
    BY <1>1, <1>2, <2>1 DEF End, TypeOK
<1>4. CachesSound'
  BY <1>1 DEF End, CachesSound, PortSound, U08Sound, TlsSound
<1>5. Fresh' /\ Whole' /\ TextKept'
  BY DEF End, Fresh, Whole, TextKept, SuitesSeen
<1>6. NoFalseAlarm' /\ SkipsAreGrounded'
  BY DEF End, NoFalseAlarm, SkipsAreGrounded
<1>7. PassIsEarned'
  BY <1>2 DEF End, PassIsEarned, Weak, Whitelist
<1> QED
  BY <1>3, <1>4, <1>5, <1>6, <1>7 DEF AssessInv

\* A dropped verdict leaves its caches, and the promise of a launch without faults.
LEMMA RetryKeeps ==
  ASSUME AssessInv, Retry
  PROVE  AssessInv'
<1>1. /\ TypeOK /\ CachesSound /\ Fresh /\ TextKept
      /\ NoFalseAlarm /\ SkipsAreGrounded
  BY DEF AssessInv
<1>2. todo \in 1..19 /\ Plan[todo] = Current /\ Current \in Names \ {"fingerprint"}
  BY <1>1, TodoIs DEF Retry
<1>3. PICK r \in Dispatch(Current, TRUE) : port' = r.port /\ u08' = r.u08 /\ tls' = r.tls
  BY DEF Retry
<1>4. /\ UNCHANGED <<device, launch, todo, skips, excluded, record, known, last>>
      /\ outages' = outages + 1 /\ outages < MaxOutages
      /\ quiet' = FALSE
  BY DEF Retry
<1>5. ResultSound(r)
  <2> PICK out \in BOOLEAN : out = TRUE
    OBVIOUS
  <2>1. r \in Dispatch(Current, out)
    BY <1>3
  <2> QED
    BY <1>1, <1>2, <2>1, AttemptSound
<1>6. TypeOK'
  <2>1. r.port \in Scans /\ r.u08 \in Scans /\ r.tls \subseteq TlsFacts
    BY <1>5 DEF ResultSound, PortSound, U08Sound, TlsSound
  <2>2. outages' \in 0..MaxOutages
    BY <1>1, <1>4, AssessmentAssumption DEF TypeOK, AssessmentAssumption
  <2> QED
    BY <1>1, <1>3, <1>4, <2>1, <2>2 DEF TypeOK
<1>7. CachesSound'
  BY <1>3, <1>4, <1>5 DEF CachesSound, ResultSound, PortSound, U08Sound, TlsSound
<1>8. Fresh' /\ Whole' /\ TextKept'
  BY <1>1, <1>2, <1>4 DEF Fresh, Whole, TextKept
<1>9. NoFalseAlarm'
  <2>1. ASSUME last.test = "U10", "text" \in tls PROVE "text" \in tls'
    <3>1. todo = 9
      BY <1>1, <1>2, <2>1 DEF TextKept
    <3>2. Current = "U11" /\ Current \in TlsTests
      BY <1>2, <3>1, PlacesAre DEF TlsTests
    <3>3. {"testssl", "complete"} \subseteq tls
      BY <1>1, <2>1 DEF CachesSound, TlsSound
    <3>4. TlsCached(Current)
      BY <3>2, <3>3 DEF TlsCached
    <3>5. r \in TlsTest(Current, TRUE)
      BY <1>3, <3>2, DispatchIs
    <3>6. r = Result(Answer(tls))
      BY <3>4, <3>5 DEF TlsTest
    <3>7. r.tls = tls
      BY <3>6, ResultIs
    <3> QED
      BY <1>3, <2>1, <3>7
  <2>2. \A t : Misread(t) /\ t = last.test => Misread(t)'
    BY <1>4, <2>1 DEF Misread
  <2>3. \A t : Weak(t) => Weak(t)'
    BY <1>4 DEF Weak, Whitelist
  <2> QED
    BY <1>1, <1>4, <2>2, <2>3 DEF NoFalseAlarm
<1>10. PassIsEarned'
  BY <1>4 DEF PassIsEarned
<1>11. SkipsAreGrounded'
  BY <1>1, <1>3, <1>4, <1>5 DEF SkipsAreGrounded, Evidence, ResultSound
<1> QED
  BY <1>6, <1>7, <1>8, <1>9, <1>10, <1>11 DEF AssessInv

\* Whole scans show every service that a skip could be for.
LEMMA SkippedIs ==
  ASSUME TypeOK
  PROVE  /\ Skipped \subseteq Tests
         /\ Skipped # {} => Evidence
         /\ u08.on = TRUE /\ u08.named = TRUE /\ u08.seen = device \cap Tcp =>
              \A t \in Skipped : Subject(t) \cap device = {}
<1>1. \A s : PortSkips(s) \subseteq TlsTests \cup {"U15"} \cup WebTests
  BY DEF PortSkips
<1>2. Skipped \subseteq Tests
  BY <1>1, PlanIs DEF Skipped, TlsTests, WebTests, Names
<1>3. Skipped # {} => Evidence
  BY DEF Skipped, Evidence
<1>4. ASSUME u08.on = TRUE, u08.named = TRUE, u08.seen = device \cap Tcp,
             NEW t \in Skipped
      PROVE  Subject(t) \cap device = {}
  <2>1. t \in PortSkips(u08)
    BY <1>4 DEF Skipped
  <2>2. WebPorts(u08) = device \cap {"http", "https", "tls"}
    BY <1>4 DEF WebPorts, Recognised, Tcp
  <2>3. "ssh" \in u08.seen <=> "ssh" \in device
    BY <1>4 DEF Tcp
  <2>4. CASE t \in TlsTests
    BY <2>1, <2>2, <2>4 DEF PortSkips, TlsTests, WebTests, Subject
  <2>5. CASE t = "U15"
    BY <2>1, <2>3, <2>5 DEF PortSkips, TlsTests, WebTests, Subject
  <2>6. CASE t \in WebTests
    BY <2>1, <2>2, <2>6 DEF PortSkips, TlsTests, WebTests, Subject
  <2> QED
    BY <1>1, <2>1, <2>4, <2>5, <2>6
<1> QED
  BY <1>2, <1>3, <1>4

\* The fingerprint comes once U06 and U08 are through.
LEMMA FingerprintKeeps ==
  ASSUME AssessInv, FingerprintPhase
  PROVE  AssessInv'
<1>1. /\ TypeOK /\ CachesSound /\ Fresh /\ Whole /\ TextKept
      /\ NoFalseAlarm /\ PassIsEarned /\ SkipsAreGrounded
  BY DEF AssessInv
<1>2. todo = 6 /\ todo' = 7
  <2>1. Running /\ Current = "fingerprint" /\ todo' = todo + 1
    BY DEF FingerprintPhase, Advance
  <2>2. todo \in 1..19 /\ Plan[todo] = Current
    BY <1>1, <2>1, TodoIs
  <2>3. todo = 6
    BY <2>1, <2>2, PlacesAre
  <2> QED
    BY <2>1, <2>3
<1>3. /\ UNCHANGED <<device, launch, known, last, outages, quiet>>
      /\ port' = port /\ u08' = u08 /\ tls' = tls
  BY DEF FingerprintPhase, caches
<1>4. /\ skips' = skips /\ excluded' = excluded /\ record' = record
      \/ /\ skips' = Skipped
         /\ excluded' = {} \/ \E p \in Profiles : excluded' = p.skips
         /\ \E seen : record' = (record \ {"ports", "odd"}) \cup Kept(seen)
  BY DEF FingerprintPhase, Fingerprint, Matching
<1>5. skips' \subseteq Tests /\ excluded' \subseteq Tests /\ record' \subseteq Fields
  <2>1. \A p \in Profiles : p.skips \subseteq Tests
    BY AssessmentAssumption DEF AssessmentAssumption
  <2>2. \A seen : Kept(seen) \subseteq Fields
    BY DEF Kept, Fields
  <2> QED
    BY <1>1, <1>4, <2>1, <2>2, SkippedIs DEF TypeOK
<1>6. TypeOK'
  <2>1. Len(Plan) = 19
    BY PlanIs
  <2> QED
    BY <1>1, <1>2, <1>3, <1>5, <2>1 DEF TypeOK
<1>7. CachesSound'
  BY <1>1, <1>3 DEF CachesSound, PortSound, U08Sound, TlsSound
<1>8. Fresh' /\ Whole'
  BY <1>1, <1>2, <1>3 DEF Fresh, Whole, Shown, SuitesSeen
<1>9. TextKept'
  BY <1>1, <1>2, <1>3 DEF TextKept
<1>10. NoFalseAlarm' /\ PassIsEarned'
  BY <1>1, <1>2, <1>3 DEF NoFalseAlarm, PassIsEarned, Weak, Whitelist, Misread
<1>11. SkipsAreGrounded'
  <2>1. CASE skips' = skips
    BY <1>1, <1>3, <2>1 DEF SkipsAreGrounded, Evidence
  <2>2. CASE skips' = Skipped
    <3>1. skips' # {} => Evidence'
      BY <1>1, <1>3, <2>2, SkippedIs DEF Evidence
    <3>2. quiet => u08.on /\ u08.seen = device \cap Tcp
      BY <1>1, <1>2 DEF Whole
    <3>3. u08.named = u08.on /\ u08.on \in BOOLEAN
      <4>1. u08 \in Scans /\ u08.named = u08.on
        BY <1>1 DEF CachesSound, U08Sound
      <4>2. NoScan.on = FALSE
        BY DEF NoScan
      <4> QED
        BY <4>1, <4>2 DEF Scans
    <3>4. quiet' => \A t \in skips' : Subject(t) \cap device = {}
      BY <1>1, <1>3, <2>2, <3>2, <3>3, SkippedIs
    <3> QED
      BY <1>3, <3>1, <3>4 DEF SkipsAreGrounded
  <2> QED
    BY <1>4, <2>1, <2>2
<1> QED
  BY <1>6, <1>7, <1>8, <1>9, <1>10, <1>11 DEF AssessInv

\* The row learns nothing but its fields.
LEMMA EnrichedIs ==
  ASSUME TypeOK, NEW r
  PROVE  Enriched(r) \subseteq Fields
<1>1. \A seen : Kept(seen) \subseteq Fields
  BY DEF Kept, Fields
<1>2. record \subseteq Fields
  BY DEF TypeOK
<1>3. \/ Enriched(r) = record \cup (r.answer.facts \cap {"mac", "vendor"})
      \/ Enriched(r) = record \cup Kept(r.port.seen)
      \/ Enriched(r) = (record \ {"ports", "odd"}) \cup Kept(r.u08.seen)
      \/ Enriched(r) = record
  BY DEF Enriched
<1>4. {"mac", "vendor"} \subseteq Fields
  BY DEF Fields
<1> QED
  BY <1>1, <1>2, <1>3, <1>4

\* A test that runs to its end.
LEMMA RunTestKeeps ==
  ASSUME AssessInv, NEW out \in BOOLEAN, RunTest(out)
  PROVE  AssessInv'
<1>1. /\ TypeOK /\ CachesSound /\ Fresh /\ Whole /\ SkipsAreGrounded
  BY DEF AssessInv
<1>2. todo \in 1..19 /\ Plan[todo] = Current /\ Current \in Names \ {"fingerprint"}
  BY <1>1, TodoIs DEF RunTest
<1>3. PICK r \in Dispatch(Current, out) :
        /\ last' = [test |-> Current,
                    verdict |-> IF r.answer.raised THEN "error"
                                ELSE Evaluate(Current, r.answer.facts)]
        /\ port' = r.port /\ u08' = r.u08 /\ tls' = r.tls
        /\ record' = IF r.answer.raised THEN record ELSE Enriched(r)
        /\ quiet' = (quiet /\ ~out /\ ~r.answer.failed)
  BY DEF RunTest
<1>4. /\ UNCHANGED <<device, launch, skips, excluded, known>>
      /\ todo' = todo + 1
      /\ outages' = IF out THEN outages + 1 ELSE outages
      /\ out => outages < MaxOutages
  BY DEF RunTest, Advance
<1> PICK verdict : verdict = IF r.answer.raised THEN "error"
                             ELSE Evaluate(Current, r.answer.facts)
  OBVIOUS
<1>5. last' = [test |-> Current, verdict |-> verdict]
  BY <1>3
<1>6. verdict \in Verdicts
  BY <1>2, EvaluateTypes DEF Verdicts
<1>7. ResultSound(r)
  BY <1>1, <1>2, <1>3, AttemptSound
<1>8. quiet' => quiet /\ ~out /\ ~r.answer.failed
  BY <1>3
<1>9. TypeOK'
  <2>1. r.port \in Scans /\ r.u08 \in Scans /\ r.tls \subseteq TlsFacts
    BY <1>7 DEF ResultSound, PortSound, U08Sound, TlsSound
  <2>2. outages' \in 0..MaxOutages
    BY <1>1, <1>4, AssessmentAssumption DEF TypeOK, AssessmentAssumption
  <2>3. last' \in [test : Tests \cup {"none"}, verdict : Verdicts \cup {"none"}]
    <3>1. Current \in Tests
      BY <1>2, PlanIs
    <3> QED
      BY <1>5, <1>6, <3>1
  <2>4. record' \subseteq Fields
    BY <1>1, <1>3, EnrichedIs DEF TypeOK
  <2>5. todo' \in 0..(Len(Plan) + 1)
    BY <1>1, <1>4, TodoIs DEF RunTest
  <2>6. quiet' \in BOOLEAN
    BY <1>3
  <2> QED
    BY <1>1, <1>3, <1>4, <2>1, <2>2, <2>3, <2>4, <2>5, <2>6 DEF TypeOK
<1>10. CachesSound'
  BY <1>3, <1>4, <1>7 DEF CachesSound, ResultSound, PortSound, U08Sound, TlsSound
<1>11. Fresh'
  <2>1. todo # 6
    BY <1>2, PlacesAre
  <2> QED
    BY <1>1, <1>2, <1>4, <2>1 DEF Fresh
<1>12. Whole'
  <2>1. SUFFICES ASSUME quiet'
                 PROVE  /\ todo' > 4 => port'.on /\ port'.seen = Shown'
                        /\ todo' > 5 => u08'.on /\ u08'.seen = device' \cap Tcp
                        /\ todo' <= 8 => tls' = {}
                        /\ todo' <= 10 => SuitesSeen(tls)'
    BY DEF Whole
  <2>2. ResultWhole(r)
    BY <1>1, <1>2, <1>3, <1>8, <2>1, AttemptWhole
  <2> QED
    BY <1>3, <1>4, <2>2 DEF ResultWhole, Shown, SuitesSeen
<1>13. TextKept'
  <2>1. Current = "U10" => todo = 8
    BY <1>2, PlacesAre
  <2> QED
    BY <1>2, <1>4, <1>5, <2>1 DEF TextKept
<1>14. NoFalseAlarm'
  <2>1. SUFFICES ASSUME verdict = "fail", Current # "U01"
                 PROVE  (Weak(last.test) \/ Misread(last.test))'
    BY <1>5 DEF NoFalseAlarm
  <2>2. ~r.answer.raised /\ Evaluate(Current, r.answer.facts) = "fail"
    BY <2>1
  <2>3. \/ Weak(Current)
        \/ Current = "U10" /\ "text" \in r.tls
        \/ Current = "U15" /\ "frowned_ssh" \in device
    BY <1>1, <1>2, <1>3, <2>1, <2>2, FailsRightly
  <2>4. CASE Weak(Current)
    BY <1>4, <1>5, <2>4 DEF Weak, Whitelist
  <2>5. CASE Current = "U10" /\ "text" \in r.tls
    BY <1>3, <1>5, <2>5 DEF Misread
  <2>6. CASE Current = "U15" /\ "frowned_ssh" \in device
    BY <1>4, <1>5, <2>6 DEF Misread
  <2> QED
    BY <2>3, <2>4, <2>5, <2>6
<1>15. PassIsEarned'
  <2>1. SUFFICES ASSUME quiet', verdict = "pass" PROVE ~Weak(last.test)'
    BY <1>5 DEF PassIsEarned
  <2>2. ~r.answer.raised /\ Evaluate(Current, r.answer.facts) = "pass"
    BY <2>1
  <2>3. ~Weak(Current)
    BY <1>1, <1>2, <1>3, <1>8, <2>1, <2>2, PassesRightly
  <2> QED
    BY <1>4, <1>5, <2>3 DEF Weak, Whitelist
<1>16. SkipsAreGrounded'
  BY <1>1, <1>3, <1>4, <1>7, <1>8 DEF SkipsAreGrounded, Evidence, ResultSound
<1> QED
  BY <1>9, <1>10, <1>11, <1>12, <1>13, <1>14, <1>15, <1>16 DEF AssessInv

\* A step that changes nothing.
LEMMA StutterKeeps ==
  ASSUME AssessInv, UNCHANGED vars
  PROVE  AssessInv'
<1>1. /\ UNCHANGED <<device, launch, todo, skips, excluded, record, known, last, outages, quiet>>
      /\ port' = port /\ u08' = u08 /\ tls' = tls
  BY DEF vars, caches
<1>2. TypeOK' /\ CachesSound' /\ Fresh' /\ Whole' /\ TextKept'
  BY <1>1 DEF AssessInv, TypeOK, CachesSound, PortSound, U08Sound, TlsSound, Fresh, Whole,
              Shown, SuitesSeen, TextKept
<1>3. NoFalseAlarm' /\ PassIsEarned' /\ SkipsAreGrounded'
  BY <1>1 DEF AssessInv, NoFalseAlarm, PassIsEarned, SkipsAreGrounded, Weak, Whitelist, Misread,
              Evidence, Subject
<1> QED
  BY <1>2, <1>3 DEF AssessInv

\* The invariant holds in every reachable state.
LEMMA AssessInductive == Spec => []AssessInv
<1>1. Init => AssessInv
  BY AssessInit
<1>2. AssessInv /\ [Next]_vars => AssessInv'
  <2> SUFFICES ASSUME AssessInv, [Next]_vars PROVE AssessInv'
    OBVIOUS
  <2>1. CASE Launch
    BY <2>1, LaunchKeeps
  <2>2. CASE Skip
    BY <2>2, SkipKeeps
  <2>3. CASE Retry
    BY <2>3, RetryKeeps
  <2>4. CASE FingerprintPhase
    BY <2>4, FingerprintKeeps
  <2>5. CASE End
    BY <2>5, EndKeeps
  <2>6. ASSUME NEW out \in BOOLEAN, RunTest(out) PROVE AssessInv'
    BY <2>6, RunTestKeeps
  <2>7. CASE UNCHANGED vars
    BY <2>7, StutterKeeps
  <2> QED
    BY <2>1, <2>2, <2>3, <2>4, <2>5, <2>6, <2>7 DEF Next
<1> QED
  BY <1>1, <1>2, PTL DEF Spec

\* Type correctness.
THEOREM AssessmentTypeCorrect == Spec => []TypeOK
<1>1. AssessInv => TypeOK
  BY DEF AssessInv
<1> QED
  BY <1>1, AssessInductive, PTL

\* Whatever the device, neither a failed tool, nor an outage, nor what an earlier
\* launch left makes an automatic test fail a device that lacks the weakness, unless
\* a text report was misread.
THEOREM AlarmsAreTrue == Spec => []NoFalseAlarm
<1>1. AssessInv => NoFalseAlarm
  BY DEF AssessInv
<1> QED
  BY <1>1, AssessInductive, PTL

\* In a launch in which every tool answered in full, a test passes no device that has
\* the weakness it looks for, whichever test filled the caches it reads.
THEOREM PassesAreEarned == Spec => []PassIsEarned
<1>1. AssessInv => PassIsEarned
  BY DEF AssessInv
<1> QED
  BY <1>1, AssessInductive, PTL

\* For want of their service tests are skipped only on evidence, and rightly if the
\* tools answered in full.
THEOREM SkipsHaveGrounds == Spec => []SkipsAreGrounded
<1>1. AssessInv => SkipsAreGrounded
  BY DEF AssessInv
<1> QED
  BY <1>1, AssessInductive, PTL
==================================================================================
