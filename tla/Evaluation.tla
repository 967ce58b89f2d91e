------------------------------- MODULE Evaluation -------------------------------
(* services/evaluation.py: the verdict on each active automatic test, a ladder  *)
(* over the facts e that the parsed data of the test establish.  A fact stands  *)
(* for a field of the data that is set, or for a list that is not empty; the    *)
(* comments that go with the verdicts are left out.                             *)

Verdicts == {"pass", "fail", "advisory", "info", "na", "error"}

\* Ping response.
EvalU01(e) == IF "reachable" \in e THEN "pass" ELSE "fail"

\* MAC address and vendor.
EvalU02(e) ==
  IF {"mac", "vendor"} \subseteq e THEN "pass"
  ELSE IF "mac" \in e THEN "advisory"
  ELSE "info"

\* Speed and duplex profiles set on the host's adapter, one after the other.
EvalU03(e) ==
  IF "ran" \notin e \/ "applied_some" \notin e THEN "na"
  ELSE IF {"applied_all", "reachable_all", "restored"} \subseteq e THEN "pass"
  ELSE "advisory"

\* DHCP: a renewal into a second range, or an acknowledged lease.
EvalU04(e) ==
  IF "two_phase" \in e
    THEN IF {"ran", "renewed"} \subseteq e THEN "pass" ELSE "info"
  ELSE IF "acknowledged" \in e THEN "pass"
  ELSE "info"

\* Open ports, service versions, the operating system and BACnet are reported, never
\* judged.
EvalU06(e) == "info"

EvalU08(e) == "info"

EvalU19(e) == "info"

EvalU28(e) == "info"

\* Ports against the whitelist; "unlisted" is an open port that it lacks.
EvalU09(e) == IF "unlisted" \in e THEN "fail" ELSE "pass"

\* TLS versions.
EvalU10(e) ==
  IF "versions" \notin e THEN "na"
  ELSE IF "weak_versions" \in e THEN "fail"
  ELSE "pass"

\* Cipher suites.
EvalU11(e) ==
  IF "ciphers" \notin e
    THEN IF "versions" \in e THEN "info" ELSE "na"
  ELSE IF "weak_ciphers" \in e THEN "fail"
  ELSE "pass"

\* Mutant: the trust of the certificate's issuer does not matter.
EvalU12Untrusting(e) ==
  IF "cert_valid" \in e THEN "pass" ELSE IF "cert" \in e THEN "advisory" ELSE "na"

\* Certificate; "cert_issue" also stands for a trust that was not verified.
EvalU12(e) ==
  IF "cert_valid" \in e /\ "cert_issue" \notin e THEN "pass"
  ELSE IF "cert" \in e THEN "advisory"
  ELSE "na"

\* SSH algorithms.
EvalU15(e) ==
  IF e \cap {"version", "weak", "very_weak"} = {} THEN "na"
  ELSE IF "very_weak" \in e THEN "fail"
  ELSE IF "weak" \in e THEN "advisory"
  ELSE "pass"

\* Default credentials.
EvalU16(e) ==
  IF "found" \in e THEN "fail"
  ELSE IF "ran" \notin e THEN "na"
  ELSE "pass"

\* Brute force protection.
EvalU17(e) ==
  IF "ran" \notin e
    THEN IF "blocked" \in e THEN "info" ELSE "na"
  ELSE IF e \cap {"lockout", "refused"} # {} THEN "pass"
  ELSE "advisory"

\* Redirection from HTTP to HTTPS.
EvalU18(e) ==
  IF "redirects" \in e \/ "http_open" \notin e THEN "pass" ELSE "fail"

\* The device reachable again after its link was cut.
EvalU20(e) ==
  IF ~({"ran", "cycled"} \subseteq e) THEN "na"
  ELSE IF {"reachable", "restored"} \subseteq e THEN "pass"
  ELSE "advisory"

\* NTP.
EvalU26(e) ==
  IF "inconclusive" \in e THEN "info"
  ELSE IF "observed" \in e THEN "pass"
  ELSE IF "open" \in e THEN "info"
  ELSE "advisory"

\* DNS.
EvalU29(e) ==
  IF "inconclusive" \notin e /\ "observed" \in e THEN "pass" ELSE "info"

\* Web server: nikto's output and the security headers.
EvalU35(e) ==
  IF e \cap {"nikto", "http_service"} = {} THEN "na"
  ELSE IF "missing_headers" \in e THEN "info"
  ELSE "pass"

\* evaluate_result; a test without a rule is informational.
Evaluate(test, e) ==
  CASE test = "U01" -> EvalU01(e)
    [] test = "U02" -> EvalU02(e)
    [] test = "U03" -> EvalU03(e)
    [] test = "U04" -> EvalU04(e)
    [] test = "U06" -> EvalU06(e)
    [] test = "U08" -> EvalU08(e)
    [] test = "U09" -> EvalU09(e)
    [] test = "U10" -> EvalU10(e)
    [] test = "U11" -> EvalU11(e)
    [] test = "U12" -> EvalU12(e)
    [] test = "U15" -> EvalU15(e)
    [] test = "U16" -> EvalU16(e)
    [] test = "U17" -> EvalU17(e)
    [] test = "U18" -> EvalU18(e)
    [] test = "U19" -> EvalU19(e)
    [] test = "U20" -> EvalU20(e)
    [] test = "U26" -> EvalU26(e)
    [] test = "U28" -> EvalU28(e)
    [] test = "U29" -> EvalU29(e)
    [] test = "U35" -> EvalU35(e)
    [] OTHER -> "info"
================================================================================
