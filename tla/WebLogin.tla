-------------------------------- MODULE WebLogin --------------------------------
(* services/test_engine.py: finding the login of a web page (U16 and U17), the   *)
(* attempts on default credentials, and those that should lock an account; "out" *)
(* says that an outage of the cable touches the attempt.                         *)
EXTENDS ToolOutput

\* The check was not made: nothing is said of having run.
NotRun == Answer({})

\* A form that hydra can fill in: static, without tokens, posted.
LoginForm(d) == "form_login" \in d

\* What the pages where a login is usual ask for, if they can be reached.  A page
\* with tokens, or without a form, is known for a login and left alone.
AuthSurface(d, reached) ==
  IF ~reached THEN "none"
  ELSE IF "basic_login" \in d THEN "basic"
  ELSE IF LoginForm(d) THEN "form"
  ELSE "none"

\* The EasyIO page, with its own pairs of credentials; an attempt that fails is
\* passed over, and the check has run all the same.
EasyIO(d, reached) ==
  IF ~reached \/ "easyio" \notin d THEN {}
  ELSE {Answer(HydraReport(d)), Failing({"ran"})}

\* hydra on the credentials it knows; after an outage it may have tried nothing.
HydraDefaults(d, out) ==
  {Error, Answer(HydraReport(d))} \cup (IF out THEN {Answer({}), Answer({"ran"})} ELSE {})

\* U16, on the web ports ports.  The EasyIO page is tried first; a form is found
\* and left to the engineer; so is a page that does not answer.
DefaultCredentials(d, ports, out) ==
  LET reached == ports \cap d # {}
  IN IF EasyIO(d, reached) # {} THEN EasyIO(d, reached) \cup {Failing({})}
     ELSE IF AuthSurface(d, reached) = "basic" THEN HydraDefaults(d, out) \cup {Failing({})}
     ELSE {NotRun}

\* hydra in a hurry.  An SSH server may share no algorithm with it; a device that
\* is gone has blocked it, locked it out, or refused it; if hydra itself fails, the
\* check has run.
HydraProbe(kind, d, out) ==
  {Answer({"ran"} \cup (d \cap {"lockout"})), Failing({"ran"})}
    \cup (IF kind = "ssh" THEN {NotRun} ELSE {})
    \cup (IF out THEN {Answer({"blocked"}), Answer({"ran", "lockout"})} ELSE {})

SshProbe(d, out) == HydraProbe("ssh", d, out)

\* Ten attempts of the engine's own, if hydra met no lockout, whatever hydra met
\* instead: a connection refused now is a lockout, any other error is nothing.
OwnAttempts(d, out) ==
  {Answer({"ran"} \cup (d \cap {"lockout"})), Failing({"ran"})}
    \cup (IF out THEN {Answer({"ran", "lockout"})} ELSE {})

WebProbe(d, out) ==
  {a \in HydraProbe("http", d, out) : "lockout" \in a.facts} \cup OwnAttempts(d, out)

\* U17: SSH if its port was found, else the first web port with a login that hydra
\* can use, unless the pages do not answer.
BruteForceProtection(d, ssh, ports, out) ==
  IF ssh THEN SshProbe(d, out)
  ELSE IF AuthSurface(d, ports \cap d # {}) # "none" THEN WebProbe(d, out) \cup {Failing({})}
  ELSE {NotRun}
================================================================================
