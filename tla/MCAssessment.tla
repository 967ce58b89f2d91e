------------------------------ MODULE MCAssessment ------------------------------
EXTENDS Assessment

\* A gateway with every service, two controllers whose web page hides behind TLS on
\* an unusual port, one of them a usual port for TLS, one that answers on UDP and on
\* an odd port, one whose odd port is always allowed, and one that only talks plain
\* HTTP.
Services ==
  {{"telnet", "ssh", "http", "https", "ntp?", "dns?"},
   {"ssh", "tls", "bacnet", "ntp"},
   {"tls", "usual_tls", "ntp"},
   {"odd", "bacnet?", "dns"},
   {"odd", "rtsps", "dns"},
   {"http", "ntp"}}

\* Every weakness and no protection, the other way round, and mixtures.
Weakened == {"weak_versions", "weak_ciphers", "bad_cert", "weak_ssh", "default_login",
             "basic_login", "vendor"}
Protected == {"lockout", "redirects", "headers", "syncs", "dhcp", "form_login"}
Neglected == {"bad_cert", "lockout", "redirects", "few_weak_ssh", "frowned_ssh", "easyio"}
Dated == {"weak_ciphers", "headers", "basic_login", "default_login", "easyio", "vendor"}

\* Two more show nothing.
MCDevices ==
  {s \cup b : s \in Services, b \in {Weakened, Protected, Neglected, Dated}}
    \cup {Protected, Neglected}

MCEntries == {"ssh", "http", "https", "tls", "bacnet", "ntp", "dns"}

\* A vendor's devices, whose redirection is not tested, and anything with SSH, on
\* which no default credentials are tried.
MCProfiles ==
  {[required |-> {}, hints |-> {"https"}, vendor |-> TRUE, skips |-> {"U18"}],
   [required |-> {"ssh"}, hints |-> {}, vendor |-> FALSE, skips |-> {"U16"}]}
================================================================================
