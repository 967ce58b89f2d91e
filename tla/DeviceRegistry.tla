----------------------------- MODULE DeviceRegistry -----------------------------
(* The devices table and the requests that fill it: operators create, import,    *)
(* update and delete devices, discovery upserts what answers on the network, a   *)
(* DHCP device's address is looked up by its MAC, and U02 adds a MAC it met.     *)
(* A handler checks, awaits probes or scans, and writes; its writes are visible  *)
(* to others when it commits.  Only a MAC is unique in the table: the constraint *)
(* on (ip, project) does not bind devices without a project, the only ones here. *)
EXTENDS Naturals, FiniteSets, FiniteSetsExt

CONSTANTS
  Rows,     \* identities of devices; one is used again once nothing refers to it
  Ips,      \* addresses, in the order a sweep lists them
  Macs,
  Modes,    \* addressing modes
  Clients,  \* requests being handled at the same time
  None,     \* no value in a column
  Unset     \* a column the request does not write

ASSUME RegistryAssumption ==
  /\ Ips \subseteq Nat
  /\ Modes \subseteq {"static", "dhcp", "unknown"} /\ {"static", "dhcp"} \subseteq Modes
  /\ {None, Unset} \cap (Ips \cup Macs) = {} /\ Unset \notin Modes /\ Unset # None
  /\ IsFiniteSet(Rows)

VARIABLES
  devices,  \* the committed table
  req       \* each client's request: where it is, what it found, what it wrote

vars == <<devices, req>>

Device(ip, mac, mode) == [there |-> TRUE, ip |-> ip, mac |-> mac, mode |-> mode]

NoDevice == [there |-> FALSE, ip |-> None, mac |-> None, mode |-> "static"]

NoWrites == [r \in {} |-> NoDevice]

\* "late" is history: another request has committed since this one began.
NoRequest ==
  [call |-> "none", pc |-> "idle", row |-> None, ip |-> Unset, mac |-> Unset,
   mode |-> Unset, hosts |-> {}, tx |-> NoWrites, late |-> FALSE]

Init ==
  /\ devices = [r \in Rows |-> NoDevice]
  /\ req = [c \in Clients |-> NoRequest]

--------------------------------------------------------------------------------
(* What a probe tells of an address.                                             *)

\* Addresses probe_device_connectivity may report as reachable: any, for beside a live
\* device a router with proxy ARP, a gateway or Docker's NAT may answer the ping, at
\* LAN latency, for one that is gone.
Reachable == Ips

--------------------------------------------------------------------------------
(* The table.                                                                    *)

Given(new, old) == IF new = Unset THEN old ELSE new

\* What a request reads: its own writes over the committed rows.
View(c) ==
  [r \in Rows |-> IF r \in DOMAIN req[c].tx THEN req[c].tx[r] ELSE devices[r]]

At(table, ip) == {r \in Rows : table[r].there /\ table[r].ip = ip}

With(table, mac) == {r \in Rows : table[r].there /\ table[r].mac = mac /\ mac # None}

\* Rows written by other requests that have not committed.
Locked(c) == UNION {DOMAIN req[e].tx : e \in Clients \ {c}}

\* A write waits for the requests that hold its row or its MAC ...
Free(c, r, mac) ==
  /\ r \notin Locked(c)
  /\ With(devices, mac) \cap Locked(c) = {}
  /\ \A e \in Clients \ {c} : With(View(e), mac) \cap DOMAIN req[e].tx = {}

\* Mutant: the column is not unique.
RefusedNever(c, r, mac) == FALSE

\* ... and is refused when another row has its MAC.
Refused(c, r, mac) == With(View(c), mac) \ {r} # {}

Storable(c, r, mac) == Free(c, r, mac) /\ ~Refused(c, r, mac)

\* An identity no row and no request has.
Unborn(r) ==
  /\ ~devices[r].there
  /\ \A e \in Clients : r # req[e].row /\ r \notin DOMAIN req[e].tx

Idle(c) == req[c].pc = "idle"

Began(c, fields) ==
  /\ req' = [req EXCEPT ![c] = fields]
  /\ UNCHANGED devices

\* The requests in "ended" answer; the table becomes what they committed.
Commit(table, ended) ==
  /\ devices' = table
  /\ req' = [e \in Clients |->
       IF e \in ended THEN NoRequest
       ELSE [req[e] EXCEPT !.late = @ \/ (req[e].pc # "idle" /\ table # devices)]]

\* get_db after an exception: a lookup that meets two rows, a refused or blocked
\* write, a failed scan, a run that is not ready.
Abort(c) ==
  /\ req[c].pc # "idle"
  /\ req' = [req EXCEPT ![c] = NoRequest]
  /\ UNCHANGED devices

--------------------------------------------------------------------------------
(* Devices entered by operators.                                                 *)

\* create_device up to its probe: a static device must have an address nobody
\* has, a DHCP device a MAC nobody has; the rest is not looked at.
Create(c, ip, mac, mode) ==
  /\ Idle(c)
  /\ IF mode = "dhcp"
     THEN mac # None /\ With(devices, mac) = {}
     ELSE ip # None /\ At(devices, ip) = {}
  /\ Began(c, [NoRequest EXCEPT !.call = "enter", !.pc = "inserting",
                                !.ip = ip, !.mac = mac, !.mode = mode])

\* import_devices, for a file of one row.
Import(c, ip, mac) ==
  /\ Idle(c)
  /\ ip # None /\ At(devices, ip) = {}
  /\ Began(c, [NoRequest EXCEPT !.call = "enter", !.pc = "inserting",
                                !.ip = ip, !.mac = mac, !.mode = "static"])

\* The new row of create, import and register.
Insert(c, r) ==
  LET q == req[c] IN
  /\ q.pc = "inserting"
  /\ Unborn(r) /\ Storable(c, r, q.mac)
  /\ Commit([devices EXCEPT ![r] = Device(q.ip, q.mac, q.mode)], {c})

\* A flush writes the columns whose value is not the one that was loaded.
Change(new, old) == IF new = old THEN Unset ELSE new

\* Mutant: only the columns that are written are looked at.
UpdateShallow(c, r, ip, mac, mode) ==
  /\ Idle(c)
  /\ devices[r].there
  /\ ip \in Ips => At(devices, ip) \ {r} = {}
  /\ mac \in Macs => With(devices, mac) \ {r} = {}
  /\ mode = "dhcp" => Given(mac, devices[r].mac) # None
  /\ mode = "static" => Given(ip, devices[r].ip) # None
  /\ Began(c, [NoRequest EXCEPT !.call = "update", !.pc = "storing", !.row = r,
                                !.ip = Change(ip, devices[r].ip),
                                !.mac = Change(mac, devices[r].mac),
                                !.mode = Change(mode, devices[r].mode)])

\* update_device up to its flush: what it writes must be nobody else's, and the
\* mode the row will have needs its address or its MAC.
Update(c, r, ip, mac, mode) ==
  LET effective == Given(mode, devices[r].mode) IN
  /\ Idle(c)
  /\ devices[r].there
  /\ ip \in Ips => At(devices, ip) \ {r} = {}
  /\ mac \in Macs => With(devices, mac) \ {r} = {}
  /\ effective = "dhcp" => Given(mac, devices[r].mac) # None
  /\ effective = "static" => Given(ip, devices[r].ip) # None
  /\ Began(c, [NoRequest EXCEPT !.call = "update", !.pc = "storing", !.row = r,
                                !.ip = Change(ip, devices[r].ip),
                                !.mac = Change(mac, devices[r].mac),
                                !.mode = Change(mode, devices[r].mode)])

\* The columns a request writes over those the row has by now.
Written(row, q) ==
  Device(Given(q.ip, row.ip), Given(q.mac, row.mac), Given(q.mode, row.mode))

\* The write of update, discover-ip and register: a row deleted meanwhile fails.
Store(c) ==
  LET q == req[c] IN
  /\ q.pc = "storing" /\ devices[q.row].there
  /\ Storable(c, q.row, q.mac)
  /\ Commit([devices EXCEPT ![q.row] = Written(@, q)], {c})

\* delete_device, with its runs and schedules.
Delete(r) ==
  /\ devices[r].there
  /\ \A c \in Clients : r \notin DOMAIN req[c].tx
  /\ Commit([devices EXCEPT ![r] = NoDevice], {})

--------------------------------------------------------------------------------
(* The address of a DHCP device.                                                 *)

\* What discover_ip_for_mac may answer: an entry of the neighbour table outlives
\* the device that had the address.
FoundIps == Ips

\* discover_device_ip: the neighbour table and ARP scans, for minutes.
DiscoverIp(c, r) ==
  /\ Idle(c)
  /\ devices[r].there /\ devices[r].mac # None
  /\ Began(c, [NoRequest EXCEPT !.call = "locate", !.pc = "scanning", !.row = r])

\* Mutant: the address found is written without asking who has it.
DiscoveredAnyIp(c, ip) ==
  /\ req[c].call = "locate" /\ req[c].pc = "scanning"
  /\ req' = [req EXCEPT ![c] = [req[c] EXCEPT !.pc = "storing", !.ip = ip]]
  /\ UNCHANGED devices

\* The address found must be nobody else's.
DiscoveredIp(c, ip) ==
  /\ req[c].call = "locate" /\ req[c].pc = "scanning"
  /\ At(devices, ip) \ {req[c].row} = {}
  /\ req' = [req EXCEPT ![c] = [req[c] EXCEPT !.pc = "storing", !.ip = ip]]
  /\ UNCHANGED devices

\* ensure_device_execution_readiness: a DHCP device without an address, or one
\* that does not answer, is looked for before its run is started or resumed.
Refresh(c, r) ==
  /\ Idle(c)
  /\ devices[r].there /\ devices[r].mode = "dhcp" /\ devices[r].mac # None
  /\ Began(c, [NoRequest EXCEPT !.call = "refresh", !.pc = "scanning", !.row = r])

\* _refresh_dhcp_device_ip flushes what was found, whoever else has it ...
RefreshedIp(c, ip) ==
  LET r == req[c].row IN
  /\ req[c].call = "refresh" /\ req[c].pc = "scanning"
  /\ devices[r].there /\ r \notin Locked(c)
  /\ req' = [req EXCEPT ![c] = [req[c] EXCEPT
       !.pc = "ready", !.tx = [x \in {r} |-> [devices[r] EXCEPT !.ip = ip]]]]
  /\ UNCHANGED devices

\* ... and the request commits it after another probe, when the run may go on.
Ready(c) == req[c].pc = "ready" /\ Commit(View(c), {c})

--------------------------------------------------------------------------------
(* Devices found on the network.                                                 *)

\* What nmap reports of a host that is up: its MAC only within the own segment.
ReportedMacs == Macs \cup {None}

\* discover: one address, behind the gate ...
ScanOne(c, ip) ==
  /\ Idle(c)
  /\ ip \in Reachable
  /\ Began(c, [NoRequest EXCEPT !.call = "discover", !.pc = "looking", !.hosts = {ip}])

\* ... or a subnet: the hosts of the ping sweep that a probe reached.
Sweep(c, hosts) ==
  /\ Idle(c)
  /\ hosts # {} /\ hosts \subseteq Reachable
  /\ Began(c, [NoRequest EXCEPT !.call = "discover", !.pc = "looking", !.hosts = hosts])

\* start_batch_scan: the devices of the batch that a probe reached.
Batch(c, hosts) ==
  /\ Idle(c)
  /\ hosts # {} /\ hosts \subseteq Reachable
  /\ Began(c, [NoRequest EXCEPT !.call = "batch", !.pc = "looking", !.hosts = hosts])

\* register_discovered_device: a known address gets the MAC reported ...
RegisterKnown(c, ip, mac) ==
  /\ Idle(c)
  /\ \E r \in Rows :
       /\ At(devices, ip) = {r}
       /\ Began(c, [NoRequest EXCEPT !.call = "register", !.pc = "storing", !.row = r,
                                     !.mac = IF mac = None THEN Unset ELSE mac])

\* ... and an unknown one a row, if a probe reached it.
RegisterNew(c, ip, mac) ==
  /\ Idle(c)
  /\ At(devices, ip) = {} /\ ip \in Reachable
  /\ Began(c, [NoRequest EXCEPT !.call = "register", !.pc = "inserting",
                                !.ip = ip, !.mac = mac, !.mode = "static"])

Host(c) == Min(req[c].hosts)

\* The request goes on to write the row it found.
Found(c, r, ip, mac) ==
  req' = [req EXCEPT ![c] = [req[c] EXCEPT !.pc = "upserting", !.row = r,
                                           !.ip = ip, !.mac = mac]]

\* _upsert_device and the loop of start_batch_scan: the row at the address; for
\* discovery also the row with the MAC, which gets the address if it has none.
Look(c, mac) ==
  LET table == View(c)
      at    == At(table, Host(c))
      with  == IF req[c].call = "batch" THEN {} ELSE With(table, mac)
      keeps(r) == mac = None \/ (req[c].call = "batch" /\ table[r].mac # None)
      found(r, ip) == Found(c, r, ip, IF keeps(r) THEN Unset ELSE mac)
  IN
  /\ req[c].pc = "looking" /\ req[c].hosts # {}
  /\ \/ \E r \in Rows : at = {r} /\ found(r, Unset)
     \/ \E r \in Rows : /\ at = {} /\ with = {r}
                        /\ found(r, IF table[r].ip = None THEN Host(c) ELSE Unset)
     \/ /\ at = {} /\ with = {}
        /\ req' = [req EXCEPT ![c] = [req[c] EXCEPT !.pc = "adding", !.row = None,
                                                    !.ip = Host(c), !.mac = mac]]
  /\ UNCHANGED devices

\* The request has flushed a row and turns to its next host.
Flushed(c, r, device) ==
  LET q == req[c] IN
  /\ req' = [req EXCEPT ![c] =
       [NoRequest EXCEPT !.call = q.call, !.pc = "looking", !.late = q.late,
                         !.hosts = q.hosts \ {Host(c)},
                         !.tx = [x \in DOMAIN q.tx \cup {r} |->
                                   IF x = r THEN device ELSE q.tx[x]]]]
  /\ UNCHANGED devices

Upsert(c) ==
  LET q == req[c] IN
  /\ q.pc = "upserting" /\ View(c)[q.row].there
  /\ Storable(c, q.row, q.mac)
  /\ Flushed(c, q.row, Written(View(c)[q.row], q))

Add(c, r) ==
  LET q == req[c] IN
  /\ q.pc = "adding"
  /\ Unborn(r) /\ Storable(c, r, q.mac)
  /\ Flushed(c, r, Device(q.ip, q.mac, "static"))

\* The insert of discovery is refused: everything it wrote is rolled back, the
\* hosts before this one included, and the row now at the address is updated.
Clash(c) ==
  /\ req[c].pc = "adding" /\ req[c].call # "batch"
  /\ Free(c, None, req[c].mac) /\ Refused(c, None, req[c].mac)
  /\ \E r \in Rows :
       /\ At(devices, Host(c)) = {r}
       /\ req' = [req EXCEPT ![c] = [req[c] EXCEPT !.pc = "upserting", !.row = r,
                                                   !.ip = Unset, !.tx = NoWrites]]
  /\ UNCHANGED devices

SweepEnds(c) ==
  /\ req[c].pc = "looking" /\ req[c].hosts = {}
  /\ Commit(View(c), {c})

\* _enrich_device_from_result of a run's U02: the MAC, for a device without one.
Enrich(r, mac) ==
  /\ devices[r].there /\ devices[r].mac = None
  /\ With(devices, mac) = {}
  /\ \A c \in Clients : r \notin DOMAIN req[c].tx /\ With(View(c), mac) = {}
  /\ Commit([devices EXCEPT ![r].mac = mac], {})

--------------------------------------------------------------------------------

OperatorNext(c) ==
  \/ \E ip \in Ips \cup {None}, mac \in Macs \cup {None} :
       \/ \E mode \in Modes : Create(c, ip, mac, mode)
       \/ Import(c, ip, mac)
  \/ \E r \in Rows :
       \/ Insert(c, r)
       \/ \E ip \in Ips \cup {None, Unset}, mac \in Macs \cup {None, Unset},
             mode \in Modes \cup {Unset} : Update(c, r, ip, mac, mode)
  \/ Store(c)

AddressNext(c) ==
  \/ \E r \in Rows : DiscoverIp(c, r) \/ Refresh(c, r)
  \/ \E ip \in FoundIps : DiscoveredIp(c, ip) \/ RefreshedIp(c, ip)
  \/ Ready(c)

DiscoveryNext(c) ==
  \/ \E ip \in Ips :
       \/ ScanOne(c, ip)
       \/ \E mac \in ReportedMacs : RegisterKnown(c, ip, mac) \/ RegisterNew(c, ip, mac)
  \/ \E hosts \in SUBSET Ips : Sweep(c, hosts) \/ Batch(c, hosts)
  \/ \E mac \in ReportedMacs : Look(c, mac)
  \/ \E r \in Rows : Add(c, r)
  \/ Upsert(c) \/ Clash(c) \/ SweepEnds(c)

Next ==
  \/ \E c \in Clients : OperatorNext(c) \/ AddressNext(c) \/ DiscoveryNext(c) \/ Abort(c)
  \/ \E r \in Rows : Delete(r)
  \/ \E r \in Rows, mac \in Macs : Enrich(r, mac)

Spec == Init /\ [][Next]_vars

--------------------------------------------------------------------------------
(* Properties.                                                                   *)

DeviceType ==
  [there : BOOLEAN, ip : Ips \cup {None}, mac : Macs \cup {None}, mode : Modes]

\* The table and the requests have their types, and no MAC is in two rows: the
\* column's UNIQUE holds through every commit of several rows, too.
TypeOK ==
  /\ devices \in [Rows -> DeviceType]
  /\ \A mac \in Macs : Cardinality(With(devices, mac)) <= 1
  /\ \A c \in Clients :
       /\ req[c].pc \in {"idle", "inserting", "storing", "scanning", "ready", "looking",
                         "upserting", "adding"}
       /\ req[c].row \in Rows \cup {None}
       /\ req[c].hosts \subseteq Ips
       /\ DOMAIN req[c].tx \subseteq Rows
       /\ \A r \in DOMAIN req[c].tx : req[c].tx[r] \in DeviceType

Moved(c) == req'[c].pc # req[c].pc

Shared(table) == {ip \in Ips : Cardinality(At(table, ip)) > 1}

\* Two devices come to share an address only through the two doors that do not ask
\* who has it, the refresh before a run and a DHCP device created with an address,
\* or through a request that another one overtook after it had asked.
TwinsAreExcused ==
  [][\A ip \in Shared(devices') \ Shared(devices) :
       \E c \in Clients :
         /\ Moved(c)
         /\ \/ req[c].call = "refresh"
            \/ req[c].call = "enter" /\ req[c].mode = "dhcp"
            \/ req[c].late]_devices

Addressable(d) ==
  /\ d.there /\ d.mode = "static" => d.ip # None
  /\ d.there /\ d.mode = "dhcp" => d.mac # None

\* A device keeps what its addressing mode finds it by, whichever requests write
\* which of its columns; only two updates at once may take it away between them.
ModeIsAddressed ==
  [][\A r \in Rows :
       Addressable(devices[r]) /\ ~Addressable(devices'[r]) =>
         \E c \in Clients : Moved(c) /\ req[c].call = "update" /\ req[c].late]_devices
==================================================================================
