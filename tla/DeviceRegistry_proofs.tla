------------------------- MODULE DeviceRegistry_proofs --------------------------
(* Theorems of DeviceRegistry, for every number of devices, addresses, MACs and  *)
(* requests.  A request writes in several steps, so the invariant speaks of the  *)
(* table as each request will leave it: a MAC is in one row of that table too,   *)
(* no two requests write the same row or the same MAC, and what a request found  *)
(* when it looked still holds unless another one has committed since.            *)
EXTENDS DeviceRegistry, FiniteSetTheorems, WellFoundedInduction, TLAPS

Calls == {"none", "enter", "update", "locate", "refresh", "register", "discover", "batch"}

Places == {"idle", "inserting", "storing", "scanning", "ready", "looking", "upserting",
           "adding"}

Writes == UNION {[rows -> DeviceType] : rows \in SUBSET Rows}

Request ==
  [call : Calls, pc : Places, row : Rows \cup {None}, ip : Ips \cup {None, Unset},
   mac : Macs \cup {None, Unset}, mode : Modes \cup {Unset}, hosts : SUBSET Ips,
   tx : Writes, late : BOOLEAN]

Over(table, tx) == [r \in Rows |-> IF r \in DOMAIN tx THEN tx[r] ELSE table[r]]

\* Two rows that the column's UNIQUE forbids to be different.
Same(d1, d2) == d1.there /\ d2.there /\ d1.mac = d2.mac /\ d1.mac # None

Unique(table) == \A r1, r2 \in Rows : Same(table[r1], table[r2]) => r1 = r2

Twin(table, ip) == \E r1, r2 \in At(table, ip) : r1 # r2

Compatible(t1, t2) ==
  \A r1 \in DOMAIN t1, r2 \in DOMAIN t2 : r1 # r2 /\ ~Same(t1[r1], t2[r2])

\* A write leaves a device what its mode finds it by.
Harmless(d, old) == Addressable(old) => Addressable(d)

\* What a request may hold where it stands.
Inserting(q) ==
  /\ q.call \in {"enter", "register"}
  /\ q.ip \in Ips \cup {None} /\ q.mac \in Macs \cup {None} /\ q.mode \in Modes
  /\ Addressable(Device(q.ip, q.mac, q.mode))

Storing(q) ==
  /\ q.row \in Rows /\ q.call \in {"update", "locate", "register"}
  /\ q.call # "update" =>
       q.ip \in Ips \cup {Unset} /\ q.mac \in Macs \cup {Unset} /\ q.mode = Unset

Scanning(q) ==
  /\ q.row \in Rows /\ q.call \in {"locate", "refresh"}
  /\ q.ip = Unset /\ q.mac = Unset /\ q.mode = Unset

Discovering(q) ==
  /\ q.call \in {"discover", "batch"} /\ q.mode = Unset
  /\ q.pc = "upserting" =>
       q.row \in Rows /\ q.ip \in Ips \cup {Unset} /\ q.mac \in Macs \cup {Unset}
  /\ q.pc = "adding" => q.ip \in Ips /\ q.mac \in Macs \cup {None}

Shape(q) ==
  /\ q.pc \notin {"ready", "looking", "upserting", "adding"} => DOMAIN q.tx = {}
  /\ q.pc = "inserting" => Inserting(q)
  /\ q.pc = "storing" => Storing(q)
  /\ q.pc = "scanning" => Scanning(q)
  /\ q.pc = "ready" => q.call = "refresh"
  /\ q.pc \in {"looking", "upserting", "adding"} => Discovering(q)

\* What a request found when it looked, as long as the table is the one it saw.
Fresh(q, table) ==
  /\ q.pc = "inserting" /\ (q.call = "register" \/ q.mode # "dhcp") => At(table, q.ip) = {}
  /\ q.pc = "storing" /\ q.ip \in Ips => At(table, q.ip) \ {q.row} = {}
  /\ q.pc = "storing" /\ q.call = "update" => Addressable(Written(table[q.row], q))
  /\ q.pc \in {"looking", "upserting", "adding"} =>
       \A ip \in Ips : Twin(Over(table, q.tx), ip) => Twin(table, ip)
  /\ q.pc \in {"upserting", "adding"} /\ q.ip \in Ips => At(Over(table, q.tx), q.ip) = {}

Sound(q, table) ==
  /\ Shape(q)
  /\ Unique(Over(table, q.tx))
  /\ \A r \in DOMAIN q.tx : Harmless(q.tx[r], table[r])
  /\ ~q.late => Fresh(q, table)

RegistryInv ==
  /\ devices \in [Rows -> DeviceType] /\ req \in [Clients -> Request]
  /\ Unique(devices)
  /\ \A c \in Clients : Sound(req[c], devices)
  /\ \A c \in Clients : \A e \in Clients \ {c} : Compatible(req[c].tx, req[e].tx)

--------------------------------------------------------------------------------
(* Lemmas about the operators.                                                   *)

\* The host a sweep turns to is one of its hosts.
LEMMA LowestIsOne == ASSUME NEW S \in SUBSET Nat, S # {}  PROVE  Min(S) \in S
<1> DEFINE Less == {pair \in Nat \X Nat : pair[1] < pair[2]}
<1>1. Less = OpToRel(<, Nat)  BY Zenon DEF Less, OpToRel
<1>2. IsWellFoundedOn(Less, Nat)  BY <1>1, NatLessThanWellFounded, Zenon
<1>3. PICK x \in S : \A y \in S : <<y, x>> \notin Less  BY <1>2, WFMin, Zenon
<1>4. \A y \in S : x <= y
  <2> TAKE y \in S
  <2>1. x \in Nat /\ y \in Nat  OBVIOUS
  <2>2. <<y, x>> \in Nat \X Nat /\ <<y, x>>[1] = y /\ <<y, x>>[2] = x  BY <2>1
  <2>3. ~(y < x)  BY <1>3, <2>2 DEF Less
  <2> QED  BY <2>1, <2>3
<1> HIDE DEF Less
<1> QED  BY <1>4 DEF Min

\* A request writes some of the rows, each with a device.
LEMMA WritesAre ==
  ASSUME NEW tx
  PROVE  tx \in Writes <=> DOMAIN tx \subseteq Rows /\ tx \in [DOMAIN tx -> DeviceType]
<1>1. ASSUME tx \in Writes
      PROVE  DOMAIN tx \subseteq Rows /\ tx \in [DOMAIN tx -> DeviceType]
  <2>1. PICK rows \in SUBSET Rows : tx \in [rows -> DeviceType]  BY <1>1 DEF Writes
  <2> QED  BY <2>1
<1>2. ASSUME DOMAIN tx \subseteq Rows, tx \in [DOMAIN tx -> DeviceType]
      PROVE  tx \in Writes
  <2>1. DOMAIN tx \in SUBSET Rows  BY <1>2
  <2> QED  BY <2>1, <1>2 DEF Writes
<1> QED  BY <1>1, <1>2

\* A request that has written nothing.
LEMMA NoWritesAre == NoWrites \in Writes /\ DOMAIN NoWrites = {}
<1>1. DOMAIN NoWrites = {}  BY DEF NoWrites
<1>2. NoWrites \in [DOMAIN NoWrites -> DeviceType]  BY <1>1 DEF NoWrites
<1> QED  BY <1>1, <1>2, WritesAre

\* The table a request will leave is a table.
LEMMA OverIsTable ==
  ASSUME NEW table \in [Rows -> DeviceType], NEW tx \in Writes
  PROVE  /\ Over(table, tx) \in [Rows -> DeviceType]
         /\ \A r \in DOMAIN tx : r \in Rows /\ tx[r] \in DeviceType /\ Over(table, tx)[r] = tx[r]
         /\ \A r \in Rows \ DOMAIN tx : Over(table, tx)[r] = table[r]
<1>1. DOMAIN tx \subseteq Rows /\ tx \in [DOMAIN tx -> DeviceType]  BY WritesAre
<1>2. \A r \in DOMAIN tx : r \in Rows /\ tx[r] \in DeviceType  BY <1>1
<1>3. \A r \in Rows : Over(table, tx)[r] = IF r \in DOMAIN tx THEN tx[r] ELSE table[r]
  BY DEF Over
<1>4. \A r \in Rows : (IF r \in DOMAIN tx THEN tx[r] ELSE table[r]) \in DeviceType
  BY <1>2
<1>5. Over(table, tx) \in [Rows -> DeviceType]  BY <1>4 DEF Over
<1> QED  BY <1>2, <1>3, <1>5

\* What a request that has written nothing will leave is the table.
LEMMA OverNothing ==
  ASSUME NEW table \in [Rows -> DeviceType], NEW tx, DOMAIN tx = {}
  PROVE  Over(table, tx) = table
BY DEF Over

\* The empty slot for a request.
LEMMA NoRequestIs ==
  /\ NoRequest \in Request
  /\ NoRequest.call = "none" /\ NoRequest.pc = "idle" /\ NoRequest.row = None
  /\ NoRequest.ip = Unset /\ NoRequest.mac = Unset /\ NoRequest.mode = Unset
  /\ NoRequest.hosts = {} /\ NoRequest.tx = NoWrites /\ NoRequest.late = FALSE
<1>1. NoWrites \in Writes  BY NoWritesAre
<1> QED  BY <1>1 DEF NoRequest, Request, Calls, Places

\* NoDevice and a new Device are devices.
LEMMA DevicesAre ==
  /\ NoDevice \in DeviceType
  /\ \A ip \in Ips \cup {None}, mac \in Macs \cup {None}, mode \in Modes :
       /\ Device(ip, mac, mode) \in DeviceType
       /\ Device(ip, mac, mode).there = TRUE /\ Device(ip, mac, mode).ip = ip
       /\ Device(ip, mac, mode).mac = mac /\ Device(ip, mac, mode).mode = mode
BY RegistryAssumption DEF NoDevice, Device, DeviceType

--------------------------------------------------------------------------------
(* How the invariant is kept: by a step of one request that leaves the table     *)
(* alone, and by a commit.                                                       *)

\* An idle request with nothing written is sound.
LEMMA IdleIsSound ==
  ASSUME NEW table \in [Rows -> DeviceType], Unique(table)
  PROVE  Sound(NoRequest, table)
<1>1. NoRequest.pc = "idle" /\ DOMAIN NoRequest.tx = {}  BY NoRequestIs, NoWritesAre
<1>2. Over(table, NoRequest.tx) = table  BY <1>1, OverNothing
<1>3. Shape(NoRequest)  BY <1>1 DEF Shape
<1>4. Fresh(NoRequest, table)  BY <1>1 DEF Fresh
<1> QED  BY <1>1, <1>2, <1>3, <1>4 DEF Sound

\* A step of one request that leaves the table alone keeps the invariant, if the
\* request stays sound and writes nothing another one does.
LEMMA RequestKeeps ==
  ASSUME RegistryInv, NEW c \in Clients, NEW q \in Request, Sound(q, devices),
         \A e \in Clients \ {c} : Compatible(q.tx, req[e].tx),
         devices' = devices, req' = [req EXCEPT ![c] = q]
  PROVE  RegistryInv'
<1>1. req' \in [Clients -> Request]  BY DEF RegistryInv
<1>2. req'[c] = q /\ \A e \in Clients \ {c} : req'[e] = req[e]  BY DEF RegistryInv
<1>3. ASSUME NEW e \in Clients  PROVE  Sound(req'[e], devices)
  <2>1. CASE e = c  BY <2>1, <1>2
  <2>2. CASE e # c  BY <2>2, <1>2 DEF RegistryInv
  <2> QED  BY <2>1, <2>2
<1>4. ASSUME NEW e \in Clients, NEW f \in Clients \ {e}
      PROVE  Compatible(req'[e].tx, req'[f].tx)
  <2>1. CASE e = c
    <3>1. f \in Clients \ {c} /\ req'[f] = req[f] /\ req'[e] = q  BY <2>1, <1>2
    <3> QED  BY <3>1
  <2>2. CASE f = c
    <3>1. e \in Clients \ {c} /\ req'[e] = req[e] /\ req'[f] = q  BY <2>2, <1>2
    <3>2. Compatible(q.tx, req[e].tx)  BY <3>1
    <3> QED  BY <3>1, <3>2 DEF Compatible, Same
  <2>3. CASE e # c /\ f # c
    <3>1. req'[e] = req[e] /\ req'[f] = req[f]  BY <2>3, <1>2
    <3> QED  BY <3>1 DEF RegistryInv
  <2> QED  BY <2>1, <2>2, <2>3
<1> QED  BY <1>1, <1>3, <1>4 DEF RegistryInv

\* A request that another one's commit finds under way: only "late" changes.
LEMMA OvertakenIs ==
  ASSUME NEW q \in Request, NEW late \in BOOLEAN
  PROVE  /\ [q EXCEPT !.late = late] \in Request
         /\ \A p \in Request :
              p = [q EXCEPT !.late = late] =>
                /\ p.call = q.call /\ p.pc = q.pc /\ p.row = q.row /\ p.ip = q.ip
                /\ p.mac = q.mac /\ p.mode = q.mode /\ p.hosts = q.hosts /\ p.tx = q.tx
                /\ p.late = late
BY DEF Request

\* The shape is one of the fields other than "late".
LEMMA ShapeStays ==
  ASSUME NEW q \in Request, NEW p \in Request, Shape(q),
         p.call = q.call /\ p.pc = q.pc /\ p.row = q.row /\ p.ip = q.ip,
         p.mac = q.mac /\ p.mode = q.mode /\ p.hosts = q.hosts /\ p.tx = q.tx
  PROVE  Shape(p)
BY DEF Shape, Inserting, Storing, Scanning, Discovering

\* So is what a request found, of the same table.
LEMMA FreshStays ==
  ASSUME NEW q \in Request, NEW p \in Request, NEW table, Fresh(q, table),
         p.call = q.call /\ p.pc = q.pc /\ p.row = q.row /\ p.ip = q.ip,
         p.mac = q.mac /\ p.mode = q.mode /\ p.hosts = q.hosts /\ p.tx = q.tx
  PROVE  Fresh(p, table)
<1>1. Written(table[p.row], p) = Written(table[q.row], q)  BY DEF Written
<1> QED  BY <1>1 DEF Fresh

\* A commit leaves a request sound that holds none of the rows it changed and none
\* of the MACs it wrote.
LEMMA OvertakenIsSound ==
  ASSUME NEW table \in [Rows -> DeviceType], NEW old \in [Rows -> DeviceType],
         NEW q \in Request, NEW p \in Request, Sound(q, old), Unique(table),
         \A r \in DOMAIN q.tx : table[r] = old[r],
         \A r1 \in Rows \ DOMAIN q.tx, r2 \in DOMAIN q.tx : ~Same(table[r1], q.tx[r2]),
         p = [q EXCEPT !.late = q.late \/ (q.pc # "idle" /\ table # old)]
  PROVE  Sound(p, table)
<1>1. q.late \in BOOLEAN  BY DEF Request
<1>2. PICK late \in BOOLEAN : late = (q.late \/ (q.pc # "idle" /\ table # old))  OBVIOUS
<1>3. /\ p.call = q.call /\ p.pc = q.pc /\ p.row = q.row /\ p.ip = q.ip
      /\ p.mac = q.mac /\ p.mode = q.mode /\ p.hosts = q.hosts /\ p.tx = q.tx
      /\ p.late = late
  BY <1>2, OvertakenIs
<1>4. q.tx \in Writes  BY DEF Request
<1>5. Shape(p)  BY <1>3, ShapeStays DEF Sound
<1>6. Unique(Over(table, q.tx))
  <2>1. SUFFICES ASSUME NEW r1 \in Rows, NEW r2 \in Rows,
                        Same(Over(table, q.tx)[r1], Over(table, q.tx)[r2])
                 PROVE  r1 = r2
    BY DEF Unique
  <2>2. CASE r1 \in DOMAIN q.tx /\ r2 \in DOMAIN q.tx
    <3>1. Over(old, q.tx)[r1] = Over(table, q.tx)[r1] /\ Over(old, q.tx)[r2] = Over(table, q.tx)[r2]
      BY <2>2, <1>4, OverIsTable
    <3> QED  BY <3>1, <2>1 DEF Sound, Unique
  <2>3. CASE r1 \notin DOMAIN q.tx /\ r2 \in DOMAIN q.tx
    <3>1. Over(table, q.tx)[r1] = table[r1] /\ Over(table, q.tx)[r2] = q.tx[r2]
      BY <2>3, <1>4, OverIsTable
    <3> QED  BY <3>1, <2>1, <2>3
  <2>4. CASE r1 \in DOMAIN q.tx /\ r2 \notin DOMAIN q.tx
    <3>1. Over(table, q.tx)[r2] = table[r2] /\ Over(table, q.tx)[r1] = q.tx[r1]
      BY <2>4, <1>4, OverIsTable
    <3>2. Same(table[r2], q.tx[r1])  BY <3>1, <2>1 DEF Same
    <3> QED  BY <3>2, <2>4
  <2>5. CASE r1 \notin DOMAIN q.tx /\ r2 \notin DOMAIN q.tx
    <3>1. Over(table, q.tx)[r1] = table[r1] /\ Over(table, q.tx)[r2] = table[r2]
      BY <2>5, <1>4, OverIsTable
    <3> QED  BY <3>1, <2>1 DEF Unique
  <2> QED  BY <2>2, <2>3, <2>4, <2>5
<1>7. \A r \in DOMAIN q.tx : Harmless(q.tx[r], table[r])  BY DEF Sound
<1>8. ASSUME ~late  PROVE  Fresh(p, table)
  <2>1. ~q.late /\ (q.pc = "idle" \/ table = old)  BY <1>8, <1>2
  <2>2. CASE q.pc = "idle"  BY <2>2, <1>3 DEF Fresh
  <2>3. CASE table = old
    <3>1. Fresh(q, table)  BY <2>1, <2>3 DEF Sound
    <3> QED  BY <3>1, <1>3, FreshStays
  <2> QED  BY <2>1, <2>2, <2>3
<1> QED  BY <1>3, <1>5, <1>6, <1>7, <1>8 DEF Sound

\* A commit keeps the invariant when the new table has every MAC in one row and
\* takes no row and no MAC from the requests still under way.
LEMMA CommitKeeps ==
  ASSUME RegistryInv, NEW table \in [Rows -> DeviceType], NEW ended, Unique(table),
         \A e \in Clients \ ended : \A r \in DOMAIN req[e].tx : table[r] = devices[r],
         \A e \in Clients \ ended :
           \A r1 \in Rows \ DOMAIN req[e].tx, r2 \in DOMAIN req[e].tx :
             ~Same(table[r1], req[e].tx[r2]),
         Commit(table, ended)
  PROVE  RegistryInv'
<1>1. devices' = table  BY DEF Commit
<1>2. req' = [e \in Clients |->
         IF e \in ended THEN NoRequest
         ELSE [req[e] EXCEPT !.late = req[e].late \/ (req[e].pc # "idle" /\ table # devices)]]
  BY DEF Commit
<1>3. devices \in [Rows -> DeviceType] /\ req \in [Clients -> Request]  BY DEF RegistryInv
<1>4. ASSUME NEW e \in Clients
      PROVE  /\ req'[e] \in Request /\ Sound(req'[e], table)
             /\ req'[e].tx = NoWrites \/ (e \notin ended /\ req'[e].tx = req[e].tx)
  <2>1. CASE e \in ended
    <3>1. req'[e] = NoRequest  BY <2>1, <1>2
    <3> QED  BY <3>1, NoRequestIs, IdleIsSound
  <2>2. CASE e \notin ended
    <3>1. PICK q \in Request : q = req[e]  BY <1>3
    <3>2. q.late \in BOOLEAN  BY DEF Request
    <3>3. PICK late \in BOOLEAN : late = (q.late \/ (q.pc # "idle" /\ table # devices))
      BY <3>2
    <3>4. req'[e] = [q EXCEPT !.late = late]  BY <2>2, <1>2, <3>1, <3>3
    <3>5. req'[e] \in Request /\ req'[e].tx = q.tx  BY <3>4, OvertakenIs
    <3>6. Sound(q, devices)  BY <3>1 DEF RegistryInv
    <3>7. \A r \in DOMAIN q.tx : table[r] = devices[r]  BY <2>2, <3>1
    <3>8. \A r1 \in Rows \ DOMAIN q.tx, r2 \in DOMAIN q.tx : ~Same(table[r1], q.tx[r2])
      BY <2>2, <3>1
    <3>9. Sound(req'[e], table)
      BY <1>3, <3>3, <3>4, <3>5, <3>6, <3>7, <3>8, OvertakenIsSound
    <3> QED  BY <2>2, <3>1, <3>5, <3>9
  <2> QED  BY <2>1, <2>2
<1>5. req' \in [Clients -> Request]  BY <1>2, <1>4
<1>6. ASSUME NEW e \in Clients, NEW f \in Clients \ {e}
      PROVE  Compatible(req'[e].tx, req'[f].tx)
  <2>1. CASE req'[e].tx = NoWrites \/ req'[f].tx = NoWrites
    BY <2>1, NoWritesAre DEF Compatible
  <2>2. CASE req'[e].tx = req[e].tx /\ req'[f].tx = req[f].tx
    BY <2>2 DEF RegistryInv
  <2> QED  BY <2>1, <2>2, <1>4
<1> QED  BY <1>1, <1>4, <1>5, <1>6 DEF RegistryInv

--------------------------------------------------------------------------------
(* Requests that begin.                                                          *)

\* A request that has written nothing leaves the table as it is.
LEMMA NothingWritten ==
  ASSUME RegistryInv, NEW c \in Clients, NEW q \in Request, DOMAIN q.tx = {}, Shape(q),
         Fresh(q, devices)
  PROVE  Sound(q, devices) /\ \A e \in Clients \ {c} : Compatible(q.tx, req[e].tx)
<1>1. devices \in [Rows -> DeviceType] /\ Unique(devices)  BY DEF RegistryInv
<1>2. Over(devices, q.tx) = devices  BY <1>1, OverNothing
<1> QED  BY <1>1, <1>2 DEF Sound, Compatible

\* A request that begins has written nothing; it need only have found what it says.
LEMMA BeganKeeps ==
  ASSUME RegistryInv, NEW c \in Clients, NEW q \in Request, q.tx = NoWrites, Shape(q),
         Fresh(q, devices), Began(c, q)
  PROVE  RegistryInv'
<1>1. DOMAIN q.tx = {}  BY NoWritesAre
<1> QED  BY <1>1, NothingWritten, RequestKeeps DEF Began

\* Creating a device looks for its address or its MAC, by its mode.
LEMMA CreateKeeps ==
  ASSUME RegistryInv, NEW c \in Clients, NEW ip \in Ips \cup {None},
         NEW mac \in Macs \cup {None}, NEW mode \in Modes, Create(c, ip, mac, mode)
  PROVE  RegistryInv'
<1>1. PICK q : q = [NoRequest EXCEPT !.call = "enter", !.pc = "inserting",
                                     !.ip = ip, !.mac = mac, !.mode = mode]
  OBVIOUS
<1>2. /\ q \in Request /\ q.call = "enter" /\ q.pc = "inserting" /\ q.ip = ip
      /\ q.mac = mac /\ q.mode = mode /\ q.tx = NoWrites
  BY <1>1, NoRequestIs DEF Request, Calls, Places
<1>3. Addressable(Device(ip, mac, mode))
  BY DevicesAre DEF Create, Addressable
<1>4. Shape(q)  BY <1>2, <1>3, NoWritesAre DEF Shape, Inserting
<1>5. Fresh(q, devices)  BY <1>2 DEF Fresh, Create
<1> QED  BY <1>1, <1>2, <1>4, <1>5, BeganKeeps DEF Create

\* An imported device is static, and has an address nobody has.
LEMMA ImportKeeps ==
  ASSUME RegistryInv, NEW c \in Clients, NEW ip \in Ips \cup {None},
         NEW mac \in Macs \cup {None}, Import(c, ip, mac)
  PROVE  RegistryInv'
<1>1. PICK q : q = [NoRequest EXCEPT !.call = "enter", !.pc = "inserting",
                                     !.ip = ip, !.mac = mac, !.mode = "static"]
  OBVIOUS
<1>2. /\ q \in Request /\ q.call = "enter" /\ q.pc = "inserting" /\ q.ip = ip
      /\ q.mac = mac /\ q.mode = "static" /\ q.tx = NoWrites /\ "static" \in Modes
  BY <1>1, NoRequestIs, RegistryAssumption DEF Request, Calls, Places
<1>3. Addressable(Device(ip, mac, "static"))
  BY <1>2, DevicesAre DEF Import, Addressable
<1>4. Shape(q)  BY <1>2, <1>3, NoWritesAre DEF Shape, Inserting
<1>5. Fresh(q, devices)  BY <1>2 DEF Fresh, Import
<1> QED  BY <1>1, <1>2, <1>4, <1>5, BeganKeeps DEF Import

\* An update looks for others only on the columns that it is given.
LEMMA UpdateKeeps ==
  ASSUME RegistryInv, NEW c \in Clients, NEW r \in Rows, NEW ip \in Ips \cup {None, Unset},
         NEW mac \in Macs \cup {None, Unset}, NEW mode \in Modes \cup {Unset},
         Update(c, r, ip, mac, mode)
  PROVE  RegistryInv'
<1>1. PICK newIp \in Ips \cup {None, Unset} : newIp = Change(ip, devices[r].ip)
  BY DEF Change
<1>2. PICK newMac \in Macs \cup {None, Unset} : newMac = Change(mac, devices[r].mac)
  BY DEF Change
<1>3. PICK newMode \in Modes \cup {Unset} : newMode = Change(mode, devices[r].mode)
  BY DEF Change
<1>4. PICK q : q = [NoRequest EXCEPT !.call = "update", !.pc = "storing", !.row = r,
                                     !.ip = newIp, !.mac = newMac, !.mode = newMode]
  OBVIOUS
<1>5. /\ q \in Request /\ q.call = "update" /\ q.pc = "storing" /\ q.row = r /\ q.ip = newIp
      /\ q.mac = newMac /\ q.mode = newMode /\ q.tx = NoWrites
  BY <1>4, NoRequestIs DEF Request, Calls, Places
<1>6. devices[r] \in DeviceType  BY DEF RegistryInv
<1>7. /\ Given(newIp, devices[r].ip) = Given(ip, devices[r].ip)
      /\ Given(newMac, devices[r].mac) = Given(mac, devices[r].mac)
      /\ Given(newMode, devices[r].mode) = Given(mode, devices[r].mode)
  BY <1>1, <1>2, <1>3 DEF Given, Change
<1>8. /\ Given(ip, devices[r].ip) \in Ips \cup {None}
      /\ Given(mac, devices[r].mac) \in Macs \cup {None}
      /\ Given(mode, devices[r].mode) \in Modes
  BY <1>6 DEF Given, DeviceType
<1>9. Addressable(Written(devices[r], q))
  <2>1. Written(devices[r], q) =
          Device(Given(ip, devices[r].ip), Given(mac, devices[r].mac),
                 Given(mode, devices[r].mode))
    BY <1>5, <1>7 DEF Written
  <2>2. /\ Given(mode, devices[r].mode) = "dhcp" => Given(mac, devices[r].mac) # None
        /\ Given(mode, devices[r].mode) = "static" => Given(ip, devices[r].ip) # None
    BY DEF Update
  <2>3. /\ Written(devices[r], q).ip = Given(ip, devices[r].ip)
        /\ Written(devices[r], q).mac = Given(mac, devices[r].mac)
        /\ Written(devices[r], q).mode = Given(mode, devices[r].mode)
    BY <2>1 DEF Device
  <2> QED  BY <2>2, <2>3 DEF Addressable
<1>10. Shape(q)  BY <1>5, NoWritesAre DEF Shape, Storing
<1>11. newIp \in Ips => newIp = ip
  BY <1>1, RegistryAssumption DEF Change
<1>12. Fresh(q, devices)  BY <1>5, <1>9, <1>11 DEF Fresh, Update
<1>13. Began(c, q)  BY <1>1, <1>2, <1>3, <1>4 DEF Update
<1> QED  BY <1>5, <1>10, <1>12, <1>13, BeganKeeps

\* discover-ip goes out with the row's identity alone.
LEMMA DiscoverIpKeeps ==
  ASSUME RegistryInv, NEW c \in Clients, NEW r \in Rows, DiscoverIp(c, r)
  PROVE  RegistryInv'
<1>1. PICK q : q = [NoRequest EXCEPT !.call = "locate", !.pc = "scanning", !.row = r]
  OBVIOUS
<1>2. /\ q \in Request /\ q.call = "locate" /\ q.pc = "scanning" /\ q.row = r /\ q.ip = Unset
      /\ q.mac = Unset /\ q.mode = Unset /\ q.tx = NoWrites
  BY <1>1, NoRequestIs DEF Request, Calls, Places
<1>3. Shape(q)  BY <1>2, NoWritesAre DEF Shape, Scanning
<1>4. Fresh(q, devices)  BY <1>2 DEF Fresh
<1> QED  BY <1>1, <1>2, <1>3, <1>4, BeganKeeps DEF DiscoverIp

\* So does the readiness check of a DHCP device.
LEMMA RefreshKeeps ==
  ASSUME RegistryInv, NEW c \in Clients, NEW r \in Rows, Refresh(c, r)
  PROVE  RegistryInv'
<1>1. PICK q : q = [NoRequest EXCEPT !.call = "refresh", !.pc = "scanning", !.row = r]
  OBVIOUS
<1>2. /\ q \in Request /\ q.call = "refresh" /\ q.pc = "scanning" /\ q.row = r /\ q.ip = Unset
      /\ q.mac = Unset /\ q.mode = Unset /\ q.tx = NoWrites
  BY <1>1, NoRequestIs DEF Request, Calls, Places
<1>3. Shape(q)  BY <1>2, NoWritesAre DEF Shape, Scanning
<1>4. Fresh(q, devices)  BY <1>2 DEF Fresh
<1> QED  BY <1>1, <1>2, <1>3, <1>4, BeganKeeps DEF Refresh

\* A discovery that begins: it has hosts to look for and has written nothing.
LEMMA LookingKeeps ==
  ASSUME RegistryInv, NEW c \in Clients, NEW hosts \in SUBSET Ips,
         NEW call \in {"discover", "batch"},
         Began(c, [NoRequest EXCEPT !.call = call, !.pc = "looking", !.hosts = hosts])
  PROVE  RegistryInv'
<1>1. PICK q : q = [NoRequest EXCEPT !.call = call, !.pc = "looking", !.hosts = hosts]
  OBVIOUS
<1>2. /\ q \in Request /\ q.call = call /\ q.pc = "looking" /\ q.hosts = hosts
      /\ q.mode = Unset /\ q.tx = NoWrites
  BY <1>1, NoRequestIs DEF Request, Calls, Places
<1>3. Shape(q)  BY <1>2 DEF Shape, Discovering
<1>4. Over(devices, q.tx) = devices  BY <1>2, NoWritesAre, OverNothing DEF RegistryInv
<1>5. Fresh(q, devices)  BY <1>2, <1>4 DEF Fresh
<1> QED  BY <1>1, <1>2, <1>3, <1>5, BeganKeeps

\* Discovery of one address starts behind the gate.
LEMMA ScanOneKeeps ==
  ASSUME RegistryInv, NEW c \in Clients, NEW ip \in Ips, ScanOne(c, ip)
  PROVE  RegistryInv'
<1>1. {ip} \in SUBSET Ips  OBVIOUS
<1> QED  BY <1>1, LookingKeeps DEF ScanOne

\* Discovery of a subnet starts with the hosts a probe reached.
LEMMA SweepKeeps ==
  ASSUME RegistryInv, NEW c \in Clients, NEW hosts \in SUBSET Ips,
         Sweep(c, hosts) \/ Batch(c, hosts)
  PROVE  RegistryInv'
BY LookingKeeps DEF Sweep, Batch

\* Registering a host at a known address will write the row's MAC.
LEMMA RegisterKnownKeeps ==
  ASSUME RegistryInv, NEW c \in Clients, NEW ip \in Ips, NEW mac \in ReportedMacs,
         RegisterKnown(c, ip, mac)
  PROVE  RegistryInv'
<1>1. PICK new \in Macs \cup {Unset} : new = IF mac = None THEN Unset ELSE mac
  BY DEF ReportedMacs
<1>2. PICK r \in Rows :
        Began(c, [NoRequest EXCEPT !.call = "register", !.pc = "storing", !.row = r,
                                   !.mac = new])
  BY <1>1 DEF RegisterKnown
<1>3. PICK q : q = [NoRequest EXCEPT !.call = "register", !.pc = "storing", !.row = r,
                                     !.mac = new]
  OBVIOUS
<1>4. /\ q \in Request /\ q.call = "register" /\ q.pc = "storing" /\ q.row = r /\ q.ip = Unset
      /\ q.mac = new /\ q.mode = Unset /\ q.tx = NoWrites
  BY <1>3, NoRequestIs DEF Request, Calls, Places
<1>5. Shape(q)  BY <1>4, NoWritesAre DEF Shape, Storing
<1>6. Fresh(q, devices)  BY <1>4, RegistryAssumption DEF Fresh
<1> QED  BY <1>2, <1>3, <1>4, <1>5, <1>6, BeganKeeps

\* Registering any other takes a free address that a probe reached.
LEMMA RegisterNewKeeps ==
  ASSUME RegistryInv, NEW c \in Clients, NEW ip \in Ips, NEW mac \in ReportedMacs,
         RegisterNew(c, ip, mac)
  PROVE  RegistryInv'
<1>1. PICK q : q = [NoRequest EXCEPT !.call = "register", !.pc = "inserting",
                                     !.ip = ip, !.mac = mac, !.mode = "static"]
  OBVIOUS
<1>2. /\ q \in Request /\ q.call = "register" /\ q.pc = "inserting" /\ q.ip = ip
      /\ q.mac = mac /\ q.mode = "static" /\ q.tx = NoWrites /\ "static" \in Modes
  BY <1>1, NoRequestIs, RegistryAssumption DEF Request, Calls, Places, ReportedMacs
<1>3. mac \in Macs \cup {None} /\ ip # None  BY RegistryAssumption DEF ReportedMacs
<1>4. Addressable(Device(ip, mac, "static"))
  BY <1>2, <1>3, DevicesAre DEF Addressable
<1>6. Shape(q)  BY <1>2, <1>3, <1>4, NoWritesAre DEF Shape, Inserting
<1>7. Fresh(q, devices)  BY <1>2 DEF Fresh, RegisterNew
<1> QED  BY <1>1, <1>2, <1>6, <1>7, BeganKeeps DEF RegisterNew

--------------------------------------------------------------------------------
(* Requests that go on.                                                          *)

\* The address found for a device is nobody else's when it is looked up.
LEMMA DiscoveredIpKeeps ==
  ASSUME RegistryInv, NEW c \in Clients, NEW ip \in FoundIps, DiscoveredIp(c, ip)
  PROVE  RegistryInv'
<1>1. PICK p \in Request : p = req[c]  BY DEF RegistryInv
<1>2. Shape(p) /\ p.call = "locate" /\ p.pc = "scanning"
  BY <1>1 DEF RegistryInv, Sound, DiscoveredIp
<1>3. Scanning(p) /\ DOMAIN p.tx = {}  BY <1>2 DEF Shape
<1>4. PICK q : q = [p EXCEPT !.pc = "storing", !.ip = ip]  OBVIOUS
<1>5. /\ q \in Request /\ q.call = "locate" /\ q.pc = "storing" /\ q.row = p.row /\ q.ip = ip
      /\ q.mac = p.mac /\ q.mode = p.mode /\ q.tx = p.tx
  BY <1>2, <1>4 DEF Request, Places, FoundIps
<1>6. Shape(q)  BY <1>3, <1>5 DEF Shape, Storing, Scanning, FoundIps
<1>7. Fresh(q, devices)  BY <1>1, <1>5 DEF Fresh, DiscoveredIp
<1>8. Sound(q, devices) /\ \A e \in Clients \ {c} : Compatible(q.tx, req[e].tx)
  BY <1>3, <1>5, <1>6, <1>7, NothingWritten
<1> QED  BY <1>1, <1>4, <1>5, <1>8, RequestKeeps DEF DiscoveredIp

\* A request that fails takes back all it has written.
LEMMA AbortKeeps ==
  ASSUME RegistryInv, NEW c \in Clients, Abort(c)
  PROVE  RegistryInv'
<1>1. Shape(NoRequest)  BY NoRequestIs, NoWritesAre DEF Shape
<1>2. Fresh(NoRequest, devices)  BY NoRequestIs DEF Fresh
<1>3. /\ Sound(NoRequest, devices)
      /\ \A e \in Clients \ {c} : Compatible(NoRequest.tx, req[e].tx)
  BY <1>1, <1>2, NoRequestIs, NoWritesAre, NothingWritten
<1> QED  BY <1>3, NoRequestIs, RequestKeeps DEF Abort

\* Another request's view, which a write must not clash with.
LEMMA ViewIs == \A c \in Clients : View(c) = Over(devices, req[c].tx)
BY DEF View, Over

\* A row nobody else holds is as committed in what others will leave.
LEMMA NotLocked ==
  ASSUME RegistryInv, NEW c \in Clients, NEW r \in Rows, r \notin Locked(c),
         NEW e \in Clients \ {c}
  PROVE  r \notin DOMAIN req[e].tx /\ View(e)[r] = devices[r]
BY DEF Locked, View

\* The readiness check writes the address it found, but no column that is unique.
LEMMA RefreshedIpKeeps ==
  ASSUME RegistryInv, NEW c \in Clients, NEW ip \in FoundIps, RefreshedIp(c, ip)
  PROVE  RegistryInv'
<1>1. PICK p \in Request : p = req[c]  BY DEF RegistryInv
<1>2. Shape(p) /\ p.call = "refresh" /\ p.pc = "scanning"
  BY <1>1 DEF RegistryInv, Sound, RefreshedIp
<1>3. Scanning(p)  BY <1>2 DEF Shape
<1>4. PICK r \in Rows : r = p.row  BY <1>3 DEF Scanning
<1>5. devices[r].there /\ r \notin Locked(c)  BY <1>1, <1>4 DEF RefreshedIp
<1>6. PICK d : d = [devices[r] EXCEPT !.ip = ip]  OBVIOUS
<1>7. devices[r] \in DeviceType  BY DEF RegistryInv
<1>8. /\ d \in DeviceType /\ d.there /\ d.ip = ip /\ d.mac = devices[r].mac
      /\ d.mode = devices[r].mode
  BY <1>5, <1>6, <1>7 DEF DeviceType, FoundIps
<1>9. PICK tx : tx = [x \in {r} |-> d]  OBVIOUS
<1>10. DOMAIN tx = {r} /\ tx[r] = d  BY <1>9
<1>11. tx \in Writes
  <2>1. tx \in [DOMAIN tx -> DeviceType]  BY <1>8, <1>9, <1>10
  <2> QED  BY <2>1, <1>10, WritesAre
<1>12. PICK q : q = [p EXCEPT !.pc = "ready", !.tx = tx]  OBVIOUS
<1>13. q \in Request /\ q.call = "refresh" /\ q.pc = "ready" /\ q.tx = tx
  BY <1>2, <1>11, <1>12 DEF Request, Places
<1>14. Shape(q)  BY <1>13 DEF Shape
<1>15. Fresh(q, devices)  BY <1>13 DEF Fresh
<1>16. devices \in [Rows -> DeviceType] /\ Unique(devices)  BY DEF RegistryInv
<1>17. \A x \in Rows : /\ Over(devices, tx)[x].there = devices[x].there
                       /\ Over(devices, tx)[x].mac = devices[x].mac
  <2> TAKE x \in Rows
  <2>1. CASE x = r  BY <2>1, <1>5, <1>8, <1>10 DEF Over
  <2>2. CASE x # r  BY <2>2, <1>10 DEF Over
  <2> QED  BY <2>1, <2>2
<1>18. Unique(Over(devices, tx))  BY <1>16, <1>17 DEF Unique, Same
<1>19. ip \in Ips /\ ip # None  BY RegistryAssumption DEF FoundIps
<1>20. Harmless(d, devices[r])  BY <1>5, <1>8, <1>19 DEF Harmless, Addressable
<1>21. Sound(q, devices)  BY <1>10, <1>13, <1>14, <1>15, <1>18, <1>20 DEF Sound
<1>22. ASSUME NEW e \in Clients \ {c}  PROVE  Compatible(tx, req[e].tx)
  <2>1. SUFFICES ASSUME NEW x \in DOMAIN req[e].tx
                 PROVE  r # x /\ ~Same(d, req[e].tx[x])
    BY <1>10 DEF Compatible
  <2>2. r \notin DOMAIN req[e].tx  BY <1>5, NotLocked
  <2>3. req[e].tx \in Writes  BY DEF RegistryInv, Request
  <2>4. /\ Over(devices, req[e].tx)[r] = devices[r] /\ x \in Rows
        /\ Over(devices, req[e].tx)[x] = req[e].tx[x]
    BY <2>2, <2>3, <1>16, OverIsTable
  <2>5. Unique(Over(devices, req[e].tx))  BY DEF RegistryInv, Sound
  <2>6. ~Same(devices[r], req[e].tx[x])  BY <2>2, <2>4, <2>5 DEF Unique
  <2> QED  BY <2>2, <2>6, <1>5, <1>8 DEF Same
<1>23. devices' = devices /\ req' = [req EXCEPT ![c] = q]
  BY <1>1, <1>4, <1>6, <1>9, <1>12 DEF RefreshedIp
<1> QED  BY <1>13, <1>21, <1>22, <1>23, RequestKeeps

--------------------------------------------------------------------------------
(* Discovery, host by host.                                                      *)

\* The host a request turns to is one of those it has left.
LEMMA HostIsOne ==
  ASSUME RegistryInv, NEW c \in Clients, req[c].hosts # {}
  PROVE  Host(c) \in Ips
<1>1. req[c].hosts \in SUBSET Ips  BY DEF RegistryInv, Request
<1>2. req[c].hosts \in SUBSET Nat  BY <1>1, RegistryAssumption
<1>3. Min(req[c].hosts) \in req[c].hosts  BY <1>2, LowestIsOne
<1> QED  BY <1>1, <1>3 DEF Host

\* A request that has looked for a host and goes on to write it.
LEMMA LookedKeeps ==
  ASSUME RegistryInv, NEW c \in Clients, NEW q \in Request, req[c].pc = "looking",
         q.tx = req[c].tx, q.late = req[c].late, q.hosts = req[c].hosts, q.call = req[c].call,
         q.mode = req[c].mode, q.pc \in {"upserting", "adding"},
         q.pc = "upserting" =>
           q.row \in Rows /\ q.ip \in Ips \cup {Unset} /\ q.mac \in Macs \cup {Unset},
         q.pc = "adding" => q.ip \in Ips /\ q.mac \in Macs \cup {None},
         q.ip \in Ips => At(View(c), q.ip) = {},
         req' = [req EXCEPT ![c] = q], devices' = devices
  PROVE  RegistryInv'
<1>1. Sound(req[c], devices)  BY DEF RegistryInv
<1>2. Discovering(req[c])  BY <1>1 DEF Sound, Shape
<1>3. Shape(q)  BY <1>2 DEF Shape, Discovering
<1>4. ASSUME ~q.late  PROVE  Fresh(q, devices)
  <2>1. Fresh(req[c], devices)  BY <1>1, <1>4 DEF Sound
  <2>2. \A ip \in Ips : Twin(Over(devices, q.tx), ip) => Twin(devices, ip)
    BY <2>1 DEF Fresh
  <2>3. q.ip \in Ips => At(Over(devices, q.tx), q.ip) = {}  BY ViewIs
  <2> QED  BY <2>2, <2>3 DEF Fresh
<1>5. Sound(q, devices)  BY <1>1, <1>3, <1>4 DEF Sound
<1>6. \A e \in Clients \ {c} : Compatible(q.tx, req[e].tx)  BY DEF RegistryInv
<1> QED  BY <1>5, <1>6, RequestKeeps

\* Discovery finds the row of its host by the table as it would leave it.
LEMMA LookKeeps ==
  ASSUME RegistryInv, NEW c \in Clients, NEW mac \in ReportedMacs, Look(c, mac)
  PROVE  RegistryInv'
<1>1. PICK p \in Request : p = req[c]  BY DEF RegistryInv
<1>2. p.pc = "looking" /\ p.hosts # {} /\ devices' = devices  BY <1>1 DEF Look
<1>3. Discovering(p)  BY <1>1, <1>2 DEF RegistryInv, Sound, Shape
<1>4. Host(c) \in Ips  BY <1>1, <1>2, <1>3, HostIsOne DEF Discovering
<1>5. ASSUME NEW r \in Rows, NEW ip \in {Host(c), Unset}, NEW new \in {mac, Unset},
             mac = None => new = Unset, ip = Host(c) => At(View(c), ip) = {},
             Found(c, r, ip, new)
      PROVE  RegistryInv'
  <2>1. PICK q : q = [p EXCEPT !.pc = "upserting", !.row = r, !.ip = ip, !.mac = new]
    OBVIOUS
  <2>2. new \in Macs \cup {Unset} /\ ip \in Ips \cup {Unset}
    BY <1>4, <1>5 DEF ReportedMacs
  <2>3. /\ q \in Request /\ q.pc = "upserting" /\ q.row = r /\ q.ip = ip /\ q.mac = new
        /\ q.tx = p.tx /\ q.late = p.late /\ q.hosts = p.hosts /\ q.call = p.call
        /\ q.mode = p.mode
    BY <2>1, <2>2 DEF Request, Places
  <2>4. req' = [req EXCEPT ![c] = q]  BY <2>1, <1>1, <1>5 DEF Found
  <2>5. q.ip \in Ips => At(View(c), q.ip) = {}
    BY <2>3, <1>5, RegistryAssumption
  <2> QED  BY <2>2, <2>3, <2>4, <2>5, <1>1, <1>2, LookedKeeps
<1>6. ASSUME NEW r \in Rows, NEW ip \in {Host(c), Unset}, NEW keeps \in BOOLEAN,
             mac = None => keeps, ip = Host(c) => At(View(c), Host(c)) = {},
             Found(c, r, ip, IF keeps THEN Unset ELSE mac)
      PROVE  RegistryInv'
  <2>1. PICK new \in {mac, Unset} : new = IF keeps THEN Unset ELSE mac  OBVIOUS
  <2>2. (mac = None => new = Unset) /\ Found(c, r, ip, new)  BY <1>6, <2>1
  <2> QED  BY <2>2, <1>5, <1>6
<1>7. CASE \E r \in Rows : Found(c, r, Unset,
             IF mac = None \/ (req[c].call = "batch" /\ View(c)[r].mac # None)
             THEN Unset ELSE mac)
  <2>1. PICK r \in Rows : Found(c, r, Unset,
             IF mac = None \/ (req[c].call = "batch" /\ View(c)[r].mac # None)
             THEN Unset ELSE mac)
    BY <1>7
  <2>2. Unset # Host(c)  BY <1>4, RegistryAssumption
  <2> QED  BY <2>1, <2>2, <1>6
<1>8. CASE \E r \in Rows :
             /\ At(View(c), Host(c)) = {}
             /\ Found(c, r, IF View(c)[r].ip = None THEN Host(c) ELSE Unset,
                  IF mac = None \/ (req[c].call = "batch" /\ View(c)[r].mac # None)
                  THEN Unset ELSE mac)
  <2>1. PICK r \in Rows :
             /\ At(View(c), Host(c)) = {}
             /\ Found(c, r, IF View(c)[r].ip = None THEN Host(c) ELSE Unset,
                  IF mac = None \/ (req[c].call = "batch" /\ View(c)[r].mac # None)
                  THEN Unset ELSE mac)
    BY <1>8
  <2>2. PICK ip \in {Host(c), Unset} : ip = IF View(c)[r].ip = None THEN Host(c) ELSE Unset
    OBVIOUS
  <2> QED  BY <2>1, <2>2, <1>6
<1>9. CASE /\ At(View(c), Host(c)) = {}
           /\ req' = [req EXCEPT ![c] = [req[c] EXCEPT !.pc = "adding", !.row = None,
                                                       !.ip = Host(c), !.mac = mac]]
  <2>1. PICK q : q = [p EXCEPT !.pc = "adding", !.row = None, !.ip = Host(c), !.mac = mac]
    OBVIOUS
  <2>2. mac \in Macs \cup {None}  BY DEF ReportedMacs
  <2>3. /\ q \in Request /\ q.pc = "adding" /\ q.ip = Host(c) /\ q.mac = mac
        /\ q.tx = p.tx /\ q.late = p.late /\ q.hosts = p.hosts /\ q.call = p.call
        /\ q.mode = p.mode
    BY <2>1, <2>2, <1>4 DEF Request, Places
  <2>4. req' = [req EXCEPT ![c] = q]  BY <2>1, <1>1, <1>9
  <2>5. At(View(c), q.ip) = {} /\ q.ip \in Ips  BY <2>3, <1>4, <1>9
  <2> QED  BY <2>2, <2>3, <2>4, <2>5, <1>1, <1>2, LookedKeeps
<1> QED  BY <1>7, <1>8, <1>9 DEF Look

\* A write that was neither made to wait nor refused puts its MAC in no second row
\* of what its request, or any other one, will leave.
LEMMA StorableIsAlone ==
  ASSUME RegistryInv, NEW c \in Clients, NEW r \in Rows,
         NEW mac \in Macs \cup {None, Unset}, Storable(c, r, mac), NEW d \in DeviceType,
         \/ mac # Unset /\ d.mac = mac
         \/ mac = Unset /\ d.mac = View(c)[r].mac /\ View(c)[r].there
  PROVE  /\ \A x \in Rows \ {r} : ~Same(d, View(c)[x])
         /\ \A e \in Clients \ {c} :
              r \notin DOMAIN req[e].tx /\ \A x \in DOMAIN req[e].tx : ~Same(d, req[e].tx[x])
<1>1. devices \in [Rows -> DeviceType] /\ \A e \in Clients : req[e].tx \in Writes
  BY DEF RegistryInv, Request
<1>2. \A e \in Clients : Unique(View(e))  BY ViewIs DEF RegistryInv, Sound
<1>3. r \notin Locked(c)  BY DEF Storable, Free
<1>4. \A e \in Clients \ {c} : r \notin DOMAIN req[e].tx /\ View(e)[r] = devices[r]
  BY <1>3, NotLocked
<1>5. \A e \in Clients : \A x \in DOMAIN req[e].tx : x \in Rows /\ View(e)[x] = req[e].tx[x]
  BY <1>1, ViewIs, OverIsTable
<1>6. CASE mac = None /\ d.mac = mac  BY <1>4, <1>6 DEF Same
<1>7. CASE mac \notin {None, Unset} /\ d.mac = mac
  <2>1. ASSUME NEW x \in Rows \ {r}, Same(d, View(c)[x])  PROVE  FALSE
    <3>1. x \in With(View(c), mac) \ {r}  BY <2>1, <1>7 DEF With, Same
    <3> QED  BY <3>1 DEF Storable, Refused
  <2>2. ASSUME NEW e \in Clients \ {c}, NEW x \in DOMAIN req[e].tx, Same(d, req[e].tx[x])
        PROVE  FALSE
    <3>1. x \in With(View(e), mac) \cap DOMAIN req[e].tx
      BY <2>2, <1>5, <1>7 DEF With, Same
    <3> QED  BY <3>1 DEF Storable, Free
  <2> QED  BY <2>1, <2>2, <1>4
<1>8. CASE d.mac = View(c)[r].mac /\ View(c)[r].there
  <2>1. ASSUME NEW x \in Rows \ {r}, Same(d, View(c)[x])  PROVE  FALSE
    <3>1. Same(View(c)[r], View(c)[x])  BY <2>1, <1>8 DEF Same
    <3> QED  BY <3>1, <1>2 DEF Unique
  <2>2. ASSUME NEW e \in Clients \ {c}, NEW x \in DOMAIN req[e].tx, Same(d, req[e].tx[x])
        PROVE  FALSE
    <3>1. Same(View(c)[r], req[e].tx[x])  BY <2>2, <1>8 DEF Same
    <3>2. CASE r \in DOMAIN req[c].tx
      <4>1. Compatible(req[c].tx, req[e].tx) /\ View(c)[r] = req[c].tx[r]
        BY <3>2, <1>5 DEF RegistryInv
      <4> QED  BY <4>1, <3>1, <3>2 DEF Compatible
    <3>3. CASE r \notin DOMAIN req[c].tx
      <4>1. View(c)[r] = devices[r]  BY <3>3 DEF View
      <4>2. Same(View(e)[r], View(e)[x])  BY <4>1, <3>1, <1>4, <1>5
      <4>3. x # r /\ x \in Rows  BY <1>4, <1>5
      <4> QED  BY <4>2, <4>3, <1>2 DEF Unique
    <3> QED  BY <3>2, <3>3
  <2> QED  BY <2>1, <2>2, <1>4
<1> QED  BY <1>6, <1>7, <1>8

\* A row that keeps its address, or takes one nobody else has, makes no twins.
LEMMA NoNewTwin ==
  ASSUME NEW table \in [Rows -> DeviceType], NEW r \in Rows, NEW d, NEW ip,
         \/ table[r].there /\ d.ip = table[r].ip
         \/ At(table, d.ip) \ {r} = {}
         \/ d.there = TRUE /\ d.ip # ip
         \/ d.there = FALSE,
         Twin([table EXCEPT ![r] = d], ip)
  PROVE  Twin(table, ip)
<1>1. PICK new : new = [table EXCEPT ![r] = d]  OBVIOUS
<1>2. new[r] = d /\ \A x \in Rows \ {r} : new[x] = table[x]  BY <1>1
<1>3. PICK r1 \in Rows, r2 \in Rows :
        /\ new[r1].there /\ new[r1].ip = ip /\ new[r2].there /\ new[r2].ip = ip /\ r1 # r2
  BY <1>1 DEF Twin, At
<1>4. ASSUME NEW x \in Rows \ {r}, NEW y \in Rows \ {x}, new[x].there, new[x].ip = ip,
             new[y].there, new[y].ip = ip
      PROVE  table[x].there /\ table[x].ip = ip /\ table[y].there /\ table[y].ip = ip
  <2>1. table[x].there /\ table[x].ip = ip  BY <1>2, <1>4
  <2>2. CASE y # r  BY <2>1, <2>2, <1>2, <1>4
  <2>3. CASE y = r
    <3>1. d.ip = ip /\ d.there  BY <2>3, <1>2, <1>4
    <3>2. x \in At(table, d.ip) \ {r}  BY <2>1, <3>1 DEF At
    <3>3. table[r].there /\ d.ip = table[r].ip  BY <3>1, <3>2
    <3> QED  BY <2>1, <2>3, <3>1, <3>3
  <2> QED  BY <2>2, <2>3
<1>5. CASE r1 # r  BY <1>3, <1>4, <1>5 DEF Twin, At
<1>6. CASE r1 = r
  <2>1. r2 \in Rows \ {r} /\ r1 \in Rows \ {r2}  BY <1>3, <1>6
  <2> QED  BY <2>1, <1>3, <1>4 DEF Twin, At
<1> QED  BY <1>5, <1>6

\* A flush of one more row keeps the invariant if its MAC is in no other row of the
\* request's table and in no other request's writes, and its address is not taken.
LEMMA FlushedKeeps ==
  ASSUME RegistryInv, NEW c \in Clients, NEW r \in Rows, NEW d \in DeviceType,
         req[c].pc \in {"upserting", "adding"}, Flushed(c, r, d), Harmless(d, devices[r]),
         \A x \in Rows \ {r} : ~Same(d, View(c)[x]),
         \A e \in Clients \ {c} :
           r \notin DOMAIN req[e].tx /\ \A x \in DOMAIN req[e].tx : ~Same(d, req[e].tx[x]),
         ~req[c].late =>
           (View(c)[r].there /\ d.ip = View(c)[r].ip) \/ At(View(c), d.ip) \ {r} = {}
  PROVE  RegistryInv'
<1>1. PICK p \in Request : p = req[c]  BY DEF RegistryInv
<1>2. Sound(p, devices) /\ p.tx \in Writes /\ devices \in [Rows -> DeviceType]
  BY <1>1 DEF RegistryInv, Request
<1>3. Discovering(p)  BY <1>1, <1>2 DEF Sound, Shape
<1>4. DOMAIN p.tx \subseteq Rows /\ \A x \in DOMAIN p.tx : p.tx[x] \in DeviceType
  BY <1>2, WritesAre
<1>5. PICK tx : tx = [x \in DOMAIN p.tx \cup {r} |-> IF x = r THEN d ELSE p.tx[x]]
  OBVIOUS
<1>6. /\ DOMAIN tx = DOMAIN p.tx \cup {r} /\ tx[r] = d
      /\ \A x \in DOMAIN p.tx \ {r} : tx[x] = p.tx[x]
  BY <1>5
<1>7. tx \in Writes
  <2>1. tx \in [DOMAIN tx -> DeviceType]  BY <1>4, <1>5, <1>6
  <2> QED  BY <2>1, <1>4, <1>6, WritesAre
<1>8. PICK hosts \in SUBSET Ips : hosts = p.hosts \ {Host(c)}  BY DEF Request
<1>9. PICK q : q = [NoRequest EXCEPT !.call = p.call, !.pc = "looking", !.late = p.late,
                                     !.hosts = hosts, !.tx = tx]
  OBVIOUS
<1>10. /\ q \in Request /\ q.call = p.call /\ q.pc = "looking" /\ q.late = p.late
       /\ q.hosts = hosts /\ q.tx = tx /\ q.mode = Unset
  BY <1>7, <1>9, NoRequestIs DEF Request, Places
<1>11. devices' = devices /\ req' = [req EXCEPT ![c] = q]
  BY <1>1, <1>5, <1>8, <1>9 DEF Flushed
<1>12. Shape(q)  BY <1>3, <1>8, <1>10 DEF Shape, Discovering
<1>13. Over(devices, tx) = [View(c) EXCEPT ![r] = d]
  <2>1. View(c) = Over(devices, p.tx)  BY <1>1, ViewIs
  <2>2. \A x \in Rows : Over(devices, tx)[x] = IF x = r THEN d ELSE View(c)[x]
    BY <2>1, <1>6 DEF Over
  <2> QED  BY <2>1, <2>2 DEF Over
<1>14. View(c) \in [Rows -> DeviceType] /\ Unique(View(c))
  BY <1>1, <1>2, ViewIs, OverIsTable DEF Sound
<1>15. Unique(Over(devices, tx))
  <2>1. SUFFICES ASSUME NEW r1 \in Rows, NEW r2 \in Rows \ {r1},
                        Same(Over(devices, tx)[r1], Over(devices, tx)[r2])
                 PROVE  FALSE
    BY DEF Unique
  <2>2. CASE r1 = r  BY <2>1, <2>2, <1>13, <1>14
  <2>3. CASE r2 = r
    <3>1. Same(d, View(c)[r1])  BY <2>1, <2>3, <1>13, <1>14 DEF Same
    <3> QED  BY <3>1, <2>3
  <2>4. CASE r1 # r /\ r2 # r  BY <2>1, <2>4, <1>13, <1>14 DEF Unique
  <2> QED  BY <2>2, <2>3, <2>4
<1>16. \A x \in DOMAIN tx : Harmless(tx[x], devices[x])  BY <1>2, <1>6 DEF Sound
<1>17. ASSUME ~q.late  PROVE  Fresh(q, devices)
  <2>1. \A ip \in Ips : Twin(View(c), ip) => Twin(devices, ip)
    BY <1>1, <1>2, <1>10, <1>17, ViewIs DEF Sound, Fresh
  <2>2. ASSUME NEW ip \in Ips, Twin(Over(devices, tx), ip)  PROVE  Twin(View(c), ip)
    <3>1. PICK table \in [Rows -> DeviceType] : table = View(c)  BY <1>14
    <3>2. (table[r].there /\ d.ip = table[r].ip) \/ At(table, d.ip) \ {r} = {}
      BY <3>1, <1>1, <1>10, <1>17
    <3>3. Twin([table EXCEPT ![r] = d], ip)  BY <3>1, <2>2, <1>13
    <3>4. Twin(table, ip)  BY <3>2, <3>3, NoNewTwin
    <3> QED  BY <3>1, <3>4
  <2> QED  BY <2>1, <2>2, <1>10 DEF Fresh
<1>18. Sound(q, devices)  BY <1>10, <1>12, <1>15, <1>16, <1>17 DEF Sound
<1>19. ASSUME NEW e \in Clients \ {c}  PROVE  Compatible(q.tx, req[e].tx)
  <2>1. Compatible(p.tx, req[e].tx)  BY <1>1 DEF RegistryInv
  <2> QED  BY <2>1, <1>6, <1>10 DEF Compatible
<1> QED  BY <1>10, <1>11, <1>18, <1>19, RequestKeeps

\* The columns written over a device make a device.
LEMMA WrittenIs ==
  ASSUME NEW d \in DeviceType, NEW q \in Request
  PROVE  /\ Written(d, q) \in DeviceType /\ Written(d, q).there = TRUE
         /\ Written(d, q).ip = IF q.ip = Unset THEN d.ip ELSE q.ip
         /\ Written(d, q).mac = IF q.mac = Unset THEN d.mac ELSE q.mac
         /\ Written(d, q).mode = IF q.mode = Unset THEN d.mode ELSE q.mode
<1>1. Given(q.ip, d.ip) \in Ips \cup {None}  BY DEF Given, Request, DeviceType
<1>2. Given(q.mac, d.mac) \in Macs \cup {None}  BY DEF Given, Request, DeviceType
<1>3. Given(q.mode, d.mode) \in Modes  BY DEF Given, Request, DeviceType
<1>4. PICK w \in DeviceType : w = Written(d, q)
  BY <1>1, <1>2, <1>3, DevicesAre DEF Written
<1>5. /\ w.there = TRUE /\ w.ip = Given(q.ip, d.ip) /\ w.mac = Given(q.mac, d.mac)
      /\ w.mode = Given(q.mode, d.mode)
  BY <1>4 DEF Written, Device
<1> QED  BY <1>4, <1>5 DEF Given

\* The row found gets the MAC, and the address if it has none.
LEMMA UpsertKeeps ==
  ASSUME RegistryInv, NEW c \in Clients, Upsert(c)
  PROVE  RegistryInv'
<1>1. PICK q \in Request : q = req[c]  BY DEF RegistryInv
<1>2. q.pc = "upserting" /\ Sound(q, devices)  BY <1>1 DEF RegistryInv, Upsert
<1>3. Discovering(q) /\ q.mode = Unset /\ q.row \in Rows
      /\ q.ip \in Ips \cup {Unset} /\ q.mac \in Macs \cup {Unset}
  BY <1>2 DEF Sound, Shape, Discovering
<1>4. PICK r \in Rows : r = q.row  BY <1>3
<1>5. devices \in [Rows -> DeviceType] /\ q.tx \in Writes  BY DEF RegistryInv, Request
<1>6. View(c) = Over(devices, q.tx) /\ View(c) \in [Rows -> DeviceType]
  BY <1>1, <1>5, ViewIs, OverIsTable
<1>7. PICK v \in DeviceType : v = View(c)[r]  BY <1>6
<1>8. v.there /\ Storable(c, r, q.mac) /\ Flushed(c, r, Written(v, q))
  BY <1>1, <1>4, <1>7 DEF Upsert
<1>9. PICK d \in DeviceType :
        /\ d = Written(v, q) /\ d.there = TRUE
        /\ d.ip = IF q.ip = Unset THEN v.ip ELSE q.ip
        /\ d.mac = IF q.mac = Unset THEN v.mac ELSE q.mac
        /\ d.mode = v.mode
  BY <1>3, WrittenIs
<1>10. Addressable(v) => Addressable(d)
  BY <1>3, <1>8, <1>9, RegistryAssumption DEF Addressable
<1>11. Harmless(v, devices[r])
  <2>1. CASE r \in DOMAIN q.tx
    <3>1. v = q.tx[r]  BY <2>1, <1>5, <1>6, <1>7, OverIsTable
    <3> QED  BY <2>1, <3>1, <1>2 DEF Sound
  <2>2. CASE r \notin DOMAIN q.tx
    <3>1. v = devices[r]  BY <2>2, <1>5, <1>6, <1>7, OverIsTable
    <3> QED  BY <3>1 DEF Harmless
  <2> QED  BY <2>1, <2>2
<1>12. Harmless(d, devices[r])  BY <1>3, <1>8, <1>9, <1>10, <1>11 DEF Harmless
<1>13. /\ \A x \in Rows \ {r} : ~Same(d, View(c)[x])
       /\ \A e \in Clients \ {c} :
            r \notin DOMAIN req[e].tx /\ \A x \in DOMAIN req[e].tx : ~Same(d, req[e].tx[x])
  BY <1>3, <1>7, <1>8, <1>9, StorableIsAlone
<1>14. ~q.late => ((v.there /\ d.ip = v.ip) \/ At(View(c), d.ip) \ {r} = {})
  <2>1. CASE q.ip = Unset  BY <2>1, <1>8, <1>9
  <2>2. CASE q.ip # Unset
    <3>1. ~q.late => At(View(c), q.ip) = {}  BY <2>2, <1>2, <1>3, <1>6 DEF Sound, Fresh
    <3> QED  BY <2>2, <3>1, <1>9
  <2> QED  BY <2>1, <2>2
<1> QED  BY <1>1, <1>2, <1>7, <1>8, <1>9, <1>12, <1>13, <1>14, FlushedKeeps

\* The row of a new device is held by nobody and gone from every view.
LEMMA UnbornIs ==
  ASSUME RegistryInv, NEW r \in Rows, Unborn(r), NEW c \in Clients
  PROVE  r \notin DOMAIN req[c].tx /\ View(c)[r] = devices[r] /\ ~devices[r].there
BY DEF Unborn, View

\* A host without a row gets one.
LEMMA AddKeeps ==
  ASSUME RegistryInv, NEW c \in Clients, NEW r \in Rows, Add(c, r)
  PROVE  RegistryInv'
<1>1. PICK q \in Request : q = req[c]  BY DEF RegistryInv
<1>2. /\ q.pc = "adding" /\ Sound(q, devices) /\ Unborn(r) /\ Storable(c, r, q.mac)
      /\ Flushed(c, r, Device(q.ip, q.mac, "static"))
  BY <1>1 DEF RegistryInv, Add
<1>3. q.ip \in Ips /\ q.mac \in Macs \cup {None} /\ "static" \in Modes
  BY <1>2, RegistryAssumption DEF Sound, Shape, Discovering
<1>4. PICK d \in DeviceType :
        /\ d = Device(q.ip, q.mac, "static")
        /\ d.there = TRUE /\ d.ip = q.ip /\ d.mac = q.mac /\ d.mode = "static"
  BY <1>3, DevicesAre
<1>5. q.ip # None /\ q.mac # Unset  BY <1>3, RegistryAssumption
<1>6. Harmless(d, devices[r])  BY <1>3, <1>4, <1>5 DEF Harmless, Addressable
<1>7. /\ \A x \in Rows \ {r} : ~Same(d, View(c)[x])
      /\ \A e \in Clients \ {c} :
           r \notin DOMAIN req[e].tx /\ \A x \in DOMAIN req[e].tx : ~Same(d, req[e].tx[x])
  BY <1>2, <1>3, <1>4, <1>5, StorableIsAlone
<1>8. ~q.late => At(View(c), d.ip) = {}
  BY <1>1, <1>2, <1>3, <1>4, ViewIs DEF Sound, Fresh
<1> QED  BY <1>1, <1>2, <1>4, <1>6, <1>7, <1>8, FlushedKeeps

\* A refused insertion becomes an update of the row that has the MAC.
LEMMA ClashKeeps ==
  ASSUME RegistryInv, NEW c \in Clients, Clash(c)
  PROVE  RegistryInv'
<1>1. PICK p \in Request : p = req[c]  BY DEF RegistryInv
<1>2. p.pc = "adding" /\ Sound(p, devices) /\ Refused(c, None, p.mac)
  BY <1>1 DEF RegistryInv, Clash
<1>3. Discovering(p) /\ p.mac \in Macs \cup {None}
  BY <1>2 DEF Sound, Shape, Discovering
<1>4. p.mac \in Macs  BY <1>2, <1>3 DEF Refused, With
<1>5. PICK r \in Rows :
        req' = [req EXCEPT ![c] = [p EXCEPT !.pc = "upserting", !.row = r, !.ip = Unset,
                                            !.tx = NoWrites]]
  BY <1>1 DEF Clash
<1>6. PICK q : q = [p EXCEPT !.pc = "upserting", !.row = r, !.ip = Unset, !.tx = NoWrites]
  OBVIOUS
<1>7. /\ q \in Request /\ q.pc = "upserting" /\ q.row = r /\ q.ip = Unset /\ q.tx = NoWrites
      /\ q.mac = p.mac /\ q.mode = p.mode /\ q.hosts = p.hosts /\ q.call = p.call
  BY <1>6, NoWritesAre DEF Request, Places
<1>8. Shape(q)  BY <1>3, <1>4, <1>7 DEF Shape, Discovering
<1>9. Over(devices, q.tx) = devices  BY <1>7, NoWritesAre, OverNothing DEF RegistryInv
<1>10. Fresh(q, devices)  BY <1>7, <1>9, RegistryAssumption DEF Fresh
<1>11. Sound(q, devices) /\ \A e \in Clients \ {c} : Compatible(q.tx, req[e].tx)
  BY <1>7, <1>8, <1>10, NoWritesAre, NothingWritten
<1> QED  BY <1>5, <1>6, <1>7, <1>11, RequestKeeps DEF Clash

--------------------------------------------------------------------------------
(* Commits.                                                                      *)

\* A table that differs in one row, whose MAC no other row and no request has.
LEMMA OneRowKeeps ==
  ASSUME RegistryInv, NEW r \in Rows, NEW d \in DeviceType, NEW ended,
         \A x \in Rows \ {r} : ~Same(d, devices[x]),
         \A e \in Clients \ ended :
           r \notin DOMAIN req[e].tx /\ \A x \in DOMAIN req[e].tx : ~Same(d, req[e].tx[x]),
         Commit([devices EXCEPT ![r] = d], ended)
  PROVE  RegistryInv'
<1>1. devices \in [Rows -> DeviceType] /\ Unique(devices)  BY DEF RegistryInv
<1>2. PICK table \in [Rows -> DeviceType] : table = [devices EXCEPT ![r] = d]  BY <1>1
<1>3. table[r] = d /\ \A x \in Rows \ {r} : table[x] = devices[x]  BY <1>1, <1>2
<1>4. Unique(table)
  <2>1. SUFFICES ASSUME NEW r1 \in Rows, NEW r2 \in Rows \ {r1}, Same(table[r1], table[r2])
                 PROVE  FALSE
    BY DEF Unique
  <2>2. CASE r1 = r  BY <2>1, <2>2, <1>3
  <2>3. CASE r2 = r
    <3>1. Same(d, devices[r1])  BY <2>1, <2>3, <1>3 DEF Same
    <3> QED  BY <3>1, <2>3
  <2>4. CASE r1 # r /\ r2 # r  BY <2>1, <2>4, <1>1, <1>3 DEF Unique
  <2> QED  BY <2>2, <2>3, <2>4
<1>5. \A e \in Clients : req[e].tx \in Writes  BY DEF RegistryInv, Request
<1>6. \A e \in Clients \ ended : \A x \in DOMAIN req[e].tx : table[x] = devices[x]
  <2> TAKE e \in Clients \ ended
  <2> TAKE x \in DOMAIN req[e].tx
  <2>1. x \in Rows \ {r}  BY <1>5, WritesAre
  <2> QED  BY <2>1, <1>3
<1>7. ASSUME NEW e \in Clients \ ended, NEW x \in Rows \ DOMAIN req[e].tx,
             NEW y \in DOMAIN req[e].tx
      PROVE  ~Same(table[x], req[e].tx[y])
  <2>1. CASE x = r  BY <2>1, <1>3
  <2>2. CASE x # r
    <3>1. /\ Over(devices, req[e].tx)[x] = table[x] /\ y \in Rows
          /\ Over(devices, req[e].tx)[y] = req[e].tx[y]
      BY <2>2, <1>1, <1>3, <1>5, OverIsTable
    <3>2. Unique(Over(devices, req[e].tx))  BY DEF RegistryInv, Sound
    <3> QED  BY <3>1, <3>2 DEF Unique
  <2> QED  BY <2>1, <2>2
<1> QED  BY <1>2, <1>4, <1>6, <1>7, CommitKeeps

\* An insert or a store whose request has flushed nothing.
LEMMA StoredKeeps ==
  ASSUME RegistryInv, NEW c \in Clients, NEW r \in Rows, NEW d \in DeviceType,
         NEW mac \in Macs \cup {None, Unset}, Storable(c, r, mac), DOMAIN req[c].tx = {},
         \/ mac # Unset /\ d.mac = mac
         \/ mac = Unset /\ d.mac = devices[r].mac /\ devices[r].there,
         Commit([devices EXCEPT ![r] = d], {c})
  PROVE  RegistryInv'
<1>1. View(c) = devices  BY ViewIs, OverNothing DEF RegistryInv
<1>2. /\ \A x \in Rows \ {r} : ~Same(d, devices[x])
      /\ \A e \in Clients \ {c} :
           r \notin DOMAIN req[e].tx /\ \A x \in DOMAIN req[e].tx : ~Same(d, req[e].tx[x])
  BY <1>1, StorableIsAlone
<1> QED  BY <1>2, OneRowKeeps

\* What the insert of a row writes.
LEMMA InsertedIs ==
  ASSUME RegistryInv, NEW c \in Clients, NEW r \in Rows, Insert(c, r)
  PROVE  \E q \in Request, d \in DeviceType :
           /\ q = req[c] /\ q.pc = "inserting" /\ Inserting(q) /\ DOMAIN q.tx = {}
           /\ ~q.late => Fresh(q, devices)
           /\ d.there = TRUE /\ d.ip = q.ip /\ d.mac = q.mac /\ d.mode = q.mode
           /\ Addressable(d) /\ ~devices[r].there
           /\ Storable(c, r, q.mac) /\ Commit([devices EXCEPT ![r] = d], {c})
<1>1. PICK q \in Request : q = req[c]  BY DEF RegistryInv
<1>2. /\ q.pc = "inserting" /\ Sound(q, devices) /\ Unborn(r) /\ Storable(c, r, q.mac)
      /\ Commit([devices EXCEPT ![r] = Device(q.ip, q.mac, q.mode)], {c})
  BY <1>1 DEF RegistryInv, Insert
<1>3. Inserting(q) /\ DOMAIN q.tx = {}  BY <1>2 DEF Sound, Shape
<1>4. q.ip \in Ips \cup {None} /\ q.mac \in Macs \cup {None} /\ q.mode \in Modes
  BY <1>3 DEF Inserting
<1>5. PICK d \in DeviceType : d = Device(q.ip, q.mac, q.mode)  BY <1>4, DevicesAre
<1>6. d.there = TRUE /\ d.ip = q.ip /\ d.mac = q.mac /\ d.mode = q.mode
  BY <1>5 DEF Device
<1>7. Addressable(d) /\ ~devices[r].there  BY <1>2, <1>3, <1>5 DEF Inserting, Unborn
<1> QED  BY <1>1, <1>2, <1>3, <1>5, <1>6, <1>7 DEF Sound

\* The new row of create, import and register is committed.
LEMMA InsertKeeps ==
  ASSUME RegistryInv, NEW c \in Clients, NEW r \in Rows, Insert(c, r)
  PROVE  RegistryInv'
<1>1. PICK q \in Request, d \in DeviceType :
        /\ q = req[c] /\ Inserting(q) /\ DOMAIN q.tx = {} /\ d.mac = q.mac
        /\ Storable(c, r, q.mac) /\ Commit([devices EXCEPT ![r] = d], {c})
  BY InsertedIs
<1>2. q.mac \in Macs \cup {None} /\ q.mac # Unset
  BY <1>1, RegistryAssumption DEF Inserting
<1> QED  BY <1>1, <1>2, StoredKeeps

\* What the store of a row writes.
LEMMA StoredIs ==
  ASSUME RegistryInv, NEW c \in Clients, Store(c)
  PROVE  \E q \in Request, r \in Rows, d \in DeviceType :
           /\ q = req[c] /\ q.pc = "storing" /\ q.row = r /\ Storing(q) /\ DOMAIN q.tx = {}
           /\ ~q.late => Fresh(q, devices)
           /\ devices[r] \in DeviceType /\ devices[r].there /\ d = Written(devices[r], q)
           /\ Storable(c, r, q.mac) /\ Commit([devices EXCEPT ![r] = d], {c})
<1>1. PICK q \in Request : q = req[c]  BY DEF RegistryInv
<1>2. q.pc = "storing" /\ Sound(q, devices)  BY <1>1 DEF RegistryInv, Store
<1>3. Storing(q) /\ DOMAIN q.tx = {}  BY <1>2 DEF Sound, Shape
<1>4. PICK r \in Rows : r = q.row  BY <1>3 DEF Storing
<1>5. devices[r] \in DeviceType  BY DEF RegistryInv
<1>6. PICK d \in DeviceType : d = Written(devices[r], q)  BY <1>5, WrittenIs
<1>7. Commit([devices EXCEPT ![r] = d], {c}) /\ Storable(c, r, q.mac) /\ devices[r].there
  BY <1>1, <1>4, <1>6 DEF Store
<1> QED  BY <1>1, <1>2, <1>3, <1>4, <1>5, <1>6, <1>7 DEF Sound

\* The columns of update, discover-ip and register are committed.
LEMMA StoreKeeps ==
  ASSUME RegistryInv, NEW c \in Clients, Store(c)
  PROVE  RegistryInv'
<1>1. PICK q \in Request, r \in Rows, d \in DeviceType :
        /\ q = req[c] /\ DOMAIN q.tx = {}
        /\ devices[r] \in DeviceType /\ devices[r].there /\ d = Written(devices[r], q)
        /\ Storable(c, r, q.mac) /\ Commit([devices EXCEPT ![r] = d], {c})
  BY StoredIs
<1>2. q.mac \in Macs \cup {None, Unset}  BY DEF Request
<1>3. d.mac = IF q.mac = Unset THEN devices[r].mac ELSE q.mac  BY <1>1, WrittenIs
<1> QED  BY <1>1, <1>2, <1>3, StoredKeeps

\* A deletion is committed: nobody's MAC or address is in more rows for it.
LEMMA DeleteKeeps ==
  ASSUME RegistryInv, NEW r \in Rows, Delete(r)
  PROVE  RegistryInv'
<1>1. NoDevice \in DeviceType /\ \A d : ~Same(NoDevice, d)
  BY DevicesAre DEF NoDevice, Same
<1>2. /\ Commit([devices EXCEPT ![r] = NoDevice], {})
      /\ \A e \in Clients : r \notin DOMAIN req[e].tx
  BY DEF Delete
<1> QED  BY <1>1, <1>2, OneRowKeeps

\* What U02 writes of a device without a MAC.
LEMMA EnrichedIs ==
  ASSUME RegistryInv, NEW r \in Rows, NEW mac \in Macs, Enrich(r, mac)
  PROVE  \E d \in DeviceType :
           /\ d.there = devices[r].there /\ d.ip = devices[r].ip /\ d.mac = mac
           /\ d.mode = devices[r].mode /\ devices[r].there
           /\ Commit([devices EXCEPT ![r] = d], {})
<1>1. devices[r] \in DeviceType  BY DEF RegistryInv
<1>2. PICK d : d = [devices[r] EXCEPT !.mac = mac]  OBVIOUS
<1>3. /\ d \in DeviceType /\ d.there = devices[r].there /\ d.ip = devices[r].ip
      /\ d.mac = mac /\ d.mode = devices[r].mode
  BY <1>1, <1>2 DEF DeviceType
<1>4. [devices EXCEPT ![r] = d] = [devices EXCEPT ![r].mac = mac]
  BY <1>2 DEF RegistryInv
<1>5. devices[r].there /\ Commit([devices EXCEPT ![r] = d], {})  BY <1>4 DEF Enrich
<1> QED  BY <1>3, <1>5

\* A test that learned a device's MAC commits it if no other row has it.
LEMMA EnrichKeeps ==
  ASSUME RegistryInv, NEW r \in Rows, NEW mac \in Macs, Enrich(r, mac)
  PROVE  RegistryInv'
<1>1. PICK d \in DeviceType : d.mac = mac /\ Commit([devices EXCEPT ![r] = d], {})
  BY EnrichedIs
<1>2. /\ With(devices, mac) = {}
      /\ \A e \in Clients : r \notin DOMAIN req[e].tx /\ With(View(e), mac) = {}
  BY DEF Enrich
<1>3. mac # None  BY RegistryAssumption
<1>4. \A x \in Rows \ {r} : ~Same(d, devices[x])  BY <1>1, <1>2, <1>3 DEF Same, With
<1>5. ASSUME NEW e \in Clients, NEW x \in DOMAIN req[e].tx
      PROVE  ~Same(d, req[e].tx[x])
  <2>1. req[e].tx \in Writes /\ devices \in [Rows -> DeviceType]  BY DEF RegistryInv, Request
  <2>2. x \in Rows /\ View(e)[x] = req[e].tx[x]  BY <2>1, ViewIs, OverIsTable
  <2> QED  BY <2>2, <1>1, <1>2, <1>3 DEF Same, With
<1> QED  BY <1>1, <1>2, <1>4, <1>5, OneRowKeeps

\* The end of a request that flushed rows: the table becomes what it saw.
LEMMA ViewKeeps ==
  ASSUME RegistryInv, NEW c \in Clients, Commit(View(c), {c})
  PROVE  RegistryInv'
<1>1. devices \in [Rows -> DeviceType] /\ \A e \in Clients : req[e].tx \in Writes
  BY DEF RegistryInv, Request
<1>2. View(c) = Over(devices, req[c].tx) /\ View(c) \in [Rows -> DeviceType]
  BY <1>1, ViewIs, OverIsTable
<1>3. Unique(View(c))  BY <1>2 DEF RegistryInv, Sound
<1>4. ASSUME NEW e \in Clients \ {c}, NEW r \in DOMAIN req[e].tx
      PROVE  View(c)[r] = devices[r]
  <2>1. r \in Rows  BY <1>1, OverIsTable
  <2>2. Compatible(req[e].tx, req[c].tx)  BY DEF RegistryInv
  <2>3. r \notin DOMAIN req[c].tx  BY <2>2 DEF Compatible
  <2> QED  BY <2>1, <2>3, <1>1, <1>2, OverIsTable
<1>5. ASSUME NEW e \in Clients \ {c}, NEW x \in Rows \ DOMAIN req[e].tx,
             NEW y \in DOMAIN req[e].tx
      PROVE  ~Same(View(c)[x], req[e].tx[y])
  <2>1. CASE x \in DOMAIN req[c].tx
    <3>1. View(c)[x] = req[c].tx[x]  BY <2>1, <1>1, <1>2, OverIsTable
    <3>2. Compatible(req[c].tx, req[e].tx)  BY DEF RegistryInv
    <3> QED  BY <2>1, <3>1, <3>2 DEF Compatible
  <2>2. CASE x \notin DOMAIN req[c].tx
    <3>1. View(c)[x] = devices[x]  BY <2>2, <1>1, <1>2, OverIsTable
    <3>2. /\ Over(devices, req[e].tx)[x] = devices[x] /\ y \in Rows
          /\ Over(devices, req[e].tx)[y] = req[e].tx[y]
      BY <1>1, OverIsTable
    <3>3. Unique(Over(devices, req[e].tx))  BY DEF RegistryInv, Sound
    <3> QED  BY <3>1, <3>2, <3>3 DEF Unique
  <2> QED  BY <2>1, <2>2
<1> QED  BY <1>2, <1>3, <1>4, <1>5, CommitKeeps

--------------------------------------------------------------------------------
(* The invariant, and types.                                                     *)

\* The table begins as a table of unique MACs, with no request under way.
LEMMA InitRegistered == Init => RegistryInv
<1> SUFFICES ASSUME Init  PROVE  RegistryInv
  OBVIOUS
<1>1. devices = [r \in Rows |-> NoDevice] /\ req = [c \in Clients |-> NoRequest]
  BY DEF Init
<1>2. devices \in [Rows -> DeviceType] /\ req \in [Clients -> Request]
  BY <1>1, DevicesAre, NoRequestIs
<1>3. Unique(devices)  BY <1>1 DEF Unique, Same, NoDevice
<1>4. \A c \in Clients : Sound(req[c], devices)  BY <1>1, <1>2, <1>3, IdleIsSound
<1>5. \A c \in Clients : \A e \in Clients \ {c} : Compatible(req[c].tx, req[e].tx)
  BY <1>1, NoRequestIs, NoWritesAre DEF Compatible
<1> QED  BY <1>2, <1>3, <1>4, <1>5 DEF RegistryInv

\* Every step of the specification keeps the invariant.
LEMMA NextKeeps == RegistryInv /\ [Next]_vars => RegistryInv'
<1> SUFFICES ASSUME RegistryInv, [Next]_vars  PROVE  RegistryInv'
  OBVIOUS
<1>1. ASSUME NEW c \in Clients, OperatorNext(c)  PROVE  RegistryInv'
  <2>1. CASE \E ip \in Ips \cup {None}, mac \in Macs \cup {None}, mode \in Modes :
               Create(c, ip, mac, mode)
    BY <2>1, CreateKeeps
  <2>2. CASE \E ip \in Ips \cup {None}, mac \in Macs \cup {None} : Import(c, ip, mac)
    BY <2>2, ImportKeeps
  <2>3. CASE \E r \in Rows : Insert(c, r)  BY <2>3, InsertKeeps
  <2>4. CASE \E r \in Rows, ip \in Ips \cup {None, Unset}, mac \in Macs \cup {None, Unset},
                mode \in Modes \cup {Unset} : Update(c, r, ip, mac, mode)
    BY <2>4, UpdateKeeps
  <2>5. CASE Store(c)  BY <2>5, StoreKeeps
  <2> QED  BY <1>1, <2>1, <2>2, <2>3, <2>4, <2>5 DEF OperatorNext
<1>2. ASSUME NEW c \in Clients, AddressNext(c)  PROVE  RegistryInv'
  <2>1. CASE \E r \in Rows : DiscoverIp(c, r)  BY <2>1, DiscoverIpKeeps
  <2>2. CASE \E r \in Rows : Refresh(c, r)  BY <2>2, RefreshKeeps
  <2>3. CASE \E ip \in FoundIps : DiscoveredIp(c, ip)  BY <2>3, DiscoveredIpKeeps
  <2>4. CASE \E ip \in FoundIps : RefreshedIp(c, ip)  BY <2>4, RefreshedIpKeeps
  <2>5. CASE Ready(c)  BY <2>5, ViewKeeps DEF Ready
  <2> QED  BY <1>2, <2>1, <2>2, <2>3, <2>4, <2>5 DEF AddressNext
<1>3. ASSUME NEW c \in Clients, DiscoveryNext(c)  PROVE  RegistryInv'
  <2>1. CASE \E ip \in Ips : ScanOne(c, ip)  BY <2>1, ScanOneKeeps
  <2>2. CASE \E ip \in Ips, mac \in ReportedMacs : RegisterKnown(c, ip, mac)
    BY <2>2, RegisterKnownKeeps
  <2>3. CASE \E ip \in Ips, mac \in ReportedMacs : RegisterNew(c, ip, mac)
    BY <2>3, RegisterNewKeeps
  <2>4. CASE \E hosts \in SUBSET Ips : Sweep(c, hosts) \/ Batch(c, hosts)
    BY <2>4, SweepKeeps
  <2>5. CASE \E mac \in ReportedMacs : Look(c, mac)  BY <2>5, LookKeeps
  <2>6. CASE \E r \in Rows : Add(c, r)  BY <2>6, AddKeeps
  <2>7. CASE Upsert(c)  BY <2>7, UpsertKeeps
  <2>8. CASE Clash(c)  BY <2>8, ClashKeeps
  <2>9. CASE SweepEnds(c)  BY <2>9, ViewKeeps DEF SweepEnds
  <2> QED
    BY <1>3, <2>1, <2>2, <2>3, <2>4, <2>5, <2>6, <2>7, <2>8, <2>9 DEF DiscoveryNext
<1>4. CASE \E c \in Clients : Abort(c)  BY <1>4, AbortKeeps
<1>5. CASE \E r \in Rows : Delete(r)  BY <1>5, DeleteKeeps
<1>6. CASE \E r \in Rows, mac \in Macs : Enrich(r, mac)  BY <1>6, EnrichKeeps
<1>7. CASE UNCHANGED vars
  <2>1. devices' = devices /\ req' = req  BY <1>7 DEF vars
  <2> QED
    BY <2>1 DEF RegistryInv, Unique, Sound, Compatible
<1> QED  BY <1>1, <1>2, <1>3, <1>4, <1>5, <1>6, <1>7 DEF Next

\* It holds in every reachable state.
LEMMA RegistryInvariant == Spec => []RegistryInv
BY InitRegistered, NextKeeps, PTL DEF Spec

\* A MAC that no two rows share is in one row at most.
LEMMA OneRowPerMac ==
  ASSUME NEW table \in [Rows -> DeviceType], Unique(table), NEW mac
  PROVE  Cardinality(With(table, mac)) <= 1
<1>1. CASE With(table, mac) = {}  BY <1>1, FS_EmptySet
<1>2. CASE With(table, mac) # {}
  <2>1. PICK r : r \in With(table, mac)  BY <1>2
  <2>2. \A x \in With(table, mac) : x = r  BY <2>1 DEF With, Unique, Same
  <2>3. With(table, mac) = {r}  BY <2>1, <2>2
  <2>4. Cardinality(With(table, mac)) = 1  BY <2>3, FS_Singleton
  <2> QED  BY <2>4
<1> QED  BY <1>1, <1>2

\* The table and the requests have their types, and a MAC is in one row at most
\* whatever requests commit rows of their own at the same time.
THEOREM RegistryTypeCorrect == Spec => []TypeOK
<1>1. RegistryInv => TypeOK
  <2> SUFFICES ASSUME RegistryInv  PROVE  TypeOK
    OBVIOUS
  <2>1. devices \in [Rows -> DeviceType] /\ Unique(devices)  BY DEF RegistryInv
  <2>2. \A mac \in Macs : Cardinality(With(devices, mac)) <= 1  BY <2>1, OneRowPerMac
  <2>3. ASSUME NEW c \in Clients
        PROVE  /\ req[c].pc \in Places /\ req[c].row \in Rows \cup {None}
               /\ req[c].hosts \subseteq Ips /\ DOMAIN req[c].tx \subseteq Rows
               /\ \A r \in DOMAIN req[c].tx : req[c].tx[r] \in DeviceType
    <3>1. req[c] \in Request  BY DEF RegistryInv
    <3>2. req[c].tx \in Writes  BY <3>1 DEF Request
    <3> QED  BY <3>1, <3>2, WritesAre DEF Request
  <2> QED  BY <2>1, <2>2, <2>3 DEF TypeOK, Places
<1> QED  BY <1>1, RegistryInvariant, PTL

--------------------------------------------------------------------------------
(* What a step may do to the table.                                              *)

\* Only commits change the table.
LEMMA OnlyCommitsChange ==
  ASSUME [Next]_vars
  PROVE  \/ devices' = devices
         \/ \E c \in Clients : \/ \E r \in Rows : Insert(c, r)
                               \/ Store(c) \/ Ready(c) \/ SweepEnds(c)
         \/ \E r \in Rows : Delete(r)
         \/ \E r \in Rows, mac \in Macs : Enrich(r, mac)
<1>1. ASSUME NEW c \in Clients, OperatorNext(c)
      PROVE  devices' = devices \/ (\E r \in Rows : Insert(c, r)) \/ Store(c)
  BY <1>1 DEF OperatorNext, Create, Import, Update, Began
<1>2. ASSUME NEW c \in Clients, AddressNext(c)  PROVE  devices' = devices \/ Ready(c)
  BY <1>2 DEF AddressNext, DiscoverIp, Refresh, DiscoveredIp, RefreshedIp, Began
<1>3. ASSUME NEW c \in Clients, DiscoveryNext(c)  PROVE  devices' = devices \/ SweepEnds(c)
  <2>1. ASSUME NEW r \in Rows, NEW d, Flushed(c, r, d)  PROVE  devices' = devices
    BY <2>1 DEF Flushed
  <2> QED
    BY <1>3 DEF DiscoveryNext, ScanOne, RegisterKnown, RegisterNew, Sweep, Batch, Look, Add,
                Upsert, Clash, Began, Flushed
<1>4. ASSUME NEW c \in Clients, Abort(c)  PROVE  devices' = devices
  BY <1>4 DEF Abort
<1>5. CASE UNCHANGED vars  BY <1>5 DEF vars
<1> QED  BY <1>1, <1>2, <1>3, <1>4, <1>5 DEF Next

\* The request that commits is over.
LEMMA CommitMoves ==
  ASSUME NEW c \in Clients, NEW table, Commit(table, {c}), req[c].pc # "idle"
  PROVE  Moved(c)
<1>1. req'[c] = NoRequest  BY DEF Commit
<1> QED  BY <1>1, NoRequestIs DEF Moved

\* In a finite table an address is shared when two rows have it.
LEMMA SharedAreTwins ==
  ASSUME NEW table, NEW ip \in Ips
  PROVE  ip \in Shared(table) <=> Twin(table, ip)
<1>1. IsFiniteSet(At(table, ip))
  <2>1. IsFiniteSet(Rows) /\ At(table, ip) \subseteq Rows  BY RegistryAssumption DEF At
  <2> QED  BY <2>1, FS_Subset
<1>2. Cardinality(At(table, ip)) \in Nat  BY <1>1, FS_CardinalityType
<1>3. ASSUME Cardinality(At(table, ip)) > 1  PROVE  Twin(table, ip)
  <2>1. At(table, ip) # {}  BY <1>3, FS_EmptySet
  <2>2. PICK r \in At(table, ip) : TRUE  BY <2>1
  <2>3. At(table, ip) # {r}
    <3>1. Cardinality({r}) = 1  BY FS_Singleton
    <3> QED  BY <3>1, <1>3
  <2> QED  BY <2>2, <2>3 DEF Twin
<1>4. ASSUME Twin(table, ip)  PROVE  Cardinality(At(table, ip)) > 1
  <2>1. PICK r1 \in At(table, ip), r2 \in At(table, ip) : r1 # r2  BY <1>4 DEF Twin
  <2>2. IsFiniteSet({r1}) /\ Cardinality({r1}) = 1  BY FS_Singleton
  <2>3. Cardinality({r1} \cup {r2}) = 2
    <3>1. PICK S : S = {r1}  OBVIOUS
    <3>2. r2 \notin S /\ IsFiniteSet(S) /\ Cardinality(S) = 1  BY <2>1, <2>2, <3>1
    <3>3. Cardinality(S \cup {r2}) = Cardinality(S) + 1  BY <3>2, FS_AddElement
    <3> QED  BY <3>1, <3>2, <3>3
  <2>4. {r1} \cup {r2} \subseteq At(table, ip)  OBVIOUS
  <2>5. Cardinality({r1} \cup {r2}) <= Cardinality(At(table, ip))
    BY <2>4, <1>1, FS_Subset
  <2> QED  BY <2>3, <2>5, <1>2
<1> QED  BY <1>2, <1>3, <1>4 DEF Shared

\* What a step may do about two rows at one address (TwinsAreExcused).
TwinStep ==
  \A ip \in Shared(devices') \ Shared(devices) :
    \E c \in Clients :
      /\ Moved(c)
      /\ \/ req[c].call = "refresh"
         \/ req[c].call = "enter" /\ req[c].mode = "dhcp"
         \/ req[c].late

\* Every step does no more than that.
LEMMA NextExcusesTwins == RegistryInv /\ [Next]_vars => TwinStep
<1> SUFFICES ASSUME RegistryInv, [Next]_vars, NEW ip \in Shared(devices') \ Shared(devices)
             PROVE  \E c \in Clients :
                      /\ Moved(c)
                      /\ \/ req[c].call = "refresh"
                         \/ req[c].call = "enter" /\ req[c].mode = "dhcp"
                         \/ req[c].late
  BY DEF TwinStep
<1>1. ip \in Ips  BY DEF Shared
<1>2. Twin(devices', ip) /\ ~Twin(devices, ip)  BY <1>1, SharedAreTwins
<1>3. devices \in [Rows -> DeviceType] /\ req \in [Clients -> Request]  BY DEF RegistryInv
<1>4. ASSUME NEW c \in Clients, NEW r \in Rows, Insert(c, r)
      PROVE  Moved(c) /\ ((req[c].call = "enter" /\ req[c].mode = "dhcp") \/ req[c].late)
  <2>1. PICK q \in Request, d \in DeviceType :
          /\ q = req[c] /\ q.pc = "inserting" /\ Inserting(q) /\ (~q.late => Fresh(q, devices))
          /\ d.ip = q.ip /\ Commit([devices EXCEPT ![r] = d], {c})
    BY <1>4, InsertedIs
  <2>2. Moved(c)  BY <2>1, CommitMoves
  <2>3. ASSUME ~q.late, ~(q.call = "enter" /\ q.mode = "dhcp")  PROVE  FALSE
    <3>1. q.call = "register" \/ q.mode # "dhcp"  BY <2>1, <2>3 DEF Inserting
    <3>2. At(devices, d.ip) \ {r} = {}  BY <3>1, <2>1, <2>3 DEF Fresh
    <3>3. Twin([devices EXCEPT ![r] = d], ip)  BY <2>1, <1>2 DEF Commit
    <3> QED  BY <3>2, <3>3, <1>2, <1>3, NoNewTwin
  <2> QED  BY <2>1, <2>2, <2>3
<1>5. ASSUME NEW c \in Clients, Store(c)  PROVE  Moved(c) /\ req[c].late
  <2>1. PICK q \in Request, r \in Rows, d \in DeviceType :
          /\ q = req[c] /\ q.pc = "storing" /\ q.row = r /\ (~q.late => Fresh(q, devices))
          /\ devices[r] \in DeviceType /\ devices[r].there /\ d = Written(devices[r], q)
          /\ Commit([devices EXCEPT ![r] = d], {c})
    BY <1>5, StoredIs
  <2>2. Moved(c)  BY <2>1, CommitMoves
  <2>3. d.there = TRUE /\ d.ip = IF q.ip = Unset THEN devices[r].ip ELSE q.ip
    <3>1. PICK old \in DeviceType : old = devices[r]  BY <2>1
    <3>2. /\ Written(old, q).there = TRUE
          /\ Written(old, q).ip = IF q.ip = Unset THEN old.ip ELSE q.ip
      BY WrittenIs
    <3> QED  BY <3>1, <3>2, <2>1
  <2>4. ASSUME ~q.late  PROVE  FALSE
    <3>1. Twin([devices EXCEPT ![r] = d], ip)  BY <2>1, <1>2 DEF Commit
    <3>2. CASE q.ip = Unset  BY <3>1, <3>2, <2>1, <2>3, <1>2, <1>3, NoNewTwin
    <3>3. CASE q.ip # Unset /\ q.ip = ip
      <4>1. At(devices, d.ip) \ {r} = {}  BY <3>3, <2>1, <2>3, <2>4, <1>1 DEF Fresh
      <4> QED  BY <4>1, <3>1, <1>2, <1>3, NoNewTwin
    <3>4. CASE q.ip # Unset /\ q.ip # ip  BY <3>1, <3>4, <2>3, <1>2, <1>3, NoNewTwin
    <3> QED  BY <3>2, <3>3, <3>4
  <2> QED  BY <2>1, <2>2, <2>4
<1>6. ASSUME NEW c \in Clients, Ready(c)  PROVE  Moved(c) /\ req[c].call = "refresh"
  <2>1. req[c].pc = "ready" /\ Commit(View(c), {c})  BY <1>6 DEF Ready
  <2> QED  BY <2>1, CommitMoves DEF RegistryInv, Sound, Shape
<1>7. ASSUME NEW c \in Clients, SweepEnds(c)  PROVE  Moved(c) /\ req[c].late
  <2>1. req[c].pc = "looking" /\ Commit(View(c), {c})  BY <1>7 DEF SweepEnds
  <2>2. Twin(Over(devices, req[c].tx), ip)  BY <2>1, <1>2, ViewIs DEF Commit
  <2>3. req[c].late  BY <2>1, <2>2, <1>1, <1>2 DEF RegistryInv, Sound, Fresh
  <2> QED  BY <2>1, <2>3, CommitMoves
<1>8. ASSUME NEW r \in Rows, Delete(r)  PROVE  FALSE
  <2>1. Twin([devices EXCEPT ![r] = NoDevice], ip)  BY <1>2, <1>8 DEF Delete, Commit
  <2>2. NoDevice.there = FALSE  BY DEF NoDevice
  <2> QED  BY <2>1, <2>2, <1>2, <1>3, NoNewTwin
<1>9. ASSUME NEW r \in Rows, NEW mac \in Macs, Enrich(r, mac)  PROVE  FALSE
  <2>1. PICK d \in DeviceType :
          d.ip = devices[r].ip /\ devices[r].there /\ Commit([devices EXCEPT ![r] = d], {})
    BY <1>9, EnrichedIs
  <2>2. Twin([devices EXCEPT ![r] = d], ip)  BY <2>1, <1>2 DEF Commit
  <2> QED  BY <2>1, <2>2, <1>2, <1>3, NoNewTwin
<1>10. CASE devices' = devices  BY <1>10, <1>2
<1> QED  BY <1>4, <1>5, <1>6, <1>7, <1>8, <1>9, <1>10, OnlyCommitsChange

\* Two devices come to share an address only through the refresh before a run, a
\* DHCP device created with an address, or a request another one overtook.
THEOREM TwinsExcused == Spec => TwinsAreExcused
<1>1. RegistryInv /\ [Next]_vars => [TwinStep]_devices  BY NextExcusesTwins
<1>2. Spec => [][TwinStep]_devices  BY <1>1, RegistryInvariant, PTL DEF Spec
<1> QED  BY <1>2 DEF TwinStep, TwinsAreExcused

\* What a step may do about a device its mode cannot find (ModeIsAddressed).
ModeStep ==
  \A r \in Rows :
    Addressable(devices[r]) /\ ~Addressable(devices'[r]) =>
      \E c \in Clients : Moved(c) /\ req[c].call = "update" /\ req[c].late

\* A commit of what a request saw does no harm to a row.
LEMMA ViewIsHarmless ==
  ASSUME RegistryInv, NEW c \in Clients, Commit(View(c), {c}), NEW x \in Rows
  PROVE  Harmless(devices'[x], devices[x])
<1>1. req[c].tx \in Writes /\ devices \in [Rows -> DeviceType]  BY DEF RegistryInv, Request
<1>2. devices' = Over(devices, req[c].tx)  BY ViewIs DEF Commit
<1>3. CASE x \in DOMAIN req[c].tx
  <2>1. devices'[x] = req[c].tx[x]  BY <1>1, <1>2, <1>3, OverIsTable
  <2> QED  BY <2>1, <1>3 DEF RegistryInv, Sound
<1>4. CASE x \notin DOMAIN req[c].tx
  <2>1. devices'[x] = devices[x]  BY <1>1, <1>2, <1>4, OverIsTable
  <2> QED  BY <2>1 DEF Harmless
<1> QED  BY <1>3, <1>4

\* Every step does no more than that.
LEMMA NextKeepsModes == RegistryInv /\ [Next]_vars => ModeStep
<1> SUFFICES ASSUME RegistryInv, [Next]_vars, NEW x \in Rows,
                    Addressable(devices[x]), ~Addressable(devices'[x])
             PROVE  \E c \in Clients : Moved(c) /\ req[c].call = "update" /\ req[c].late
  BY DEF ModeStep
<1>1. devices \in [Rows -> DeviceType]  BY DEF RegistryInv
<1>2. ASSUME NEW r \in Rows, NEW d, NEW ended, Commit([devices EXCEPT ![r] = d], ended),
             Addressable(devices[r]) => Addressable(d)
      PROVE  FALSE
  <2>1. devices' = [devices EXCEPT ![r] = d]  BY <1>2 DEF Commit
  <2>2. CASE x = r  BY <2>1, <2>2, <1>1, <1>2
  <2>3. CASE x # r  BY <2>1, <2>3, <1>1
  <2> QED  BY <2>2, <2>3
<1>3. ASSUME NEW c \in Clients, NEW r \in Rows, Insert(c, r)  PROVE  FALSE
  <2>1. PICK d \in DeviceType : Addressable(d) /\ Commit([devices EXCEPT ![r] = d], {c})
    BY <1>3, InsertedIs
  <2> QED  BY <2>1, <1>2
<1>4. ASSUME NEW c \in Clients, Store(c)
      PROVE  Moved(c) /\ req[c].call = "update" /\ req[c].late
  <2>1. PICK q \in Request, r \in Rows, d \in DeviceType :
          /\ q = req[c] /\ q.pc = "storing" /\ q.row = r /\ Storing(q)
          /\ ~q.late => Fresh(q, devices)
          /\ devices[r] \in DeviceType /\ devices[r].there /\ d = Written(devices[r], q)
          /\ Commit([devices EXCEPT ![r] = d], {c})
    BY <1>4, StoredIs
  <2>2. Moved(c)  BY <2>1, CommitMoves
  <2>3. CASE q.call = "update" /\ ~q.late
    <3>1. Addressable(d)  BY <2>1, <2>3 DEF Fresh
    <3> QED  BY <2>1, <3>1, <1>2
  <2>4. CASE q.call # "update"
    <3>1. q.ip \in Ips \cup {Unset} /\ q.mac \in Macs \cup {Unset} /\ q.mode = Unset
      BY <2>1, <2>4 DEF Storing
    <3>2. /\ d.ip = IF q.ip = Unset THEN devices[r].ip ELSE q.ip
          /\ d.mac = IF q.mac = Unset THEN devices[r].mac ELSE q.mac
          /\ d.mode = devices[r].mode
      BY <3>1, <2>1, WrittenIs
    <3>3. Addressable(devices[r]) => Addressable(d)
      BY <3>1, <3>2, <2>1, RegistryAssumption DEF Addressable
    <3> QED  BY <2>1, <3>3, <1>2
  <2> QED  BY <2>1, <2>2, <2>3, <2>4
<1>5. ASSUME NEW c \in Clients, Ready(c) \/ SweepEnds(c)  PROVE  FALSE
  <2>1. Harmless(devices'[x], devices[x])  BY <1>5, ViewIsHarmless DEF Ready, SweepEnds
  <2> QED  BY <2>1 DEF Harmless
<1>6. ASSUME NEW r \in Rows, Delete(r)  PROVE  FALSE
  <2>1. Addressable(NoDevice)  BY DEF Addressable, NoDevice
  <2> QED  BY <2>1, <1>2, <1>6 DEF Delete
<1>7. ASSUME NEW r \in Rows, NEW mac \in Macs, Enrich(r, mac)  PROVE  FALSE
  <2>1. PICK d \in DeviceType :
          /\ d.there = devices[r].there /\ d.ip = devices[r].ip /\ d.mac = mac
          /\ d.mode = devices[r].mode
          /\ Commit([devices EXCEPT ![r] = d], {})
    BY <1>7, EnrichedIs
  <2>2. Addressable(devices[r]) => Addressable(d)
    BY <2>1, RegistryAssumption DEF Addressable
  <2> QED  BY <2>1, <2>2, <1>2
<1>8. CASE devices' = devices  BY <1>8
<1> QED  BY <1>3, <1>4, <1>5, <1>6, <1>7, <1>8, OnlyCommitsChange

\* A device keeps what its addressing mode finds it by, unless two updates at once
\* take it away between them.
THEOREM ModesAddressed == Spec => ModeIsAddressed
<1>1. RegistryInv /\ [Next]_vars => [ModeStep]_devices  BY NextKeepsModes
<1>2. Spec => [][ModeStep]_devices  BY <1>1, RegistryInvariant, PTL DEF Spec
<1> QED  BY <1>2 DEF ModeStep, ModeIsAddressed
==================================================================================
