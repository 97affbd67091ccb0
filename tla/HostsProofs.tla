---------------------------- MODULE HostsProofs ----------------------------
(***************************************************************************)
(* The safety of Hosts for any number of hosts and requests.  The          *)
(* inductive invariant adds to the properties what an id is between its    *)
(* choice and its row, which rows belong to agents and which are retired,  *)
(* and that the races of the worker threads touch contested hosts only.    *)
(***************************************************************************)
EXTENDS Hosts, TLAPS, FiniteSetTheorems

Adding(h) == task[h] \in {"adding", "saving"}

(* TypeOK in the form the provers work with. *)
Typed ==
    /\ row \in [Ids -> DockerHostDB] /\ agent \in [Ids -> Agent]
    /\ token.kind \in {None, "single", "multi"} /\ token.uses \in Nat
    /\ token = [kind |-> token.kind, uses |-> token.uses]
    /\ filed \in [Settings -> Ids \cup {None}]
    /\ mem \in [Ids -> {"absent", "docker", "agent"}]
    /\ linked \subseteq Ids /\ born \subseteq Ids /\ online \subseteq Ids
    /\ clients \subseteq Ids /\ certs \subseteq Ids /\ due \subseteq Ids /\ contested \subseteq Ids
    /\ task \in [Ids -> {"idle", "adding", "saving", "closing", "pinging"}]
    /\ leaving \in [Ids -> {"no", "unlinking", "unregistering"}]
    /\ retiring \in [Ids -> {"no", "announcing", "cleaning"}]
    /\ poll \in {Idle} \cup [host : Ids, at : {"connecting", "announcing", "registering", "listing"}]
    /\ held \in BOOLEAN
    /\ previous \in [Ids -> {"unknown", "online", "offline"}]
    /\ told \in [Ids -> {"nothing", "up", "down"}]
    /\ requests \in 0..MaxRequests

(* Every use of a token takes a new id, and a single one is used once. *)
TokenInv == token.uses <= Cardinality(born) /\ (token.kind = "single" => token.uses <= 1)

(* OneAgentPerEngine without cardinalities. *)
StrictInv == \A g, h \in Ids : agent[g] = "strict" /\ agent[h] = "strict" => g = h

(* Agents belong to agent rows, retired rows are remote and inactive, and  *)
(* an id has no row before add_host has saved one; what add_host is adding *)
(* cannot be migrating.                                                    *)
RowInv(h) ==
    /\ agent[h] # None => row[h].kind = "agent"
    /\ row[h].replaced # None => row[h].kind = "remote" /\ ~row[h].active
    /\ row[h].kind = None => row[h] = NoRow
    /\ h \notin born => row[h] = NoRow /\ task[h] = "idle" /\ leaving[h] = "no" /\ retiring[h] = "no"
    /\ Adding(h) => row[h] = NoRow /\ retiring[h] # "announcing"
    /\ retiring[h] = "announcing" => ~row[h].active

RowsInv == \A h \in Ids : RowInv(h)

(* An edit makes a host contested, and so does the removal of a host that  *)
(* is being added; otherwise add_host still finds the host it has entered. *)
ContestInv ==
    \A h \in Ids :
      /\ task[h] \in {"closing", "pinging"} => h \in contested
      /\ task[h] = "adding" => leaving[h] = "no"
      /\ Adding(h) /\ leaving[h] # "no" => h \in contested
      /\ task[h] = "saving" /\ mem[h] = "absent" => h \in contested

(* Before add_host has connected, nothing knows of the id. *)
FreshInv ==
    \A h \in Ids :
      h \notin born \/ task[h] = "adding" =>
        /\ mem[h] = "absent" /\ h \notin clients /\ poll.host # h
        /\ previous[h] = "unknown" /\ told[h] = "nothing"

(* A host that is being forgotten does not become a Docker host again. *)
ForgottenInv ==
    \A h \in Ids \ contested : leaving[h] = "unregistering" => mem[h] # "docker"

HostsInv ==
    /\ Typed /\ TokenInv /\ StrictInv /\ RowsInv /\ ContestInv /\ FreshInv /\ ForgottenInv
    /\ ClientHasHost /\ RetiredStaysRetired /\ ActiveIsMonitored /\ ReportedIsKnown

USE HostsAssumption DEF db, memory, polling, None, Kinds, Settings, NoRow, Idle, NoToken,
                        DockerHostDB, Agent, departing

----------------------------------------------------------------------------
(* Ids are used up one by one. *)
LEMMA BornGrows ==
  ASSUME Typed
  PROVE  /\ Cardinality(born) \in Nat
         /\ \A h \in Ids \ born : Cardinality(born \cup {h}) = Cardinality(born) + 1
<1>1. IsFiniteSet(born)
  BY FS_Subset DEF Typed
<1>. QED  BY <1>1, FS_CardinalityType, FS_AddElement

(* What the updates of a row's columns give. *)
LEMMA RowRecords ==
  ASSUME NEW r \in DockerHostDB, NEW h \in Ids
  PROVE  /\ [r EXCEPT !.engine = TRUE] \in DockerHostDB
         /\ [r EXCEPT !.replaced = h, !.active = FALSE] \in DockerHostDB
         /\ [r EXCEPT !.kind = "agent"] \in DockerHostDB
OBVIOUS

(* The empty database satisfies the invariant. *)
LEMMA InitHostsInv == Init => HostsInv
<1> SUFFICES ASSUME Init PROVE HostsInv
  OBVIOUS
<1>0. Typed
  <2>1. token.kind = None /\ token.uses = 0 /\ token = [kind |-> token.kind, uses |-> token.uses]
    BY DEF Init
  <2>2. row \in [Ids -> DockerHostDB] /\ agent \in [Ids -> Agent]
    BY DEF Init
  <2>3. /\ filed \in [Settings -> Ids \cup {None}]
        /\ mem \in [Ids -> {"absent", "docker", "agent"}]
        /\ task \in [Ids -> {"idle", "adding", "saving", "closing", "pinging"}]
        /\ leaving \in [Ids -> {"no", "unlinking", "unregistering"}]
        /\ retiring \in [Ids -> {"no", "announcing", "cleaning"}]
        /\ previous \in [Ids -> {"unknown", "online", "offline"}]
        /\ told \in [Ids -> {"nothing", "up", "down"}]
    BY DEF Init
  <2>4. /\ linked = {} /\ born = {} /\ online = {} /\ clients = {} /\ certs = {} /\ due = Ids
        /\ contested = {} /\ requests = 0 /\ poll = Idle /\ held = FALSE
    BY DEF Init
  <2>5. poll \in {Idle} \cup [host : Ids, at : {"connecting", "announcing", "registering", "listing"}]
    BY <2>4, Zenon
  <2>8. held \in BOOLEAN /\ due \subseteq Ids
    BY <2>4, Zenon
  <2>9. requests \in 0..MaxRequests
    BY <2>4
  <2>6. token.kind \in {None, "single", "multi"} /\ token.uses \in Nat
    BY <2>1
  <2>7. /\ linked \subseteq Ids /\ born \subseteq Ids /\ online \subseteq Ids
        /\ clients \subseteq Ids /\ certs \subseteq Ids /\ contested \subseteq Ids
    BY <2>4
  <2>. QED  BY <2>1, <2>2, <2>3, <2>5, <2>6, <2>7, <2>8, <2>9, Zenon DEF Typed
<1>1. StrictInv /\ RowsInv /\ ContestInv /\ FreshInv /\ ForgottenInv
  BY DEF Init, StrictInv, RowsInv, RowInv, ContestInv, FreshInv, ForgottenInv, Adding
<1>2. TokenInv
  BY FS_EmptySet DEF Init, TokenInv
<1>3. ClientHasHost /\ RetiredStaysRetired /\ ActiveIsMonitored /\ ReportedIsKnown
  BY DEF Init, ClientHasHost, RetiredStaysRetired, ActiveIsMonitored, ReportedIsKnown,
         ActiveRows, Exists
<1>. QED  BY <1>0, <1>1, <1>2, <1>3 DEF HostsInv

(* add_host. *)
LEMMA AddSteps ==
  ASSUME HostsInv, NEW h \in Ids,
         AddHost(h) \/ AddHostConnects(h) \/ AddHostSaves(h) \/ AddHostFails(h)
  PROVE  HostsInv'
<1> USE DEF HostsInv
<1>1. CASE AddHost(h)
  <2>1. Typed'
    BY <1>1 DEF Typed, AddHost
  <2>2. StrictInv'
    BY <1>1 DEF Typed, StrictInv, AddHost
  <2>3. TokenInv'
    BY <1>1, BornGrows DEF Typed, TokenInv, AddHost
  <2>4. RowsInv'
    BY <1>1 DEF Typed, RowsInv, RowInv, Adding, AddHost
  <2>5. (ContestInv /\ FreshInv /\ ForgottenInv)'
    BY <1>1 DEF Typed, ContestInv, RowsInv, FreshInv, ForgottenInv, Adding,
          RowInv, AddHost
  <2>6. (ClientHasHost /\ RetiredStaysRetired)'
    BY <1>1 DEF Typed, ClientHasHost, FreshInv, RowsInv, ContestInv,
          RetiredStaysRetired, RowInv, Adding, AddHost
  <2>7. (ActiveIsMonitored /\ ReportedIsKnown)'
    BY <1>1 DEF Typed, ActiveIsMonitored, FreshInv, RowsInv, ContestInv,
          ReportedIsKnown, ForgottenInv, ActiveRows, Exists, RowInv, Adding,
          AddHost
  <2>. QED  BY <2>1, <2>2, <2>3, <2>4, <2>5, <2>6, <2>7
<1>2. CASE AddHostConnects(h)
  <2>1. Typed'
    BY <1>2 DEF Typed, AddHostConnects
  <2>2. (TokenInv /\ StrictInv)'
    BY <1>2 DEF Typed, TokenInv, StrictInv, AddHostConnects
  <2>3. RowsInv'
    BY <1>2 DEF Typed, RowsInv, RowInv, Adding, AddHostConnects
  <2>4. (ContestInv /\ FreshInv /\ ForgottenInv)'
    BY <1>2 DEF Typed, ContestInv, RowsInv, FreshInv, ForgottenInv, Adding,
          RowInv, AddHostConnects
  <2>5. (ClientHasHost /\ RetiredStaysRetired)'
    BY <1>2 DEF Typed, ClientHasHost, FreshInv, RowsInv, ContestInv,
          RetiredStaysRetired, RowInv, Adding, AddHostConnects
  <2>6. (ActiveIsMonitored /\ ReportedIsKnown)'
    BY <1>2 DEF Typed, ActiveIsMonitored, FreshInv, RowsInv, ContestInv,
          ReportedIsKnown, ForgottenInv, ActiveRows, Exists, RowInv, Adding,
          AddHostConnects
  <2>. QED  BY <2>1, <2>2, <2>3, <2>4, <2>5, <2>6
<1>3. CASE AddHostSaves(h)
  <2>1. Typed'
    BY <1>3 DEF Typed, AddHostSaves, NewRow
  <2>2. (TokenInv /\ StrictInv)'
    BY <1>3 DEF Typed, TokenInv, StrictInv, AddHostSaves, NewRow
  <2>3. RowsInv'
    <3> SUFFICES ASSUME NEW g \in Ids PROVE RowInv(g)'
      BY DEF RowsInv
    <3>1. CASE g = h
      BY <1>3, <3>1 DEF Typed, RowsInv, RowInv, Adding, AddHostSaves, NewRow
    <3>2. CASE g # h
      BY <1>3, <3>2 DEF Typed, RowsInv, RowInv, Adding, AddHostSaves, NewRow
    <3>. QED  BY <3>1, <3>2
  <2>4. (ContestInv /\ FreshInv /\ ForgottenInv)'
    BY <1>3 DEF Typed, ContestInv, RowsInv, FreshInv, ForgottenInv, Adding,
          RowInv, AddHostSaves, NewRow
  <2>5. (ClientHasHost /\ RetiredStaysRetired)'
    BY <1>3 DEF Typed, ClientHasHost, FreshInv, RowsInv, ContestInv,
          RetiredStaysRetired, RowInv, Adding, AddHostSaves, NewRow
  <2>6. ActiveIsMonitored'
    BY <1>3 DEF Typed, ActiveIsMonitored, FreshInv, RowsInv, ContestInv,
          ActiveRows, Exists, RowInv, Adding, AddHostSaves, NewRow
  <2>7. ReportedIsKnown'
    BY <1>3 DEF Typed, ReportedIsKnown, FreshInv, RowsInv, ContestInv,
          ForgottenInv, RowInv, Adding, AddHostSaves, NewRow
  <2>. QED  BY <2>1, <2>2, <2>3, <2>4, <2>5, <2>6, <2>7
<1>4. CASE AddHostFails(h)
  <2>1. Typed'
    BY <1>4 DEF Typed, AddHostFails
  <2>2. (TokenInv /\ StrictInv)'
    BY <1>4 DEF Typed, TokenInv, StrictInv, AddHostFails
  <2>3. RowsInv'
    BY <1>4 DEF Typed, RowsInv, RowInv, Adding, AddHostFails
  <2>4. (ContestInv /\ FreshInv /\ ForgottenInv)'
    BY <1>4 DEF Typed, ContestInv, RowsInv, FreshInv, ForgottenInv, Adding,
          RowInv, AddHostFails
  <2>5. (ClientHasHost /\ RetiredStaysRetired)'
    BY <1>4 DEF Typed, ClientHasHost, FreshInv, RowsInv, ContestInv,
          RetiredStaysRetired, RowInv, Adding, AddHostFails
  <2>6. (ActiveIsMonitored /\ ReportedIsKnown)'
    BY <1>4 DEF Typed, ActiveIsMonitored, FreshInv, RowsInv, ContestInv,
          ReportedIsKnown, ForgottenInv, ActiveRows, Exists, RowInv, Adding,
          AddHostFails
  <2>. QED  BY <2>1, <2>2, <2>3, <2>4, <2>5, <2>6
<1>. QED  BY <1>1, <1>2, <1>3, <1>4

(* update_host. *)
LEMMA UpdateSteps ==
  ASSUME HostsInv, NEW h \in Ids,
         UpdateHost(h) \/ UpdateForgets(h) \/ UpdateToAgent(h) \/
         UpdateConnects(h) \/ UpdateFails(h)
  PROVE  HostsInv'
<1> USE DEF HostsInv
<1>1. CASE UpdateHost(h)
  <2>1. Typed'
    BY <1>1 DEF Typed, UpdateHost, Request, Exists
  <2>2. (TokenInv /\ StrictInv)'
    BY <1>1 DEF Typed, TokenInv, StrictInv, UpdateHost, Request, Exists
  <2>3. RowsInv'
    BY <1>1 DEF Typed, RowsInv, RowInv, Adding, UpdateHost, Request, Exists
  <2>4. (ContestInv /\ FreshInv /\ ForgottenInv)'
    BY <1>1 DEF Typed, ContestInv, RowsInv, FreshInv, ForgottenInv, Adding,
          RowInv, UpdateHost, Request, Exists
  <2>5. (ClientHasHost /\ RetiredStaysRetired)'
    BY <1>1 DEF Typed, ClientHasHost, FreshInv, RowsInv, ContestInv,
          RetiredStaysRetired, RowInv, Adding, UpdateHost, Request, Exists
  <2>6. (ActiveIsMonitored /\ ReportedIsKnown)'
    BY <1>1 DEF Typed, ActiveIsMonitored, FreshInv, RowsInv, ContestInv,
          ReportedIsKnown, ForgottenInv, ActiveRows, Exists, RowInv, Adding,
          UpdateHost, Request
  <2>. QED  BY <2>1, <2>2, <2>3, <2>4, <2>5, <2>6
<1>2. CASE UpdateForgets(h)
  <2>1. Typed'
    BY <1>2 DEF Typed, UpdateForgets, Exists
  <2>2. (TokenInv /\ StrictInv)'
    BY <1>2 DEF Typed, TokenInv, StrictInv, UpdateForgets, Exists
  <2>3. RowsInv'
    BY <1>2 DEF Typed, RowsInv, RowInv, Adding, UpdateForgets, Exists
  <2>4. (ContestInv /\ FreshInv /\ ForgottenInv)'
    BY <1>2 DEF Typed, ContestInv, RowsInv, FreshInv, ForgottenInv, Adding,
          RowInv, UpdateForgets, Exists
  <2>5. (ClientHasHost /\ RetiredStaysRetired)'
    BY <1>2 DEF Typed, ClientHasHost, FreshInv, RowsInv, ContestInv,
          RetiredStaysRetired, RowInv, Adding, UpdateForgets, Exists
  <2>6. (ActiveIsMonitored /\ ReportedIsKnown)'
    BY <1>2 DEF Typed, ActiveIsMonitored, FreshInv, RowsInv, ContestInv,
          ReportedIsKnown, ForgottenInv, ActiveRows, Exists, RowInv, Adding,
          UpdateForgets
  <2>. QED  BY <2>1, <2>2, <2>3, <2>4, <2>5, <2>6
<1>3. CASE UpdateToAgent(h)
  <2>1. Typed'
    BY <1>3 DEF Typed, UpdateToAgent
  <2>2. (TokenInv /\ StrictInv)'
    BY <1>3 DEF Typed, TokenInv, StrictInv, UpdateToAgent
  <2>3. RowsInv'
    BY <1>3 DEF Typed, RowsInv, RowInv, Adding, UpdateToAgent
  <2>4. (ContestInv /\ FreshInv /\ ForgottenInv)'
    BY <1>3 DEF Typed, ContestInv, RowsInv, FreshInv, ForgottenInv, Adding,
          RowInv, UpdateToAgent
  <2>5. (ClientHasHost /\ RetiredStaysRetired)'
    BY <1>3 DEF Typed, ClientHasHost, FreshInv, RowsInv, ContestInv,
          RetiredStaysRetired, RowInv, Adding, UpdateToAgent
  <2>6. (ActiveIsMonitored /\ ReportedIsKnown)'
    BY <1>3 DEF Typed, ActiveIsMonitored, FreshInv, RowsInv, ContestInv,
          ReportedIsKnown, ForgottenInv, ActiveRows, Exists, RowInv, Adding,
          UpdateToAgent
  <2>. QED  BY <2>1, <2>2, <2>3, <2>4, <2>5, <2>6
<1>4. CASE UpdateConnects(h)
  <2>1. Typed'
    BY <1>4 DEF Typed, UpdateConnects
  <2>2. (TokenInv /\ StrictInv)'
    BY <1>4 DEF Typed, TokenInv, StrictInv, UpdateConnects
  <2>3. RowsInv'
    BY <1>4 DEF Typed, RowsInv, RowInv, Adding, UpdateConnects
  <2>4. (ContestInv /\ FreshInv /\ ForgottenInv)'
    BY <1>4 DEF Typed, ContestInv, RowsInv, FreshInv, ForgottenInv, Adding,
          RowInv, UpdateConnects
  <2>5. (ClientHasHost /\ RetiredStaysRetired)'
    BY <1>4 DEF Typed, ClientHasHost, FreshInv, RowsInv, ContestInv,
          RetiredStaysRetired, RowInv, Adding, UpdateConnects
  <2>6. (ActiveIsMonitored /\ ReportedIsKnown)'
    BY <1>4 DEF Typed, ActiveIsMonitored, FreshInv, RowsInv, ContestInv,
          ReportedIsKnown, ForgottenInv, ActiveRows, Exists, RowInv, Adding,
          UpdateConnects
  <2>. QED  BY <2>1, <2>2, <2>3, <2>4, <2>5, <2>6
<1>5. CASE UpdateFails(h)
  <2>1. Typed'
    BY <1>5 DEF Typed, UpdateFails
  <2>2. (TokenInv /\ StrictInv)'
    BY <1>5 DEF Typed, TokenInv, StrictInv, UpdateFails
  <2>3. RowsInv'
    BY <1>5 DEF Typed, RowsInv, RowInv, Adding, UpdateFails
  <2>4. (ContestInv /\ FreshInv /\ ForgottenInv)'
    BY <1>5 DEF Typed, ContestInv, RowsInv, FreshInv, ForgottenInv, Adding,
          RowInv, UpdateFails
  <2>5. (ClientHasHost /\ RetiredStaysRetired)'
    BY <1>5 DEF Typed, ClientHasHost, FreshInv, RowsInv, ContestInv,
          RetiredStaysRetired, RowInv, Adding, UpdateFails
  <2>6. (ActiveIsMonitored /\ ReportedIsKnown)'
    BY <1>5 DEF Typed, ActiveIsMonitored, FreshInv, RowsInv, ContestInv,
          ReportedIsKnown, ForgottenInv, ActiveRows, Exists, RowInv, Adding,
          UpdateFails
  <2>. QED  BY <2>1, <2>2, <2>3, <2>4, <2>5, <2>6
<1>. QED  BY <1>1, <1>2, <1>3, <1>4, <1>5

(* remove_host. *)
LEMMA RemoveSteps ==
  ASSUME HostsInv, NEW h \in Ids,
         RemoveHost(h) \/ RemoveForgets(h) \/ RemoveDeletes(h) \/
         RemoveUnmonitored(h)
  PROVE  HostsInv'
<1> USE DEF HostsInv
<1>1. CASE RemoveHost(h)
  <2>1. Typed'
    BY <1>1 DEF Typed, RemoveHost, Request
  <2>2. (TokenInv /\ StrictInv)'
    BY <1>1 DEF Typed, TokenInv, StrictInv, RemoveHost, Request
  <2>3. RowsInv'
    <3> SUFFICES ASSUME NEW g \in Ids PROVE RowInv(g)'
      BY DEF RowsInv
    <3>1. CASE g = h
      BY <1>1, <3>1 DEF Typed, RowsInv, FreshInv, RowInv, Adding, RemoveHost, Request
    <3>2. CASE g # h
      BY <1>1, <3>2 DEF Typed, RowsInv, FreshInv, RowInv, Adding, RemoveHost, Request
    <3>. QED  BY <3>1, <3>2
  <2>4. (ContestInv /\ FreshInv /\ ForgottenInv)'
    BY <1>1 DEF Typed, ContestInv, RowsInv, FreshInv, ForgottenInv, Adding,
          RowInv, RemoveHost, Request
  <2>5. (ClientHasHost /\ RetiredStaysRetired)'
    BY <1>1 DEF Typed, ClientHasHost, FreshInv, RowsInv, ContestInv,
          RetiredStaysRetired, RowInv, Adding, RemoveHost, Request
  <2>6. (ActiveIsMonitored /\ ReportedIsKnown)'
    BY <1>1 DEF Typed, ActiveIsMonitored, FreshInv, RowsInv, ContestInv,
          ReportedIsKnown, ForgottenInv, ActiveRows, Exists, RowInv, Adding,
          RemoveHost, Request
  <2>. QED  BY <2>1, <2>2, <2>3, <2>4, <2>5, <2>6
<1>2. CASE RemoveForgets(h)
  <2>1. Typed'
    <3>1. CASE mem[h] # "absent"
      <4>1. UNCHANGED <<retiring, db, linked, born, certs, task, poll, due, previous, told,
                        contested, requests>>
        BY <1>2 DEF RemoveForgets
      <4>2. /\ leaving' = [leaving EXCEPT ![h] = "unregistering"]
            /\ mem' = [mem EXCEPT ![h] = "absent"] /\ online' = online \ {h}
            /\ clients' = clients \ {h} /\ held' = (held /\ poll.host # h)
        BY <1>2, <3>1 DEF RemoveForgets, Forget
      <4>3. /\ leaving' \in [Ids -> {"no", "unlinking", "unregistering"}]
            /\ mem' \in [Ids -> {"absent", "docker", "agent"}]
            /\ online' \subseteq Ids /\ clients' \subseteq Ids
        BY <4>2 DEF Typed
      <4>4. held' \in BOOLEAN
        BY <4>2
      <4>. QED  BY <4>1, <4>3, <4>4 DEF Typed
    <3>2. CASE mem[h] = "absent"
      BY <1>2, <3>2 DEF Typed, RemoveForgets
    <3>. QED  BY <3>1, <3>2
  <2>2. (TokenInv /\ StrictInv)'
    BY <1>2 DEF Typed, TokenInv, StrictInv, RemoveForgets, Forget
  <2>3. RowsInv'
    BY <1>2 DEF Typed, RowsInv, RowInv, Adding, RemoveForgets, Forget
  <2>4. (ContestInv /\ FreshInv /\ ForgottenInv)'
    BY <1>2 DEF Typed, ContestInv, RowsInv, FreshInv, ForgottenInv, Adding,
          RowInv, RemoveForgets, Forget
  <2>5. (ClientHasHost /\ RetiredStaysRetired)'
    BY <1>2 DEF Typed, ClientHasHost, FreshInv, RowsInv, ContestInv,
          RetiredStaysRetired, RowInv, Adding, RemoveForgets, Forget
  <2>6. (ActiveIsMonitored /\ ReportedIsKnown)'
    BY <1>2 DEF Typed, ActiveIsMonitored, FreshInv, RowsInv, ContestInv,
          ReportedIsKnown, ForgottenInv, ActiveRows, Exists, RowInv, Adding,
          RemoveForgets, Forget
  <2>. QED  BY <2>1, <2>2, <2>3, <2>4, <2>5, <2>6
<1>3. CASE RemoveDeletes(h)
  <2>1. Typed'
    BY <1>3 DEF Typed, RemoveDeletes, DeleteRows, Deleted, Exists
  <2>2. (TokenInv /\ StrictInv)'
    BY <1>3 DEF Typed, TokenInv, StrictInv, RemoveDeletes, DeleteRows, Deleted,
          Exists
  <2>3. RowsInv'
    <3> SUFFICES ASSUME NEW g \in Ids PROVE RowInv(g)'
      BY DEF RowsInv
    <3>1. \/ row'[g] = NoRow /\ agent'[g] = None
          \/ row'[g] = row[g] /\ agent'[g] = agent[g]
      BY <1>3 DEF RemoveDeletes, DeleteRows
    <3>2. RowInv(g) /\ RowInv(h)
      BY DEF RowsInv
    <3>3. /\ born' = born /\ task' = task /\ retiring' = retiring
          /\ leaving' = [leaving EXCEPT ![h] = "no"] /\ leaving[h] = "unregistering"
      BY <1>3 DEF RemoveDeletes
    <3>4. leaving'[g] = leaving[g] \/ leaving'[g] = "no"
      BY <3>3 DEF Typed
    <3>5. born' = born /\ task'[g] = task[g] /\ retiring'[g] = retiring[g]
      BY <3>3
    <3>. QED  BY <3>1, <3>2, <3>4, <3>5 DEF RowInv, Adding
  <2>4. (ContestInv /\ FreshInv /\ ForgottenInv)'
    BY <1>3 DEF Typed, ContestInv, RowsInv, FreshInv, ForgottenInv, Adding,
          RowInv, RemoveDeletes, DeleteRows, Deleted, Exists
  <2>5. (ClientHasHost /\ RetiredStaysRetired)'
    BY <1>3 DEF Typed, ClientHasHost, FreshInv, RowsInv, ContestInv,
          RetiredStaysRetired, RowInv, Adding, RemoveDeletes, DeleteRows, Deleted,
          Exists
  <2>6. (ActiveIsMonitored /\ ReportedIsKnown)'
    BY <1>3 DEF Typed, ActiveIsMonitored, FreshInv, RowsInv, ContestInv,
          ReportedIsKnown, ForgottenInv, ActiveRows, Exists, RowInv, Adding,
          RemoveDeletes, DeleteRows, Deleted
  <2>. QED  BY <2>1, <2>2, <2>3, <2>4, <2>5, <2>6
<1>4. CASE RemoveUnmonitored(h)
  <2>1. Typed'
    BY <1>4 DEF Typed, RemoveUnmonitored, Request, Exists, DeleteRows, Deleted
  <2>2. (TokenInv /\ StrictInv)'
    BY <1>4 DEF Typed, TokenInv, StrictInv, RemoveUnmonitored, Request, Exists,
          DeleteRows, Deleted
  <2>3. RowsInv'
    BY <1>4 DEF Typed, RowsInv, RowInv, Adding, RemoveUnmonitored, Request,
          Exists, DeleteRows, Deleted
  <2>4. (ContestInv /\ FreshInv /\ ForgottenInv)'
    BY <1>4 DEF Typed, ContestInv, RowsInv, FreshInv, ForgottenInv, Adding,
          RowInv, RemoveUnmonitored, Request, Exists, DeleteRows, Deleted
  <2>5. (ClientHasHost /\ RetiredStaysRetired)'
    BY <1>4 DEF Typed, ClientHasHost, FreshInv, RowsInv, ContestInv,
          RetiredStaysRetired, RowInv, Adding, RemoveUnmonitored, Request, Exists,
          DeleteRows, Deleted
  <2>6. (ActiveIsMonitored /\ ReportedIsKnown)'
    BY <1>4 DEF Typed, ActiveIsMonitored, FreshInv, RowsInv, ContestInv,
          ReportedIsKnown, ForgottenInv, ActiveRows, Exists, RowInv, Adding,
          RemoveUnmonitored, Request, DeleteRows, Deleted
  <2>. QED  BY <2>1, <2>2, <2>3, <2>4, <2>5, <2>6
<1>. QED  BY <1>1, <1>2, <1>3, <1>4

(* A known agent comes and goes, and a migration is cleaned up. *)
LEMMA AgentSteps ==
  ASSUME HostsInv, NEW h \in Ids,
         MigrationForgets(h) \/ MigrationUnregisters(h) \/
         AgentReconnects(h) \/ AgentDisconnects(h) \/ ValidateEngine(h)
  PROVE  HostsInv'
<1> USE DEF HostsInv
<1>1. CASE MigrationForgets(h)
  <2>1. Typed'
    BY <1>1 DEF Typed, MigrationForgets, Forget
  <2>2. (TokenInv /\ StrictInv)'
    BY <1>1 DEF Typed, TokenInv, StrictInv, MigrationForgets, Forget
  <2>3. RowsInv'
    BY <1>1 DEF Typed, RowsInv, RowInv, Adding, MigrationForgets, Forget
  <2>4. (ContestInv /\ FreshInv /\ ForgottenInv)'
    BY <1>1 DEF Typed, ContestInv, RowsInv, FreshInv, ForgottenInv, Adding,
          RowInv, MigrationForgets, Forget
  <2>5. (ClientHasHost /\ RetiredStaysRetired)'
    BY <1>1 DEF Typed, ClientHasHost, FreshInv, RowsInv, ContestInv,
          RetiredStaysRetired, RowInv, Adding, MigrationForgets, Forget
  <2>6. (ActiveIsMonitored /\ ReportedIsKnown)'
    BY <1>1 DEF Typed, ActiveIsMonitored, FreshInv, RowsInv, ContestInv,
          ReportedIsKnown, ForgottenInv, ActiveRows, Exists, RowInv, Adding,
          MigrationForgets, Forget
  <2>. QED  BY <2>1, <2>2, <2>3, <2>4, <2>5, <2>6
<1>2. CASE MigrationUnregisters(h)
  <2>1. Typed'
    BY <1>2 DEF Typed, MigrationUnregisters
  <2>2. (TokenInv /\ StrictInv)'
    BY <1>2 DEF Typed, TokenInv, StrictInv, MigrationUnregisters
  <2>3. RowsInv'
    BY <1>2 DEF Typed, RowsInv, RowInv, Adding, MigrationUnregisters
  <2>4. (ContestInv /\ FreshInv /\ ForgottenInv)'
    BY <1>2 DEF Typed, ContestInv, RowsInv, FreshInv, ForgottenInv, Adding,
          RowInv, MigrationUnregisters
  <2>5. (ClientHasHost /\ RetiredStaysRetired)'
    BY <1>2 DEF Typed, ClientHasHost, FreshInv, RowsInv, ContestInv,
          RetiredStaysRetired, RowInv, Adding, MigrationUnregisters
  <2>6. (ActiveIsMonitored /\ ReportedIsKnown)'
    BY <1>2 DEF Typed, ActiveIsMonitored, FreshInv, RowsInv, ContestInv,
          ReportedIsKnown, ForgottenInv, ActiveRows, Exists, RowInv, Adding,
          MigrationUnregisters
  <2>. QED  BY <2>1, <2>2, <2>3, <2>4, <2>5, <2>6
<1>3. CASE AgentReconnects(h)
  <2>1. Typed'
    <3>1. UNCHANGED <<agent, token, filed, born, certs, task, departing, polling, contested, requests>>
      BY <1>3 DEF AgentReconnects
    <3>2. row' = row \/ row' = [row EXCEPT ![h].kind = "agent"]
      BY <1>3 DEF AgentReconnects
    <3>3. row' \in [Ids -> DockerHostDB]
      BY <3>2 DEF Typed
    <3>4. /\ mem' \in [Ids -> {"absent", "docker", "agent"}] /\ linked' \subseteq Ids
          /\ online' \subseteq Ids /\ clients' \subseteq Ids
      BY <1>3 DEF Typed, AgentReconnects, EnterAgentHost
    <3>. QED  BY <3>1, <3>3, <3>4 DEF Typed
  <2>2. (TokenInv /\ StrictInv)'
    BY <1>3 DEF Typed, TokenInv, StrictInv, AgentReconnects, EnterAgentHost
  <2>3. RowsInv'
    <3> SUFFICES ASSUME NEW g \in Ids PROVE RowInv(g)'
      BY DEF RowsInv
    <3>1. CASE g = h
      BY <1>3, <3>1 DEF Typed, RowsInv, RowInv, Adding, AgentReconnects,
        EnterAgentHost
    <3>2. CASE g # h
      BY <1>3, <3>2 DEF Typed, RowsInv, RowInv, Adding, AgentReconnects,
        EnterAgentHost
    <3>. QED  BY <3>1, <3>2
  <2>4. (ContestInv /\ FreshInv /\ ForgottenInv)'
    BY <1>3 DEF Typed, ContestInv, RowsInv, FreshInv, ForgottenInv, Adding,
          RowInv, AgentReconnects, EnterAgentHost
  <2>5. (ClientHasHost /\ RetiredStaysRetired)'
    BY <1>3 DEF Typed, ClientHasHost, FreshInv, RowsInv, ContestInv,
          RetiredStaysRetired, RowInv, Adding, AgentReconnects, EnterAgentHost
  <2>6. (ActiveIsMonitored /\ ReportedIsKnown)'
    BY <1>3 DEF Typed, ActiveIsMonitored, FreshInv, RowsInv, ContestInv,
          ReportedIsKnown, ForgottenInv, ActiveRows, Exists, RowInv, Adding,
          AgentReconnects, EnterAgentHost
  <2>. QED  BY <2>1, <2>2, <2>3, <2>4, <2>5, <2>6
<1>4. CASE AgentDisconnects(h)
  <2>1. Typed'
    BY <1>4 DEF Typed, AgentDisconnects
  <2>2. (TokenInv /\ StrictInv)'
    BY <1>4 DEF Typed, TokenInv, StrictInv, AgentDisconnects
  <2>3. RowsInv'
    BY <1>4 DEF Typed, RowsInv, RowInv, Adding, AgentDisconnects
  <2>4. (ContestInv /\ FreshInv /\ ForgottenInv)'
    BY <1>4 DEF Typed, ContestInv, RowsInv, FreshInv, ForgottenInv, Adding,
          RowInv, AgentDisconnects
  <2>5. (ClientHasHost /\ RetiredStaysRetired)'
    BY <1>4 DEF Typed, ClientHasHost, FreshInv, RowsInv, ContestInv,
          RetiredStaysRetired, RowInv, Adding, AgentDisconnects
  <2>6. (ActiveIsMonitored /\ ReportedIsKnown)'
    BY <1>4 DEF Typed, ActiveIsMonitored, FreshInv, RowsInv, ContestInv,
          ReportedIsKnown, ForgottenInv, ActiveRows, Exists, RowInv, Adding,
          AgentDisconnects
  <2>. QED  BY <2>1, <2>2, <2>3, <2>4, <2>5, <2>6
<1>5. CASE ValidateEngine(h)
  <2>1. Typed'
    <3>0. row[h] \in DockerHostDB
      BY DEF Typed
    <3>1. [row[h] EXCEPT !.engine = TRUE] \in DockerHostDB
      BY <3>0, RowRecords, Zenon
    <3>2. row' \in [Ids -> DockerHostDB]
      BY <1>5, <3>1 DEF Typed, ValidateEngine
    <3>. QED  BY <1>5, <3>2 DEF Typed, ValidateEngine
  <2>2. (TokenInv /\ StrictInv)'
    BY <1>5 DEF Typed, TokenInv, StrictInv, ValidateEngine, ActiveRows, Exists
  <2>3. RowsInv'
    <3> SUFFICES ASSUME NEW g \in Ids PROVE RowInv(g)'
      BY DEF RowsInv
    <3>1. CASE g = h
      BY <1>5, <3>1 DEF Typed, RowsInv, RowInv, Adding, ValidateEngine, ActiveRows,
        Exists
    <3>2. CASE g # h
      BY <1>5, <3>2 DEF Typed, RowsInv, RowInv, Adding, ValidateEngine, ActiveRows,
        Exists
    <3>. QED  BY <3>1, <3>2
  <2>4. (ContestInv /\ FreshInv /\ ForgottenInv)'
    BY <1>5 DEF Typed, ContestInv, RowsInv, FreshInv, ForgottenInv, Adding,
          RowInv, ValidateEngine, ActiveRows, Exists
  <2>5. (ClientHasHost /\ RetiredStaysRetired)'
    BY <1>5 DEF Typed, ClientHasHost, FreshInv, RowsInv, ContestInv,
          RetiredStaysRetired, RowInv, Adding, ValidateEngine, ActiveRows, Exists
  <2>6. (ActiveIsMonitored /\ ReportedIsKnown)'
    BY <1>5 DEF Typed, ActiveIsMonitored, FreshInv, RowsInv, ContestInv,
          ReportedIsKnown, ForgottenInv, ActiveRows, Exists, RowInv, Adding,
          ValidateEngine
  <2>. QED  BY <2>1, <2>2, <2>3, <2>4, <2>5, <2>6
<1>. QED  BY <1>1, <1>2, <1>3, <1>4, <1>5

(* A host is polled and reconnected. *)
LEMMA ConnectSteps ==
  ASSUME HostsInv, NEW h \in Ids,
         Poll(h) \/ PollSkips(h) \/ PollAgent(h) \/ ConnectSucceeds(h) \/
         ConnectFails(h) \/ BackoffExpires(h)
  PROVE  HostsInv'
<1> USE DEF HostsInv
<1>1. CASE Poll(h)
  <2>1. Typed'
    BY <1>1 DEF Typed, Poll, GoTo, Exists
  <2>2. (TokenInv /\ StrictInv)'
    BY <1>1 DEF Typed, TokenInv, StrictInv, Poll, GoTo, Exists
  <2>3. RowsInv'
    BY <1>1 DEF Typed, RowsInv, RowInv, Adding, Poll, GoTo, Exists
  <2>4. (ContestInv /\ FreshInv /\ ForgottenInv)'
    BY <1>1 DEF Typed, ContestInv, RowsInv, FreshInv, ForgottenInv, Adding,
          RowInv, Poll, GoTo, Exists
  <2>5. (ClientHasHost /\ RetiredStaysRetired)'
    BY <1>1 DEF Typed, ClientHasHost, FreshInv, RowsInv, ContestInv,
          RetiredStaysRetired, RowInv, Adding, Poll, GoTo, Exists
  <2>6. (ActiveIsMonitored /\ ReportedIsKnown)'
    BY <1>1 DEF Typed, ActiveIsMonitored, FreshInv, RowsInv, ContestInv,
          ReportedIsKnown, ForgottenInv, ActiveRows, Exists, RowInv, Adding, Poll,
          GoTo
  <2>. QED  BY <2>1, <2>2, <2>3, <2>4, <2>5, <2>6
<1>2. CASE PollSkips(h)
  <2>1. Typed'
    BY <1>2 DEF Typed, PollSkips
  <2>2. (TokenInv /\ StrictInv)'
    BY <1>2 DEF Typed, TokenInv, StrictInv, PollSkips
  <2>3. RowsInv'
    BY <1>2 DEF Typed, RowsInv, RowInv, Adding, PollSkips
  <2>4. (ContestInv /\ FreshInv /\ ForgottenInv)'
    BY <1>2 DEF Typed, ContestInv, RowsInv, FreshInv, ForgottenInv, Adding,
          RowInv, PollSkips
  <2>5. (ClientHasHost /\ RetiredStaysRetired)'
    BY <1>2 DEF Typed, ClientHasHost, FreshInv, RowsInv, ContestInv,
          RetiredStaysRetired, RowInv, Adding, PollSkips
  <2>6. (ActiveIsMonitored /\ ReportedIsKnown)'
    BY <1>2 DEF Typed, ActiveIsMonitored, FreshInv, RowsInv, ContestInv,
          ReportedIsKnown, ForgottenInv, ActiveRows, Exists, RowInv, Adding,
          PollSkips
  <2>. QED  BY <2>1, <2>2, <2>3, <2>4, <2>5, <2>6
<1>3. CASE PollAgent(h)
  <2>1. Typed'
    <3>1. CASE h \in linked /\ agent[h] # None
      BY <1>3, <3>1 DEF Typed, PollAgent, GoTo
    <3>2. CASE ~(h \in linked /\ agent[h] # None)
      BY <1>3, <3>2 DEF Typed, PollAgent
    <3>. QED  BY <3>1, <3>2
  <2>2. (TokenInv /\ StrictInv)'
    BY <1>3 DEF Typed, TokenInv, StrictInv, PollAgent, GoTo
  <2>3. RowsInv'
    BY <1>3 DEF Typed, RowsInv, RowInv, Adding, PollAgent, GoTo
  <2>4. (ContestInv /\ FreshInv /\ ForgottenInv)'
    BY <1>3 DEF Typed, ContestInv, RowsInv, FreshInv, ForgottenInv, Adding,
          RowInv, PollAgent, GoTo
  <2>5. (ClientHasHost /\ RetiredStaysRetired)'
    BY <1>3 DEF Typed, ClientHasHost, FreshInv, RowsInv, ContestInv,
          RetiredStaysRetired, RowInv, Adding, PollAgent, GoTo
  <2>6. (ActiveIsMonitored /\ ReportedIsKnown)'
    BY <1>3 DEF Typed, ActiveIsMonitored, FreshInv, RowsInv, ContestInv,
          ReportedIsKnown, ForgottenInv, ActiveRows, Exists, RowInv, Adding,
          PollAgent, GoTo
  <2>. QED  BY <2>1, <2>2, <2>3, <2>4, <2>5, <2>6
<1>4. CASE ConnectSucceeds(h)
  <2>1. Typed'
    BY <1>4 DEF Typed, ConnectSucceeds, At, NewClients, GoTo
  <2>2. (TokenInv /\ StrictInv)'
    BY <1>4 DEF Typed, TokenInv, StrictInv, ConnectSucceeds, At, NewClients, GoTo
  <2>3. RowsInv'
    BY <1>4 DEF Typed, RowsInv, RowInv, Adding, ConnectSucceeds, At, NewClients,
          GoTo
  <2>4. (ContestInv /\ FreshInv /\ ForgottenInv)'
    BY <1>4 DEF Typed, ContestInv, RowsInv, FreshInv, ForgottenInv, Adding,
          RowInv, ConnectSucceeds, At, NewClients, GoTo
  <2>5. (ClientHasHost /\ RetiredStaysRetired)'
    BY <1>4 DEF Typed, ClientHasHost, FreshInv, RowsInv, ContestInv,
          RetiredStaysRetired, RowInv, Adding, ConnectSucceeds, At, NewClients,
          GoTo
  <2>6. (ActiveIsMonitored /\ ReportedIsKnown)'
    BY <1>4 DEF Typed, ActiveIsMonitored, FreshInv, RowsInv, ContestInv,
          ReportedIsKnown, ForgottenInv, ActiveRows, Exists, RowInv, Adding,
          ConnectSucceeds, At, NewClients, GoTo
  <2>. QED  BY <2>1, <2>2, <2>3, <2>4, <2>5, <2>6
<1>5. CASE ConnectFails(h)
  <2>1. Typed'
    BY <1>5 DEF Typed, ConnectFails, At
  <2>2. (TokenInv /\ StrictInv)'
    BY <1>5 DEF Typed, TokenInv, StrictInv, ConnectFails, At
  <2>3. RowsInv'
    BY <1>5 DEF Typed, RowsInv, RowInv, Adding, ConnectFails, At
  <2>4. (ContestInv /\ FreshInv /\ ForgottenInv)'
    BY <1>5 DEF Typed, ContestInv, RowsInv, FreshInv, ForgottenInv, Adding,
          RowInv, ConnectFails, At
  <2>5. (ClientHasHost /\ RetiredStaysRetired)'
    BY <1>5 DEF Typed, ClientHasHost, FreshInv, RowsInv, ContestInv,
          RetiredStaysRetired, RowInv, Adding, ConnectFails, At
  <2>6. (ActiveIsMonitored /\ ReportedIsKnown)'
    BY <1>5 DEF Typed, ActiveIsMonitored, FreshInv, RowsInv, ContestInv,
          ReportedIsKnown, ForgottenInv, ActiveRows, Exists, RowInv, Adding,
          ConnectFails, At
  <2>. QED  BY <2>1, <2>2, <2>3, <2>4, <2>5, <2>6
<1>6. CASE BackoffExpires(h)
  <2>1. Typed'
    BY <1>6 DEF Typed, BackoffExpires, BackoffOver
  <2>2. (TokenInv /\ StrictInv)'
    BY <1>6 DEF Typed, TokenInv, StrictInv, BackoffExpires, BackoffOver
  <2>3. RowsInv'
    BY <1>6 DEF Typed, RowsInv, RowInv, Adding, BackoffExpires, BackoffOver
  <2>4. (ContestInv /\ FreshInv /\ ForgottenInv)'
    BY <1>6 DEF Typed, ContestInv, RowsInv, FreshInv, ForgottenInv, Adding,
          RowInv, BackoffExpires, BackoffOver
  <2>5. (ClientHasHost /\ RetiredStaysRetired)'
    BY <1>6 DEF Typed, ClientHasHost, FreshInv, RowsInv, ContestInv,
          RetiredStaysRetired, RowInv, Adding, BackoffExpires, BackoffOver
  <2>6. (ActiveIsMonitored /\ ReportedIsKnown)'
    BY <1>6 DEF Typed, ActiveIsMonitored, FreshInv, RowsInv, ContestInv,
          ReportedIsKnown, ForgottenInv, ActiveRows, Exists, RowInv, Adding,
          BackoffExpires, BackoffOver
  <2>. QED  BY <2>1, <2>2, <2>3, <2>4, <2>5, <2>6
<1>. QED  BY <1>1, <1>2, <1>3, <1>4, <1>5, <1>6

(* A host is announced and listed. *)
LEMMA ListSteps ==
  ASSUME HostsInv, NEW h \in Ids,
         Announced(h) \/ Registered(h) \/ ListSucceeds(h) \/ ListFails(h) \/
         AgentLists(h)
  PROVE  HostsInv'
<1> USE DEF HostsInv
<1>1. CASE Announced(h)
  <2>1. Typed'
    BY <1>1 DEF Typed, Announced, At, GoTo
  <2>2. (TokenInv /\ StrictInv)'
    BY <1>1 DEF Typed, TokenInv, StrictInv, Announced, At, GoTo
  <2>3. RowsInv'
    BY <1>1 DEF Typed, RowsInv, RowInv, Adding, Announced, At, GoTo
  <2>4. (ContestInv /\ FreshInv /\ ForgottenInv)'
    BY <1>1 DEF Typed, ContestInv, RowsInv, FreshInv, ForgottenInv, Adding,
          RowInv, Announced, At, GoTo
  <2>5. (ClientHasHost /\ RetiredStaysRetired)'
    BY <1>1 DEF Typed, ClientHasHost, FreshInv, RowsInv, ContestInv,
          RetiredStaysRetired, RowInv, Adding, Announced, At, GoTo
  <2>6. (ActiveIsMonitored /\ ReportedIsKnown)'
    BY <1>1 DEF Typed, ActiveIsMonitored, FreshInv, RowsInv, ContestInv,
          ReportedIsKnown, ForgottenInv, ActiveRows, Exists, RowInv, Adding,
          Announced, At, GoTo
  <2>. QED  BY <2>1, <2>2, <2>3, <2>4, <2>5, <2>6
<1>2. CASE Registered(h)
  <2>1. Typed'
    BY <1>2 DEF Typed, Registered, At, GoTo
  <2>2. (TokenInv /\ StrictInv)'
    BY <1>2 DEF Typed, TokenInv, StrictInv, Registered, At, GoTo
  <2>3. RowsInv'
    BY <1>2 DEF Typed, RowsInv, RowInv, Adding, Registered, At, GoTo
  <2>4. (ContestInv /\ FreshInv /\ ForgottenInv)'
    BY <1>2 DEF Typed, ContestInv, RowsInv, FreshInv, ForgottenInv, Adding,
          RowInv, Registered, At, GoTo
  <2>5. (ClientHasHost /\ RetiredStaysRetired)'
    BY <1>2 DEF Typed, ClientHasHost, FreshInv, RowsInv, ContestInv,
          RetiredStaysRetired, RowInv, Adding, Registered, At, GoTo
  <2>6. (ActiveIsMonitored /\ ReportedIsKnown)'
    BY <1>2 DEF Typed, ActiveIsMonitored, FreshInv, RowsInv, ContestInv,
          ReportedIsKnown, ForgottenInv, ActiveRows, Exists, RowInv, Adding,
          Registered, At, GoTo
  <2>. QED  BY <2>1, <2>2, <2>3, <2>4, <2>5, <2>6
<1>3. CASE ListSucceeds(h)
  <2>1. Typed'
    BY <1>3 DEF Typed, ListSucceeds, At, StatusNoted
  <2>2. (TokenInv /\ StrictInv)'
    BY <1>3 DEF Typed, TokenInv, StrictInv, ListSucceeds, At, StatusNoted
  <2>3. RowsInv'
    BY <1>3 DEF Typed, RowsInv, RowInv, Adding, ListSucceeds, At, StatusNoted
  <2>4. (ContestInv /\ FreshInv /\ ForgottenInv)'
    BY <1>3 DEF Typed, ContestInv, RowsInv, FreshInv, ForgottenInv, Adding,
          RowInv, ListSucceeds, At, StatusNoted
  <2>5. (ClientHasHost /\ RetiredStaysRetired)'
    BY <1>3 DEF Typed, ClientHasHost, FreshInv, RowsInv, ContestInv,
          RetiredStaysRetired, RowInv, Adding, ListSucceeds, At, StatusNoted
  <2>6. (ActiveIsMonitored /\ ReportedIsKnown)'
    BY <1>3 DEF Typed, ActiveIsMonitored, FreshInv, RowsInv, ContestInv,
          ReportedIsKnown, ForgottenInv, ActiveRows, Exists, RowInv, Adding,
          ListSucceeds, At, StatusNoted
  <2>. QED  BY <2>1, <2>2, <2>3, <2>4, <2>5, <2>6
<1>4. CASE ListFails(h)
  <2>1. Typed'
    BY <1>4 DEF Typed, ListFails, At, StatusNoted
  <2>2. (TokenInv /\ StrictInv)'
    BY <1>4 DEF Typed, TokenInv, StrictInv, ListFails, At, StatusNoted
  <2>3. RowsInv'
    BY <1>4 DEF Typed, RowsInv, RowInv, Adding, ListFails, At, StatusNoted
  <2>4. (ContestInv /\ FreshInv /\ ForgottenInv)'
    BY <1>4 DEF Typed, ContestInv, RowsInv, FreshInv, ForgottenInv, Adding,
          RowInv, ListFails, At, StatusNoted
  <2>5. (ClientHasHost /\ RetiredStaysRetired)'
    BY <1>4 DEF Typed, ClientHasHost, FreshInv, RowsInv, ContestInv,
          RetiredStaysRetired, RowInv, Adding, ListFails, At, StatusNoted
  <2>6. (ActiveIsMonitored /\ ReportedIsKnown)'
    BY <1>4 DEF Typed, ActiveIsMonitored, FreshInv, RowsInv, ContestInv,
          ReportedIsKnown, ForgottenInv, ActiveRows, Exists, RowInv, Adding,
          ListFails, At, StatusNoted
  <2>. QED  BY <2>1, <2>2, <2>3, <2>4, <2>5, <2>6
<1>5. CASE AgentLists(h)
  <2>1. Typed'
    BY <1>5 DEF Typed, AgentLists, At
  <2>2. (TokenInv /\ StrictInv)'
    BY <1>5 DEF Typed, TokenInv, StrictInv, AgentLists, At
  <2>3. RowsInv'
    BY <1>5 DEF Typed, RowsInv, RowInv, Adding, AgentLists, At
  <2>4. (ContestInv /\ FreshInv /\ ForgottenInv)'
    BY <1>5 DEF Typed, ContestInv, RowsInv, FreshInv, ForgottenInv, Adding,
          RowInv, AgentLists, At
  <2>5. (ClientHasHost /\ RetiredStaysRetired)'
    BY <1>5 DEF Typed, ClientHasHost, FreshInv, RowsInv, ContestInv,
          RetiredStaysRetired, RowInv, Adding, AgentLists, At
  <2>6. (ActiveIsMonitored /\ ReportedIsKnown)'
    BY <1>5 DEF Typed, ActiveIsMonitored, FreshInv, RowsInv, ContestInv,
          ReportedIsKnown, ForgottenInv, ActiveRows, Exists, RowInv, Adding,
          AgentLists, At
  <2>. QED  BY <2>1, <2>2, <2>3, <2>4, <2>5, <2>6
<1>. QED  BY <1>1, <1>2, <1>3, <1>4, <1>5

(* An agent is registered for a new host. *)
LEMMA RegisterStep ==
  ASSUME HostsInv, NEW h \in Ids, NEW forced \in BOOLEAN,
         RegisterAgent(h, forced)
  PROVE  HostsInv'
<1> USE DEF HostsInv
<1>1. CASE RegisterAgent(h, forced)
  <2>1. Typed'
    BY <1>1 DEF Typed, RegisterAgent, ValidRegistrationToken, LocalHostBlocks,
          AlreadyRegistered, Candidates, NewRow, UseToken, EnterAgentHost
  <2>2. StrictInv'
    BY <1>1 DEF Typed, StrictInv, RegisterAgent, ValidRegistrationToken,
          LocalHostBlocks, AlreadyRegistered, Candidates, NewRow, UseToken,
          EnterAgentHost
  <2>3. TokenInv'
    BY <1>1, BornGrows DEF Typed, TokenInv, RegisterAgent, ValidRegistrationToken,
      LocalHostBlocks, AlreadyRegistered, Candidates, NewRow, UseToken,
      EnterAgentHost
  <2>4. RowsInv'
    <3> SUFFICES ASSUME NEW g \in Ids PROVE RowInv(g)'
      BY DEF RowsInv
    <3>1. CASE g = h
      BY <1>1, <3>1 DEF Typed, RowsInv, RowInv, Adding, RegisterAgent,
        ValidRegistrationToken, LocalHostBlocks, AlreadyRegistered, Candidates,
        NewRow, UseToken, EnterAgentHost
    <3>2. CASE g # h
      BY <1>1, <3>2 DEF Typed, RowsInv, RowInv, Adding, RegisterAgent,
        ValidRegistrationToken, LocalHostBlocks, AlreadyRegistered, Candidates,
        NewRow, UseToken, EnterAgentHost
    <3>. QED  BY <3>1, <3>2
  <2>5. (ContestInv /\ FreshInv /\ ForgottenInv)'
    BY <1>1 DEF Typed, ContestInv, RowsInv, FreshInv, ForgottenInv, Adding,
          RowInv, RegisterAgent, ValidRegistrationToken, LocalHostBlocks,
          AlreadyRegistered, Candidates, NewRow, UseToken, EnterAgentHost
  <2>6. (ClientHasHost /\ RetiredStaysRetired)'
    BY <1>1 DEF Typed, ClientHasHost, FreshInv, RowsInv, ContestInv,
          RetiredStaysRetired, RowInv, Adding, RegisterAgent,
          ValidRegistrationToken, LocalHostBlocks, AlreadyRegistered, Candidates,
          NewRow, UseToken, EnterAgentHost
  <2>7. (ActiveIsMonitored /\ ReportedIsKnown)'
    BY <1>1 DEF Typed, ActiveIsMonitored, FreshInv, RowsInv, ContestInv,
          ReportedIsKnown, ForgottenInv, ActiveRows, Exists, RowInv, Adding,
          RegisterAgent, ValidRegistrationToken, LocalHostBlocks,
          AlreadyRegistered, Candidates, NewRow, UseToken, EnterAgentHost
  <2>. QED  BY <2>1, <2>2, <2>3, <2>4, <2>5, <2>6, <2>7
<1>. QED  BY <1>1

(* A Docker host is migrated to an agent. *)
LEMMA MigrateSteps ==
  ASSUME HostsInv, NEW old \in Ids, NEW h \in Ids,
         MigrateHostToAgent(old, h) \/ ChooseHost(old, h)
  PROVE  HostsInv'
<1> USE DEF HostsInv
<1>1. CASE MigrateHostToAgent(old, h)
  <2>1. Typed'
    <3>0. row[old] \in DockerHostDB /\ NewRow("agent", TRUE) \in DockerHostDB
      BY DEF Typed, NewRow
    <3>1. Retired(old, h) \in DockerHostDB
      BY <3>0, RowRecords, Zenon DEF Retired
    <3>2. row' \in [Ids -> DockerHostDB] /\ filed' \in [Settings -> Ids \cup {None}]
      BY <1>1, <3>0, <3>1 DEF Typed, MigrateHostToAgent, Moved
    <3>3. /\ token'.kind \in {None, "single", "multi"} /\ token'.uses \in Nat
          /\ token' = [kind |-> token'.kind, uses |-> token'.uses]
      BY <1>1 DEF Typed, MigrateHostToAgent, UseToken
    <3>4. /\ agent' \in [Ids -> Agent] /\ mem' \in [Ids -> {"absent", "docker", "agent"}]
          /\ leaving' \in [Ids -> {"no", "unlinking", "unregistering"}]
          /\ retiring' \in [Ids -> {"no", "announcing", "cleaning"}]
          /\ born' \subseteq Ids /\ online' \subseteq Ids
      BY <1>1 DEF Typed, MigrateHostToAgent, EnterAgentHost
    <3>5. UNCHANGED <<linked, clients, certs, task, polling, contested, requests>>
      BY <1>1 DEF MigrateHostToAgent
    <3>. QED  BY <3>2, <3>3, <3>4, <3>5 DEF Typed
  <2>2. StrictInv'
    BY <1>1 DEF Typed, StrictInv, MigrateHostToAgent, ValidRegistrationToken,
          LocalHostBlocks, AlreadyRegistered, Candidates, NewRow, Retired, Moved,
          UseToken, EnterAgentHost, Follows
  <2>3. TokenInv'
    <3>1. /\ h \notin born /\ born' = born \cup {h} /\ token' = [token EXCEPT !.uses = @ + 1]
          /\ token.kind = "single" => token.uses = 0
      BY <1>1 DEF MigrateHostToAgent, ValidRegistrationToken, UseToken
    <3>2. /\ Cardinality(born) \in Nat /\ Cardinality(born') = Cardinality(born) + 1
          /\ token.uses \in Nat /\ token.uses <= Cardinality(born)
      BY <3>1, BornGrows DEF TokenInv, Typed
    <3>3. token'.kind = token.kind /\ token'.uses = token.uses + 1
      BY <3>1 DEF Typed
    <3>. QED  BY <3>1, <3>2, <3>3 DEF TokenInv
  <2>4. RowsInv'
    <3> SUFFICES ASSUME NEW g \in Ids PROVE RowInv(g)'
      BY DEF RowsInv
    <3>1. old # h /\ RowInv(g) /\ RowInv(old) /\ RowInv(h)
      BY <1>1 DEF MigrateHostToAgent, Candidates, RowsInv, RowInv
    <3>2. CASE g = old
      <4>1. /\ row'[g] = Retired(old, h) /\ agent'[g] = agent[g] /\ retiring'[g] = "announcing"
            /\ leaving' = leaving /\ row[g].kind = "remote" /\ task' = task
        BY <1>1, <3>1, <3>2 DEF Typed, MigrateHostToAgent, Candidates
      <4>. QED  BY <1>1, <3>1, <3>2, <4>1 DEF Typed, MigrateHostToAgent, Retired, RowInv, Adding
    <3>3. CASE g = h
      <4>0. row' = [row EXCEPT ![h] = NewRow("agent", TRUE), ![old] = Retired(old, h)]
        BY <1>1 DEF MigrateHostToAgent
      <4>1. row'[g] = NewRow("agent", TRUE)
        BY <3>1, <3>3, <4>0 DEF Typed
      <4>2. /\ leaving'[g] = leaving[g] /\ retiring'[g] = retiring[g]
            /\ task' = task /\ g \in born'
        BY <1>1, <3>1, <3>3 DEF Typed, MigrateHostToAgent
      <4>. QED  BY <1>1, <3>1, <3>3, <4>1, <4>2 DEF MigrateHostToAgent, NewRow, RowInv, Adding
    <3>4. CASE g # old /\ g # h
      <4>1. /\ row'[g] = row[g] /\ leaving'[g] = leaving[g] /\ agent'[g] = agent[g]
            /\ retiring'[g] = retiring[g]
            /\ task' = task /\ born' = born \cup {h}
        BY <1>1, <3>4 DEF Typed, MigrateHostToAgent
      <4>. QED  BY <3>1, <3>4, <4>1 DEF RowInv, Adding
    <3>. QED  BY <3>2, <3>3, <3>4
  <2>5. (ContestInv /\ FreshInv /\ ForgottenInv)'
    BY <1>1 DEF Typed, ContestInv, RowsInv, FreshInv, ForgottenInv, Adding,
          RowInv, MigrateHostToAgent, ValidRegistrationToken, LocalHostBlocks,
          AlreadyRegistered, Candidates, NewRow, Retired, Moved, UseToken,
          EnterAgentHost, Follows
  <2>6. (ClientHasHost /\ RetiredStaysRetired)'
    BY <1>1 DEF Typed, ClientHasHost, FreshInv, RowsInv, ContestInv,
          RetiredStaysRetired, RowInv, Adding, MigrateHostToAgent,
          ValidRegistrationToken, LocalHostBlocks, AlreadyRegistered, Candidates,
          NewRow, Retired, Moved, UseToken, EnterAgentHost, Follows
  <2>7. (ActiveIsMonitored /\ ReportedIsKnown)'
    BY <1>1 DEF Typed, ActiveIsMonitored, FreshInv, RowsInv, ContestInv,
          ReportedIsKnown, ForgottenInv, ActiveRows, Exists, RowInv, Adding,
          MigrateHostToAgent, ValidRegistrationToken, LocalHostBlocks,
          AlreadyRegistered, Candidates, NewRow, Retired, Moved, UseToken,
          EnterAgentHost, Follows
  <2>. QED  BY <2>1, <2>2, <2>3, <2>4, <2>5, <2>6, <2>7
<1>2. CASE ChooseHost(old, h)
  <2>1. Typed'
    <3>0. row[old] \in DockerHostDB
      BY DEF Typed
    <3>1. Retired(old, h) \in DockerHostDB
      BY <3>0, RowRecords, Zenon DEF Retired
    <3>2. row' \in [Ids -> DockerHostDB] /\ filed' \in [Settings -> Ids \cup {None}]
      BY <1>2, <3>1 DEF Typed, ChooseHost, MigrateFromHost, Moved
    <3>. QED  BY <1>2, <3>2 DEF Typed, ChooseHost, Request, MigrateFromHost, Forget
  <2>2. (TokenInv /\ StrictInv)'
    BY <1>2 DEF Typed, TokenInv, StrictInv, ChooseHost, Request, Choosable,
          MigrateFromHost, Exists, Retired, Moved, Forget, Follows
  <2>3. RowsInv'
    <3> SUFFICES ASSUME NEW g \in Ids PROVE RowInv(g)'
      BY DEF RowsInv
    <3>1. CASE g = old
      BY <1>2, <3>1 DEF Typed, RowsInv, RowInv, Adding, ChooseHost, Request,
        Choosable, MigrateFromHost, Exists, Retired, Moved, Forget, Follows
    <3>2. CASE g = h
      BY <1>2, <3>2 DEF Typed, RowsInv, RowInv, Adding, ChooseHost, Request,
        Choosable, MigrateFromHost, Exists, Retired, Moved, Forget, Follows
    <3>3. CASE g # old /\ g # h
      BY <1>2, <3>3 DEF Typed, RowsInv, RowInv, Adding, ChooseHost, Request,
        Choosable, MigrateFromHost, Exists, Retired, Moved, Forget, Follows
    <3>. QED  BY <3>1, <3>2, <3>3
  <2>4. (ContestInv /\ FreshInv /\ ForgottenInv)'
    BY <1>2 DEF Typed, ContestInv, RowsInv, FreshInv, ForgottenInv, Adding,
          RowInv, ChooseHost, Request, Choosable, MigrateFromHost, Exists,
          Retired, Moved, Forget, Follows
  <2>5. (ClientHasHost /\ RetiredStaysRetired)'
    BY <1>2 DEF Typed, ClientHasHost, FreshInv, RowsInv, ContestInv,
          RetiredStaysRetired, RowInv, Adding, ChooseHost, Request, Choosable,
          MigrateFromHost, Exists, Retired, Moved, Forget, Follows
  <2>6. (ActiveIsMonitored /\ ReportedIsKnown)'
    BY <1>2 DEF Typed, ActiveIsMonitored, FreshInv, RowsInv, ContestInv,
          ReportedIsKnown, ForgottenInv, ActiveRows, Exists, RowInv, Adding,
          ChooseHost, Request, Choosable, MigrateFromHost, Retired, Moved, Forget,
          Follows
  <2>. QED  BY <2>1, <2>2, <2>3, <2>4, <2>5, <2>6
<1>. QED  BY <1>1, <1>2

(* A setting is made. *)
LEMMA SettingStep ==
  ASSUME HostsInv, NEW k \in Settings, NEW h \in Ids,
         SaveSetting(k, h)
  PROVE  HostsInv'
<1> USE DEF HostsInv
<1>1. CASE SaveSetting(k, h)
  <2>1. Typed'
    BY <1>1 DEF Typed, SaveSetting, Request, Exists
  <2>2. (TokenInv /\ StrictInv)'
    BY <1>1 DEF Typed, TokenInv, StrictInv, SaveSetting, Request, Exists
  <2>3. RowsInv'
    BY <1>1 DEF Typed, RowsInv, RowInv, Adding, SaveSetting, Request, Exists
  <2>4. (ContestInv /\ FreshInv /\ ForgottenInv)'
    BY <1>1 DEF Typed, ContestInv, RowsInv, FreshInv, ForgottenInv, Adding,
          RowInv, SaveSetting, Request, Exists
  <2>5. (ClientHasHost /\ RetiredStaysRetired)'
    BY <1>1 DEF Typed, ClientHasHost, FreshInv, RowsInv, ContestInv,
          RetiredStaysRetired, RowInv, Adding, SaveSetting, Request, Exists
  <2>6. (ActiveIsMonitored /\ ReportedIsKnown)'
    BY <1>1 DEF Typed, ActiveIsMonitored, FreshInv, RowsInv, ContestInv,
          ReportedIsKnown, ForgottenInv, ActiveRows, Exists, RowInv, Adding,
          SaveSetting, Request
  <2>. QED  BY <2>1, <2>2, <2>3, <2>4, <2>5, <2>6
<1>. QED  BY <1>1

(* Tokens, certificates and restarts. *)
LEMMA OtherSteps ==
  ASSUME HostsInv,
         RequestToken \/ TokenExpires \/ CleanupCertificates \/ Restart
  PROVE  HostsInv'
<1> USE DEF HostsInv
<1>1. CASE RequestToken
  <2>1. Typed'
    BY <1>1 DEF Typed, RequestToken, Request, GenerateToken
  <2>2. (TokenInv /\ StrictInv)'
    BY <1>1 DEF Typed, TokenInv, StrictInv, RequestToken, Request, GenerateToken
  <2>3. RowsInv'
    BY <1>1 DEF Typed, RowsInv, RowInv, Adding, RequestToken, Request,
          GenerateToken
  <2>4. (ContestInv /\ FreshInv /\ ForgottenInv)'
    BY <1>1 DEF Typed, ContestInv, RowsInv, FreshInv, ForgottenInv, Adding,
          RowInv, RequestToken, Request, GenerateToken
  <2>5. (ClientHasHost /\ RetiredStaysRetired)'
    BY <1>1 DEF Typed, ClientHasHost, FreshInv, RowsInv, ContestInv,
          RetiredStaysRetired, RowInv, Adding, RequestToken, Request,
          GenerateToken
  <2>6. (ActiveIsMonitored /\ ReportedIsKnown)'
    BY <1>1 DEF Typed, ActiveIsMonitored, FreshInv, RowsInv, ContestInv,
          ReportedIsKnown, ForgottenInv, ActiveRows, Exists, RowInv, Adding,
          RequestToken, Request, GenerateToken
  <2>. QED  BY <2>1, <2>2, <2>3, <2>4, <2>5, <2>6
<1>2. CASE TokenExpires
  <2>1. Typed'
    BY <1>2 DEF Typed, TokenExpires
  <2>2. StrictInv'
    BY <1>2 DEF Typed, StrictInv, TokenExpires
  <2>3. TokenInv'
    BY <1>2, BornGrows DEF Typed, TokenInv, TokenExpires
  <2>4. RowsInv'
    BY <1>2 DEF Typed, RowsInv, RowInv, Adding, TokenExpires
  <2>5. (ContestInv /\ FreshInv /\ ForgottenInv)'
    BY <1>2 DEF Typed, ContestInv, RowsInv, FreshInv, ForgottenInv, Adding,
          RowInv, TokenExpires
  <2>6. (ClientHasHost /\ RetiredStaysRetired)'
    BY <1>2 DEF Typed, ClientHasHost, FreshInv, RowsInv, ContestInv,
          RetiredStaysRetired, RowInv, Adding, TokenExpires
  <2>7. (ActiveIsMonitored /\ ReportedIsKnown)'
    BY <1>2 DEF Typed, ActiveIsMonitored, FreshInv, RowsInv, ContestInv,
          ReportedIsKnown, ForgottenInv, ActiveRows, Exists, RowInv, Adding,
          TokenExpires
  <2>. QED  BY <2>1, <2>2, <2>3, <2>4, <2>5, <2>6, <2>7
<1>3. CASE CleanupCertificates
  <2>1. Typed'
    BY <1>3 DEF Typed, CleanupCertificates, Exists
  <2>2. (TokenInv /\ StrictInv)'
    BY <1>3 DEF Typed, TokenInv, StrictInv, CleanupCertificates, Exists
  <2>3. RowsInv'
    BY <1>3 DEF Typed, RowsInv, RowInv, Adding, CleanupCertificates, Exists
  <2>4. (ContestInv /\ FreshInv /\ ForgottenInv)'
    BY <1>3 DEF Typed, ContestInv, RowsInv, FreshInv, ForgottenInv, Adding,
          RowInv, CleanupCertificates, Exists
  <2>5. (ClientHasHost /\ RetiredStaysRetired)'
    BY <1>3 DEF Typed, ClientHasHost, FreshInv, RowsInv, ContestInv,
          RetiredStaysRetired, RowInv, Adding, CleanupCertificates, Exists
  <2>6. (ActiveIsMonitored /\ ReportedIsKnown)'
    BY <1>3 DEF Typed, ActiveIsMonitored, FreshInv, RowsInv, ContestInv,
          ReportedIsKnown, ForgottenInv, ActiveRows, Exists, RowInv, Adding,
          CleanupCertificates
  <2>. QED  BY <2>1, <2>2, <2>3, <2>4, <2>5, <2>6
<1>4. CASE Restart
  <2>1. Typed'
    <3>1. mem' \in [Ids -> {"absent", "docker", "agent"}]
      BY <1>4 DEF Restart, MemKind
    <3>2. clients' \subseteq Ids /\ online' \subseteq Ids /\ certs' \subseteq Ids
      BY <1>4 DEF Typed, Restart, Loaded, ActiveRows
    <3>3. /\ linked' = {} /\ contested' = {} /\ due' = Ids /\ poll' = Idle /\ held' = FALSE
          /\ requests' = requests + 1 /\ requests < MaxRequests /\ UNCHANGED <<db, born>>
      BY <1>4 DEF Restart, Request
    <3>4. /\ task' \in [Ids -> {"idle", "adding", "saving", "closing", "pinging"}]
          /\ leaving' \in [Ids -> {"no", "unlinking", "unregistering"}]
          /\ retiring' \in [Ids -> {"no", "announcing", "cleaning"}]
          /\ previous' \in [Ids -> {"unknown", "online", "offline"}]
          /\ told' \in [Ids -> {"nothing", "up", "down"}]
      BY <1>4 DEF Restart
    <3>5. requests' \in 0..MaxRequests
      BY <3>3 DEF Typed
    <3>. QED  BY <3>1, <3>2, <3>3, <3>4, <3>5 DEF Typed
  <2>2. (TokenInv /\ StrictInv)'
    BY <1>4 DEF Typed, TokenInv, StrictInv, Restart, Loaded, Request, MemKind,
          ActiveRows, Exists
  <2>3. RowsInv'
    BY <1>4 DEF Typed, RowsInv, RowInv, Adding, Restart, Loaded, Request, MemKind,
          ActiveRows, Exists
  <2>4. (ContestInv /\ FreshInv /\ ForgottenInv)'
    BY <1>4 DEF Typed, ContestInv, RowsInv, FreshInv, ForgottenInv, Adding,
          RowInv, Restart, Loaded, Request, MemKind, ActiveRows, Exists
  <2>5. (ClientHasHost /\ RetiredStaysRetired)'
    BY <1>4 DEF Typed, ClientHasHost, FreshInv, RowsInv, ContestInv,
          RetiredStaysRetired, RowInv, Adding, Restart, Loaded, Request, MemKind,
          ActiveRows, Exists
  <2>6. (ActiveIsMonitored /\ ReportedIsKnown)'
    BY <1>4 DEF Typed, ActiveIsMonitored, FreshInv, RowsInv, ContestInv,
          ReportedIsKnown, ForgottenInv, ActiveRows, Exists, RowInv, Adding,
          Restart, Loaded, Request, MemKind
  <2>. QED  BY <2>1, <2>2, <2>3, <2>4, <2>5, <2>6
<1>. QED  BY <1>1, <1>2, <1>3, <1>4

(* Every step keeps the invariant. *)
LEMMA NextHostsInv == HostsInv /\ [Next]_vars => HostsInv'
<1> SUFFICES ASSUME HostsInv, [Next]_vars PROVE HostsInv'
  OBVIOUS
<1>1. CASE UNCHANGED vars
  BY <1>1 DEF HostsInv, vars, Typed, TokenInv, StrictInv, RowsInv, RowInv, ContestInv, FreshInv,
              ForgottenInv, ClientHasHost, RetiredStaysRetired, ActiveIsMonitored, ActiveRows,
              Exists, ReportedIsKnown, Adding
<1>2. CASE \E h \in Ids :
              \/ AddHost(h) \/ AddHostConnects(h) \/ AddHostSaves(h) \/ AddHostFails(h)
              \/ UpdateHost(h) \/ UpdateForgets(h) \/ UpdateToAgent(h) \/ UpdateConnects(h)
              \/ UpdateFails(h) \/ RemoveHost(h) \/ RemoveForgets(h) \/ RemoveDeletes(h)
              \/ RemoveUnmonitored(h) \/ MigrationForgets(h) \/ MigrationUnregisters(h)
              \/ AgentReconnects(h) \/ AgentDisconnects(h) \/ ValidateEngine(h)
  BY <1>2, AddSteps, UpdateSteps, RemoveSteps, AgentSteps
<1>3. CASE \E h \in Polled : PollStep(h) \/ BackoffExpires(h)
  BY <1>3, ConnectSteps, ListSteps DEF PollStep
<1>4. CASE \E h \in Ids, forced \in BOOLEAN : RegisterAgent(h, forced)
  BY <1>4, RegisterStep
<1>5. CASE \E old, h \in Ids : MigrateHostToAgent(old, h) \/ ChooseHost(old, h)
  BY <1>5, MigrateSteps
<1>6. CASE \E k \in Settings, h \in Ids : SaveSetting(k, h)
  BY <1>6, SettingStep
<1>7. CASE RequestToken \/ TokenExpires \/ CleanupCertificates \/ Restart
  BY <1>7, OtherSteps
<1>. QED  BY <1>1, <1>2, <1>3, <1>4, <1>5, <1>6, <1>7 DEF Next

(* The inductive invariant holds for any set of ids, whichever of them are *)
(* polled, and any number of requests and restarts.                        *)
THEOREM HostsInvariant == Spec => []HostsInv
BY InitHostsInv, NextHostsInv, PTL DEF Spec

(* The token has been used at most as often as there are hosts. *)
LEMMA TokenTyped == HostsInv => token \in RegistrationToken
<1> SUFFICES ASSUME HostsInv PROVE token \in RegistrationToken
  OBVIOUS
<1>1. Cardinality(born) \in Nat /\ Cardinality(Ids) \in Nat /\ Cardinality(born) <= Cardinality(Ids)
  BY FS_Subset, FS_CardinalityType DEF HostsInv, Typed
<1>2. /\ token.kind \in {None, "single", "multi"} /\ token.uses \in Nat
      /\ token = [kind |-> token.kind, uses |-> token.uses] /\ token.uses <= Cardinality(born)
  BY DEF HostsInv, Typed, TokenInv
<1>3. token.uses \in 0..Cardinality(Ids)
  BY <1>1, <1>2
<1>. QED  BY <1>2, <1>3 DEF RegistrationToken

(* The types of the tables and dictionaries: a token in particular is      *)
(* never used more often than there are hosts.                             *)
LEMMA TypesFollow == HostsInv => TypeOK
<1> SUFFICES ASSUME HostsInv PROVE TypeOK
  OBVIOUS
<1>1. \A S \in {linked, born, online, clients, certs, due, contested} : S \subseteq Ids
  BY DEF HostsInv, Typed
<1>. QED  BY <1>1, TokenTyped DEF HostsInv, Typed, TypeOK

(* A registration token admits as many agents as its kind allows, and two  *)
(* agents of one engine exist only if the later one asked for it, for any  *)
(* number of hosts and whichever path admits an agent.                     *)
THEOREM RegistrationIsOnceHolds == Spec => []RegistrationIsOnce
<1>1. HostsInv => RegistrationIsOnce
  <2> SUFFICES ASSUME HostsInv PROVE RegistrationIsOnce
    OBVIOUS
  <2> DEFINE strict == {h \in Ids : agent[h] = "strict"}
  <2>1. Cardinality(strict) <= 1
    <3>1. CASE strict = {}
      BY <3>1, FS_EmptySet
    <3>2. CASE strict # {}
      <4>1. PICK h \in strict : strict = {h}
        BY <3>2 DEF HostsInv, StrictInv
      <4>. QED  BY <4>1, FS_Singleton
    <3>. QED  BY <3>1, <3>2
  <2>. QED  BY <2>1 DEF HostsInv, TokenInv, RegistrationIsOnce, TokenWithinUses, OneAgentPerEngine
<1>. QED  BY <1>1, HostsInvariant, PTL

(* No interleaving of polling, worker threads, removal, migration and      *)
(* restart leaves a client behind whose host is gone, brings back a host   *)
(* that an agent has replaced, loses an active host from the monitor, or   *)
(* lets the announced state of a host drift from the remembered one.       *)
THEOREM HostsAgreeHolds == Spec => []HostsAgree
<1>1. HostsInv => HostsAgree
  BY TypesFollow DEF HostsInv, HostsAgree
<1>. QED  BY <1>1, HostsInvariant, PTL

(* Settings are filed under hosts that have a row. *)
FiledInv == \A k \in Settings : filed[k] # None => Exists(filed[k])

(* What the steps do to the rows and to what is filed under them: most     *)
(* leave the settings and keep every row and what it was replaced by.      *)
RowsKept == \A g \in Ids : Exists(g) => row'[g].kind # None /\ row'[g].replaced = row[g].replaced

(* A host is migrated to another one. *)
Migrates(old, h) ==
    /\ old # h /\ Exists(old) /\ row[old].replaced = None /\ filed' = Moved(old, h)
    /\ row'[old] = Retired(old, h) /\ row'[h].kind # None
    /\ \A g \in Ids \ {old} : Exists(g) => row'[g] = row[g]

LEMMA MigrationSteps ==
  ASSUME HostsInv, NEW old \in Ids, NEW h \in Ids,
         MigrateHostToAgent(old, h) \/ ChooseHost(old, h)
  PROVE  Migrates(old, h)
<1>1. RowInv(old) /\ RowInv(h)
  BY DEF HostsInv, RowsInv
<1>2. CASE MigrateHostToAgent(old, h)
  <2>1. /\ old # h /\ Exists(old) /\ row[old].replaced = None /\ ~Exists(h)
    BY <1>1, <1>2 DEF MigrateHostToAgent, Candidates, RowInv, Exists
  <2>2. row' = [row EXCEPT ![h] = NewRow("agent", TRUE), ![old] = Retired(old, h)]
    BY <1>2 DEF MigrateHostToAgent
  <2>3. row'[old] = Retired(old, h) /\ row'[h].kind # None
    BY <2>1, <2>2 DEF HostsInv, Typed, NewRow
  <2>4. \A g \in Ids \ {old} : Exists(g) => row'[g] = row[g]
    BY <2>1, <2>2 DEF HostsInv, Typed
  <2>5. filed' = Moved(old, h)
    BY <1>2 DEF MigrateHostToAgent
  <2>. QED  BY <2>1, <2>3, <2>4, <2>5 DEF Migrates
<1>3. CASE ChooseHost(old, h)
  <2>1. /\ agent[h] # None /\ Exists(h) /\ row[old].kind = "remote" /\ row[old].replaced = None
        /\ row' = [row EXCEPT ![old] = Retired(old, h)] /\ filed' = Moved(old, h)
    BY <1>3 DEF ChooseHost, Choosable, MigrateFromHost
  <2>2. old # h /\ Exists(old)
    BY <1>1, <2>1 DEF RowInv, Exists
  <2>3. row'[old] = Retired(old, h) /\ row'[h] = row[h] /\ row[h].kind # None
    BY <2>1, <2>2 DEF HostsInv, Typed, Exists
  <2>4. \A g \in Ids \ {old} : Exists(g) => row'[g] = row[g]
    BY <2>1 DEF HostsInv, Typed
  <2>. QED  BY <2>1, <2>2, <2>3, <2>4 DEF Migrates
<1>. QED  BY <1>2, <1>3

(* The other steps keep every row that there is, add_host and the          *)
(* registration of an agent use new ids only.                              *)
LEMMA OtherStepsKeepRows ==
  ASSUME HostsInv, Next
  PROVE  \/ \E old, h \in Ids : Migrates(old, h)
         \/ \E h \in Ids : DeleteRows(h)
         \/ RowsKept /\ (filed' = filed \/ \E k \in Settings, h \in Ids : SaveSetting(k, h))
<1>0. ASSUME row' = row PROVE RowsKept
  BY <1>0 DEF RowsKept, Exists
<1>1. \A h \in Ids :
        /\ AddHost(h) \/ AddHostConnects(h) \/ AddHostFails(h) => UNCHANGED <<row, filed>>
        /\ UpdateHost(h) \/ UpdateForgets(h) \/ UpdateToAgent(h) => UNCHANGED <<row, filed>>
        /\ UpdateConnects(h) \/ UpdateFails(h) \/ RemoveHost(h) => UNCHANGED <<row, filed>>
        /\ RemoveForgets(h) \/ MigrationForgets(h) \/ MigrationUnregisters(h) => UNCHANGED <<row, filed>>
        /\ AgentDisconnects(h) => UNCHANGED <<row, filed>>
        /\ RemoveDeletes(h) \/ RemoveUnmonitored(h) => DeleteRows(h)
  BY DEF AddHost, AddHostConnects, AddHostFails, UpdateHost, UpdateForgets,
         UpdateToAgent, UpdateConnects, UpdateFails, RemoveHost, RemoveForgets, RemoveDeletes,
         RemoveUnmonitored, MigrationForgets, MigrationUnregisters, AgentDisconnects
<1>2. ASSUME NEW h \in Ids, AddHostSaves(h) PROVE RowsKept /\ filed' = filed
  <2>1. ~Exists(h)
    BY <1>2 DEF HostsInv, RowsInv, RowInv, Adding, AddHostSaves, Exists
  <2>2. PICK r : row' = [row EXCEPT ![h] = r] /\ filed' = filed
    BY <1>2 DEF AddHostSaves
  <2>3. ASSUME NEW g \in Ids, Exists(g) PROVE row'[g] = row[g] /\ row[g].kind # None
    BY <2>1, <2>2, <2>3 DEF HostsInv, Typed, Exists
  <2>. QED  BY <2>2, <2>3 DEF RowsKept
<1>3. ASSUME NEW h \in Ids, NEW forced \in BOOLEAN, RegisterAgent(h, forced)
      PROVE  RowsKept /\ filed' = filed
  <2>1. ~Exists(h)
    BY <1>3 DEF HostsInv, RowsInv, RowInv, RegisterAgent, Exists
  <2>2. PICK r : row' = [row EXCEPT ![h] = r] /\ filed' = filed
    BY <1>3 DEF RegisterAgent
  <2>3. ASSUME NEW g \in Ids, Exists(g) PROVE row'[g] = row[g] /\ row[g].kind # None
    BY <2>1, <2>2, <2>3 DEF HostsInv, Typed, Exists
  <2>. QED  BY <2>2, <2>3 DEF RowsKept
<1>4. ASSUME NEW h \in Ids, AgentReconnects(h) PROVE RowsKept /\ filed' = filed
  <2>1. filed' = filed /\ (row' = row \/ row' = [row EXCEPT ![h].kind = "agent"])
    BY <1>4 DEF AgentReconnects
  <2>. QED  BY <1>0, <2>1 DEF HostsInv, Typed, RowsKept, Exists
<1>5. ASSUME NEW h \in Ids, ValidateEngine(h) PROVE RowsKept /\ filed' = filed
  <2>1. filed' = filed /\ row' = [row EXCEPT ![h].engine = TRUE]
    BY <1>5 DEF ValidateEngine
  <2>. QED  BY <2>1 DEF HostsInv, Typed, RowsKept, Exists
<1>6. \A h \in Ids : PollStep(h) \/ BackoffExpires(h) => UNCHANGED <<row, filed>>
  BY DEF PollStep, BackoffExpires, Poll, PollSkips, PollAgent, ConnectSucceeds, ConnectFails,
         Announced, Registered, ListSucceeds, ListFails, AgentLists
<1>7. \A k \in Settings, h \in Ids : SaveSetting(k, h) => row' = row
  BY DEF SaveSetting
<1>8. RequestToken \/ TokenExpires \/ CleanupCertificates \/ Restart => UNCHANGED <<row, filed>>
  BY DEF RequestToken, TokenExpires, CleanupCertificates, Restart
<1>9. \A old, h \in Ids : MigrateHostToAgent(old, h) \/ ChooseHost(old, h) => Migrates(old, h)
  BY MigrationSteps
<1>. QED  BY <1>0, <1>1, <1>2, <1>3, <1>4, <1>5, <1>6, <1>7, <1>8, <1>9 DEF Next

(* Every step keeps settings with a host that has a row, and carries those *)
(* with composite keys along.                                              *)
LEMMA StepCarriesSettings ==
  ASSUME HostsInv, FiledInv, Next
  PROVE  FiledInv' /\ \A k \in Settings : Follows(k) => Carried(k)
<1>0. /\ \A h \in Ids : h # None
      /\ filed \in [Settings -> Ids \cup {None}]
  BY DEF HostsInv, Typed
<1>1. CASE \E old, h \in Ids : Migrates(old, h)
  <2>1. PICK old, h \in Ids : Migrates(old, h)
    BY <1>1
  <2>2. /\ \A k \in Settings : filed'[k] = IF filed[k] = old /\ Follows(k) THEN h ELSE filed[k]
        /\ row'[old].kind = row[old].kind /\ row'[old].replaced = h
        /\ row[old].kind # None /\ row[old].replaced = None /\ row'[h].kind # None
    BY <2>1 DEF Migrates, Moved, HostsInv, Typed, Retired, Exists
  <2>3. \A g \in Ids \ {old} : Exists(g) => row'[g] = row[g]
    BY <2>1 DEF Migrates
  <2>4. ASSUME NEW k \in Settings, filed[k] # None, filed[k] # old PROVE Carried(k) /\ row'[filed'[k]].kind # None
    BY <1>0, <2>2, <2>3, <2>4 DEF FiledInv, Exists, Carried
  <2>5. ASSUME NEW k \in Settings, filed[k] = old, Follows(k) PROVE Carried(k) /\ row'[filed'[k]].kind # None
    BY <1>0, <2>2, <2>5 DEF Exists, Carried
  <2>6. ASSUME NEW k \in Settings, filed[k] = old, ~Follows(k) PROVE row'[filed'[k]].kind # None
    BY <1>0, <2>2, <2>6 DEF Exists
  <2>7. ASSUME NEW k \in Settings, filed[k] = None PROVE Carried(k) /\ filed'[k] = None
    BY <1>0, <2>2, <2>7 DEF Carried
  <2>8. \A k \in Settings : filed'[k] # None => row'[filed'[k]].kind # None
    BY <2>4, <2>5, <2>6, <2>7
  <2>9. \A k \in Settings : Follows(k) => Carried(k)
    BY <2>4, <2>5, <2>7
  <2>. QED  BY <2>8, <2>9, Zenon DEF FiledInv, Exists
<1>2. CASE \E h \in Ids : DeleteRows(h)
  <2>1. PICK h \in Ids : DeleteRows(h)
    BY <1>2
  <2>2. /\ \A k \in Settings : filed'[k] = IF filed[k] \in Deleted(h) THEN None ELSE filed[k]
        /\ \A g \in Ids : row'[g] = IF g \in Deleted(h) THEN NoRow ELSE row[g]
    BY <2>1 DEF DeleteRows
  <2> HIDE DEF NoRow
  <2>3. NoRow.kind = None
    BY DEF NoRow
  <2>. QED  BY <1>0, <2>2, <2>3 DEF FiledInv, Exists, Carried
<1>3. CASE RowsKept /\ filed' = filed
  BY <1>0, <1>3 DEF RowsKept, FiledInv, Exists, Carried
<1>4. CASE RowsKept /\ \E k \in Settings, h \in Ids : SaveSetting(k, h)
  <2>1. PICK j \in Settings, h \in Ids : SaveSetting(j, h)
    BY <1>4
  <2>2. Exists(h) /\ filed[j] = None /\ filed' = [filed EXCEPT ![j] = h]
    BY <2>1 DEF SaveSetting
  <2>. QED  BY <1>0, <1>4, <2>2 DEF RowsKept, FiledInv, Exists, Carried
<1>. QED  BY <1>1, <1>2, <1>3, <1>4, OtherStepsKeepRows

(* Settings that are filed under composite keys go with their host through *)
(* every migration, whoever starts it and whatever else is going on with   *)
(* the host, and are lost only with it.                                    *)
THEOREM SettingsSurviveHolds == Spec => SettingsSurvive
<1>1. Init => FiledInv
  BY DEF Init, FiledInv
<1>2. HostsInv /\ FiledInv /\ [Next]_vars =>
        FiledInv' /\ [\A k \in Settings : Follows(k) => Carried(k)]_vars
  <2>1. ASSUME FiledInv, UNCHANGED vars PROVE FiledInv'
    BY <2>1 DEF vars, FiledInv, Exists
  <2>. QED  BY <2>1, StepCarriesSettings
<1>. QED  BY <1>1, <1>2, HostsInvariant, PTL DEF Spec, SettingsSurvive
=============================================================================
