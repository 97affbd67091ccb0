---------------------------- MODULE AccessProofs ----------------------------
(***************************************************************************)
(* The safety of Access for any sets of users, groups, keys and sockets.   *)
(* The inductive invariant adds to the properties that the system groups   *)
(* stay, and what a socket holds while it is being accepted: until the     *)
(* generation counter moves, the permissions that were read are current.   *)
(***************************************************************************)
EXTENDS Access, TLAPS, FiniteSetTheorems

Socket == [at : {"none", "opening", "open", "shell", "closing"}, kind : {"events", "shell"},
           user : Users \cup {None}, caps : SUBSET Capabilities, own : SUBSET Capabilities,
           sees : BOOLEAN, moved : BOOLEAN]

(* TypeOK by the tables that change together. *)
AccountsTyped == UserRows /\ sessions \in [Users -> 0 .. MaxSessions] /\ requests \in 0 .. MaxRequests
DirectoryTyped ==
    /\ groups \subseteq Groups /\ scoped \in GroupTagScope /\ groupsOf \in UserGroupMembership
    /\ grants \in GroupPermission /\ rows \in GroupPermission
SettingsTyped == keys \in [Keys -> ApiKey] /\ oidc \in OIDCConfig /\ flow \in [OidcUsers -> PendingOIDCAuth]
WiresTyped == sock \in [Sockets -> Socket] /\ behind \subseteq Users

(* Who has no account is in no group, and the system groups stay. *)
NobodyElse == \A u \in Users \ users : groupsOf[u] = {}
DirectoryInv == AdminRemains /\ EveryUserHasAGroup /\ NobodyElse /\ System \subseteq groups

(* What is known of a socket with permissions: before it is registered,    *)
(* as long as the generation has not moved, and then until it is closed.   *)
SocketInv(x) ==
    /\ x.at = "opening" /\ ~x.moved =>
         /\ x.user \in users /\ x.caps = Caps[x.user] /\ x.sees = SeesAll[x.user]
         /\ x.kind = "shell" => "shell" \in x.caps /\ x.sees
    /\ x.at = "open" =>
         /\ x.user \in users /\ x.caps = Caps[x.user]
         /\ x.user \in behind \/ x.sees = SeesAll[x.user]
    /\ x.at = "shell" =>
         /\ x.user \in users /\ "shell" \in Caps[x.user]
         /\ x.user \in behind \/ SeesAll[x.user]
SocketsInv == \A s \in Sockets : SocketInv(sock[s])

AccessInv ==
    /\ AccountsTyped /\ DirectoryTyped /\ SettingsTyped /\ WiresTyped
    /\ DirectoryInv /\ SsoOnlyIsUsable /\ LiveKeyIsAnchored /\ SocketsInv

USE AccessAssumption DEF account, directory, wires

----------------------------------------------------------------------------
(* The invariant by its parts says what TypeOK says. *)
LEMMA TypesByParts ==
  TypeOK <=> AccountsTyped /\ DirectoryTyped /\ SettingsTyped /\ WiresTyped
BY DEF TypeOK, AccountsTyped, DirectoryTyped, SettingsTyped, WiresTyped, Socket

(* Capabilities are a union of what the groups grant. *)
LEMMA CapsTyped ==
  ASSUME NEW gs \in UserGroupMembership, NEW ps \in GroupPermission, NEW u \in Users
  PROVE  UNION {ps[g] : g \in gs[u]} \subseteq Capabilities
BY DEF UserGroupMembership, GroupPermission

(* Who keeps the groups keeps the permissions. *)
LEMMA PermissionsKept ==
  ASSUME DirectoryTyped, NEW v \in Users, groupsOf'[v] = groupsOf[v],
         \A g \in groupsOf[v] : grants'[g] = grants[g] /\ (g \in scoped' <=> g \in scoped)
  PROVE  Caps'[v] = Caps[v] /\ SeesAll'[v] = SeesAll[v]
<1>1. {grants'[g] : g \in groupsOf'[v]} = {grants[g] : g \in groupsOf[v]}
  BY Zenon
<1>2. Caps'[v] = Caps[v]
  BY <1>1 DEF Caps, CapsOf
<1>3. SeesAll'[v] = SeesAll[v]
  BY DEF SeesAll, Sees
<1>. QED  BY <1>2, <1>3

(* Sockets that nobody touches stay current while their users keep their   *)
(* permissions.                                                            *)
LEMMA WiresKept ==
  ASSUME SocketsInv, UNCHANGED wires, users \subseteq users',
         \A v \in users : Caps'[v] = Caps[v] /\ SeesAll'[v] = SeesAll[v]
  PROVE  SocketsInv'
<1> SUFFICES ASSUME NEW s \in Sockets PROVE SocketInv(sock[s])'
  BY DEF SocketsInv
<1>1. SocketInv(sock[s])
  BY DEF SocketsInv
<1>. QED  BY <1>1 DEF SocketInv

(* A refresh for A brings every socket up to date, if nobody else's        *)
(* permissions have changed.                                               *)
LEMMA WiresRefreshed ==
  ASSUME WiresTyped, SocketsInv, NEW A \in SUBSET Users, RefreshSockets(A), users \subseteq users',
         \A v \in users \ A : Caps'[v] = Caps[v] /\ SeesAll'[v] = SeesAll[v]
  PROVE  SocketsInv'
<1> DEFINE revoked == {s \in Sockets : /\ sock[s].at = "shell" /\ sock[s].user \in A
                                       /\ "shell" \notin Caps'[sock[s].user]}
           parts == IF revoked = {} THEN {"caps", "hosts"} ELSE {"caps"}
<1>1. /\ sock' = [s \in Sockets |-> Refreshed(sock[s], A, parts)]
      /\ behind' = IF revoked = {} THEN behind \ A ELSE behind \cup A
  BY Zenon DEF RefreshSockets
<1> SUFFICES ASSUME NEW s \in Sockets PROVE SocketInv(sock[s])'
  BY DEF SocketsInv
<1> DEFINE x == sock[s]
<1>2. x \in Socket /\ SocketInv(x)
  BY DEF WiresTyped, SocketsInv
<1>3. /\ "caps" \in parts
      /\ "hosts" \in parts => behind' = behind \ A
      /\ "hosts" \notin parts => behind' = behind \cup A
  BY <1>1
<1>4. sock'[s] = Refreshed(x, A, parts)
  BY <1>1
<1> HIDE DEF revoked, parts
<1>5. CASE x.at = "opening"
  <2>1. sock'[s] = [x EXCEPT !.moved = TRUE]
    BY <1>4, <1>5 DEF Refreshed
  <2>2. sock'[s].at = "opening" /\ sock'[s].moved
    BY <2>1, <1>2, <1>5 DEF Socket
  <2>. QED  BY <2>2 DEF SocketInv
<1>6. CASE x.at = "open" /\ x.user \in A
  <2>1. sock'[s] = [x EXCEPT !.caps = Caps'[x.user],
                             !.sees = IF "hosts" \in parts THEN SeesAll'[x.user] ELSE x.sees]
    BY <1>3, <1>4, <1>6, <1>2 DEF Refreshed, Socket
  <2>2. /\ sock'[s].at = "open" /\ sock'[s].user = x.user /\ sock'[s].caps = Caps'[x.user]
        /\ "hosts" \in parts => sock'[s].sees = SeesAll'[x.user]
    BY <2>1, <1>2, <1>6 DEF Socket
  <2>. QED  BY <2>2, <1>2, <1>3, <1>6 DEF SocketInv
<1>7. CASE x.at = "shell" /\ x.user \in A
  <2>1. \/ sock'[s] = [x EXCEPT !.at = "closing"]
        \/ /\ sock'[s] = x /\ "shell" \in Caps'[x.user]
           /\ "hosts" \in parts => SeesAll'[x.user]
    BY <1>3, <1>4, <1>7 DEF Refreshed
  <2>2. CASE sock'[s] = [x EXCEPT !.at = "closing"]
    <3>1. sock'[s].at = "closing"
      BY <2>2, <1>2 DEF Socket
    <3>. QED  BY <3>1 DEF SocketInv
  <2>3. CASE /\ sock'[s] = x /\ "shell" \in Caps'[x.user]
             /\ "hosts" \in parts => SeesAll'[x.user]
    BY <2>3, <1>2, <1>3, <1>7 DEF SocketInv
  <2>. QED  BY <2>1, <2>2, <2>3
<1>8. CASE x.at \notin {"opening", "open", "shell"} \/ (x.at # "opening" /\ x.user \notin A)
  <2>1. sock'[s] = x
    BY <1>4, <1>8 DEF Refreshed
  <2>. QED  BY <2>1, <1>2, <1>3, <1>8 DEF SocketInv
<1>. QED  BY <1>5, <1>6, <1>7, <1>8

(* A refresh keeps the types of the sockets. *)
LEMMA RefreshTyped ==
  ASSUME WiresTyped, DirectoryTyped', NEW A \in SUBSET Users, RefreshSockets(A)
  PROVE  WiresTyped'
<1> DEFINE revoked == {s \in Sockets : /\ sock[s].at = "shell" /\ sock[s].user \in A
                                       /\ "shell" \notin Caps'[sock[s].user]}
           parts == IF revoked = {} THEN {"caps", "hosts"} ELSE {"caps"}
<1>1. /\ sock' = [s \in Sockets |-> Refreshed(sock[s], A, parts)]
      /\ behind' = IF revoked = {} THEN behind \ A ELSE behind \cup A
  BY Zenon DEF RefreshSockets
<1>2. behind' \subseteq Users
  BY <1>1 DEF WiresTyped
<1>3. ASSUME NEW u \in Users PROVE Caps'[u] \subseteq Capabilities /\ SeesAll'[u] \in BOOLEAN
  BY CapsTyped DEF Caps, CapsOf, SeesAll, Sees, DirectoryTyped
<1> HIDE DEF revoked, parts
<1>4. ASSUME NEW x \in Socket PROVE Refreshed(x, A, parts) \in Socket
  <2>1. [x EXCEPT !.moved = TRUE] \in Socket /\ [x EXCEPT !.at = "closing"] \in Socket
    BY DEF Socket
  <2>2. CASE x.user \in A
    BY <1>3, <2>1, <2>2 DEF Refreshed, Socket
  <2>3. CASE x.user \notin A
    BY <2>1, <2>3 DEF Refreshed
  <2>. QED  BY <2>2, <2>3
<1>. QED  BY <1>1, <1>2, <1>4 DEF WiresTyped

(* One administrator's request fewer. *)
LEMMA Administered ==
  ASSUME AccountsTyped, NEW W, Administers(W)
  PROVE  requests' \in 0 .. MaxRequests
BY DEF AccountsTyped, Administers

(* The first user, the system groups and nothing else. *)
LEMMA InitAccess == Init => AccessInv
<1> SUFFICES ASSUME Init PROVE AccessInv
  OBVIOUS
<1>1. AccountsTyped
  BY DEF Init, AccountsTyped, UserRows
<1>2. DirectoryTyped
  BY DEF Init, DirectoryTyped, GroupTagScope, UserGroupMembership, GroupPermission, DefaultGrants
<1>3. SettingsTyped
  BY DEF Init, SettingsTyped, ApiKey, OIDCConfig, PendingOIDCAuth, NoKey, NoFlow
<1>4. WiresTyped /\ SocketsInv
  BY DEF Init, WiresTyped, SocketsInv, SocketInv, Socket, NoSocket
<1>5. DirectoryInv
  BY DEF Init, DirectoryInv, AdminRemains, EveryUserHasAGroup, NobodyElse
<1>6. SsoOnlyIsUsable /\ LiveKeyIsAnchored
  BY DEF Init, SsoOnlyIsUsable, LiveKeyIsAnchored, NoKey
<1>. QED  BY <1>1, <1>2, <1>3, <1>4, <1>5, <1>6 DEF AccessInv

(* Users, groups and sockets that are left alone stay as they should be. *)
LEMMA DirectoryKept ==
  ASSUME AccessInv, UNCHANGED <<users, directory, wires>>
  PROVE  DirectoryTyped' /\ WiresTyped' /\ DirectoryInv' /\ SocketsInv'
<1>1. DirectoryTyped' /\ WiresTyped'
  BY DEF AccessInv, DirectoryTyped, WiresTyped
<1>2. DirectoryInv'
  BY DEF AccessInv, DirectoryInv, AdminRemains, EveryUserHasAGroup, NobodyElse
<1>3. \A v \in users : Caps'[v] = Caps[v] /\ SeesAll'[v] = SeesAll[v]
  BY PermissionsKept DEF AccessInv, AccountsTyped, UserRows
<1>4. SocketsInv'
  BY <1>3, WiresKept DEF AccessInv
<1>. QED  BY <1>1, <1>2, <1>4

(* Sign-ins and passwords. *)
LEMMA SessionSteps ==
  ASSUME AccessInv, NEW u \in Users,
         \/ Login(u) \/ LoginFails(u) \/ LockExpires(u) \/ Logout(u) \/ SessionExpires(u)
         \/ ChangePassword(u) \/ ResetPassword(u)
  PROVE  AccessInv'
<1> USE DEF AccessInv
<1>1. /\ UNCHANGED <<users, directory, wires>> /\ UNCHANGED <<keys, oidc, flow>>
  BY DEF Login, LoginFails, LockExpires, Logout, SessionExpires, ChangePassword, ResetPassword
<1>2. SettingsTyped' /\ SsoOnlyIsUsable' /\ LiveKeyIsAnchored'
  BY <1>1 DEF SettingsTyped, SsoOnlyIsUsable, LiveKeyIsAnchored
<1>3. AccountsTyped'
  <2>1. CASE Login(u)
    BY <2>1 DEF AccountsTyped, UserRows, Login, AddSession
  <2>2. CASE LoginFails(u)
    BY <2>2 DEF AccountsTyped, UserRows, LoginFails
  <2>3. CASE LockExpires(u)
    BY <2>3 DEF AccountsTyped, UserRows, LockExpires
  <2>4. CASE Logout(u) \/ SessionExpires(u)
    BY <2>4 DEF AccountsTyped, UserRows, Logout, SessionExpires, SignedIn, SessionDeleted
  <2>5. CASE ChangePassword(u)
    BY <2>5 DEF AccountsTyped, UserRows, ChangePassword, SessionsDeleted
  <2>6. CASE ResetPassword(u)
    BY <2>6, Administered DEF AccountsTyped, UserRows, ResetPassword, SessionsDeleted
  <2>. QED  BY <2>1, <2>2, <2>3, <2>4, <2>5, <2>6
<1>. QED  BY <1>1, <1>2, <1>3, DirectoryKept

(* Approvals. *)
LEMMA ApproveSteps ==
  ASSUME AccessInv, NEW A, Approved(A)
  PROVE  AccessInv'
<1> USE DEF AccessInv
<1>1. /\ UNCHANGED <<users, directory, wires>> /\ UNCHANGED <<keys, oidc, flow>>
  BY DEF Approved
<1>2. SettingsTyped' /\ SsoOnlyIsUsable' /\ LiveKeyIsAnchored'
  BY <1>1 DEF SettingsTyped, SsoOnlyIsUsable, LiveKeyIsAnchored
<1>3. AccountsTyped'
  BY Administered DEF AccountsTyped, UserRows, Approved
<1>. QED  BY <1>1, <1>2, <1>3, DirectoryKept

(* The settings of single sign-on. *)
LEMMA OidcSettingSteps ==
  ASSUME AccessInv,
         \/ \E usable, approval \in BOOLEAN, default \in Groups \cup {None} :
              UpdateOidc(usable, approval, default)
         \/ \E G \in SUBSET Groups : Mapped(G)
         \/ \E disabled \in BOOLEAN : SetLocalLogin(disabled)
  PROVE  AccessInv'
<1> USE DEF AccessInv
<1>1. UNCHANGED <<account, directory, wires, keys, flow, sessions>>
  BY DEF UpdateOidc, Mapped, SetLocalLogin
<1>2. LiveKeyIsAnchored'
  BY <1>1 DEF LiveKeyIsAnchored
<1>3. requests' \in 0 .. MaxRequests
  BY Administered DEF UpdateOidc, Mapped, SetLocalLogin
<1>4. AccountsTyped'
  BY <1>1, <1>3 DEF AccountsTyped, UserRows
<1>5. SettingsTyped' /\ SsoOnlyIsUsable'
  <2>1. CASE \E usable, approval \in BOOLEAN, default \in Groups \cup {None} :
               UpdateOidc(usable, approval, default)
    BY <1>1, <2>1 DEF SettingsTyped, SsoOnlyIsUsable, UpdateOidc, OIDCConfig
  <2>2. CASE \E G \in SUBSET Groups : Mapped(G)
    BY <1>1, <2>2 DEF SettingsTyped, SsoOnlyIsUsable, Mapped, OIDCConfig
  <2>3. CASE \E disabled \in BOOLEAN : SetLocalLogin(disabled)
    BY <1>1, <2>3 DEF SettingsTyped, SsoOnlyIsUsable, SetLocalLogin, OIDCConfig
  <2>. QED  BY <2>1, <2>2, <2>3
<1>. QED  BY <1>1, <1>2, <1>4, <1>5, DirectoryKept

(* A single sign-on up to the answer of the provider, and its session. *)
LEMMA SignOnSteps ==
  ASSUME AccessInv, NEW u \in OidcUsers,
         \/ Authorize(u) \/ CallbackBegins(u) \/ CallbackFails(u) \/ CallbackEnds(u)
         \/ IdTokenRefused(u)
  PROVE  AccessInv'
<1> USE DEF AccessInv
<1>1. UNCHANGED <<account, directory, wires, keys, oidc, requests>>
  BY DEF Authorize, CallbackBegins, CallbackFails, CallbackEnds, IdTokenRefused
<1>2. LiveKeyIsAnchored' /\ SsoOnlyIsUsable'
  BY <1>1 DEF LiveKeyIsAnchored, SsoOnlyIsUsable
<1>3. AccountsTyped'
  BY <1>1 DEF AccountsTyped, UserRows, Authorize, CallbackBegins, CallbackFails, CallbackEnds,
              IdTokenRefused, AddSession
<1>4. NoFlow \in PendingOIDCAuth /\ [flow[u] EXCEPT !.at = "pending"] \in PendingOIDCAuth
  BY DEF SettingsTyped, PendingOIDCAuth, NoFlow
<1>5. [at |-> "waiting", approval |-> oidc.approval, default |-> oidc.default] \in PendingOIDCAuth
  BY DEF SettingsTyped, PendingOIDCAuth, OIDCConfig
<1>6. flow' \in [OidcUsers -> PendingOIDCAuth]
  BY <1>4, <1>5 DEF SettingsTyped, Authorize, CallbackBegins, CallbackFails, CallbackEnds, IdTokenRefused
<1>7. SettingsTyped'
  BY <1>1, <1>6 DEF SettingsTyped
<1>. QED  BY <1>1, <1>2, <1>3, <1>7, DirectoryKept

(* API keys: a key that makes another one is live, so its creator is still *)
(* a user.                                                                 *)
LEMMA KeyStepsKeep ==
  ASSUME AccessInv, KeySteps
  PROVE  AccessInv'
<1> USE DEF AccessInv
<1>1. UNCHANGED <<account, directory, wires, oidc, flow, sessions>>
  BY DEF KeySteps, CreateKey, RevokeKey
<1>2. SsoOnlyIsUsable'
  BY <1>1 DEF SsoOnlyIsUsable
<1>3. AccountsTyped'
  <2>1. requests' \in 0 .. MaxRequests
    BY Administered DEF KeySteps, CreateKey, RevokeKey, AccountsTyped
  <2>. QED  BY <1>1, <2>1 DEF AccountsTyped, UserRows
<1>4. SettingsTyped' /\ LiveKeyIsAnchored'
  <2>1. CASE \E a \in Actors, k \in Keys, g \in Groups : CreateKey(a, k, g)
    <3>1. PICK a \in Actors, k \in Keys, g \in Groups : CreateKey(a, k, g)
      BY <2>1
    <3> DEFINE maker == IF a \in Keys THEN keys[a].creator ELSE a
    <3>2. maker \in users
      BY <3>1 DEF CreateKey, Holds, Authenticated, KeyWorks, LiveKeyIsAnchored
    <3>3. /\ keys' = [keys EXCEPT ![k] = [state |-> "live", group |-> g, creator |-> maker]]
          /\ g \in groups
      BY <3>1 DEF CreateKey
    <3>4. [state |-> "live", group |-> g, creator |-> maker] \in ApiKey
      BY <3>2 DEF ApiKey, AccountsTyped, UserRows
    <3> HIDE DEF maker
    <3>. QED  BY <1>1, <3>2, <3>3, <3>4 DEF SettingsTyped, LiveKeyIsAnchored
  <2>2. CASE \E k \in Keys : RevokeKey(k)
    BY <1>1, <2>2 DEF SettingsTyped, LiveKeyIsAnchored, RevokeKey, ApiKey
  <2>. QED  BY <2>1, <2>2 DEF KeySteps
<1>. QED  BY <1>1, <1>2, <1>3, <1>4, DirectoryKept

----------------------------------------------------------------------------
(* A new account. *)
LEMMA CreateUserStep ==
  ASSUME AccessInv, NEW u \in Users, NEW G \in SUBSET Groups, NEW change \in BOOLEAN,
         CreateUser(u, G, change)
  PROVE  AccessInv'
<1> USE DEF AccessInv
<1>1. /\ u \notin users /\ G # {} /\ G \subseteq groups /\ users' = users \cup {u}
      /\ groupsOf' = [groupsOf EXCEPT ![u] = G]
      /\ UNCHANGED <<groups, grants, rows, scoped, keys, oidc, flow, sessions, wires>>
  BY DEF CreateUser
<1>2. AccountsTyped'
  BY Administered DEF AccountsTyped, UserRows, CreateUser
<1>3. DirectoryTyped' /\ SettingsTyped' /\ WiresTyped'
  BY <1>1 DEF DirectoryTyped, UserGroupMembership, SettingsTyped, WiresTyped
<1>4. DirectoryInv' /\ SsoOnlyIsUsable' /\ LiveKeyIsAnchored'
  BY <1>1 DEF AccountsTyped, UserRows, DirectoryTyped, UserGroupMembership, DirectoryInv, AdminRemains,
              EveryUserHasAGroup, NobodyElse, SsoOnlyIsUsable, LiveKeyIsAnchored
<1>5. \A v \in users : v \in Users /\ groupsOf'[v] = groupsOf[v]
  BY <1>1 DEF AccountsTyped, UserRows, DirectoryTyped, UserGroupMembership
<1>6. \A v \in users : Caps'[v] = Caps[v] /\ SeesAll'[v] = SeesAll[v]
  BY <1>1, <1>5, PermissionsKept
<1>7. SocketsInv'
  BY <1>1, <1>6, WiresKept
<1>. QED  BY <1>2, <1>3, <1>4, <1>7

(* The groups of one user are changed and the user's sockets refreshed:    *)
(* enough for the update of a user, for members and for single sign-on.    *)
LEMMA MembershipStep ==
  ASSUME AccessInv, NEW u \in users, NEW G \in SUBSET Groups, G # {}, G \subseteq groups,
         Admins \notin G => NotLastAdmin(u), RefreshSockets({u}),
         groupsOf' = [groupsOf EXCEPT ![u] = G],
         UNCHANGED <<users, groups, grants, rows, scoped, keys, oidc>>
  PROVE  /\ DirectoryTyped' /\ WiresTyped' /\ DirectoryInv' /\ SocketsInv'
         /\ SsoOnlyIsUsable' /\ LiveKeyIsAnchored'
<1> USE DEF AccessInv
<1>0. {u} \in SUBSET Users
  BY DEF AccountsTyped, UserRows
<1>1. DirectoryTyped'
  BY DEF DirectoryTyped, UserGroupMembership
<1>2. WiresTyped'
  BY <1>0, <1>1, RefreshTyped
<1>3. EveryUserHasAGroup' /\ NobodyElse' /\ System \subseteq groups'
  BY DEF AccountsTyped, UserRows, DirectoryTyped, UserGroupMembership, DirectoryInv, EveryUserHasAGroup,
         NobodyElse
<1>4. AdminRemains'
  <2>1. CASE Admins \in G
    BY <2>1 DEF AccountsTyped, UserRows, DirectoryTyped, UserGroupMembership, DirectoryInv, AdminRemains
  <2>2. CASE Admins \notin G /\ Admins \in groupsOf[u]
    BY <2>2 DEF AccountsTyped, UserRows, DirectoryTyped, UserGroupMembership, NotLastAdmin, OtherAdmins,
                AdminRemains
  <2>3. CASE Admins \notin groupsOf[u]
    BY <2>3 DEF AccountsTyped, UserRows, DirectoryTyped, UserGroupMembership, DirectoryInv, AdminRemains
  <2>. QED  BY <2>1, <2>2, <2>3
<1>5. \A v \in users \ {u} : v \in Users /\ groupsOf'[v] = groupsOf[v]
  BY DEF AccountsTyped, UserRows, DirectoryTyped, UserGroupMembership
<1>6. \A v \in users \ {u} : Caps'[v] = Caps[v] /\ SeesAll'[v] = SeesAll[v]
  BY <1>5, PermissionsKept
<1>7. SocketsInv'
  BY <1>0, <1>6, WiresRefreshed
<1>8. SsoOnlyIsUsable' /\ LiveKeyIsAnchored'
  BY DEF SsoOnlyIsUsable, LiveKeyIsAnchored
<1>. QED  BY <1>1, <1>2, <1>3, <1>4, <1>7, <1>8 DEF DirectoryInv

(* Users and members are edited. *)
LEMMA MemberSteps ==
  ASSUME AccessInv, NEW u \in Users,
         \/ \E G \in SUBSET Groups : UpdateUser(u, G)
         \/ \E g \in Groups : AddMember(g, u) \/ RemoveMember(g, u)
  PROVE  AccessInv'
<1> USE DEF AccessInv
<1>1. UNCHANGED <<account, groups, grants, rows, scoped, keys, oidc, flow, sessions>>
  BY DEF UpdateUser, AddMember, RemoveMember
<1>2. requests' \in 0 .. MaxRequests
  BY Administered DEF UpdateUser, AddMember, RemoveMember
<1>3. AccountsTyped' /\ SettingsTyped'
  BY <1>1, <1>2 DEF AccountsTyped, UserRows, SettingsTyped
<1>4. u \in users /\ \E G \in SUBSET Groups :
        /\ G # {} /\ G \subseteq groups /\ (Admins \notin G => NotLastAdmin(u))
        /\ RefreshSockets({u}) /\ groupsOf' = [groupsOf EXCEPT ![u] = G]
  <2>1. CASE \E G \in SUBSET Groups : UpdateUser(u, G)
    BY <2>1 DEF UpdateUser
  <2>2. CASE \E g \in Groups : AddMember(g, u)
    <3>1. PICK g \in Groups : AddMember(g, u)
      BY <2>2
    <3>2. /\ g \in groups /\ u \in users /\ RefreshSockets({u})
          /\ groupsOf' = [groupsOf EXCEPT ![u] = groupsOf[u] \cup {g}]
      BY <3>1 DEF AddMember
    <3>3. groupsOf[u] \subseteq groups /\ groupsOf[u] \cup {g} \in SUBSET Groups
      BY <3>2 DEF DirectoryInv, EveryUserHasAGroup, DirectoryTyped
    <3>4. Admins \notin groupsOf[u] \cup {g} => NotLastAdmin(u)
      BY DEF NotLastAdmin
    <3>. QED  BY <3>2, <3>3, <3>4
  <2>3. CASE \E g \in Groups : RemoveMember(g, u)
    <3>1. PICK g \in Groups : RemoveMember(g, u)
      BY <2>3
    <3>2. /\ g \in groupsOf[u] /\ Cardinality(groupsOf[u]) > 1 /\ RefreshSockets({u})
          /\ g = Admins => NotLastAdmin(u)
          /\ groupsOf' = [groupsOf EXCEPT ![u] = groupsOf[u] \ {g}]
      BY <3>1 DEF RemoveMember
    <3>0. u \in users
      BY <3>2 DEF DirectoryInv, NobodyElse
    <3>3. groupsOf[u] # {g}
      BY <3>2, FS_Singleton
    <3>4. groupsOf[u] \ {g} # {}
      BY <3>2, <3>3
    <3>5. groupsOf[u] \ {g} \subseteq groups /\ groupsOf[u] \ {g} \in SUBSET Groups
      BY <3>0 DEF DirectoryInv, EveryUserHasAGroup, DirectoryTyped, UserGroupMembership
    <3>6. Admins \notin groupsOf[u] \ {g} => NotLastAdmin(u)
      BY <3>2 DEF NotLastAdmin
    <3>. QED  BY <3>0, <3>2, <3>4, <3>5, <3>6
  <2>. QED  BY <2>1, <2>2, <2>3
<1>. QED  BY <1>1, <1>3, <1>4, MembershipStep

(* An account is deleted with its memberships, keys and sockets. *)
LEMMA DeleteUserStep ==
  ASSUME AccessInv, NEW a \in Actors, NEW u \in Users, DeleteUser(a, u)
  PROVE  AccessInv'
<1> USE DEF AccessInv
<1>1. /\ u \in users /\ NotLastAdmin(u) /\ users' = users \ {u}
      /\ groupsOf' = [groupsOf EXCEPT ![u] = {}] /\ keys' = RevokeKeysOf(u) /\ DisconnectUser(u)
      /\ UNCHANGED <<groups, grants, rows, scoped, oidc, flow>>
  BY DEF DeleteUser
<1>2. AccountsTyped'
  BY DEF AccountsTyped, UserRows, DeleteUser, SessionsDeleted
<1>3. DirectoryTyped'
  BY <1>1 DEF DirectoryTyped, UserGroupMembership
<1>4. keys' \in [Keys -> ApiKey]
  <2>1. \A x \in ApiKey : [x EXCEPT !.state = "revoked", !.creator = None] \in ApiKey
    BY DEF ApiKey
  <2>. QED  BY <1>1, <2>1 DEF SettingsTyped, RevokeKeysOf
<1>5. SettingsTyped'
  BY <1>1, <1>4 DEF SettingsTyped
<1>6. DirectoryInv'
  BY <1>1 DEF AccountsTyped, UserRows, DirectoryTyped, UserGroupMembership, DirectoryInv, AdminRemains,
              EveryUserHasAGroup, NobodyElse, NotLastAdmin, OtherAdmins
<1>7. SsoOnlyIsUsable'
  BY <1>1 DEF SsoOnlyIsUsable
<1>8. LiveKeyIsAnchored'
  <2> SUFFICES ASSUME NEW k \in Keys, keys'[k].state = "live"
               PROVE  keys'[k].group \in groups' /\ keys'[k].creator \in users'
    BY DEF LiveKeyIsAnchored
  <2>1. keys[k].creator # u
    BY <1>1 DEF SettingsTyped, RevokeKeysOf, ApiKey
  <2>2. keys'[k] = keys[k]
    BY <1>1, <2>1 DEF RevokeKeysOf
  <2>. QED  BY <1>1, <2>1, <2>2 DEF LiveKeyIsAnchored
<1>9. WiresTyped'
  <2>1. \A x \in Socket : /\ [x EXCEPT !.at = "closing"] \in Socket
                          /\ [x EXCEPT !.moved = TRUE] \in Socket
    BY DEF Socket
  <2>. QED  BY <1>1, <2>1 DEF WiresTyped, DisconnectUser
<1>10. SocketsInv'
  <2> SUFFICES ASSUME NEW s \in Sockets PROVE SocketInv(sock[s])'
    BY DEF SocketsInv
  <2>1. sock[s] \in Socket /\ SocketInv(sock[s]) /\ behind' = behind
    BY <1>1 DEF WiresTyped, SocketsInv, DisconnectUser
  <2>2. CASE sock[s].at = "opening"
    <3>1. sock'[s] = [sock[s] EXCEPT !.moved = TRUE]
      BY <1>1, <2>2 DEF DisconnectUser
    <3>2. sock'[s].at = "opening" /\ sock'[s].moved
      BY <2>1, <2>2, <3>1 DEF Socket
    <3>. QED  BY <3>2 DEF SocketInv
  <2>3. CASE sock[s].at \in {"open", "shell"} /\ sock[s].user = u
    <3>1. sock'[s] = [sock[s] EXCEPT !.at = "closing"]
      BY <1>1, <2>3 DEF DisconnectUser
    <3>2. sock'[s].at = "closing"
      BY <2>1, <3>1 DEF Socket
    <3>. QED  BY <3>2 DEF SocketInv
  <2>4. CASE sock[s].at # "opening" /\ ~(sock[s].at \in {"open", "shell"} /\ sock[s].user = u)
    <3>1. sock'[s] = sock[s]
      BY <1>1, <2>4 DEF DisconnectUser
    <3>2. \A v \in users \ {u} : v \in Users /\ groupsOf'[v] = groupsOf[v]
      BY <1>1 DEF AccountsTyped, UserRows, DirectoryTyped, UserGroupMembership
    <3>3. \A v \in users \ {u} : Caps'[v] = Caps[v] /\ SeesAll'[v] = SeesAll[v]
      BY <1>1, <3>2, PermissionsKept
    <3>. QED  BY <1>1, <2>1, <2>4, <3>1, <3>3 DEF SocketInv
  <2>. QED  BY <2>2, <2>3, <2>4
<1>. QED  BY <1>2, <1>3, <1>5, <1>6, <1>7, <1>8, <1>9, <1>10

(* Groups come and go, and change their permissions and scopes. *)
LEMMA GroupStepsKeep ==
  ASSUME AccessInv, NEW g \in Groups,
         \/ CreateGroup(g) \/ DeleteGroup(g) \/ UpdateTagScopes(g)
         \/ \E C, R \in SUBSET Capabilities : SetGrants(g, C, R)
  PROVE  AccessInv'
<1> USE DEF AccessInv
<1>1. UNCHANGED <<account, keys, flow, sessions>>
  BY DEF CreateGroup, DeleteGroup, UpdateTagScopes, SetGrants
<1>2. requests' \in 0 .. MaxRequests
  BY Administered DEF CreateGroup, DeleteGroup, UpdateTagScopes, SetGrants
<1>3. AccountsTyped'
  BY <1>1, <1>2 DEF AccountsTyped, UserRows
<1>4. CASE CreateGroup(g)
  <2>1. /\ g \notin groups /\ groups' = groups \cup {g} /\ scoped' = scoped \ {g}
        /\ grants' = [grants EXCEPT ![g] = {}] /\ UNCHANGED <<groupsOf, oidc, wires>>
    BY <1>4 DEF CreateGroup
  <2>2. DirectoryTyped' /\ SettingsTyped' /\ WiresTyped'
    BY <1>1, <1>4, <2>1 DEF CreateGroup, DirectoryTyped, GroupTagScope, GroupPermission, SettingsTyped,
                            WiresTyped
  <2>3. DirectoryInv' /\ SsoOnlyIsUsable' /\ LiveKeyIsAnchored'
    BY <1>1, <2>1 DEF DirectoryInv, AdminRemains, EveryUserHasAGroup, NobodyElse, SsoOnlyIsUsable,
                      LiveKeyIsAnchored
  <2>4. ASSUME NEW v \in users
        PROVE  Caps'[v] = Caps[v] /\ SeesAll'[v] = SeesAll[v]
    <3>1. v \in Users /\ g \notin groupsOf[v] /\ groupsOf[v] \subseteq Groups
      BY <2>1 DEF AccountsTyped, UserRows, DirectoryTyped, UserGroupMembership, DirectoryInv,
                  EveryUserHasAGroup
    <3>2. \A h \in groupsOf[v] : grants'[h] = grants[h] /\ (h \in scoped' <=> h \in scoped)
      BY <2>1, <3>1 DEF DirectoryTyped, GroupPermission
    <3>. QED  BY <2>1, <3>1, <3>2, PermissionsKept
  <2>5. SocketsInv'
    BY <1>1, <2>1, <2>4, WiresKept
  <2>. QED  BY <1>3, <2>2, <2>3, <2>5
<1>5. CASE DeleteGroup(g)
  <2>1. /\ g \in groups \ System /\ groups' = groups \ {g} /\ RefreshSockets(Users)
        /\ groupsOf' = [u \in Users |-> groupsOf[u] \ {g}]
        /\ \A k \in Keys : keys[k].group # g
        /\ \A u \in users : groupsOf[u] # {g}
        /\ oidc' = [oidc EXCEPT !.mapped = @ \ {g}, !.default = IF @ = g THEN None ELSE @]
    BY <1>5 DEF DeleteGroup
  <2>2. DirectoryTyped'
    BY <1>5 DEF DeleteGroup, DirectoryTyped, GroupTagScope, GroupPermission, UserGroupMembership
  <2>3. SettingsTyped' /\ SsoOnlyIsUsable' /\ LiveKeyIsAnchored'
    BY <1>1, <2>1 DEF SettingsTyped, OIDCConfig, SsoOnlyIsUsable, LiveKeyIsAnchored
  <2>4. DirectoryInv'
    <3>1. \A u \in users : u \in Users /\ groupsOf'[u] = groupsOf[u] \ {g}
      BY <2>1 DEF AccountsTyped, UserRows
    <3>2. AdminRemains'
      BY <1>1, <2>1, <3>1 DEF DirectoryInv, AdminRemains
    <3>3. EveryUserHasAGroup'
      BY <1>1, <2>1, <3>1 DEF DirectoryInv, EveryUserHasAGroup
    <3>4. NobodyElse' /\ System \subseteq groups'
      BY <1>1, <2>1 DEF DirectoryInv, NobodyElse
    <3>. QED  BY <3>2, <3>3, <3>4 DEF DirectoryInv
  <2>5. WiresTyped' /\ SocketsInv'
    BY <1>1, <2>1, <2>2, RefreshTyped, WiresRefreshed DEF AccountsTyped, UserRows
  <2>. QED  BY <1>3, <2>2, <2>3, <2>4, <2>5
<1>6. CASE UpdateTagScopes(g) \/ \E C, R \in SUBSET Capabilities : SetGrants(g, C, R)
  <2>1. UNCHANGED <<groups, groupsOf, oidc>> /\ RefreshSockets(Users)
    BY <1>6 DEF UpdateTagScopes, SetGrants
  <2>2. DirectoryTyped'
    <3>1. CASE UpdateTagScopes(g)
      BY <3>1 DEF UpdateTagScopes, DirectoryTyped, GroupTagScope
    <3>2. CASE \E C, R \in SUBSET Capabilities : SetGrants(g, C, R)
      BY <3>2 DEF SetGrants, DirectoryTyped, GroupPermission
    <3>. QED  BY <1>6, <3>1, <3>2
  <2>3. SettingsTyped' /\ SsoOnlyIsUsable' /\ LiveKeyIsAnchored'
    BY <1>1, <2>1 DEF SettingsTyped, SsoOnlyIsUsable, LiveKeyIsAnchored
  <2>4. DirectoryInv'
    BY <1>1, <2>1 DEF DirectoryInv, AdminRemains, EveryUserHasAGroup, NobodyElse
  <2>5. WiresTyped' /\ SocketsInv'
    BY <1>1, <2>1, <2>2, RefreshTyped, WiresRefreshed DEF AccountsTyped, UserRows
  <2>. QED  BY <1>3, <2>2, <2>3, <2>4, <2>5
<1>. QED  BY <1>4, <1>5, <1>6

(* The groups a provider's claim stands for are groups. *)
LEMMA ClaimedGroups ==
  ASSUME SettingsTyped, NEW u \in OidcUsers, NEW claimed
  PROVE  GroupsFor(u, claimed) \subseteq Groups
BY DEF SettingsTyped, OIDCConfig, PendingOIDCAuth, GroupsFor

(* A known user comes back from the provider: whatever the claim says, the *)
(* last administrator stays one.                                           *)
LEMMA CallbackKnownStep ==
  ASSUME AccessInv, NEW u \in OidcUsers, NEW claimed, CallbackKnown(u, claimed)
  PROVE  AccessInv'
<1> USE DEF AccessInv
<1> DEFINE G == GroupsFor(u, claimed)
           blocked == HasClaim(claimed) /\ BlockedFrom(u, claimed)
           follows == HasClaim(claimed) /\ ~blocked
<1>1. /\ u \in users /\ UNCHANGED <<account, groups, grants, rows, scoped, keys, oidc, sessions, requests>>
      /\ groupsOf' = IF follows THEN [groupsOf EXCEPT ![u] = Synced(u, G)] ELSE groupsOf
      /\ flow' = [flow EXCEPT ![u] = IF blocked \/ u \notin approved THEN NoFlow
                                     ELSE [NoFlow EXCEPT !.at = "granted"]]
      /\ IF blocked THEN UNCHANGED wires ELSE RefreshSockets({u})
  BY DEF CallbackKnown
<1>2. AccountsTyped'
  BY <1>1 DEF AccountsTyped, UserRows
<1>3. SettingsTyped'
  <2>1. NoFlow \in PendingOIDCAuth /\ [NoFlow EXCEPT !.at = "granted"] \in PendingOIDCAuth
    BY DEF NoFlow, PendingOIDCAuth
  <2>. QED  BY <1>1, <2>1 DEF SettingsTyped
<1>4. SsoOnlyIsUsable' /\ LiveKeyIsAnchored'
  BY <1>1 DEF SsoOnlyIsUsable, LiveKeyIsAnchored
<1>5. CASE blocked
  <2>1. UNCHANGED <<users, directory, wires>>
    BY <1>1, <1>5
  <2>. QED  BY <1>2, <1>3, <1>4, <2>1, DirectoryKept
<1>6. CASE ~blocked /\ follows
  <2>1. G # {} /\ G \subseteq groups /\ G \subseteq Groups
    BY <1>6, ClaimedGroups DEF BlockedFrom
  <2>2. Synced(u, G) # {} /\ Synced(u, G) \subseteq groups /\ Synced(u, G) \in SUBSET Groups
    BY <1>1, <2>1 DEF Synced, DirectoryInv
  <2>3. Admins \notin Synced(u, G) => NotLastAdmin(u)
    BY DEF Synced, NotLastAdmin
  <2>4. RefreshSockets({u}) /\ groupsOf' = [groupsOf EXCEPT ![u] = Synced(u, G)]
    BY <1>1, <1>6
  <2> HIDE DEF G
  <2>. QED  BY <1>1, <1>2, <1>3, <2>2, <2>3, <2>4, MembershipStep
<1>7. CASE ~blocked /\ ~follows
  <2>1. RefreshSockets({u}) /\ groupsOf' = [groupsOf EXCEPT ![u] = groupsOf[u]]
    BY <1>1, <1>7 DEF DirectoryTyped, UserGroupMembership
  <2>2. /\ groupsOf[u] # {} /\ groupsOf[u] \subseteq groups /\ groupsOf[u] \in SUBSET Groups
        /\ Admins \notin groupsOf[u] => NotLastAdmin(u)
    BY <1>1 DEF DirectoryInv, EveryUserHasAGroup, DirectoryTyped, NotLastAdmin
  <2>. QED  BY <1>1, <1>2, <1>3, <2>1, <2>2, MembershipStep
<1>. QED  BY <1>5, <1>6, <1>7

(* A new user comes from the provider. *)
LEMMA CallbackNewStep ==
  ASSUME AccessInv, NEW u \in OidcUsers, NEW claimed, CallbackNew(u, claimed)
  PROVE  AccessInv'
<1> USE DEF AccessInv
<1> DEFINE G == IF users = {} THEN {Admins} ELSE GroupsFor(u, claimed)
           fails == G = {} \/ ~ G \subseteq groups
           pends == flow[u].approval /\ users # {}
<1>1. /\ u \in Users /\ u \notin users
      /\ UNCHANGED <<mustChange, attempts, locked, groups, grants, rows, scoped, keys, oidc,
                     sessions, requests>>
  BY DEF CallbackNew
<1>2. NoFlow \in PendingOIDCAuth /\ [NoFlow EXCEPT !.at = "granted"] \in PendingOIDCAuth
  BY DEF NoFlow, PendingOIDCAuth
<1>3. CASE fails
  <2>1. UNCHANGED <<users, approved, directory, wires>> /\ flow' = [flow EXCEPT ![u] = NoFlow]
    BY <1>1, <1>3 DEF CallbackNew
  <2>2. AccountsTyped'
    BY <1>1, <2>1 DEF AccountsTyped, UserRows
  <2>3. SettingsTyped' /\ SsoOnlyIsUsable' /\ LiveKeyIsAnchored'
    BY <1>1, <1>2, <2>1 DEF SettingsTyped, SsoOnlyIsUsable, LiveKeyIsAnchored
  <2>. QED  BY <1>1, <2>1, <2>2, <2>3, DirectoryKept
<1>4. CASE ~fails
  <2>1. /\ users' = users \cup {u} /\ groupsOf' = [groupsOf EXCEPT ![u] = G]
        /\ approved' = IF pends THEN approved ELSE approved \cup {u}
        /\ flow' = [flow EXCEPT ![u] = IF pends THEN NoFlow ELSE [NoFlow EXCEPT !.at = "granted"]]
        /\ RefreshSockets({u})
    BY <1>4 DEF CallbackNew
  <2>2. G # {} /\ G \subseteq groups /\ G \subseteq Groups
    BY <1>4, ClaimedGroups
  <2> HIDE DEF G, fails, pends
  <2>3. AccountsTyped'
    BY <1>1, <2>1 DEF AccountsTyped, UserRows
  <2>4. DirectoryTyped'
    BY <1>1, <2>1, <2>2 DEF DirectoryTyped, UserGroupMembership
  <2>5. SettingsTyped' /\ SsoOnlyIsUsable' /\ LiveKeyIsAnchored'
    BY <1>1, <1>2, <2>1 DEF SettingsTyped, SsoOnlyIsUsable, LiveKeyIsAnchored
  <2>6. WiresTyped'
    BY <1>1, <2>1, <2>4, RefreshTyped
  <2>7. DirectoryInv'
    BY <1>1, <2>1, <2>2 DEF AccountsTyped, UserRows, DirectoryTyped, UserGroupMembership, DirectoryInv,
                            AdminRemains, EveryUserHasAGroup, NobodyElse
  <2>8. \A v \in users : v \in Users /\ groupsOf'[v] = groupsOf[v]
    BY <1>1, <2>1 DEF AccountsTyped, UserRows, DirectoryTyped, UserGroupMembership
  <2>9. \A v \in users : Caps'[v] = Caps[v] /\ SeesAll'[v] = SeesAll[v]
    BY <1>1, <2>8, PermissionsKept
  <2>10. SocketsInv'
    BY <1>1, <2>1, <2>9, WiresRefreshed
  <2>. QED  BY <2>3, <2>4, <2>5, <2>6, <2>7, <2>10
<1>. QED  BY <1>3, <1>4

(* The backend is restarted. *)
LEMMA RestartStep ==
  ASSUME AccessInv, Restart
  PROVE  AccessInv'
<1> USE DEF AccessInv
<1>1. UNCHANGED <<account, groups, scoped, keys, oidc>>
  BY DEF Restart
<1>2. AccountsTyped'
  BY DEF AccountsTyped, UserRows, Restart
<1>3. DirectoryTyped'
  BY DEF DirectoryTyped, GroupTagScope, UserGroupMembership, GroupPermission, Restart, DefaultGrants
<1>4. SettingsTyped'
  <2>1. NoFlow \in PendingOIDCAuth
    BY DEF NoFlow, PendingOIDCAuth
  <2>. QED  BY <2>1 DEF SettingsTyped, Restart
<1>5. WiresTyped' /\ SocketsInv'
  BY DEF WiresTyped, SocketsInv, SocketInv, Socket, NoSocket, Restart
<1>6. DirectoryInv'
  BY DEF AccountsTyped, UserRows, DirectoryTyped, UserGroupMembership, DirectoryInv, AdminRemains,
         EveryUserHasAGroup, NobodyElse, Restart
<1>7. SsoOnlyIsUsable' /\ LiveKeyIsAnchored'
  BY <1>1 DEF SsoOnlyIsUsable, LiveKeyIsAnchored
<1>. QED  BY <1>2, <1>3, <1>4, <1>5, <1>6, <1>7

(* One socket is closed, or opened by a user who may. *)
LEMMA OneSocketSteps ==
  ASSUME AccessInv, NEW s \in Sockets,
         \/ CloseSocket(s) \/ BroadcastFails(s)
         \/ \E u \in Users, kind \in {"events", "shell"} : OpenSocket(s, u, kind)
  PROVE  WiresTyped' /\ SocketsInv'
<1> USE DEF AccessInv
<1>1. UNCHANGED <<account, directory, behind>>
  BY DEF CloseSocket, BroadcastFails, OpenSocket
<1>2. Caps' = Caps /\ SeesAll' = SeesAll
  BY <1>1 DEF Caps, CapsOf, SeesAll, Sees
<1>3. PICK x \in Socket : sock' = [sock EXCEPT ![s] = x] /\ SocketInv(x)
  <2>1. CASE CloseSocket(s) \/ BroadcastFails(s)
    BY <2>1 DEF CloseSocket, BroadcastFails, Socket, NoSocket, SocketInv
  <2>2. CASE \E u \in Users, kind \in {"events", "shell"} : OpenSocket(s, u, kind)
    <3>1. PICK u \in Users, kind \in {"events", "shell"} : OpenSocket(s, u, kind)
      BY <2>2
    <3> DEFINE x == [at |-> "opening", kind |-> kind, user |-> u,
                     caps |-> CapsOf(u), own |-> CapsOf(u), sees |-> Sees(u), moved |-> FALSE]
    <3>2. sock' = [sock EXCEPT ![s] = x] /\ u \in users
      BY <3>1 DEF OpenSocket
    <3>3. CapsOf(u) \subseteq Capabilities /\ Sees(u) \in BOOLEAN
      BY CapsTyped DEF CapsOf, Sees, DirectoryTyped
    <3>4. Caps[u] = CapsOf(u) /\ SeesAll[u] = Sees(u)
      BY DEF Caps, SeesAll
    <3>5. kind = "shell" => "shell" \in CapsOf(u) /\ Sees(u)
      BY <3>1 DEF OpenSocket
    <3>6. x \in Socket
      BY <3>3 DEF Socket
    <3>7. SocketInv(x)
      BY <3>2, <3>4, <3>5 DEF SocketInv
    <3>. QED  BY <3>2, <3>6, <3>7
  <2>. QED  BY <2>1, <2>2
<1>4. WiresTyped'
  BY <1>1, <1>3 DEF WiresTyped
<1>5. ASSUME NEW t \in Sockets PROVE SocketInv(sock[t])'
  <2>1. SocketInv(sock[t]) /\ sock'[t] \in {x, sock[t]}
    BY <1>3 DEF WiresTyped, SocketsInv
  <2>. QED  BY <1>1, <1>2, <1>3, <2>1 DEF SocketInv
<1>. QED  BY <1>4, <1>5 DEF SocketsInv

(* The hosts that were left out by a refresh are looked up. *)
LEMMA CatchUpStep ==
  ASSUME AccessInv, NEW A \in SUBSET Users, CatchUp(A)
  PROVE  WiresTyped' /\ SocketsInv'
<1> USE DEF AccessInv
<1>1. /\ UNCHANGED <<account, directory>> /\ behind' = behind \ A
      /\ sock' = [s \in Sockets |-> Refreshed(sock[s], A, {"hosts"})]
  BY DEF CatchUp
<1>2. Caps' = Caps /\ SeesAll' = SeesAll
  BY <1>1 DEF Caps, CapsOf, SeesAll, Sees
<1>3. \A u \in Users : SeesAll'[u] \in BOOLEAN
  BY DEF SeesAll, Sees
<1>4. ASSUME NEW s \in Sockets PROVE sock'[s] \in Socket /\ SocketInv(sock[s])'
  <2> DEFINE x == sock[s]
             y == sock'[s]
  <2>0. x \in Socket /\ SocketInv(x) /\ y = Refreshed(x, A, {"hosts"})
    BY <1>1 DEF WiresTyped, SocketsInv
  <2>1. CASE x.at = "opening"
    <3>1. y = [x EXCEPT !.moved = TRUE]
      BY <2>0, <2>1 DEF Refreshed
    <3>2. y \in Socket /\ y.at = "opening" /\ y.moved
      BY <2>0, <2>1, <3>1 DEF Socket
    <3>. QED  BY <3>2 DEF SocketInv
  <2>2. CASE x.at = "open" /\ x.user \in A
    <3>1. y = [x EXCEPT !.sees = SeesAll'[x.user]]
      BY <2>0, <2>2 DEF Refreshed, Socket
    <3>2. y \in Socket /\ y.at = "open" /\ y.user = x.user /\ y.caps = x.caps /\ y.sees = SeesAll'[x.user]
      BY <1>3, <2>0, <2>2, <3>1 DEF Socket
    <3>. QED  BY <1>1, <1>2, <2>0, <2>2, <3>2 DEF SocketInv
  <2>3. CASE x.at = "shell" /\ x.user \in A /\ ~SeesAll'[x.user]
    <3>1. y = [x EXCEPT !.at = "closing"]
      BY <2>0, <2>3 DEF Refreshed
    <3>2. y \in Socket /\ y.at = "closing"
      BY <2>0, <3>1 DEF Socket
    <3>. QED  BY <3>2 DEF SocketInv
  <2>4. CASE /\ x.at # "opening" /\ ~(x.at = "open" /\ x.user \in A)
             /\ ~(x.at = "shell" /\ x.user \in A /\ ~SeesAll'[x.user])
    <3>1. y = x
      BY <2>0, <2>4 DEF Refreshed
    <3>. QED  BY <1>1, <1>2, <2>0, <2>4, <3>1 DEF SocketInv
  <2>. QED  BY <2>1, <2>2, <2>3, <2>4
<1>5. WiresTyped'
  BY <1>1, <1>4 DEF WiresTyped
<1>. QED  BY <1>4, <1>5 DEF SocketsInv

(* A socket is registered: if the generation has moved meanwhile, its user *)
(* is looked up again.                                                     *)
LEMMA RegisterStep ==
  ASSUME AccessInv, NEW s \in Sockets, RegisterSocket(s)
  PROVE  WiresTyped' /\ SocketsInv'
<1> USE DEF AccessInv
<1> DEFINE x == sock[s]
           u == x.user
           stays == u \in users /\ (x.kind = "shell" => ShellStillAuthorized(u))
<1>1. /\ x.at = "opening" /\ UNCHANGED <<account, directory, behind>>
      /\ sock' = [t \in Sockets |->
             CASE t = s /\ ~x.moved -> Connected(x)
               [] t = s /\ x.moved /\ ~stays -> NoSocket
               [] t = s /\ x.moved /\ stays ->
                     [Connected(x) EXCEPT !.caps = CapsOf(u), !.own = CapsOf(u),
                                          !.sees = Sees(u)]
               [] t # s /\ x.moved /\ stays /\ x.kind = "events" ->
                     Refreshed(sock[t], {u}, {"caps", "hosts"})
               [] OTHER -> sock[t]]
  BY Zenon DEF RegisterSocket
<1>2. Caps' = Caps /\ SeesAll' = SeesAll
  BY <1>1 DEF Caps, CapsOf, SeesAll, Sees
<1>3. ASSUME NEW v \in Users
      PROVE  /\ Caps[v] = CapsOf(v) /\ SeesAll[v] = Sees(v)
             /\ Caps[v] \subseteq Capabilities /\ SeesAll[v] \in BOOLEAN
  BY CapsTyped DEF Caps, CapsOf, SeesAll, Sees, DirectoryTyped
<1>4. \A t \in Sockets : sock[t] \in Socket /\ SocketInv(sock[t])
  BY DEF WiresTyped, SocketsInv
<1>5. sock'[s] \in Socket /\ SocketInv(sock'[s])
  <2>0. x \in Socket /\ SocketInv(x)
    BY <1>4
  <2>1. CASE ~x.moved
    <3>1. sock'[s] = [x EXCEPT !.at = IF x.kind = "shell" THEN "shell" ELSE "open", !.moved = FALSE]
      BY <1>1, <2>1 DEF Connected
    <3>2. /\ sock'[s] \in Socket /\ sock'[s].at = (IF x.kind = "shell" THEN "shell" ELSE "open")
          /\ sock'[s].user = u /\ sock'[s].caps = x.caps /\ sock'[s].sees = x.sees
      BY <2>0, <3>1 DEF Socket
    <3>. QED  BY <1>1, <2>0, <2>1, <3>2 DEF SocketInv
  <2>2. CASE x.moved /\ ~stays
    <3>1. sock'[s] = NoSocket
      BY <1>1, <2>2
    <3>. QED  BY <3>1 DEF NoSocket, Socket, SocketInv
  <2>3. CASE x.moved /\ stays
    <3>0. u \in Users /\ u \in users
      BY <2>3 DEF AccountsTyped, UserRows
    <3>1. sock'[s] = [x EXCEPT !.at = IF x.kind = "shell" THEN "shell" ELSE "open", !.moved = FALSE,
                               !.caps = Caps[u], !.own = Caps[u], !.sees = SeesAll[u]]
      BY <1>1, <1>3, <2>3, <3>0 DEF Connected
    <3>2. /\ sock'[s] \in Socket /\ sock'[s].at = (IF x.kind = "shell" THEN "shell" ELSE "open")
          /\ sock'[s].user = u /\ sock'[s].caps = Caps[u] /\ sock'[s].sees = SeesAll[u]
      BY <1>3, <2>0, <3>0, <3>1 DEF Socket
    <3>3. x.kind = "shell" => "shell" \in Caps[u] /\ SeesAll[u]
      BY <1>3, <2>3, <3>0 DEF ShellStillAuthorized
    <3>. QED  BY <3>0, <3>2, <3>3 DEF SocketInv
  <2>. QED  BY <2>1, <2>2, <2>3
<1>6. ASSUME NEW t \in Sockets, t # s PROVE sock'[t] \in Socket /\ SocketInv(sock'[t])
  <2> DEFINE y == sock[t]
  <2>0. y \in Socket /\ SocketInv(y)
    BY <1>4
  <2>1. sock'[t] = y \/ (stays /\ sock'[t] = Refreshed(y, {u}, {"caps", "hosts"}))
    BY <1>1, <1>6
  <2>2. CASE sock'[t] = y
    BY <2>0, <2>2
  <2>3. CASE u \in users /\ sock'[t] = Refreshed(y, {u}, {"caps", "hosts"})
    <3>0. u \in Users
      BY <2>3 DEF AccountsTyped, UserRows
    <3>1. CASE y.at = "opening"
      <4>1. sock'[t] = [y EXCEPT !.moved = TRUE]
        BY <2>3, <3>1 DEF Refreshed
      <4>2. sock'[t] \in Socket /\ sock'[t].at = "opening" /\ sock'[t].moved
        BY <2>0, <3>1, <4>1 DEF Socket
      <4>. QED  BY <4>2 DEF SocketInv
    <3>2. CASE y.at = "open" /\ y.user = u
      <4>1. sock'[t] = [y EXCEPT !.caps = Caps[u], !.sees = SeesAll[u]]
        BY <1>2, <2>3, <3>2 DEF Refreshed
      <4>2. /\ sock'[t] \in Socket /\ sock'[t].at = "open" /\ sock'[t].user = u
            /\ sock'[t].caps = Caps[u] /\ sock'[t].sees = SeesAll[u]
        BY <1>3, <2>0, <3>0, <3>2, <4>1 DEF Socket
      <4>. QED  BY <2>3, <4>2 DEF SocketInv
    <3>3. CASE y.at = "shell" /\ y.user = u /\ ~("shell" \in Caps[u] /\ SeesAll[u])
      <4>1. sock'[t] = [y EXCEPT !.at = "closing"]
        BY <1>2, <2>3, <3>3 DEF Refreshed
      <4>2. sock'[t] \in Socket /\ sock'[t].at = "closing"
        BY <2>0, <4>1 DEF Socket
      <4>. QED  BY <4>2 DEF SocketInv
    <3>4. CASE /\ y.at # "opening" /\ ~(y.at = "open" /\ y.user = u)
               /\ ~(y.at = "shell" /\ y.user = u /\ ~("shell" \in Caps[u] /\ SeesAll[u]))
      <4>1. sock'[t] = y
        BY <1>2, <2>3, <3>4 DEF Refreshed
      <4>. QED  BY <2>0, <4>1
    <3>. QED  BY <3>1, <3>2, <3>3, <3>4
  <2>. QED  BY <2>1, <2>2, <2>3
<1>7. \A t \in Sockets : sock'[t] \in Socket /\ SocketInv(sock'[t])
  BY <1>5, <1>6
<1>8. WiresTyped'
  <2>1. sock' = [t \in Sockets |-> sock'[t]]
    BY <1>1
  <2>. QED  BY <1>1, <1>7, <2>1 DEF WiresTyped
<1>9. SocketsInv'
  <2> SUFFICES ASSUME NEW t \in Sockets PROVE SocketInv(sock[t])'
    BY DEF SocketsInv
  <2>1. SocketInv(sock'[t]) /\ users' = users /\ behind' = behind
    BY <1>1, <1>7
  <2>. QED  BY <1>2, <2>1 DEF SocketInv
<1>. QED  BY <1>8, <1>9

(* Sockets come, are registered, refreshed and go. *)
LEMMA SocketStepsKeep ==
  ASSUME AccessInv, SocketSteps
  PROVE  AccessInv'
<1>1. UNCHANGED <<account, directory, keys, oidc, flow, sessions, requests>>
  BY DEF SocketSteps, RegisterSocket, CloseSocket, BroadcastFails, OpenSocket, CatchUp
<1>2. WiresTyped' /\ SocketsInv'
  BY OneSocketSteps, CatchUpStep, RegisterStep DEF SocketSteps
<1>3. AccountsTyped' /\ DirectoryTyped' /\ SettingsTyped'
  BY <1>1 DEF AccessInv, AccountsTyped, UserRows, DirectoryTyped, SettingsTyped
<1>4. DirectoryInv' /\ SsoOnlyIsUsable' /\ LiveKeyIsAnchored'
  BY <1>1 DEF AccessInv, DirectoryInv, AdminRemains, EveryUserHasAGroup, NobodyElse, SsoOnlyIsUsable,
              LiveKeyIsAnchored
<1>. QED  BY <1>2, <1>3, <1>4 DEF AccessInv

(* Every step keeps the invariant. *)
LEMMA NextAccess == AccessInv /\ [Next]_vars => AccessInv'
<1> SUFFICES ASSUME AccessInv, [Next]_vars PROVE AccessInv'
  OBVIOUS
<1>1. CASE UNCHANGED vars
  <2>1. UNCHANGED <<users, directory, wires>> /\ UNCHANGED <<account, sessions, requests, keys, oidc, flow>>
    BY <1>1 DEF vars
  <2>. QED  BY <2>1, DirectoryKept DEF AccessInv, AccountsTyped, UserRows, SettingsTyped, SsoOnlyIsUsable,
                                       LiveKeyIsAnchored
<1>2. CASE AccountSteps
  BY <1>2, SessionSteps, ApproveSteps, CreateUserStep, MemberSteps, DeleteUserStep
     DEF AccountSteps, ApproveAll, ApproveUser
<1>3. CASE GroupSteps
  <2>1. ASSUME NEW g \in Groups, NEW C \in SUBSET Capabilities, UpdatePermissions(g, C)
        PROVE  \E D, R \in SUBSET Capabilities : SetGrants(g, D, R)
    <3>1. rows[g] \cup (C \ grants[g]) \cup (grants[g] \ C) \in SUBSET Capabilities
      BY DEF AccessInv, DirectoryTyped, GroupPermission
    <3>. QED  BY <2>1, <3>1 DEF UpdatePermissions
  <2>2. ASSUME NEW g \in Groups, NEW h \in Groups, CopyPermissions(g, h)
        PROVE  \E D, R \in SUBSET Capabilities : SetGrants(g, D, R)
    <3>1. grants[h] \in SUBSET Capabilities /\ rows[h] \in SUBSET Capabilities
      BY DEF AccessInv, DirectoryTyped, GroupPermission
    <3>. QED  BY <2>2, <3>1 DEF CopyPermissions
  <2>. QED  BY <1>3, <2>1, <2>2, GroupStepsKeep, MemberSteps DEF GroupSteps
<1>4. CASE OidcSteps
  <2>1. \A g, h \in Groups : /\ oidc.mapped \cup {g} \in SUBSET Groups /\ oidc.mapped \ {g} \in SUBSET Groups
                             /\ (oidc.mapped \ {g}) \cup {h} \in SUBSET Groups
    BY DEF AccessInv, SettingsTyped, OIDCConfig
  <2>2. CASE \/ \E g \in Groups : CreateMapping(g) \/ DeleteMapping(g)
             \/ \E g, h \in Groups : UpdateMapping(g, h)
    BY <2>1, <2>2, OidcSettingSteps DEF CreateMapping, DeleteMapping, UpdateMapping
  <2>3. CASE \/ \E usable, approval \in BOOLEAN, default \in Groups \cup {None} :
                  UpdateOidc(usable, approval, default)
             \/ \E disabled \in BOOLEAN : SetLocalLogin(disabled)
    BY <2>3, OidcSettingSteps
  <2>4. CASE \E u \in OidcUsers :
               \/ Authorize(u) \/ CallbackBegins(u) \/ CallbackFails(u) \/ CallbackEnds(u)
               \/ IdTokenRefused(u)
               \/ \E claimed \in SUBSET Groups \cup {{None}} :
                     CallbackKnown(u, claimed) \/ CallbackNew(u, claimed)
    BY <2>4, SignOnSteps, CallbackKnownStep, CallbackNewStep
  <2>. QED  BY <1>4, <2>2, <2>3, <2>4 DEF OidcSteps
<1>5. CASE SocketSteps \/ KeySteps \/ Restart
  BY <1>5, SocketStepsKeep, KeyStepsKeep, RestartStep
<1>. QED  BY <1>1, <1>2, <1>3, <1>4, <1>5 DEF Next

(* The inductive invariant, for any numbers of users, groups, keys,        *)
(* sockets, sessions and requests.                                         *)
THEOREM AccessInvariant == Spec => []AccessInv
BY InitAccess, NextAccess, PTL DEF Spec

(* Every key that works has its group and a user who answers for it, also  *)
(* a key that was made with another key.                                   *)
THEOREM LiveKeyIsAnchoredHolds == Spec => []LiveKeyIsAnchored
<1>1. AccessInv => LiveKeyIsAnchored
  BY DEF AccessInv
<1>. QED  BY <1>1, AccessInvariant, PTL

(* What the manager delivers to an open socket, and the shells that are    *)
(* open, are what their users may have now, whatever was edited while they *)
(* were being accepted.  Of the endpoint's own copy it says nothing.       *)
THEOREM OpenSocketsAreAllowedHolds == Spec => []OpenSocketsAreAllowed
<1>1. AccessInv => OpenSocketsAreAllowed
  <2> SUFFICES ASSUME AccessInv PROVE OpenSocketsAreAllowed
    OBVIOUS
  <2>1. \A s \in Sockets : sock[s].user \in users => sock[s].user \in Users
    BY DEF AccessInv, AccountsTyped, UserRows
  <2>2. \A u \in Users : Caps[u] = CapsOf(u) /\ SeesAll[u] = Sees(u)
    BY DEF Caps, SeesAll
  <2>3. SocketIsCurrent /\ ShellIsAllowed
    BY <2>1, <2>2 DEF AccessInv, SocketsInv, SocketInv, SocketIsCurrent, ShellIsAllowed
  <2>4. TypeOK
    BY TypesByParts DEF AccessInv
  <2>. QED  BY <2>3, <2>4 DEF OpenSocketsAreAllowed
<1>. QED  BY <1>1, AccessInvariant, PTL

(* Who holds a critical capability keeps it while the user and the groups  *)
(* that grant it stay.                                                     *)
LEMMA CriticalKept ==
  ASSUME NEW u \in users', NEW g, g \in groupsOf'[u], "manage" \in grants'[g]
  PROVE  CriticalHeld'
BY DEF CriticalHeld, CapsOf

(* A step that changes permissions or accounts leaves somebody with every  *)
(* critical capability.                                                    *)
LEMMA StepKeepsCritical ==
  ASSUME AccessInv, Next, CriticalHeld, ~(grants' = grants /\ users' = users)
  PROVE  CriticalHeld'
<1> USE DEF AccessInv
<1>1. PICK u \in users : \E h \in groupsOf[u] : "manage" \in grants[h]
  BY DEF CriticalHeld, CapsOf
<1>w. PICK g \in groupsOf[u] : "manage" \in grants[g]
  BY <1>1
<1>2. u \in Users /\ g \in groups /\ g \in Groups
  BY <1>1, <1>w DEF AccountsTyped, UserRows, DirectoryTyped, DirectoryInv, EveryUserHasAGroup
<1>3. CASE SocketSteps \/ KeySteps
  BY <1>3 DEF SocketSteps, RegisterSocket, CloseSocket, BroadcastFails, OpenSocket, CatchUp, KeySteps,
              CreateKey, RevokeKey
<1>4. CASE AccountSteps
  <2>1. CASE \E v \in Users, G \in SUBSET Groups, change \in BOOLEAN : CreateUser(v, G, change)
    <3>1. PICK v \in Users, G \in SUBSET Groups, change \in BOOLEAN : CreateUser(v, G, change)
      BY <2>1
    <3>2. u \in users' /\ g \in groupsOf'[u] /\ grants' = grants
      BY <1>1, <1>w, <1>2, <3>1 DEF CreateUser, DirectoryTyped, UserGroupMembership
    <3>. QED  BY <1>1, <1>w, <3>2, CriticalKept
  <2>2. CASE \E a \in Actors, v \in Users : DeleteUser(a, v)
    BY <2>2 DEF DeleteUser
  <2>3. \A v \in Users : /\ Login(v) \/ LoginFails(v) \/ LockExpires(v) => grants' = grants /\ users' = users
                         /\ Logout(v) \/ SessionExpires(v) => grants' = grants /\ users' = users
                         /\ ChangePassword(v) \/ ResetPassword(v) => grants' = grants /\ users' = users
                         /\ \A G \in SUBSET Groups : UpdateUser(v, G) => grants' = grants /\ users' = users
    BY DEF Login, LoginFails, LockExpires, Logout, SessionExpires, ChangePassword, ResetPassword, UpdateUser
  <2>4. ~ApproveAll /\ \A v \in Users : ~ApproveUser(v)
    BY DEF ApproveAll, ApproveUser, Approved
  <2>. QED  BY <1>4, <2>1, <2>2, <2>3, <2>4 DEF AccountSteps
<1>5. CASE GroupSteps
  <2>1. CASE \E h \in Groups : CreateGroup(h)
    <3>1. PICK h \in Groups : CreateGroup(h)
      BY <2>1
    <3>2. u \in users' /\ g \in groupsOf'[u] /\ "manage" \in grants'[g]
      BY <1>1, <1>w, <1>2, <3>1 DEF CreateGroup, DirectoryTyped, GroupPermission
    <3>. QED  BY <3>2, CriticalKept
  <2>2. CASE \E h \in Groups : DeleteGroup(h)
    <3>1. PICK h \in Groups : DeleteGroup(h)
      BY <2>2
    <3>2. /\ users' = users /\ groupsOf' = [v \in Users |-> groupsOf[v] \ {h}]
          /\ grants' = [grants EXCEPT ![h] = {}]
          /\ "manage" \in grants[h] => HeldElsewhere("manage", h)
      BY <3>1 DEF DeleteGroup
    <3>3. PICK v \in users, k \in groups : k \in groupsOf[v] /\ k # h /\ "manage" \in grants[k]
      BY <1>1, <1>w, <1>2, <3>2 DEF HeldElsewhere
    <3>4. v \in Users /\ k \in Groups
      BY DEF AccountsTyped, UserRows, DirectoryTyped, UserGroupMembership
    <3>5. v \in users' /\ k \in groupsOf'[v] /\ "manage" \in grants'[k]
      BY <3>2, <3>3, <3>4 DEF DirectoryTyped, GroupPermission
    <3>. QED  BY <3>5, CriticalKept
  <2>3. \A h \in Groups, C \in SUBSET Capabilities : UpdatePermissions(h, C) => CriticalHeld'
    BY DEF UpdatePermissions, SetGrants
  <2>4. \A h, k \in Groups : CopyPermissions(h, k) => CriticalHeld'
    BY DEF CopyPermissions, SetGrants
  <2>5. \A h \in Groups, v \in Users : ~AddMember(h, v) /\ ~RemoveMember(h, v) /\ ~UpdateTagScopes(h)
    BY DEF AddMember, RemoveMember, UpdateTagScopes
  <2>. QED  BY <1>2, <1>5, <2>1, <2>2, <2>3, <2>4, <2>5 DEF GroupSteps
<1>6. CASE OidcSteps
  <2>1. CASE \E v \in OidcUsers, claimed \in SUBSET Groups \cup {{None}} : CallbackNew(v, claimed)
    <3>1. PICK v \in OidcUsers, claimed \in SUBSET Groups \cup {{None}} : CallbackNew(v, claimed)
      BY <2>1
    <3>2. v \notin users /\ grants' = grants
      BY <3>1 DEF CallbackNew
    <3>3. u \in users' /\ groupsOf'[u] = groupsOf[u]
      BY <1>1, <1>w, <1>2, <3>1, <3>2 DEF CallbackNew, DirectoryTyped, UserGroupMembership
    <3>. QED  BY <1>1, <1>w, <3>2, <3>3, CriticalKept
  <2>2. /\ \A usable, approval \in BOOLEAN, default \in Groups \cup {None} :
             ~UpdateOidc(usable, approval, default)
        /\ \A disabled \in BOOLEAN : ~SetLocalLogin(disabled)
    BY DEF UpdateOidc, SetLocalLogin
  <2>3. /\ \A h \in Groups : ~CreateMapping(h) /\ ~DeleteMapping(h)
        /\ \A h, k \in Groups : ~UpdateMapping(h, k)
    BY DEF CreateMapping, DeleteMapping, UpdateMapping, Mapped
  <2>4. \A v \in OidcUsers :
          /\ ~Authorize(v) /\ ~CallbackBegins(v) /\ ~CallbackFails(v) /\ ~CallbackEnds(v)
          /\ ~IdTokenRefused(v)
          /\ \A claimed \in SUBSET Groups \cup {{None}} : ~CallbackKnown(v, claimed)
    BY DEF Authorize, CallbackBegins, CallbackFails, CallbackEnds, IdTokenRefused, CallbackKnown
  <2>. QED  BY <1>6, <2>1, <2>2, <2>3, <2>4 DEF OidcSteps
<1>7. CASE Restart
  <2>1. u \in users' /\ g \in groupsOf'[u] /\ "manage" \in grants'[g]
    BY <1>1, <1>w, <1>2, <1>7 DEF Restart
  <2>. QED  BY <2>1, CriticalKept
<1>. QED  BY <1>3, <1>4, <1>5, <1>6, <1>7 DEF Next

(* No sequence of edits, sign-ins and restarts leaves nobody in the        *)
(* administrators' group, a user without a group or no way to sign in; and *)
(* no edit of permissions, deletion of a group or of a user takes a        *)
(* critical capability from the last one who holds it.                     *)
THEOREM NoLockoutHolds == Spec => NoLockout
<1>1. AccessInv => AdminRemains /\ EveryUserHasAGroup /\ SsoOnlyIsUsable
  BY DEF AccessInv, DirectoryInv
<1>2. AccessInv /\ [Next]_vars =>
        [CriticalHeld /\ ~CriticalHeld' => grants' = grants /\ users' = users]_vars
  BY StepKeepsCritical
<1>. QED  BY <1>1, <1>2, AccessInvariant, PTL DEF Spec, NoLockout, EditsKeepCritical
=============================================================================
