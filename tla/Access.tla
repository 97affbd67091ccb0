-------------------------------- MODULE Access --------------------------------
(***************************************************************************)
(* Users, groups and their permissions, API keys, login sessions, single   *)
(* sign-on (OIDC), and the browser's sockets, whose cached permissions the *)
(* backend refreshes when any of these change.                             *)
(*                                                                         *)
(* The backend is one event loop and SQLite one connection: an endpoint    *)
(* that does not await between its checks and its commit is one step.  The *)
(* permission caches are dropped in the step that commits a change, so     *)
(* they are not kept.  Two capabilities stand for all: "manage" for the    *)
(* critical ones (users.manage, groups.manage, oidc.manage,                *)
(* apikeys.manage_other, settings.manage), "shell" for the others.  Hosts  *)
(* carry no tag, so a group restricted to tags sees none of them.          *)
(***************************************************************************)
EXTENDS Naturals, FiniteSets

CONSTANTS
    Users, OidcUsers,    \* accounts, and those that single sign-on provides
    Founder,             \* the account the database is created with
    Groups, Admins,      \* groups, and the system group Administrators
    System,              \* the system groups (is_system)
    ReadOnly,            \* the system group that single sign-on starts with
    Keys,                \* API keys
    Sockets,             \* sockets of browsers
    None,
    MaxFailedAttempts,   \* wrong passwords before an account is locked
    MaxSessions,         \* MAX_SESSIONS_PER_USER
    MaxRequests          \* bound: changes and ended sessions in a behaviour

ASSUME AccessAssumption ==
    /\ Founder \in Users \ OidcUsers /\ OidcUsers \subseteq Users
    /\ {Admins, ReadOnly} \subseteq System /\ System \subseteq Groups
    /\ Admins # ReadOnly /\ None \notin Users \cup Groups
    /\ MaxSessions \in Nat \ {0} /\ MaxFailedAttempts \in Nat \ {0}
    /\ MaxRequests \in Nat

VARIABLES
    users,       \* rows of users
    approved,    \* users.approved
    mustChange,  \* users.must_change_password
    attempts,    \* users.failed_login_attempts
    locked,      \* users.locked_until lies in the future
    groups,      \* rows of custom_groups
    groupsOf,    \* user_group_memberships
    grants,      \* group_permissions that are allowed
    rows,        \* group_permissions, allowed or not
    scoped,      \* groups with group_tag_scopes
    keys,        \* api_keys
    oidc,        \* oidc_config and oidc_group_mappings
    flow,        \* [OidcUsers -> a single sign-on under way]
    sessions,    \* [Users -> number of sessions], in memory
    sock,        \* [Sockets -> a browser's socket], in memory
    behind,      \* users whose sockets' visible hosts are yet to be refreshed
    requests     \* changes still to be made

account == <<users, approved, mustChange, attempts, locked>>
directory == <<groups, groupsOf, grants, rows, scoped>>
wires == <<sock, behind>>
vars == <<account, directory, keys, oidc, flow, sessions, wires, requests>>

Capabilities == {"manage", "shell"}
Actors == Users \cup Keys
NoKey == [state |-> "none", group |-> None, creator |-> None]
NoFlow == [at |-> "idle", approval |-> FALSE, default |-> None]
NoSocket == [at |-> "none", kind |-> "events", user |-> None,
             caps |-> {}, own |-> {}, sees |-> FALSE, moved |-> FALSE]

\* Rows of the tables
ApiKey == [state : {"none", "live", "revoked"}, group : Groups \cup {None},
           creator : Users \cup {None}]
OIDCConfig == [usable : BOOLEAN, localDisabled : BOOLEAN, approval : BOOLEAN,
               mapped : SUBSET Groups, default : Groups \cup {None}]
PendingOIDCAuth == [at : {"idle", "pending", "waiting", "granted"},
                    approval : BOOLEAN, default : Groups \cup {None}]
UserGroupMembership == [Users -> SUBSET Groups]
GroupPermission == [Groups -> SUBSET Capabilities]
GroupTagScope == SUBSET Groups

UserRows ==
    /\ users \subseteq Users /\ approved \subseteq Users
    /\ mustChange \subseteq Users /\ locked \subseteq Users
    /\ attempts \in [Users -> 0 .. MaxFailedAttempts]

TypeOK ==
    /\ UserRows
    /\ groups \subseteq Groups /\ scoped \in GroupTagScope
    /\ groupsOf \in UserGroupMembership
    /\ grants \in GroupPermission /\ rows \in GroupPermission
    /\ keys \in [Keys -> ApiKey]
    /\ oidc \in OIDCConfig
    /\ flow \in [OidcUsers -> PendingOIDCAuth]
    /\ sessions \in [Users -> 0 .. MaxSessions]
    /\ sock \in [Sockets -> [at : {"none", "opening", "open", "shell", "closing"},
                             kind : {"events", "shell"}, user : Users \cup {None},
                             caps : SUBSET Capabilities, own : SUBSET Capabilities,
                             sees : BOOLEAN, moved : BOOLEAN]]
    /\ behind \subseteq Users
    /\ requests \in 0 .. MaxRequests

\* What a system group is created with: only the administrators' capabilities
\* are told apart here.
DefaultGrants(g) == IF g = Admins THEN Capabilities ELSE {}

\* _ensure_default_groups: the system groups and the first user.
Init ==
    /\ users = {Founder} /\ approved = {Founder}
    /\ mustChange = {} /\ locked = {}
    /\ attempts = [u \in Users |-> 0]
    /\ groups = System /\ scoped = {}
    /\ groupsOf = [u \in Users |-> IF u = Founder THEN {Admins} ELSE {}]
    /\ grants = [g \in Groups |-> DefaultGrants(g)]
    /\ rows = grants
    /\ keys = [k \in Keys |-> NoKey]
    /\ oidc = [usable |-> FALSE, localDisabled |-> FALSE, approval |-> FALSE,
               mapped |-> {}, default |-> ReadOnly]
    /\ flow = [u \in OidcUsers |-> NoFlow]
    /\ sessions = [u \in Users |-> 0]
    /\ sock = [s \in Sockets |-> NoSocket]
    /\ behind = {}
    /\ requests = MaxRequests

-------------------------------------------------------------------------------
(* Permissions                                                               *)

\* get_capabilities_for_group, get_capabilities_for_user
CapsOf(u) == UNION {grants[g] : g \in groupsOf[u]}

\* get_visible_host_ids_for_groups: a group without scopes sees every host.
Sees(u) == \E g \in groupsOf[u] : g \notin scoped

Caps == [u \in Users |-> CapsOf(u)]
SeesAll == [u \in Users |-> Sees(u)]

\* get_effective_capabilities
ActorCaps(a) == IF a \in Keys THEN grants[keys[a].group] ELSE CapsOf(a)

\* validate_session
SignedIn(u) == sessions[u] > 0

\* validate_api_key
KeyWorks(k) == keys[k].state = "live" /\ keys[k].group \in groups

\* get_current_user_or_api_key: a user who must change the password can do
\* nothing else.
Authenticated(a) ==
    IF a \in Keys THEN KeyWorks(a)
    ELSE a \in users /\ SignedIn(a) /\ a \notin mustChange

\* require_capability
Holds(a, cap) == Authenticated(a) /\ cap \in ActorCaps(a)

\* An endpoint for administrators, called by someone who holds wanted as well
\* (ensure_no_privilege_escalation).
Administers(wanted) ==
    /\ requests > 0 /\ requests' = requests - 1
    /\ \E a \in Actors : Holds(a, "manage") /\ wanted \subseteq ActorCaps(a)

\* count_other_admins
OtherAdmins(u) == {v \in users \ {u} : Admins \in groupsOf[v]}

\* ensure_not_last_admin
NotLastAdmin(u) == Admins \in groupsOf[u] => OtherAdmins(u) # {}

\* _any_group_has_capability_with_members
HeldElsewhere(cap, g) ==
    \E h \in groups \ {g} : cap \in grants[h] /\ \E u \in users : h \in groupsOf[u]

\* verify_critical_capabilities
CriticalHeld == \E u \in users : "manage" \in CapsOf(u)

-------------------------------------------------------------------------------
(* Browser sockets: ConnectionManager                                        *)

\* What a refresh for the users in A does to socket x: the generation counter
\* moves on, the cached permissions are replaced, and a shell that is no longer
\* allowed is picked for closing.  parts: capabilities, visible hosts, or both.
Refreshed(x, A, parts) ==
    CASE x.at = "opening" -> [x EXCEPT !.moved = TRUE]
      [] x.at = "open" /\ x.user \in A ->
            [x EXCEPT !.caps = IF "caps" \in parts THEN Caps'[x.user] ELSE @,
                      !.sees = IF "hosts" \in parts THEN SeesAll'[x.user] ELSE @]
      [] /\ x.at = "shell" /\ x.user \in A
         /\ \/ "caps" \in parts /\ "shell" \notin Caps'[x.user]
            \/ "hosts" \in parts /\ ~SeesAll'[x.user] ->
            [x EXCEPT !.at = "closing"]
      [] OTHER -> x

\* _refresh_ws_auth_state: the capabilities, then the visible hosts; it awaits
\* in between when shells have to be closed.
RefreshSockets(A) ==
    LET revoked == {s \in Sockets : /\ sock[s].at = "shell" /\ sock[s].user \in A
                                    /\ "shell" \notin Caps'[sock[s].user]}
        parts == IF revoked = {} THEN {"caps", "hosts"} ELSE {"caps"}
    IN /\ sock' = [s \in Sockets |-> Refreshed(sock[s], A, parts)]
       /\ behind' = IF revoked = {} THEN behind \ A ELSE behind \cup A

\* refresh_visible_hosts_for_user, refresh_all_visible_hosts, after that await
CatchUp(A) ==
    /\ A # {} /\ A \subseteq behind
    /\ UNCHANGED <<account, directory, keys, oidc, flow, sessions, requests>>
    /\ sock' = [s \in Sockets |-> Refreshed(sock[s], A, {"hosts"})]
    /\ behind' = behind \ A

\* websocket_endpoint and websocket_shell_endpoint: check the session and the
\* user, read the permissions and the generation, then await.  caps is what the
\* manager will deliver by, own the endpoint's variable user_caps, which it goes
\* by when the browser subscribes to statistics.
OpenSocket(s, u, kind) ==
    /\ sock[s].at = "none" /\ u \in users /\ SignedIn(u)
    /\ kind = "shell" => "shell" \in CapsOf(u) /\ Sees(u)
    /\ sock' = [sock EXCEPT ![s] =
                  [at |-> "opening", kind |-> kind, user |-> u,
                   caps |-> CapsOf(u), own |-> CapsOf(u), sees |-> Sees(u),
                   moved |-> FALSE]]
    /\ UNCHANGED <<account, directory, keys, oidc, flow, sessions, behind, requests>>

\* Mutant: the socket keeps what was read before the await.
RegisterSocketUnchecked(s) ==
    /\ sock[s].at = "opening"
    /\ sock' = [sock EXCEPT ![s].at = IF sock[s].kind = "shell" THEN "shell"
                                      ELSE "open"]
    /\ UNCHANGED <<account, directory, keys, oidc, flow, sessions, behind, requests>>

\* connect, register_shell
Connected(x) == [x EXCEPT !.at = IF x.kind = "shell" THEN "shell" ELSE "open",
                          !.moved = FALSE]

\* _shell_still_authorized
ShellStillAuthorized(u) == "shell" \in CapsOf(u) /\ Sees(u)

\* Registered; if the generation has moved, the user is validated again, and
\* the permissions are read again, by the endpoint as well: the only time after
\* the socket has been opened.
RegisterSocket(s) ==
    /\ sock[s].at = "opening"
    /\ UNCHANGED <<account, directory, keys, oidc, flow, sessions, behind, requests>>
    /\ LET x == sock[s]
           u == x.user
           stays == u \in users /\ (x.kind = "shell" => ShellStillAuthorized(u))
       IN sock' = [t \in Sockets |->
             CASE t = s /\ ~x.moved -> Connected(x)
               [] t = s /\ x.moved /\ ~stays -> NoSocket
               [] t = s /\ x.moved /\ stays ->
                     [Connected(x) EXCEPT !.caps = CapsOf(u), !.own = CapsOf(u),
                                          !.sees = Sees(u)]
               [] t # s /\ x.moved /\ stays /\ x.kind = "events" ->
                     Refreshed(sock[t], {u}, {"caps", "hosts"})
               [] OTHER -> sock[t]]

\* The browser goes away, or _close and unregister_shell have run.
CloseSocket(s) ==
    /\ sock[s].at \in {"open", "shell", "closing"}
    /\ sock' = [sock EXCEPT ![s] = NoSocket]
    /\ UNCHANGED <<account, directory, keys, oidc, flow, sessions, behind, requests>>

\* broadcast: it goes to the sockets whose cached permissions allow it, and drops
\* those that it cannot be sent to.
BroadcastFails(s) ==
    /\ sock[s].at = "open"
    /\ sock' = [sock EXCEPT ![s] = NoSocket]
    /\ UNCHANGED <<account, directory, keys, oidc, flow, sessions, behind, requests>>

\* disconnect_user
DisconnectUser(u) ==
    /\ sock' = [s \in Sockets |->
                  IF sock[s].at \in {"open", "shell"} /\ sock[s].user = u
                  THEN [sock[s] EXCEPT !.at = "closing"]
                  ELSE IF sock[s].at = "opening"
                  THEN [sock[s] EXCEPT !.moved = TRUE] ELSE sock[s]]
    /\ UNCHANGED behind

-------------------------------------------------------------------------------
(* Sessions and passwords                                                    *)

\* create_session: the oldest session gives way when there are too many.
AddSession(u) == [sessions EXCEPT ![u] = IF @ < MaxSessions THEN @ + 1 ELSE @]

\* The refusals of login_v2 other than a wrong password (_reject_login)
MayLogIn(u) == u \in users \ (OidcUsers \cup locked) /\ ~oidc.localDisabled

\* login_v2
Login(u) ==
    /\ MayLogIn(u)
    /\ sessions' = AddSession(u)
    /\ attempts' = [attempts EXCEPT ![u] = 0]
    /\ UNCHANGED <<users, approved, mustChange, locked, directory, keys, oidc, flow,
                   wires, requests>>

\* login_v2 with a wrong password; the counter is not kept beyond the limit.
LoginFails(u) ==
    /\ requests > 0 /\ requests' = requests - 1
    /\ MayLogIn(u)
    /\ LET n == attempts[u] + 1
       IN IF n >= MaxFailedAttempts
          THEN /\ locked' = locked \cup {u}
               /\ attempts' = [attempts EXCEPT ![u] = MaxFailedAttempts]
          ELSE attempts' = [attempts EXCEPT ![u] = n] /\ UNCHANGED locked
    /\ UNCHANGED <<users, approved, mustChange, directory, keys, oidc, flow,
                   sessions, wires>>

\* locked_until passes; failed_login_attempts stays.
LockExpires(u) ==
    /\ u \in locked
    /\ locked' = locked \ {u}
    /\ UNCHANGED <<users, approved, mustChange, attempts, directory, keys, oidc,
                   flow, sessions, wires, requests>>

\* delete_session
SessionDeleted(u) == [sessions EXCEPT ![u] = @ - 1]

\* logout_v2
Logout(u) ==
    /\ requests > 0 /\ requests' = requests - 1
    /\ SignedIn(u) /\ sessions' = SessionDeleted(u)
    /\ UNCHANGED <<account, directory, keys, oidc, flow, wires>>

\* cleanup_expired_sessions; its sockets are not closed
SessionExpires(u) ==
    /\ requests > 0 /\ requests' = requests - 1
    /\ SignedIn(u) /\ sessions' = SessionDeleted(u)
    /\ UNCHANGED <<account, directory, keys, oidc, flow, wires>>

\* delete_sessions_for_user, except for the n that are kept
SessionsDeleted(u, n) == [sessions EXCEPT ![u] = n]

\* change_password_v2: the user's other sessions are deleted.
ChangePassword(u) ==
    /\ requests > 0 /\ requests' = requests - 1
    /\ u \in users \ (OidcUsers \cup locked) /\ SignedIn(u)
    /\ mustChange' = mustChange \ {u}
    /\ sessions' = SessionsDeleted(u, 1)
    /\ UNCHANGED <<users, approved, attempts, locked, directory, keys, oidc, flow, wires>>

\* reset_user_password
ResetPassword(u) ==
    /\ Administers(CapsOf(u)) /\ u \in users \ OidcUsers
    /\ mustChange' = mustChange \cup {u}
    /\ sessions' = SessionsDeleted(u, 0)
    /\ UNCHANGED <<users, approved, attempts, locked, directory, keys, oidc, flow, wires>>

-------------------------------------------------------------------------------
(* Users                                                                     *)

\* create_user
CreateUser(u, G, change) ==
    /\ u \notin users \cup OidcUsers /\ G # {} /\ G \subseteq groups
    /\ Administers(UNION {grants[g] : g \in G})
    /\ users' = users \cup {u} /\ approved' = approved \cup {u}
    /\ mustChange' = IF change THEN mustChange \cup {u} ELSE mustChange \ {u}
    /\ attempts' = [attempts EXCEPT ![u] = 0] /\ locked' = locked \ {u}
    /\ groupsOf' = [groupsOf EXCEPT ![u] = G]
    /\ UNCHANGED <<groups, grants, rows, scoped, keys, oidc, flow, sessions, wires>>

Approved(A) ==
    /\ A # {} /\ A \subseteq users \ approved /\ Administers({})
    /\ approved' = approved \cup A
    /\ UNCHANGED <<users, mustChange, attempts, locked, directory, keys, oidc, flow,
                   sessions, wires>>

\* approve_user
ApproveUser(u) == Approved({u})

\* approve_all_users
ApproveAll == Approved(users \ approved)

\* Mutant: the last administrator may be moved to another group.
UpdateUserUnguarded(u, G) ==
    /\ u \in users /\ G # {} /\ G \subseteq groups /\ G # groupsOf[u]
    /\ Administers(UNION {grants[g] : g \in G})
    /\ groupsOf' = [groupsOf EXCEPT ![u] = G]
    /\ UNCHANGED <<account, groups, grants, rows, scoped, keys, oidc, flow, sessions>>
    /\ RefreshSockets({u})

\* update_user with group_ids (e-mail and display name are not kept)
UpdateUser(u, G) ==
    /\ u \in users /\ G # {} /\ G \subseteq groups /\ G # groupsOf[u]
    /\ Administers(UNION {grants[g] : g \in G})
    /\ Admins \notin G => NotLastAdmin(u)
    /\ groupsOf' = [groupsOf EXCEPT ![u] = G]
    /\ UNCHANGED <<account, groups, grants, rows, scoped, keys, oidc, flow, sessions>>
    /\ RefreshSockets({u})

\* Mutant: the keys the user made stay valid.
RevokeKeysOfNobody(u) == keys

\* revoke_api_keys_for_user
RevokeKeysOf(u) ==
    [k \in Keys |-> IF keys[k].creator = u
                    THEN [keys[k] EXCEPT !.state = "revoked", !.creator = None]
                    ELSE keys[k]]

\* delete_user: not one's own account; memberships cascade.
DeleteUser(a, u) ==
    /\ requests > 0 /\ requests' = requests - 1
    /\ u \in users /\ Holds(a, "manage")
    /\ u # (IF a \in Keys THEN keys[a].creator ELSE a)
    /\ NotLastAdmin(u)
    /\ keys' = RevokeKeysOf(u)
    /\ users' = users \ {u}
    /\ groupsOf' = [groupsOf EXCEPT ![u] = {}]
    /\ approved' = approved \ {u} /\ mustChange' = mustChange \ {u}
    /\ locked' = locked \ {u} /\ attempts' = [attempts EXCEPT ![u] = 0]
    /\ sessions' = SessionsDeleted(u, 0)
    /\ DisconnectUser(u)
    /\ UNCHANGED <<groups, grants, rows, scoped, oidc, flow>>
    /\ CriticalHeld'

-------------------------------------------------------------------------------
(* Groups                                                                    *)

\* create_group (update_group only renames, and never a system group)
CreateGroup(g) ==
    /\ g \notin groups /\ Administers({})
    /\ groups' = groups \cup {g}
    /\ grants' = [grants EXCEPT ![g] = {}] /\ rows' = [rows EXCEPT ![g] = {}]
    /\ scoped' = scoped \ {g}
    /\ UNCHANGED <<account, groupsOf, keys, oidc, flow, sessions, wires>>

\* delete_group: refused for a system group, one with API keys, a member's only
\* group, and the last one to grant a critical capability.
DeleteGroup(g) ==
    /\ g \in groups \ System /\ Administers({})
    /\ \A k \in Keys : keys[k].group # g
    /\ \A u \in users : groupsOf[u] # {g}
    /\ \A c \in grants[g] \cap {"manage"} : HeldElsewhere(c, g)
    /\ groups' = groups \ {g}
    /\ groupsOf' = [u \in Users |-> groupsOf[u] \ {g}]
    /\ grants' = [grants EXCEPT ![g] = {}] /\ rows' = [rows EXCEPT ![g] = {}]
    /\ scoped' = scoped \ {g}
    /\ oidc' = [oidc EXCEPT !.mapped = @ \ {g},
                            !.default = IF @ = g THEN None ELSE @]
    /\ UNCHANGED <<account, keys, flow, sessions>>
    /\ RefreshSockets(Users)

\* add_member
AddMember(g, u) ==
    /\ g \in groups \ groupsOf[u] /\ u \in users /\ Administers({})
    /\ groupsOf' = [groupsOf EXCEPT ![u] = @ \cup {g}]
    /\ UNCHANGED <<account, groups, grants, rows, scoped, keys, oidc, flow, sessions>>
    /\ RefreshSockets({u})

\* remove_member
RemoveMember(g, u) ==
    /\ g \in groupsOf[u] /\ Administers({})
    /\ Cardinality(groupsOf[u]) > 1
    /\ g = Admins => NotLastAdmin(u)
    /\ groupsOf' = [groupsOf EXCEPT ![u] = @ \ {g}]
    /\ UNCHANGED <<account, groups, grants, rows, scoped, keys, oidc, flow, sessions>>
    /\ RefreshSockets({u})

\* The checks and the commit of both endpoints that write permissions: nothing
\* is granted that the actor does not hold, and what is critical is held on to.
SetGrants(g, C, R) ==
    /\ g \in groups /\ C # grants[g] /\ Administers(C \ grants[g])
    /\ \A c \in (grants[g] \ C) \cap {"manage"} : HeldElsewhere(c, g)
    /\ grants' = [grants EXCEPT ![g] = C] /\ rows' = [rows EXCEPT ![g] = R]
    /\ UNCHANGED <<account, groups, groupsOf, scoped, keys, oidc, flow, sessions>>
    /\ CriticalHeld'
    /\ RefreshSockets(Users)

\* update_group_permissions: a capability that is taken away keeps its row.
UpdatePermissions(g, C) ==
    SetGrants(g, C, rows[g] \cup (C \ grants[g]) \cup (grants[g] \ C))

\* copy_group_permissions: the rows are replaced.
CopyPermissions(g, h) == h \in groups \ {g} /\ SetGrants(g, grants[h], rows[h])

\* update_group_tag_scopes
UpdateTagScopes(g) ==
    /\ g \in groups /\ Administers({})
    /\ scoped' \in {scoped \cup {g}, scoped \ {g}} /\ scoped' # scoped
    /\ UNCHANGED <<account, groups, groupsOf, grants, rows, keys, oidc, flow, sessions>>
    /\ RefreshSockets(Users)

-------------------------------------------------------------------------------
(* API keys                                                                  *)

\* create_api_key: a key made with a key belongs to that key's creator.
CreateKey(a, k, g) ==
    /\ requests > 0 /\ requests' = requests - 1
    /\ Holds(a, "manage") /\ keys[k].state = "none" /\ g \in groups
    /\ keys' = [keys EXCEPT ![k] =
                  [state |-> "live", group |-> g,
                   creator |-> IF a \in Keys THEN keys[a].creator ELSE a]]
    /\ UNCHANGED <<account, directory, oidc, flow, sessions, wires>>

\* revoke_api_key (update_api_key changes only its name and addresses)
RevokeKey(k) ==
    /\ Administers({}) /\ keys[k].state = "live"
    /\ keys' = [keys EXCEPT ![k].state = "revoked"]
    /\ UNCHANGED <<account, directory, oidc, flow, sessions, wires>>

-------------------------------------------------------------------------------
(* Single sign-on                                                            *)

\* has_approved_oidc_admin
ApprovedOidcAdmin == \E u \in users \cap OidcUsers \cap approved : "manage" \in CapsOf(u)

\* update_oidc_config; oidc_usable: enabled, with a provider and a client.
UpdateOidc(usable, approval, default) ==
    /\ Administers({}) /\ default \in groups \cup {None}
    /\ oidc.localDisabled => usable
    /\ oidc' = [oidc EXCEPT !.usable = usable, !.approval = approval, !.default = default]
    /\ oidc' # oidc
    /\ UNCHANGED <<account, directory, keys, flow, sessions, wires>>

\* The groups that values of the provider's claim are mapped to become G.
Mapped(G) ==
    /\ Administers({}) /\ G \subseteq groups /\ G # oidc.mapped
    /\ oidc' = [oidc EXCEPT !.mapped = G]
    /\ UNCHANGED <<account, directory, keys, flow, sessions, wires>>

\* create_group_mapping
CreateMapping(g) == Mapped(oidc.mapped \cup {g})

\* update_group_mapping
UpdateMapping(g, h) == g \in oidc.mapped /\ Mapped((oidc.mapped \ {g}) \cup {h})

\* delete_group_mapping
DeleteMapping(g) == Mapped(oidc.mapped \ {g})

\* set_local_login
SetLocalLogin(disabled) ==
    /\ Administers({})
    /\ disabled => oidc.usable /\ ApprovedOidcAdmin
    /\ oidc.localDisabled # disabled
    /\ oidc' = [oidc EXCEPT !.localDisabled = disabled]
    /\ UNCHANGED <<account, directory, keys, flow, sessions, wires>>

\* oidc_authorize: the pending authorization is stored.
Authorize(u) ==
    /\ oidc.usable /\ flow[u].at = "idle"
    /\ flow' = [flow EXCEPT ![u].at = "pending"]
    /\ UNCHANGED <<account, directory, keys, oidc, sessions, wires, requests>>

\* The head of oidc_callback: the pending authorization is used up, and the
\* configuration read, before the provider is asked.
CallbackBegins(u) ==
    /\ flow[u].at = "pending"
    /\ flow' = [flow EXCEPT ![u] =
                  IF oidc.usable
                  THEN [at |-> "waiting", approval |-> oidc.approval,
                        default |-> oidc.default]
                  ELSE NoFlow]
    /\ UNCHANGED <<account, directory, keys, oidc, sessions, wires, requests>>

\* The authorization expired, a claim is missing, the provider fails, or the
\* e-mail address belongs to someone else.
CallbackFails(u) ==
    /\ flow[u].at \in {"pending", "waiting"}
    /\ flow' = [flow EXCEPT ![u] = NoFlow]
    /\ UNCHANGED <<account, directory, keys, oidc, sessions, wires, requests>>

\* _verify_id_token, _validate_at_hash: signature, issuer, audience or nonce
\* are not the expected ones.
IdTokenRefused(u) ==
    /\ flow[u].at = "waiting"
    /\ flow' = [flow EXCEPT ![u] = NoFlow]
    /\ UNCHANGED <<account, directory, keys, oidc, sessions, wires, requests>>


\* _get_groups_for_oidc_user, the claim holding the values of claimed; the
\* default group is the one that was read before the provider was asked.
GroupsFor(u, claimed) ==
    IF oidc.mapped \cap claimed # {} THEN oidc.mapped \cap claimed
    ELSE {flow[u].default} \ {None}

\* _resolve_groups_or_block: a claim that gives no group, or a deleted one
BlockedFrom(u, claimed) ==
    GroupsFor(u, claimed) = {} \/ ~ GroupsFor(u, claimed) \subseteq groups

\* _normalize_groups_claim: no claim at all is not an empty one.
HasClaim(claimed) == claimed # {None}

\* _sync_oidc_user_groups: the last administrator stays one.
Synced(u, G) ==
    IF Admins \in groupsOf[u] /\ OtherAdmins(u) = {} THEN G \cup {Admins} ELSE G

\* The rest of oidc_callback for a user who is known: without a groups claim
\* the groups stay; with one they follow it, unless nothing matches.
CallbackKnown(u, claimed) ==
    /\ flow[u].at = "waiting" /\ u \in users
    /\ LET G == GroupsFor(u, claimed)
           follows == HasClaim(claimed)
           blocked == follows /\ BlockedFrom(u, claimed)
       IN /\ groupsOf' = IF follows /\ ~blocked
                         THEN [groupsOf EXCEPT ![u] = Synced(u, G)] ELSE groupsOf
          /\ flow' = [flow EXCEPT ![u] = IF blocked \/ u \notin approved THEN NoFlow
                                         ELSE [NoFlow EXCEPT !.at = "granted"]]
          /\ UNCHANGED <<account, groups, grants, rows, scoped, keys, oidc, sessions, requests>>
          /\ IF blocked THEN UNCHANGED wires ELSE RefreshSockets({u})

\* For a new user: the account is made with the groups, if there are any; a
\* group that has been deleted meanwhile makes the commit fail.
CallbackNew(u, claimed) ==
    /\ flow[u].at = "waiting" /\ u \notin users
    /\ UNCHANGED <<mustChange, attempts, locked, groups, grants, rows, scoped, keys, oidc,
                   sessions, requests>>
    /\ LET G == IF users = {} THEN {Admins} ELSE GroupsFor(u, claimed)
           fails == G = {} \/ ~ G \subseteq groups
           pends == flow[u].approval /\ users # {}
       IN IF fails
          THEN /\ flow' = [flow EXCEPT ![u] = NoFlow]
               /\ UNCHANGED <<users, approved, groupsOf, wires>>
          ELSE /\ users' = users \cup {u}
               /\ approved' = IF pends THEN approved ELSE approved \cup {u}
               /\ groupsOf' = [groupsOf EXCEPT ![u] = G]
               /\ flow' = [flow EXCEPT ![u] = IF pends THEN NoFlow
                                              ELSE [NoFlow EXCEPT !.at = "granted"]]
               /\ RefreshSockets({u})

\* The session, after the await of the refresh
CallbackEnds(u) ==
    /\ flow[u].at = "granted"
    /\ flow' = [flow EXCEPT ![u] = NoFlow]
    /\ sessions' = AddSession(u)
    /\ UNCHANGED <<account, directory, keys, oidc, wires, requests>>

\* The backend stops and starts: what is in memory is lost, and
\* _ensure_default_groups adds the system groups' permissions that have no row
\* and the first user's membership.
Restart ==
    /\ requests > 0 /\ requests' = requests - 1
    /\ sessions' = [u \in Users |-> 0]
    /\ sock' = [s \in Sockets |-> NoSocket] /\ behind' = {}
    /\ flow' = [u \in OidcUsers |-> IF flow[u].at = "pending" THEN flow[u] ELSE NoFlow]
    /\ LET missing(g) == IF g \in System THEN DefaultGrants(g) \ rows[g] ELSE {}
       IN /\ grants' = [g \in Groups |-> grants[g] \cup missing(g)]
          /\ rows' = [g \in Groups |-> rows[g] \cup missing(g)]
    /\ groupsOf' = [u \in Users |-> IF u = Founder /\ u \in users
                                    THEN groupsOf[u] \cup {Admins} ELSE groupsOf[u]]
    /\ UNCHANGED <<account, groups, scoped, keys, oidc>>

-------------------------------------------------------------------------------
SocketSteps ==
    \/ \E s \in Sockets : RegisterSocket(s) \/ CloseSocket(s) \/ BroadcastFails(s)
    \/ \E s \in Sockets, u \in Users, kind \in {"events", "shell"} : OpenSocket(s, u, kind)
    \/ \E A \in SUBSET Users : CatchUp(A)

AccountSteps ==
    \/ \E u \in Users : \/ Login(u) \/ LoginFails(u) \/ LockExpires(u) \/ Logout(u)
                        \/ SessionExpires(u)
                        \/ ChangePassword(u) \/ ResetPassword(u)
    \/ \E u \in Users, G \in SUBSET Groups :
          UpdateUser(u, G) \/ \E change \in BOOLEAN : CreateUser(u, G, change)
    \/ ApproveAll \/ \E u \in Users : ApproveUser(u)
    \/ \E a \in Actors, u \in Users : DeleteUser(a, u)

GroupSteps ==
    \/ \E g \in Groups : CreateGroup(g) \/ DeleteGroup(g) \/ UpdateTagScopes(g)
    \/ \E g \in Groups, u \in Users : AddMember(g, u) \/ RemoveMember(g, u)
    \/ \E g \in Groups, C \in SUBSET Capabilities : UpdatePermissions(g, C)
    \/ \E g, h \in Groups : CopyPermissions(g, h)

KeySteps ==
    \/ \E a \in Actors, k \in Keys, g \in Groups : CreateKey(a, k, g)
    \/ \E k \in Keys : RevokeKey(k)

OidcSteps ==
    \/ \E usable, approval \in BOOLEAN, default \in Groups \cup {None} :
          UpdateOidc(usable, approval, default)
    \/ \E g \in Groups : CreateMapping(g) \/ DeleteMapping(g)
    \/ \E g, h \in Groups : UpdateMapping(g, h)
    \/ \E disabled \in BOOLEAN : SetLocalLogin(disabled)
    \/ \E u \in OidcUsers :
          \/ Authorize(u) \/ CallbackBegins(u) \/ CallbackFails(u) \/ CallbackEnds(u)
          \/ IdTokenRefused(u)
          \/ \E claimed \in SUBSET Groups \cup {{None}} :
                CallbackKnown(u, claimed) \/ CallbackNew(u, claimed)

Next == SocketSteps \/ AccountSteps \/ GroupSteps \/ KeySteps \/ OidcSteps \/ Restart

\* The event loop runs what is ready, and closing a socket is bounded.
Fairness ==
    /\ \A s \in Sockets : /\ WF_vars(RegisterSocket(s))
                          /\ WF_vars(sock[s].at = "closing" /\ CloseSocket(s))
    /\ WF_vars(CatchUp(behind))

Spec == Init /\ [][Next]_vars /\ Fairness
-------------------------------------------------------------------------------
(* Properties                                                                *)

\* "This is the last member of the Administrators group": however users are
\* deleted, moved and synchronized with the provider's groups, one remains.
AdminRemains == \E u \in users : Admins \in groupsOf[u]

\* "Cannot remove user from their last group": no user is ever left without
\* a group, whichever side the group or the membership is removed from.
EveryUserHasAGroup == \A u \in users : groupsOf[u] # {} /\ groupsOf[u] \subseteq groups

\* A key that works has a group to take its permissions from and a user who
\* answers for it, also when it was made with another key.
LiveKeyIsAnchored ==
    \A k \in Keys : keys[k].state = "live" =>
        keys[k].group \in groups /\ keys[k].creator \in users

\* "You would lock everyone out": while local login is disabled, OIDC is usable.
SsoOnlyIsUsable == oidc.localDisabled => oidc.usable

\* What the manager keeps of a registered socket, and broadcasts by, is what its
\* user may do and see now, even if that changed while the socket was being
\* accepted, unless the refresh of the visible hosts is still waiting for shells
\* to close.
SocketIsCurrent ==
    \A s \in Sockets : sock[s].at = "open" /\ sock[s].user \in users =>
        /\ sock[s].caps = CapsOf(sock[s].user)
        /\ sock[s].user \in behind \/ sock[s].sees = Sees(sock[s].user)

\* "Refresh what open WebSocket connections are allowed to receive: capabilities
\* and the visible-host set" (_refresh_ws_auth_state): the capabilities that the
\* endpoint goes by are refreshed, too.
EndpointIsCurrent ==
    \A s \in Sockets : sock[s].at = "open" /\ sock[s].user \in users =>
        sock[s].own = CapsOf(sock[s].user)

\* A shell that is not being closed belongs to a user who may use it.
ShellIsAllowed ==
    \A s \in Sockets : sock[s].at = "shell" =>
        /\ sock[s].user \in users /\ "shell" \in CapsOf(sock[s].user)
        /\ sock[s].user \in behind \/ Sees(sock[s].user)

\* An edit of a group's permissions, or the deletion of a group or a user, does
\* not take a critical capability away from the last one who holds it.  An edit of
\* memberships may: see CriticalIsHeld.
EditsKeepCritical ==
    [][CriticalHeld /\ ~CriticalHeld' => grants' = grants /\ users' = users]_vars

\* "Capabilities that must always be held by at least one group with members"
\* (CRITICAL_CAPABILITIES)
CriticalIsHeld == CriticalHeld

\* An open socket or a shell has more, or less, than its user is entitled to.
Outdated(x) ==
    /\ x.user \in users
    /\ \/ x.at = "open" /\ (x.caps # CapsOf(x.user) \/ x.sees # Sees(x.user))
       \/ x.at = "shell" /\ ~ShellStillAuthorized(x.user)

\* A refresh that has to wait for shells to close comes round to every socket
\* of every user it is for, whatever is edited meanwhile.
HiddenHostsAreDropped ==
    \A s \in Sockets : Outdated(sock[s]) ~> ~Outdated(sock[s])

\* No sequence of legal edits, sign-ins and restarts leaves nobody in the
\* administrators' group, a user without a group or no way to sign in; and the
\* edits that are checked for it leave a holder of every critical capability.
NoLockout ==
    /\ [](AdminRemains /\ EveryUserHasAGroup /\ SsoOnlyIsUsable)
    /\ EditsKeepCritical

\* What the manager delivers to an open socket, and the shells that are open, are
\* what their users may have now, whatever was edited while they were accepted.
OpenSocketsAreAllowed == TypeOK /\ SocketIsCurrent /\ ShellIsAllowed
===============================================================================
