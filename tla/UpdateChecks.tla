---------------------------- MODULE UpdateChecks ----------------------------
(***************************************************************************)
(* How DockMon finds out that a container can be updated, and decides that *)
(* it is: the scheduled and the requested update check with their caches,  *)
(* the update record of the container with the user's settings, policies,  *)
(* the selection of automatic updates, one-time tokens for updates from a  *)
(* notification, the pruning of images, and the check for releases of      *)
(* DockMon itself.  One container is followed under all the ids it has;    *)
(* how an update replaces it is the subject of RollingUpdate and           *)
(* UpdateCoordinator.  Images are numbered by version.                     *)
(***************************************************************************)
EXTENDS Naturals, FiniteSets

CONSTANTS
    ContainerIds,   \* bound: container ids 1..n, used one after the other
    Versions,       \* bound: versions of the image, 1..n
    Retention,      \* image_retention_count
    Scenarios,      \* bound: the sets of features that are in use together
    MaxRequests     \* bound, for each scenario: requests, faults and pushes

ASSUME UpdateChecksAssumption ==
    /\ IsFiniteSet(ContainerIds) /\ ContainerIds \subseteq Nat \ {0} /\ 1 \in ContainerIds
    /\ Versions \subseteq Nat \ {0} /\ 1 \in Versions
    /\ Retention \in Nat /\ MaxRequests \in [Scenarios -> Nat]

Tags == {"exact", "latest"}
Checkers == {"daily", "user"}
None == "none"

VARIABLES
    uses,       \* the features in use
    kind,       \* the image is "public", "private" or "local"
    label,      \* the container's label com.dockmon.update.policy
    host,       \* "direct" or "agent"
    versioned,  \* a version can be read from the labels or tags of the images
    named,      \* the reference of the image names its registry, or a digest
    own,        \* the container is DockMon itself
    platform,   \* RepoDigests on this engine hold the digest of the platform, not of the list
    head,       \* the version each tag has in the registry
    creds,      \* credentials for the registry are stored
    live,       \* id of the container
    img,        \* version each id was created from, 0 for an id not used yet
    images,     \* versions on the host
    ltag,       \* version each tag has on the host
    seen,       \* _reattached_container_ids
    rec,        \* container_updates by id
    latest,     \* id of the row with the last updated_at, 0 if there is no row
    pattern,    \* action of the update policy that matches the container
    skipped,    \* skip_compose_containers is on, and the container is one of Docker Compose
    saving,     \* a setting whose row was not found, while the containers are listed
    stored,     \* image_digest_cache: version by tag, 0 if absent or expired
    memory,     \* RegistryAdapter.cache
    token,      \* _auth_cache: "none", "anonymous" or "good"
    check,      \* the checks under way
    upd,        \* the update under way
    link,       \* action token in a notification
    prune,      \* images cleanup_old_images is about to remove
    dockmon,    \* releases: the newest one, and what the settings hold of it
    announced,  \* history: versions announced for an id by UPDATE_AVAILABLE
    wish,       \* history: the settings the user made last
    stray,      \* history: a check has stored its result under an id that was gone
    acted,      \* history: number of times the token was accepted
    requests    \* history: number of requests so far

container == <<live, img, images, ltag>>
image == <<kind, label, host, versioned, named, own, platform>>
registry == <<image, head, creds>>
records == <<seen, rec, latest, announced, stray>>
caches == <<stored, memory, token>>
settings == <<pattern, wish, skipped, saving>>
aside == <<link, acted, prune, dockmon>>
checksVars == <<uses, registry, container, records, caches, settings, check, upd, aside, requests>>

NoRec == [is |-> FALSE, lat |-> 0, tag |-> "exact", avail |-> FALSE, local |-> FALSE,
          auto |-> FALSE, mode |-> "exact", policy |-> None]
Idle == [at |-> "idle", id |-> 0, tag |-> "exact", v |-> 0]
NoUpdate == [at |-> "idle", id |-> 0, new |-> 0, tag |-> "exact", v |-> 0, lat |-> 0, by |-> None]
NoSave == [id |-> 0, auto |-> FALSE, mode |-> "exact"]
Choice(r) == <<r.policy, r.auto, r.mode>>

(* What a label and a row may say of updates. *)
Verdicts == {None, "allow", "warn", "block"}

(* Rows of the tables. *)
ContainerUpdate == [is : BOOLEAN, lat : Versions \cup {0}, tag : Tags, avail : BOOLEAN, local : BOOLEAN,
                    auto : BOOLEAN, mode : Tags, policy : Verdicts]
UpdatePolicy == {None, "warn", "ignore"}
ActionToken == {None, "sent", "used", "expired"}

ChecksTypeOK ==
    /\ uses \in Scenarios
    /\ kind \in {"public", "private", "local"} /\ label \in Verdicts
    /\ versioned \in BOOLEAN /\ named \in BOOLEAN /\ own \in BOOLEAN /\ skipped \in BOOLEAN
    /\ saving \in [id : ContainerIds \cup {0}, auto : BOOLEAN, mode : Tags]
    /\ host \in {"direct", "agent"} /\ creds \in BOOLEAN
    /\ {head, ltag} \subseteq [Tags -> Versions] /\ {stored, memory} \subseteq [Tags -> Versions \cup {0}]
    /\ live \in ContainerIds /\ img \in [ContainerIds -> Versions \cup {0}] /\ platform \in BOOLEAN
    /\ images \subseteq Versions /\ prune \subseteq Versions
    /\ seen \subseteq ContainerIds /\ latest \in ContainerIds \cup {0}
    /\ rec \in [ContainerIds -> ContainerUpdate]
    /\ pattern \in UpdatePolicy /\ token \in {None, "anonymous", "good"}
    /\ check \in [Checkers -> [at : {"idle", "asking", "got", "auto"}, id : ContainerIds \cup {0}, tag : Tags,
                               v : Versions \cup {0}]]
    /\ upd \in [at : {"idle", "validating", "running", "pulled", "created"}, id : ContainerIds \cup {0},
                new : ContainerIds \cup {0}, tag : Tags, v : Versions \cup {0}, lat : Versions \cup {0},
                by : {None, "auto", "user", "forced", "batch", "warned"}]
    /\ link \in ActionToken /\ acted \in 0..2
    /\ dockmon \in [newest : 1..2, known : 0..2, cached : 0..2, agent : 0..2]
    /\ announced \in [ContainerIds -> SUBSET Versions] /\ stray \in BOOLEAN
    /\ requests \in 0..MaxRequests[uses]

First == 1
(* The id of the next container that is created. *)
NewId(c) == img[c] = 0 /\ \A d \in ContainerIds : img[d] = 0 => c <= d

ChecksInit ==
    /\ uses \in Scenarios
    /\ kind \in {"public", "private", "local"} /\ (kind # "public" => "creds" \in uses)
    /\ label \in Verdicts /\ (label # None => "label" \in uses)
    /\ versioned \in BOOLEAN /\ (versioned \/ "unversioned" \in uses)
    /\ named \in BOOLEAN /\ (named => "named" \in uses)
    /\ own \in BOOLEAN /\ (own => "label" \in uses)
    /\ skipped = FALSE /\ saving = NoSave
    /\ host \in {"direct", "agent"} /\ (host = "agent" => "label" \in uses)
    /\ head = [t \in Tags |-> 1] /\ ltag = head /\ creds = FALSE
    /\ live = First /\ img = [c \in ContainerIds |-> IF c = First THEN 1 ELSE 0] /\ images = {1}
    /\ platform \in BOOLEAN /\ (platform => "platform" \in uses)
    /\ seen = {} /\ rec = [c \in ContainerIds |-> NoRec] /\ latest = 0 /\ pattern = None
    /\ stored = [t \in Tags |-> 0] /\ memory = stored /\ token = None
    /\ check = [p \in Checkers |-> Idle] /\ upd = NoUpdate
    /\ link = None /\ acted = 0 /\ prune = {}
    /\ dockmon = [newest |-> 1, known |-> 0, cached |-> 0, agent |-> 0]
    /\ announced = [c \in ContainerIds |-> {}] /\ wish = Choice(NoRec) /\ stray = FALSE /\ requests = 0

Counts == requests < MaxRequests[uses] /\ requests' = requests + 1
Request(feature) == feature \in uses /\ Counts

----------------------------------------------------------------------------
(* The registry and the container. *)
Push(t, v) ==
    /\ Request("push") /\ (t = "latest" => "auto" \in uses)
    /\ v > head[t] /\ head' = [head EXCEPT ![t] = v]
    /\ UNCHANGED <<uses, image, creds, container, records, caches, settings, check, upd, aside>>

(* The container is recreated outside DockMon from the image on the host. *)
Recreate(c) ==
    /\ Request("recreate")
    /\ upd.at = "idle" /\ NewId(c)
    /\ live' = c
    /\ \E t \in Tags : img' = [img EXCEPT ![c] = ltag[t]] /\ ltag[t] \in images
    /\ UNCHANGED <<uses, registry, images, ltag, records, caches, settings, check, upd, aside>>

(* A row is written: it has the last updated_at. *)
Touched(c) == latest' = c

(* reattach_update_settings_for_container: a container that is seen for    *)
(* the first time and has no row takes the settings of the latest row with *)
(* its name.                                                               *)
Reattached ==
    LET p == rec[latest] IN
    [NoRec EXCEPT !.is = TRUE, !.auto = p.auto, !.mode = p.mode, !.policy = p.policy]

Discover ==
    IF live \in seen \/ rec[live].is \/ latest = 0
    THEN seen' = {live} /\ UNCHANGED <<rec, latest>>
    ELSE /\ rec' = [rec EXCEPT ![live] = Reattached]
         /\ Touched(live)
         /\ seen' = {live}

(* The monitoring loop lists the containers. *)
Sweep ==
    /\ live \notin seen
    /\ Discover
    /\ UNCHANGED <<uses, registry, container, announced, stray, caches, settings, check, upd, aside, requests>>

----------------------------------------------------------------------------
(* UpdateChecker. *)
Mode(c) == IF rec'[c].is THEN rec'[c].mode ELSE "exact"

(* The policy pattern that matches may exclude the image from checks. *)
MatchesIgnorePattern == pattern = "ignore"

(* So may skip_compose_containers: the container is one of Compose.        *)
Excluded == skipped \/ MatchesIgnorePattern

(* _check_and_run_updates is one loop: the automatic updates of the last   *)
(* check have ended.                                                       *)
Scheduled == upd.at = "idle" /\ ~Excluded

(* check_all_containers and check_single_container: the containers are     *)
(* listed, and the tag to follow is taken from the row.                    *)
CheckBegins(p) ==
    /\ check[p].at = "idle"
    /\ Discover
    /\ check' = [check EXCEPT ![p] = [at |-> "asking", id |-> live, tag |-> Mode(live), v |-> 0]]
    /\ UNCHANGED <<uses, registry, container, announced, stray, caches, settings, upd, aside>>

DailyCheck == Scheduled /\ CheckBegins("daily") /\ UNCHANGED requests

(* check_container_update. *)
UserCheck == Request("user") /\ CheckBegins("user")

(* get_cached_image_digest; a check of one container by a user goes past   *)
(* this cache, though not past the one of the registry adapter.            *)
CachedDigest(p) ==
    LET t == check[p].tag IN
    /\ check[p].at = "asking" /\ kind # "local"
    /\ p = "daily" /\ stored[t] # 0
    /\ check' = [check EXCEPT ![p].at = "got", ![p].v = stored[t]]
    /\ UNCHANGED <<uses, registry, container, records, caches, settings, upd, aside, requests>>

NeedsRegistry(p) == check[p].at = "asking" /\ (p = "user" \/ kind = "local" \/ stored[check[p].tag] = 0)

(* _get_auth_token: kept per repository, whatever the credentials are. *)
Fetched == IF creds THEN "good" ELSE "anonymous"
AuthToken == IF token # None THEN token ELSE Fetched
Granted == kind = "public" \/ (kind = "private" /\ AuthToken = "good")

(* cache_image_digest. *)
Cached(t, v) == [stored EXCEPT ![t] = v]

(* cleanup_expired_image_cache: a row past its time is as good as none. *)
Expired(t) == [stored EXCEPT ![t] = 0]

(* resolve_tag, then cache_image_digest. *)
RegistryAnswers(p) ==
    LET t == check[p].tag
        v == IF memory[t] # 0 THEN memory[t] ELSE head[t]
    IN  /\ NeedsRegistry(p)
        /\ memory[t] # 0 \/ Granted
        /\ check' = [check EXCEPT ![p].at = "got", ![p].v = v]
        /\ memory' = [memory EXCEPT ![t] = v]
        /\ stored' = Cached(t, v)
        /\ token' = IF memory[t] # 0 THEN token ELSE AuthToken
        /\ UNCHANGED <<uses, registry, container, records, settings, upd, aside, requests>>

(* TransientRegistryError: rate limit, server error, timeout. *)
RegistryFails(p) ==
    /\ NeedsRegistry(p) /\ Request("fault")
    /\ check' = [check EXCEPT ![p] = Idle]
    /\ UNCHANGED <<uses, registry, container, records, caches, settings, upd, aside>>

(* The registry does not know the image, or does not show it.              *)
Denied == ~Granted /\ token' = (IF kind = "local" THEN token ELSE AuthToken) /\ UNCHANGED requests

(* The service that issues the tokens fails: the registry is asked without *)
(* one, and its answer (401) is not told from a denial.                    *)
TokenIsLost == kind # "local" /\ token = None /\ Request("fault") /\ UNCHANGED token

(* _store_local_image_info. *)
StoresLocal(c) ==
    /\ rec' = [rec EXCEPT ![c] = [@ EXCEPT !.is = TRUE, !.local = TRUE, !.avail = FALSE, !.lat = 0]]
    /\ Touched(c)
    /\ stray' = (stray \/ c # live)

(* An image whose reference names its registry is not taken for a local    *)
(* one: the check ends without a result.                                   *)
RegistryDenies(p) ==
    /\ NeedsRegistry(p) /\ memory[check[p].tag] = 0
    /\ Denied \/ TokenIsLost
    /\ IF named THEN UNCHANGED <<rec, latest, stray>> ELSE StoresLocal(check[p].id)
    /\ check' = [check EXCEPT ![p] = Idle]
    /\ UNCHANGED <<uses, registry, container, seen, announced, stored, memory, settings, upd, aside>>

(* _has_digest: the tag is resolved to the digest of the list and to that  *)
(* of the platform, and RepoDigests may hold either.                       *)
RepoDigests(c) == {<<IF platform THEN "platform" ELSE "list", img[c]>>}
Resolved(v) == {<<"list", v>>, <<"platform", v>>}
HasDigest(c, v) == RepoDigests(c) \cap Resolved(v) # {}

(* _is_downgrade compares the versions of the images, if both can be read. *)
IsDowngrade(c, v) == versioned /\ v < img[c]

(* update_available. *)
Newer(c, v) == ~HasDigest(c, v) /\ ~IsDowngrade(c, v)

(* Mutant: the row is written before the previous digest is read. *)
PreviousIsStored(c, v) == v

PreviousDigest(c, v) == rec[c].lat

(* _store_update_info and _create_update_event: no await between reading   *)
(* the previous digest and writing the new one.                            *)
CheckStores(p) ==
    LET c == check[p].id
        v == check[p].v
    IN  /\ check[p].at = "got"
        /\ rec' = [rec EXCEPT ![c] = [@ EXCEPT !.is = TRUE, !.lat = v, !.tag = check[p].tag, !.local = FALSE,
                                              !.avail = Newer(c, v),
                                              !.mode = IF rec[c].is THEN rec[c].mode ELSE check[p].tag]]
        /\ Touched(c)
        /\ announced' = IF Newer(c, v) /\ PreviousDigest(c, v) # v
                        THEN [announced EXCEPT ![c] = @ \cup {v}] ELSE announced
        /\ stray' = (stray \/ c # live)
        /\ check' = [check EXCEPT ![p] =
                         IF p = "daily" /\ Newer(c, v) THEN [Idle EXCEPT !.at = "auto", !.id = c] ELSE Idle]
        /\ UNCHANGED <<uses, registry, container, seen, caches, settings, upd, aside, requests>>

(* Mutant: the adapter's cache is never cleared. *)
CacheExpiresRow(t) ==
    /\ stored[t] # 0 /\ stored' = [stored EXCEPT ![t] = 0]
    /\ UNCHANGED <<uses, registry, container, records, memory, token, settings, check, upd, aside, requests>>

(* An entry of the adapter's cache is kept for two minutes, or until it is *)
(* evicted; the row written with it for half an hour or longer.            *)
CacheExpires(t) ==
    /\ IF memory[t] # 0 THEN memory' = [memory EXCEPT ![t] = 0] /\ UNCHANGED stored
       ELSE stored[t] # 0 /\ stored' = Expired(t) /\ UNCHANGED memory
    /\ UNCHANGED <<uses, registry, container, records, token, settings, check, upd, aside, requests>>

TokenExpires ==
    /\ token # None /\ token' = None
    /\ UNCHANGED <<uses, registry, container, records, stored, memory, settings, check, upd, aside, requests>>

(* delete_image_cache_entry. *)
DeleteCacheEntry(t) ==
    /\ Request("user")
    /\ stored[t] # 0 /\ stored' = [stored EXCEPT ![t] = 0]
    /\ UNCHANGED <<uses, registry, container, records, memory, token, settings, check, upd, aside>>

(* Registry credentials are created, replaced or deleted: the cached       *)
(* token stays until it expires.                                           *)
SaveCredentials(on) ==
    /\ Request("creds")
    /\ creds # on /\ creds' = on
    /\ UNCHANGED <<uses, image, head, container, records, caches, settings, check, upd, aside>>

----------------------------------------------------------------------------
(* Settings of the user.  While an update is between the new container and *)
(* the migration of its row, the row of the new id is about to be deleted: *)
(* what is set there is lost.                                              *)
Written(c, r) ==
    /\ rec' = [rec EXCEPT ![c] = r]
    /\ Touched(c)
    /\ wish' = IF upd.at = "created" THEN <<>> ELSE Choice(r)

(* update_auto_update_config, when the container has a row. *)
SetAutoUpdate(c, auto, mode) ==
    /\ Request("auto")
    /\ c = live /\ c \in seen /\ rec[c].is
    /\ Written(c, [rec[c] EXCEPT !.auto = auto, !.mode = mode])
    /\ rec' # rec
    /\ UNCHANGED <<uses, registry, container, seen, announced, stray, caches, pattern, skipped, saving, check, upd,
                   aside>>

(* When it has none, the containers are listed before one is inserted.     *)
SetAutoBegins(c, auto, mode) ==
    /\ Request("auto")
    /\ c = live /\ c \in seen /\ ~rec[c].is /\ saving.id = 0
    /\ saving' = [id |-> c, auto |-> auto, mode |-> mode]
    /\ UNCHANGED <<uses, registry, container, records, caches, pattern, wish, skipped, check, upd, aside>>

(* The row is inserted, unless the container has one by now (container_id  *)
(* is unique); a container that is gone may or may not have been listed.   *)
SetAutoInserts ==
    LET c == saving.id IN
    /\ c # 0 /\ saving' = NoSave
    /\ \/ /\ ~rec[c].is
          /\ Written(c, [NoRec EXCEPT !.is = TRUE, !.auto = saving.auto, !.mode = saving.mode])
          /\ stray' = (stray \/ c # live)
       \/ /\ rec[c].is \/ c # live
          /\ UNCHANGED <<rec, latest, wish, stray>>
    /\ UNCHANGED <<uses, registry, container, seen, announced, caches, pattern, skipped, check, upd, aside, requests>>

(* set_container_update_policy needs one. *)
SetPolicy(c, policy) ==
    /\ Request("policy")
    /\ c = live /\ c \in seen /\ rec[c].is /\ rec[c].policy # policy
    /\ Written(c, [rec[c] EXCEPT !.policy = policy])
    /\ UNCHANGED <<uses, registry, container, seen, announced, stray, caches, pattern, skipped, saving, check, upd,
                   aside>>

(* create_custom_update_policy, update_policy_action, the toggle of a      *)
(* category, delete_custom_update_policy.                                  *)
SetPattern(action) ==
    /\ Request("policy")
    /\ pattern # action /\ pattern' = action
    /\ UNCHANGED <<uses, registry, container, records, caches, wish, skipped, saving, check, upd, aside>>

(* skip_compose_containers is switched on or off. *)
SetSkipCompose ==
    /\ Request("compose")
    /\ skipped' = ~skipped
    /\ UNCHANGED <<uses, registry, container, records, caches, pattern, wish, saving, check, upd, aside>>

----------------------------------------------------------------------------

(* ContainerValidator.validate_update: DockMon itself, label, row, pattern, *)
(* in this order.                                                          *)
Validate(c, lab) ==
    IF own THEN "block" ELSE IF lab # None THEN lab
    ELSE IF rec[c].policy # None THEN rec[c].policy ELSE IF pattern # None THEN pattern ELSE "allow"

StartUpdate(c, by) ==
    /\ upd.at = "idle"
    /\ rec[c].is /\ rec[c].avail
    /\ upd' = [NoUpdate EXCEPT !.at = "validating", !.id = c, !.tag = rec[c].tag, !.lat = rec[c].lat, !.by = by]

(* execute_auto_updates: the rows with auto_update_enabled, and each row   *)
(* once more when its turn comes.                                          *)
AutoUpdate ==
    LET c == check["daily"].id IN
    /\ check["daily"].at = "auto"
    /\ check' = [check EXCEPT !["daily"] = Idle]
    /\ IF rec[c].auto /\ upd.at = "idle" /\ rec[c].is /\ rec[c].avail THEN StartUpdate(c, "auto") ELSE UNCHANGED upd
    /\ UNCHANGED <<uses, registry, container, records, caches, settings, aside, requests>>

(* Another container has an update: the automatic updates begin although   *)
(* this one was not checked, and what is known of it is done.              *)
OthersAreUpdated(c) ==
    /\ Request("compose")
    /\ check["daily"].at = "idle" /\ rec[c].auto
    /\ StartUpdate(c, "auto")
    /\ UNCHANGED <<uses, registry, container, records, caches, settings, check, aside>>

(* execute_container_update: validated here with the labels of a direct    *)
(* host only, then again by the executor unless it is forced.              *)
UserUpdate(c, forced) ==
    LET verdict == Validate(c, IF host = "direct" THEN label ELSE None) IN
    /\ Request("update")
    /\ c = live /\ verdict # "block" /\ (verdict = "warn" => forced)
    /\ StartUpdate(c, IF forced THEN "forced" ELSE "user")
    /\ UNCHANGED <<uses, registry, container, records, caches, settings, check, aside>>

(* The action update-containers of a batch job: it needs the row, not an   *)
(* update that is available; warned is force_warn.                         *)
BatchUpdate(c, warned) ==
    /\ Request("batch")
    /\ c = live /\ upd.at = "idle" /\ rec[c].is
    /\ upd' = [NoUpdate EXCEPT !.at = "validating", !.id = c, !.tag = rec[c].tag, !.lat = rec[c].lat,
                               !.by = IF warned THEN "warned" ELSE "batch"]
    /\ UNCHANGED <<uses, registry, container, records, caches, settings, check, aside>>

(* What the executor refuses on a direct host. *)
Refuses(verdict, by) == by # "forced" /\ (verdict = "block" \/ (verdict = "warn" /\ by # "warned"))

(* update_container refuses DockMon itself; then _execute_docker_update    *)
(* asks for the policy, which for an agent host nobody does again.         *)
UpdateValidated ==
    /\ upd.at = "validating"
    /\ upd' = IF own \/ (host = "direct" /\ Refuses(Validate(upd.id, label), upd.by)) THEN NoUpdate
              ELSE [upd EXCEPT !.at = "running"]
    /\ UNCHANGED <<uses, registry, container, records, caches, settings, check, aside, requests>>

UpdatePulls ==
    /\ upd.at = "running" /\ upd.lat # 0
    /\ upd' = [upd EXCEPT !.at = "pulled", !.v = head[upd.tag]]
    /\ images' = images \cup {head[upd.tag]}
    /\ ltag' = [ltag EXCEPT ![upd.tag] = head[upd.tag]]
    /\ UNCHANGED <<uses, registry, live, img, records, caches, settings, check, aside, requests>>

UpdateCreates(c) ==
    /\ upd.at = "pulled" /\ upd.v \in images /\ upd.id = live /\ NewId(c)
    /\ live' = c /\ img' = [img EXCEPT ![c] = upd.v]
    /\ upd' = [upd EXCEPT !.at = "created", !.new = c]
    /\ UNCHANGED <<uses, registry, images, ltag, records, caches, settings, check, aside, requests>>

(* The pull or the replacement fails; it always does if the row names no   *)
(* image, the image has been pruned, the container is gone, or the bound   *)
(* on ids is reached.                                                      *)
Replaceable == upd.v \in images /\ upd.id = live /\ \E c \in ContainerIds : img[c] = 0
UpdateFails ==
    /\ upd.at \in {"running", "pulled"}
    /\ IF upd.lat = 0 \/ (upd.at = "pulled" /\ ~Replaceable) THEN UNCHANGED requests ELSE Counts
    /\ upd' = NoUpdate
    /\ UNCHANGED <<uses, registry, container, records, caches, settings, check, aside>>

(* Mutant: the row of the new id is kept, the one with the settings goes. *)
MigratedKeepsNew(r) == IF rec[upd.new].is THEN [rec[upd.new] EXCEPT !.policy = None] ELSE r

(* What becomes of the row of the container that was updated. *)
Migrated(r) == [r EXCEPT !.avail = FALSE]

(* update_container_records_after_update: a row that discovery has made    *)
(* for the new id is deleted.                                              *)
UpdateMigrates ==
    /\ upd.at = "created"
    /\ IF rec[upd.id].is
         THEN /\ rec' = [rec EXCEPT ![upd.new] = Migrated(rec[upd.id]), ![upd.id] = NoRec]
              /\ Touched(upd.new)
              /\ announced' = [announced EXCEPT ![upd.new] = announced[upd.id]]
         ELSE UNCHANGED <<rec, latest, announced>>
    /\ upd' = NoUpdate
    /\ UNCHANGED <<uses, registry, container, seen, stray, caches, settings, check, aside, requests>>

(* The backend is restarted: checks and caches in memory are gone, and the *)
(* migration of an update that was under way.                              *)
Restart ==
    /\ Request("restart")
    /\ check' = [p \in Checkers |-> Idle] /\ upd' = NoUpdate
    /\ memory' = [t \in Tags |-> 0] /\ token' = None /\ seen' = {} /\ prune' = {}
    /\ dockmon' = [dockmon EXCEPT !.cached = 0] /\ saving' = NoSave
    /\ UNCHANGED <<uses, registry, container, rec, latest, announced, stray, stored, pattern, wish, skipped, link,
                   acted>>

----------------------------------------------------------------------------
(* Action tokens. *)
SendLink ==
    /\ Request("link") /\ link = None
    /\ link' = "sent"
    /\ UNCHANGED <<uses, registry, container, records, caches, settings, check, upd, acted, prune, dockmon>>

LinkExpires ==
    /\ link = "sent" /\ link' = "expired"
    /\ UNCHANGED <<uses, registry, container, records, caches, settings, check, upd, acted, prune, dockmon, requests>>

(* Mutant: the token is looked up, not claimed. *)
ClaimedByRead == link

(* The row is claimed by one UPDATE with the conditions in its WHERE. *)
Claimed == "used"

(* consume_action_token with confirmed = true. *)
ConsumeLink ==
    /\ Request("link")
    /\ IF link = "sent" THEN link' = Claimed /\ acted' = acted + 1 ELSE UNCHANGED <<link, acted>>
    /\ UNCHANGED <<uses, registry, container, records, caches, settings, check, upd, prune, dockmon>>

(* cleanup_expired_action_tokens. *)
CleanupLinks ==
    /\ Request("link")
    /\ link = "expired" /\ link' = None
    /\ UNCHANGED <<uses, registry, container, records, caches, settings, check, upd, acted, prune, dockmon>>

----------------------------------------------------------------------------
(* cleanup_old_images, for direct hosts. *)
Tagged == {ltag[t] : t \in Tags} \cap images
Superfluous == {v \in Tagged : Cardinality({w \in Tagged : w > v}) >= Retention}
PruneLists ==
    /\ Request("prune") /\ host = "direct" /\ prune = {}
    /\ prune' = (Superfluous \cup (images \ Tagged)) \ {img[live]}
    /\ UNCHANGED <<uses, registry, container, records, caches, settings, check, upd, link, acted, dockmon>>

(* Without force the engine keeps an image that a container uses. *)
Removed(v) == IF v = img[live] THEN images ELSE images \ {v}

PruneRemoves(v) ==
    /\ v \in prune /\ prune' = prune \ {v}
    /\ images' = Removed(v)
    /\ UNCHANGED <<uses, registry, live, img, ltag, records, caches, settings, check, upd, link, acted, dockmon,
                   requests>>

----------------------------------------------------------------------------
(* DockMonUpdateChecker. *)
Release ==
    /\ Request("self") /\ dockmon.newest = 1
    /\ dockmon' = [dockmon EXCEPT !.newest = 2]
    /\ UNCHANGED <<uses, registry, container, records, caches, settings, check, upd, link, acted, prune>>

Known(ok) == IF ok THEN dockmon.newest ELSE dockmon.known

CheckForUpdate(ok) ==
    /\ Request("self")
    /\ dockmon' = [dockmon EXCEPT !.known = Known(ok)]
    /\ UNCHANGED <<uses, registry, container, records, caches, settings, check, upd, link, acted, prune>>

(* The list of releases is kept for five minutes. *)
CheckForAgentUpdate(ok) ==
    LET v == IF dockmon.cached # 0 THEN dockmon.cached ELSE dockmon.newest IN
    /\ Request("self")
    /\ dockmon' = IF ok \/ dockmon.cached # 0 THEN [dockmon EXCEPT !.cached = v, !.agent = v] ELSE dockmon
    /\ UNCHANGED <<uses, registry, container, records, caches, settings, check, upd, link, acted, prune>>

ReleasesExpire ==
    /\ dockmon.cached # 0 /\ dockmon' = [dockmon EXCEPT !.cached = 0]
    /\ UNCHANGED <<uses, registry, container, records, caches, settings, check, upd, link, acted, prune, requests>>

----------------------------------------------------------------------------
CheckStep(p) == CachedDigest(p) \/ RegistryAnswers(p) \/ RegistryDenies(p) \/ CheckStores(p)
UpdateStep == UpdateValidated \/ UpdatePulls \/ UpdateMigrates \/ \E c \in ContainerIds : UpdateCreates(c)

ChecksNext ==
    \/ \E t \in Tags : DeleteCacheEntry(t) \/ CacheExpires(t) \/ \E v \in Versions : Push(t, v)
    \/ \E c \in ContainerIds :
         \/ Recreate(c)
         \/ \E auto \in BOOLEAN, mode \in Tags : SetAutoUpdate(c, auto, mode) \/ SetAutoBegins(c, auto, mode)
         \/ \E policy \in Verdicts : SetPolicy(c, policy)
         \/ OthersAreUpdated(c)
         \/ \E forced \in BOOLEAN : UserUpdate(c, forced) \/ BatchUpdate(c, forced)
    \/ DailyCheck \/ UserCheck \/ \E p \in Checkers : CheckStep(p) \/ RegistryFails(p)
    \/ \E on \in BOOLEAN : SaveCredentials(on)
    \/ \E action \in {None, "warn", "ignore"} : SetPattern(action)
    \/ SetAutoInserts \/ SetSkipCompose
    \/ Sweep \/ TokenExpires \/ AutoUpdate \/ UpdateStep \/ UpdateFails \/ Restart
    \/ SendLink \/ LinkExpires \/ ConsumeLink \/ CleanupLinks
    \/ PruneLists \/ \E v \in Versions : PruneRemoves(v)
    \/ Release \/ ReleasesExpire
    \/ \E ok \in BOOLEAN : CheckForUpdate(ok) \/ CheckForAgentUpdate(ok)

(* The daily check is run again and again, a request to the registry is    *)
(* answered or fails, an update that has begun ends, and what is cached    *)
(* expires.                                                                *)
ChecksFairness ==
    /\ WF_checksVars(DailyCheck) /\ WF_checksVars(AutoUpdate)
    /\ \A p \in Checkers : WF_checksVars(CheckStep(p))
    /\ WF_checksVars(UpdateStep) /\ WF_checksVars(UpdateFails) /\ WF_checksVars(Sweep)
    /\ \A t \in Tags : WF_checksVars(CacheExpires(t))

ChecksSpec == ChecksInit /\ [][ChecksNext]_checksVars /\ ChecksFairness

----------------------------------------------------------------------------
(* What get_container_update_status shows. *)
UpdateStatus(c) == IF rec[c].is /\ rec[c].avail THEN rec[c].lat ELSE 0

(* An update is offered only for an image other than the one the container *)
(* runs, and a newer one if versions can be read, whatever was cached,     *)
(* checked twice at the same time, or updated meanwhile.                   *)
OfferIsNewer ==
    \A c \in ContainerIds : UpdateStatus(c) # 0 =>
      UpdateStatus(c) # img[c] /\ (versioned => UpdateStatus(c) > img[c])

(* "Suppress false positive updates (downgrades)": nothing older than what *)
(* the container runs is offered as an update of it.                       *)
NoDowngradeIsOffered == \A c \in ContainerIds : UpdateStatus(c) # 0 => UpdateStatus(c) > img[c]

(* Every version that is offered has been announced by UPDATE_AVAILABLE,   *)
(* unless the container has run it, or a newer one, before: an update that *)
(* takes the container back carries the digest over that was found         *)
(* meanwhile for the newer image.                                          *)
OfferIsAnnounced ==
    \A c \in ContainerIds : UpdateStatus(c) # 0 =>
      UpdateStatus(c) \in announced[c] \/ \E d \in ContainerIds : img[d] >= UpdateStatus(c)

(* A failure that may pass is not misread "as 'image not in any registry'":*)
(* a public image is not marked as one that was built locally.             *)
LocalMarkIsTrue == \A c \in ContainerIds : rec[c].local => kind # "public"

(* The settings a user has made follow the container to a new id, whether  *)
(* an update or somebody else has recreated it, also when discovery comes  *)
(* before the migration; only the late result of a check for an id that is *)
(* gone, and a setting made in the middle of an update, make an exception. *)
SettingsFollow ==
    live \in seen /\ ~stray /\ wish \notin {<<>>, Choice(NoRec)} => rec[live].is /\ Choice(rec[live]) = wish

(* DockMon never updates itself, and on a direct host a container whose    *)
(* label forbids updates is not updated, be it forced, automatic, or       *)
(* allowed by its row or a pattern.                                        *)
LabelForbids == own \/ (label = "block" /\ host = "direct") => upd.at \notin {"running", "pulled", "created"}

(* A token in a notification is good for one update. *)
LinkActsOnce == acted <= 1

(* Pruning never takes the image of the container, even if an update has   *)
(* begun to use it after the images were listed.                           *)
PruneSparesUsed == img[live] \in images

(* A newer version in the registry is found, in spite of the caches and of *)
(* failures, those that mark the image as local among them; not while a    *)
(* pattern or skip_compose_containers excludes the container from checks.  *)
Outdated == head[IF rec[live].is THEN rec[live].mode ELSE "exact"] > img[live]
UpdateIsFound == kind = "public" /\ ~Excluded /\ Outdated ~> (rec[live].avail \/ Excluded \/ ~Outdated)

(* What is offered to the user is another image, newer than the one that   *)
(* runs if that can be told, and has been announced.                       *)
OfferIsTrue == ChecksTypeOK /\ OfferIsNewer /\ OfferIsAnnounced

(* Neither an update nor a pruning goes beyond what was permitted, however *)
(* the request has come and whatever has happened since it was checked.    *)
NothingForbiddenIsDone == LabelForbids /\ LinkActsOnce /\ PruneSparesUsed
=============================================================================
