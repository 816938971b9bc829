------------------------------ MODULE LLMAccounts ------------------------------
(***************************************************************************)
(* Provider accounts and routes (ADR-031, ADR-032): app/llm/accounts.py,    *)
(* routing.py, the credential rows of vault.py, the address policies of     *)
(* netpolicy.py and node_runtime.py, and the handlers of api/v1/llm.py that *)
(* call them.                                                              *)
(*                                                                         *)
(* Handlers read, await and then commit what they decided on; requests      *)
(* interleave between the two where it matters to what is decided.  A       *)
(* commit that updates a row which is gone fails as a whole; the deletion   *)
(* of one that is gone is only logged.                                      *)
(* Credentials are kept in the database (LLM_CREDENTIAL_STORE=db).          *)
(***************************************************************************)
EXTENDS Naturals, Sequences, FiniteSets, SequencesExt, Ranking

CONSTANTS
    Accounts,     \* bound: ids of accounts ever created
    RouteIds,     \* bound: ids of routing policies ever created
    Users,        \* signed-in users who are no administrators
    Admin,        \* an administrator
    Deployment,   \* owner_user_id NULL
    Requests,     \* requests served at a time
    Nothing,      \* no row yet
    Removed,      \* the row is deleted: its id, a UUID, is not used again
    Addresses,    \* what a name may point to: private, public, blocked
    MaxChain,     \* bound: length of a route (MAX_CHAIN), no entry twice
    MaxAccounts,  \* MAX_ACCOUNTS_PER_OWNER
    MaxEdits,     \* bound: changes that are committed
    UserNetworks  \* whether LLM_USER_ENDPOINT_NETWORKS allows the LAN

ASSUME AccountsNone ==
    /\ Admin \notin Users /\ Deployment \notin Users \cup {Admin}
ASSUME AccountsBounds ==
    Addresses \subseteq {"private", "public", "blocked"} /\
    MaxChain \in Nat \ {0} /\ MaxAccounts \in Nat \ {0} /\ MaxEdits \in Nat /\ UserNetworks \in BOOLEAN

VARIABLES
    account,     \* LLMProviderAccount rows
    key,         \* accounts with an LLMCredential row
    route,       \* LLMRoutingPolicy rows
    dns,         \* where the host of a user-supplied endpoint points
    job,         \* what a request is about to do
    edits        \* changes committed so far

rowVars == <<account, key, route>>
accountsVars == <<rowVars, dns, job, edits>>

People == Users \cup {Admin}
Owners == People \cup {Deployment}
Kinds == {"cloud", "local", "node"}
Hosts == {"lan", "lan_http"}                    \* user-supplied endpoints
Urls == Hosts \cup {"official", "agent"}
Purposes == {"default", "private"}
LocalOnly == {"private"}                        \* LOCAL_ONLY

AccountRows ==
    [owner : Owners, kind : Kinds, method : {"none", "api_key", "node_sign_in"}, url : Urls,
     local : BOOLEAN, status : {"active", "disabled"}]
RouteRows == [owner : Owners, purpose : Purposes, chain : Seq(Accounts)]

ASSUME NoRows ==
    /\ Nothing # Removed
    /\ Nothing \notin AccountRows \cup RouteRows
    /\ Removed \notin AccountRows \cup RouteRows

Live == {a \in Accounts : account[a] \notin {Nothing, Removed}}
Routes == {p \in RouteIds : route[p] \notin {Nothing, Removed}}
Idle == [op |-> "idle"]

AccountsInit ==
    /\ account = [a \in Accounts |-> Nothing]
    /\ key = {}
    /\ route = [p \in RouteIds |-> Nothing]
    /\ dns = [h \in Hosts |-> "private"]
    /\ job = [r \in Requests |-> Idle]
    /\ edits = 0

Edit == edits < MaxEdits /\ edits' = edits + 1

Starts(r, j) == job' = [job EXCEPT ![r] = j]
Doing(r, op) == job[r].op = op
Ends(r) == job' = [job EXCEPT ![r] = Idle]

--------------------------------------------------------------------------------
(* Rules                                                                      *)

Owns(row, actor) == row.owner = actor
CanView(row, actor) == row.owner = Deployment \/ Owns(row, actor) \/ actor = Admin

\* Mutant of CanUse: whoever may see an account may use it.
CanUseSeen(row, actor) == row.status = "active" /\ CanView(row, actor)

CanUse(row, actor) ==
    row.status = "active" /\ (row.owner = Deployment \/ Owns(row, actor))

CanManage(row, actor) == (row.owner = Deployment /\ actor = Admin) \/ Owns(row, actor)
CanRemove(row, actor) == CanManage(row, actor) \/ actor = Admin

IsLocalTarget(row) == row.local /\ row.kind = "local"

\* ProviderSpec: how an account of this kind authenticates.
AuthMethods(kind) ==
    CASE kind = "cloud" -> {"api_key"}
      [] kind = "local" -> {"none", "api_key"}
      [] kind = "node"  -> {"node_sign_in"}

\* resolve_base_url and _node_url
Endpoints(kind) ==
    CASE kind = "cloud" -> {"official"}
      [] kind = "local" -> Hosts
      [] kind = "node"  -> {"agent"}

--------------------------------------------------------------------------------
(* Where a connection may go (netpolicy.py)                                   *)

PublicOnly == {"public"}
NoAddress == {}
LocalPolicy(lan) == {"public"} \cup lan
PrivateOnlyPolicy(lan) == lan

Permits(policy, address) == address # "blocked" /\ address \in policy

\* Accounts of administrators and of the deployment may use the networks the
\* administrator allowed, other users only LLM_USER_ENDPOINT_NETWORKS.
Networks(row) ==
    IF row.owner \in {Deployment, Admin} \/ UserNetworks THEN {"private"} ELSE {}

NodePolicy == LocalPolicy({"private"})

\* Mutant of AddressPolicy: privacy is not asked for again at connect time.
AddressPolicyOnce(row, privateOnly) ==
    CASE row.kind = "cloud" -> IF privateOnly THEN NoAddress ELSE PublicOnly
      [] row.kind = "node"  -> NodePolicy
      [] row.kind = "local" -> LocalPolicy(Networks(row))

\* address_policy, and the node's policy that connection_for takes instead.
AddressPolicy(row, privateOnly) ==
    CASE row.kind = "cloud" -> IF privateOnly THEN NoAddress ELSE PublicOnly
      [] row.kind = "node"  -> NodePolicy
      [] row.kind = "local" -> IF privateOnly THEN PrivateOnlyPolicy(Networks(row))
                               ELSE LocalPolicy(Networks(row))

\* system_resolver, as of now.
Resolve(url) ==
    CASE url \in Hosts     -> dns[url]
      [] url = "official"  -> "public"
      [] url = "agent"     -> "private"

\* _locality: is the endpoint allowed, and is it local?
Checked(row) == row.kind = "local" => Permits(AddressPolicy(row, FALSE), Resolve(row.url))
Locality(row) == row.kind = "local" /\ Resolve(row.url) = "private"

\* "API keys need HTTPS unless the endpoint is on a local network"
NeedsHttps(row, keyed) == keyed /\ row.url = "lan_http" /\ ~row.local

--------------------------------------------------------------------------------
(* create_account, update_account, delete_account                             *)

\* vault.py: the credential row of an account is written or replaced, deleted.
StoreCredential(a) == key' = key \cup {a}
DeleteCredential(a) == key' = key \ {a}

MayCreate(actor, kind, owner) ==
    /\ owner \in {actor, Deployment}
    /\ owner = Deployment => actor = Admin
    /\ kind = "node" => owner # Deployment

\* The account with what its endpoint makes of `local`.
Placed(row) == [row EXCEPT !.local = Locality(row)]

\* create_account: the label is not taken, there is room, the endpoint is allowed.
Inserts(a, row) ==
    LET same == {b \in Live : account[b].owner = row.owner}
    IN  /\ \A b \in same : account[b].kind # row.kind
        /\ Cardinality(same) < MaxAccounts
        /\ Checked(row) /\ ~NeedsHttps(row, row.method = "api_key")
        /\ account' = [account EXCEPT ![a] = row]
        /\ IF row.method = "api_key" THEN StoreCredential(a) ELSE UNCHANGED key

\* connect_account, and openrouter_oauth_complete with the key it exchanged.
\* One step: of what it reads, only the labels and the count could be changed
\* by others before the commit, and no property here is about them.
Create(r) ==
    /\ job[r] = Idle /\ Edit
    /\ \E actor \in People, kind \in Kinds, owner \in Owners :
          /\ MayCreate(actor, kind, owner)
          /\ \E method \in AuthMethods(kind), url \in Endpoints(kind) :
                \E a \in {b \in Accounts : account[b] = Nothing} :
                   Inserts(a, Placed([owner |-> owner, kind |-> kind, method |-> method,
                                      url |-> url, local |-> FALSE, status |-> "active"]))
    /\ UNCHANGED <<route, dns, job>>

\* _CHECKS
Checks(need, row, actor) ==
    CASE need = "use" -> CanUse(row, actor)
      [] need = "manage" -> CanManage(row, actor)
      [] need = "remove" -> CanRemove(row, actor)

\* require_account: found, and permitted.
Required(a, actor, need) ==
    a \in Live /\ CanView(account[a], actor) /\ Checks(need, account[a], actor)

\* What a PATCH may make of a row: another status, another endpoint (checked
\* anew, with what it makes of `local`).
Edited(row) ==
    {[row EXCEPT !.status = s] : s \in {"active", "disabled"} \ {row.status}}
        \cup {placed \in {Placed([row EXCEPT !.url = u]) : u \in Endpoints(row.kind) \ {row.url}} :
                  Checked(placed)}

\* patch_account loads the account, decides on a new row or another key, and
\* waits: for the resolver, the vault and the audit.
UpdateReads(r) ==
    job[r] = Idle /\ \E a \in Live, actor \in People :
        /\ Required(a, actor, "manage")
        /\ \/ \E row \in Edited(account[a]) :
                 /\ ~NeedsHttps(row, a \in key)
                 /\ Starts(r, [op |-> "update", account |-> a, old |-> account[a], new |-> row,
                               keyed |-> FALSE])
           \/ /\ account[a].method = "api_key" /\ ~NeedsHttps(account[a], TRUE)
              /\ Starts(r, [op |-> "update", account |-> a, old |-> account[a],
                            new |-> account[a], keyed |-> TRUE])
        /\ UNCHANGED <<rowVars, dns, edits>>

\* Only the columns that differ from the loaded row are written: the endpoint of
\* one request may meet the `local` of another.
Written(row, old, new) ==
    [row EXCEPT !.status = IF new.status = old.status THEN row.status ELSE new.status,
                !.url    = IF new.url = old.url THEN row.url ELSE new.url,
                !.local  = IF new.local = old.local THEN row.local ELSE new.local]

UpdateCommits(r) ==
    /\ Doing(r, "update") /\ Edit
    /\ LET a == job[r].account
       IN  /\ a \in Live
           /\ account' = [account EXCEPT ![a] = Written(account[a], job[r].old, job[r].new)]
           /\ IF job[r].keyed THEN StoreCredential(a) ELSE UNCHANGED key
    /\ Ends(r)
    /\ UNCHANGED <<route, dns>>

\* disconnect_account: delete_account looks for the account in every route.
DeleteReads(r) ==
    job[r] = Idle /\ \E a \in Live, actor \in People :
        /\ Required(a, actor, "remove")
        /\ Starts(r, [op |-> "delete", account |-> a,
                      routes |-> [p \in {q \in Routes : Contains(route[q].chain, a)} |->
                                     Selected(route[p].chain, {i \in DOMAIN route[p].chain :
                                                                  route[p].chain[i] # a})]])
        /\ UNCHANGED <<rowVars, dns, edits>>

\* Mutant of DeleteCommits: the route is kept, empty.
DeleteKeepsRoutes(r) ==
    /\ Doing(r, "delete") /\ Edit
    /\ LET a == job[r].account
           read == DOMAIN job[r].routes
       IN  /\ read \subseteq Routes
           /\ account' = [account EXCEPT ![a] = Removed]
           /\ DeleteCredential(a)
           /\ route' = [p \in RouteIds |->
                 IF p \notin read THEN route[p]
                 ELSE [route[p] EXCEPT !.chain = job[r].routes[p]]]
    /\ Ends(r)
    /\ UNCHANGED dns

\* The chains it read are written back without the account, an empty route is
\* deleted; the credential row goes with the account.  Whoever deletes them too
\* may have been first.
DeleteCommits(r) ==
    /\ Doing(r, "delete") /\ Edit
    /\ LET a == job[r].account
           read == DOMAIN job[r].routes
       IN  /\ \A p \in read : job[r].routes[p] # <<>> => p \in Routes
           /\ account' = [account EXCEPT ![a] = Removed]
           /\ DeleteCredential(a)
           /\ route' = [p \in RouteIds |->
                 IF p \notin read THEN route[p]
                 ELSE IF job[r].routes[p] = <<>> THEN Removed
                 ELSE [route[p] EXCEPT !.chain = job[r].routes[p]]]
    /\ Ends(r)
    /\ UNCHANGED dns

\* The rows a commit needs are gone, or the client gave up: a 404 or a 500.
Fails(r) ==
    /\ job[r] # Idle
    /\ Ends(r)
    /\ UNCHANGED <<rowVars, dns, edits>>

--------------------------------------------------------------------------------
(* set_policy, delete_policy, resolve                                         *)

\* scalar_one_or_none: an error if there are two.
PoliciesOf(owner, purpose) ==
    {p \in Routes : route[p].owner = owner /\ route[p].purpose = purpose}

MayRoute(actor, owner, purpose, a) ==
    /\ a \in Live /\ CanUse(account[a], actor)
    /\ owner = Deployment => account[a].owner = Deployment
    /\ purpose \in LocalOnly => IsLocalTarget(account[a])

Chains == {s \in BoundedSeq(Accounts, MaxChain) : s # <<>> /\ IsInjective(s)}

\* put_routing: checks every entry, then looks for the row to write.
SetReads(r) ==
    /\ job[r] = Idle
    /\ \E actor \in People : \E owner \in {actor} \cup (IF actor = Admin THEN {Deployment} ELSE {}) :
          \E purpose \in Purposes, chain \in Chains :
             /\ \A i \in DOMAIN chain : MayRoute(actor, owner, purpose, chain[i])
             /\ \A p, q \in PoliciesOf(owner, purpose) : p = q
             /\ Starts(r, [op |-> "set", found |-> PoliciesOf(owner, purpose),
                           row |-> [owner |-> owner, purpose |-> purpose, chain |-> chain]])
    /\ UNCHANGED <<rowVars, dns, edits>>

SetCommits(r) ==
    /\ Doing(r, "set") /\ Edit
    /\ \/ /\ job[r].found # {} /\ job[r].found \subseteq Routes
          /\ route' = [p \in RouteIds |->
                         IF p \in job[r].found THEN job[r].row ELSE route[p]]
       \/ /\ job[r].found = {}
          /\ \E p \in RouteIds : route[p] = Nothing /\ route' = [route EXCEPT ![p] = job[r].row]
    /\ Ends(r)
    /\ UNCHANGED <<account, key, dns>>

\* delete_routing, in one transaction that only names the row.
DeletePolicy(r) ==
    /\ job[r] = Idle /\ Edit
    /\ \E p \in Routes, actor \in People :
          /\ PoliciesOf(route[p].owner, route[p].purpose) = {p}
          /\ route[p].owner = actor \/ (route[p].owner = Deployment /\ actor = Admin)
          /\ route' = [route EXCEPT ![p] = Removed]
    /\ UNCHANGED <<account, key, dns, job>>

\* _chain_targets: entries that are removed, disabled, not the caller's to use
\* or not local where they must be are skipped.
ChainTargets(p, actor, localOnly) ==
    Selected(route[p].chain, {i \in DOMAIN route[p].chain :
        LET a == route[p].chain[i]
        IN  a \in Live /\ CanUse(account[a], actor) /\ (localOnly => IsLocalTarget(account[a]))})

\* The caller's own route, the deployment's, then the default ones.
Candidates(actor, purpose) ==
    <<<<actor, purpose>>, <<Deployment, purpose>>>> \o
        (IF purpose = "default" THEN <<>> ELSE <<<<actor, "default">>, <<Deployment, "default">>>>)

\* resolve: the targets of the first policy that has any, if one does; get_policy
\* fails where there are two.
Resolved(actor, purpose, privacy) ==
    LET tried == Candidates(actor, purpose)
        policies(i) == PoliciesOf(tried[i][1], tried[i][2])
        usable(p) == ChainTargets(p, actor, privacy \/ purpose \in LocalOnly)
        hit(i, p) == /\ policies(i) = {p} /\ usable(p) # <<>>
                     /\ \A j \in 1..i - 1 : \A q \in policies(j) : policies(j) = {q} /\ usable(q) = <<>>
    IN  {usable(p) : p \in {q \in Routes : \E i \in DOMAIN tried : hit(i, q)}}

--------------------------------------------------------------------------------
(* Calls                                                                      *)

\* What the loaded row of a target is used for later.
Target(a) == [owner |-> account[a].owner, kind |-> account[a].kind, url |-> account[a].url]

\* complete_task and _resolve_targets: one account named by the caller, or a
\* route.  The rows are read here and used from now on.
CallResolves(r) ==
    job[r] = Idle /\ \E actor \in People, privacy \in BOOLEAN :
        /\ \/ \E a \in Live :
                 /\ Required(a, actor, "use")
                 /\ privacy => IsLocalTarget(account[a])
                 /\ Starts(r, [op |-> "call", actor |-> actor, privacy |-> privacy,
                               left |-> <<Target(a)>>])
           \/ \E purpose \in Purposes : \E targets \in Resolved(actor, purpose, privacy) :
                 Starts(r, [op |-> "call", actor |-> actor, privacy |-> privacy,
                            left |-> [i \in DOMAIN targets |-> Target(targets[i])]])
        /\ UNCHANGED <<rowVars, dns, edits>>

\* connection_for: of the row the call resolved, the policy of now.
ConnectionFor(t, privacy) == [url |-> t.url, policy |-> AddressPolicy(t, privacy)]

\* GuardedBackend.connect_tcp: the address of now.
Connect(r) ==
    /\ Doing(r, "call")
    /\ LET t == Head(job[r].left)
           conn == ConnectionFor(t, job[r].privacy)
           address == Resolve(conn.url)
       IN  /\ Permits(conn.policy, address)
           /\ job' = [job EXCEPT ![r] =
                 [op |-> "connected", actor |-> job[r].actor, privacy |-> job[r].privacy,
                  owner |-> t.owner, address |-> address]]
    /\ UNCHANGED <<rowVars, dns, edits>>

\* The next entry of the route, after any failure of this one.
FallBack(r) ==
    /\ Doing(r, "call") /\ Len(job[r].left) > 1
    /\ job' = [job EXCEPT ![r] = [@ EXCEPT !.left = Tail(job[r].left)]]
    /\ UNCHANGED <<rowVars, dns, edits>>

\* A name is pointed elsewhere.
Repoint ==
    /\ Edit
    /\ \E h \in Hosts : \E address \in Addresses \ {dns[h]} : dns' = [dns EXCEPT ![h] = address]
    /\ UNCHANGED <<rowVars, job>>

AccountsNext ==
    \/ \E r \in Requests :
          \/ Create(r) \/ UpdateReads(r) \/ UpdateCommits(r)
          \/ DeleteReads(r) \/ DeleteCommits(r) \/ Fails(r)
          \/ SetReads(r) \/ SetCommits(r) \/ DeletePolicy(r)
          \/ CallResolves(r) \/ Connect(r) \/ FallBack(r)
    \/ Repoint

AccountsSpec == AccountsInit /\ [][AccountsNext]_accountsVars

--------------------------------------------------------------------------------
(* Properties                                                                 *)

Connected == {r \in Requests : job[r].op = "connected"}

\* Nobody is served through another user's account, whatever was shared, moved
\* or deleted since the call resolved (routing.py:8 "can never route one user's
\* request through another user's key"), and no account of a user is in a
\* shared route.
OwnKeysOnly ==
    /\ \A r \in Connected : job[r].owner \in {Deployment, job[r].actor}
    /\ \A p \in Routes : route[p].owner = Deployment =>
          \A i \in DOMAIN route[p].chain :
              route[p].chain[i] \in Live => account[route[p].chain[i]].owner = Deployment

\* A call that requires privacy talks to private addresses only, although the
\* endpoint is edited, its name is pointed elsewhere and the route is changed
\* between the moment it resolves and the moment it connects (netpolicy.py:96).
PrivacyKept == \A r \in Connected : job[r].privacy => job[r].address = "private"

\* No route is ever left without entries, and an account that needs a key has
\* one as long as it exists, and not longer.
RowsSound ==
    /\ \A p \in Routes : route[p].chain # <<>>
    /\ key = {a \in Live : account[a].method = "api_key"}

\* get_policy reads with scalar_one_or_none (routing.py:66): there is one route
\* of an owner for a purpose.
OneRoute ==
    \A p, q \in Routes :
        route[p].owner = route[q].owner /\ route[p].purpose = route[q].purpose => p = q

--------------------------------------------------------------------------------
(* An inductive invariant                                                     *)

\* What a route of the deployment may name: its own accounts, or one that is gone.
Shared(rows, chain) ==
    \A i \in DOMAIN chain :
        rows[chain[i]] # Nothing /\ (rows[chain[i]] # Removed => rows[chain[i]].owner = Deployment)

Targets == [owner : Owners, kind : Kinds, url : Urls]

\* What a request decided on still fits the rows when it commits: the rows it
\* names exist or are deleted, and their owners are the same.
SetInv(r) ==
    Doing(r, "set") =>
        /\ job[r].row \in RouteRows /\ job[r].row.chain # <<>> /\ job[r].found \subseteq RouteIds
        /\ job[r].row.owner = Deployment => Shared(account, job[r].row.chain)
        /\ \A p \in job[r].found :
              /\ route[p] # Nothing
              /\ p \in Routes => route[p].owner = job[r].row.owner

UpdateInv(r) ==
    Doing(r, "update") =>
        /\ job[r].account \in Accounts /\ {job[r].old, job[r].new} \subseteq AccountRows
        /\ account[job[r].account] # Nothing
        /\ job[r].keyed /\ job[r].account \in Live => account[job[r].account].method = "api_key"

DeleteInv(r) ==
    Doing(r, "delete") =>
        /\ job[r].account \in Accounts /\ DOMAIN job[r].routes \subseteq RouteIds
        /\ \A p \in DOMAIN job[r].routes :
              /\ job[r].routes[p] \in Seq(Accounts) /\ route[p] # Nothing
              /\ p \in Routes /\ route[p].owner = Deployment => Shared(account, job[r].routes[p])

\* The targets of a call were its actor's to use, and local where it is private;
\* a connection is to one of them.
CallInv(r) ==
    /\ Doing(r, "call") =>
          /\ job[r] \in [op : {"call"}, actor : People, privacy : BOOLEAN, left : Seq(Targets)]
          /\ job[r].left # <<>>
          /\ \A i \in DOMAIN job[r].left :
                /\ job[r].left[i].owner \in {Deployment, job[r].actor}
                /\ job[r].privacy => job[r].left[i].kind = "local"
    /\ Doing(r, "connected") =>
          /\ job[r].owner \in {Deployment, job[r].actor}
          /\ job[r].privacy => job[r].address = "private"

RowTypes ==
    /\ account \in [Accounts -> AccountRows \cup {Nothing, Removed}]
    /\ route \in [RouteIds -> RouteRows \cup {Nothing, Removed}]

RoutesShared == \A p \in Routes : route[p].owner = Deployment => Shared(account, route[p].chain)

JobsInv ==
    /\ job = [r \in Requests |-> job[r]]
    /\ \A r \in Requests : SetInv(r) /\ UpdateInv(r) /\ DeleteInv(r) /\ CallInv(r)

AccountsInv == RowTypes /\ RowsSound /\ RoutesShared /\ JobsInv
================================================================================
