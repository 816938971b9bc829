----------------------------- MODULE ServicesProofs -----------------------------
(***************************************************************************)
(* Proofs about the parts of Services: whose keys a call is served with    *)
(* and where it may connect (LLMAccounts), the stream of an adapter        *)
(* (LLMStreams), the conversation it sends (LLMRequests), the placement of *)
(* a task (Scheduler), the lines and messages a stream is read as          *)
(* (LLMReader), and the chunks of a document (Loader).                     *)
(*                                                                         *)
(* The lines are compared with those of the body read as a whole, so the   *)
(* proof has to say what joining two texts does to their newlines, lines   *)
(* and rest (ChunksJoin), and to the states iter_sse goes through          *)
(* (SseGoesOn).  What holds along a sequence is shown by the least place   *)
(* where it would fail (LeastNumber).                                      *)
(***************************************************************************)
EXTENDS Services, FiniteSetTheorems, SequenceTheorems, WellFoundedInduction, TLAPS

--------------------------------------------------------------------------------
(* Ranking                                                                    *)

\* Each position has a rank of its own, so the ranks are all taken.
LEMMA Ranks ==
    ASSUME NEW S \in SUBSET Int, IsFiniteSet(S), NEW scores, \A i \in S : scores[i] \in Int
    PROVE  /\ Cardinality(S) \in Nat
           /\ \A k \in 1..Cardinality(S) :
                 /\ Ranked(S, scores)[k] \in S
                 /\ Cardinality(UpTo(S, scores, Ranked(S, scores)[k])) = k
<1> DEFINE n == Cardinality(S)
           place == [i \in S |-> Cardinality(UpTo(S, scores, i))]
<1>0. n \in Nat /\ IsFiniteSet(1..n) /\ Cardinality(1..n) = n
  <2>1. n \in Nat
    BY FS_CardinalityType
  <2>2. IsFiniteSet(1..n) /\ Cardinality(1..n) = IF 1 > n THEN 0 ELSE n - 1 + 1
    <3>1. 1 \in Int /\ n \in Int
      BY <2>1
    <3>2. QED
      BY ONLY <3>1, FS_Interval
  <2>3. QED
    BY <2>1, <2>2
<1>1. ASSUME NEW i \in S
      PROVE  /\ UpTo(S, scores, i) \subseteq S /\ i \in UpTo(S, scores, i)
             /\ IsFiniteSet(UpTo(S, scores, i))
             /\ Cardinality(UpTo(S, scores, i)) \in 1..n
  <2>1. UpTo(S, scores, i) \subseteq S /\ i \in UpTo(S, scores, i)
    BY DEF UpTo
  <2>2. IsFiniteSet(UpTo(S, scores, i)) /\ Cardinality(UpTo(S, scores, i)) <= n
    BY <2>1, FS_Subset
  <2>3. Cardinality(UpTo(S, scores, i)) \in Nat /\ Cardinality(UpTo(S, scores, i)) # 0
    BY <2>1, <2>2, FS_CardinalityType, FS_EmptySet
  <2>4. QED
    BY <1>0, <2>1, <2>2, <2>3
<1>2. ASSUME NEW i \in S, NEW j \in S, i # j, i \in UpTo(S, scores, j)
      PROVE  Cardinality(UpTo(S, scores, i)) # Cardinality(UpTo(S, scores, j))
  <2>1. i \in Int /\ j \in Int /\ scores[i] \in Int /\ scores[j] \in Int
    OBVIOUS
  <2>2. ASSUME NEW x \in UpTo(S, scores, i) PROVE x \in UpTo(S, scores, j)
    <3>1. x \in S /\ x \in Int /\ scores[x] \in Int
      BY DEF UpTo
    <3>2. scores[x] > scores[i] \/ (scores[x] = scores[i] /\ x <= i)
      BY DEF UpTo
    <3>3. scores[i] > scores[j] \/ (scores[i] = scores[j] /\ i <= j)
      BY <1>2 DEF UpTo
    <3>4. scores[x] > scores[j] \/ (scores[x] = scores[j] /\ x <= j)
      BY <2>1, <3>1, <3>2, <3>3
    <3>5. QED
      BY <3>1, <3>4 DEF UpTo
  <2>3. j \notin UpTo(S, scores, i)
    BY <1>2, <2>1 DEF UpTo
  <2>4. j \in UpTo(S, scores, j)
    BY <1>1
  <2>5. UpTo(S, scores, i) # UpTo(S, scores, j)
    BY <2>3, <2>4
  <2>6. QED
    BY <1>1, <2>2, <2>5, FS_Subset
<1>3. \A i, j \in S : i # j => i \in UpTo(S, scores, j) \/ j \in UpTo(S, scores, i)
  BY DEF UpTo
<1>4. place \in Injection(S, 1..n)
  <2>1. place \in [S -> 1..n]
    BY <1>1
  <2>2. \A i, j \in S : place[i] = place[j] => i = j
    BY <1>2, <1>3
  <2>3. QED
    BY <2>1, <2>2 DEF Injection, IsInjective
<1>5. place \in Surjection(S, 1..n)
  <2> HIDE DEF place, n
  <2>1. Cardinality(S) = Cardinality(1..n)
    BY <1>0 DEF n
  <2>2. QED
    BY <1>0, <1>4, <2>1, FS_Injection
<1>6. ASSUME NEW k \in 1..n
      PROVE  /\ Ranked(S, scores)[k] \in S
             /\ Cardinality(UpTo(S, scores, Ranked(S, scores)[k])) = k
  <2>1. \E i \in S : place[i] = k
    BY <1>5 DEF Surjection
  <2>2. \E i \in S : Cardinality(UpTo(S, scores, i)) = k
    BY <2>1
  <2>3. Ranked(S, scores)[k] = CHOOSE i \in S : Cardinality(UpTo(S, scores, i)) = k
    BY <1>6 DEF Ranked
  <2>4. QED
    BY <2>2, <2>3
<1>7. QED
  BY <1>0, <1>6

LEMMA Places ==
    ASSUME NEW S \in SUBSET Int, IsFiniteSet(S)
    PROVE  /\ Cardinality(S) \in Nat
           /\ DOMAIN InOrder(S) = 1..Cardinality(S)
           /\ \A k \in 1..Cardinality(S) : InOrder(S)[k] \in S
           /\ \A k, l \in 1..Cardinality(S) : InOrder(S)[k] = InOrder(S)[l] => k = l
<1> DEFINE zero == [i \in S |-> 0]
<1>1. \A i \in S : zero[i] \in Int
  OBVIOUS
<1> HIDE DEF zero
<1>2. /\ Cardinality(S) \in Nat
      /\ \A k \in 1..Cardinality(S) :
            /\ Ranked(S, zero)[k] \in S
            /\ Cardinality(UpTo(S, zero, Ranked(S, zero)[k])) = k
  BY <1>1, Ranks
<1>3. DOMAIN Ranked(S, zero) = 1..Cardinality(S)
  BY DEF Ranked
<1>4. InOrder(S) = Ranked(S, zero)
  BY DEF InOrder, zero
<1>5. QED
  BY <1>2, <1>3, <1>4

LEMMA PositionsFinite ==
    ASSUME NEW T, NEW s \in Seq(T), NEW I, I \subseteq DOMAIN s
    PROVE  I \in SUBSET Int /\ IsFiniteSet(I)
<1>1. DOMAIN s = 1..Len(s) /\ Len(s) \in Nat
  BY LenProperties
<1>2. IsFiniteSet(1..Len(s))
  BY <1>1, FS_Interval
<1>3. QED
  BY <1>1, <1>2, FS_Subset

\* The entries that are selected are entries of the sequence.
LEMMA SelectedEntries ==
    ASSUME NEW T, NEW s \in Seq(T), NEW I, I \subseteq DOMAIN s
    PROVE  /\ Selected(s, I) \in Seq(T) /\ DOMAIN Selected(s, I) = 1..Cardinality(I)
           /\ Cardinality(I) \in Nat
           /\ \A k \in DOMAIN Selected(s, I) : \E i \in I : Selected(s, I)[k] = s[i]
           /\ (\A i, j \in DOMAIN s : s[i] = s[j] => i = j)
                 => \A k, l \in DOMAIN Selected(s, I) : Selected(s, I)[k] = Selected(s, I)[l] => k = l
<1>1. I \in SUBSET Int /\ IsFiniteSet(I)
  BY PositionsFinite
<1>2. /\ Cardinality(I) \in Nat
      /\ \A k \in 1..Cardinality(I) : InOrder(I)[k] \in I
      /\ \A k, l \in 1..Cardinality(I) : InOrder(I)[k] = InOrder(I)[l] => k = l
  BY <1>1, Places
<1>3. /\ DOMAIN Selected(s, I) = 1..Cardinality(I)
      /\ \A k \in 1..Cardinality(I) : Selected(s, I)[k] = s[InOrder(I)[k]]
  BY DEF Selected
<1>4. \A i \in DOMAIN s : s[i] \in T
  OBVIOUS
<1>5. Selected(s, I) \in Seq(T)
  <2>1. \A k \in 1..Cardinality(I) : s[InOrder(I)[k]] \in T
    BY <1>2, <1>4
  <2>2. Selected(s, I) \in [1..Cardinality(I) -> T]
    BY <2>1 DEF Selected
  <2>3. QED
    BY <1>2, <2>2
<1>6. QED
  BY <1>2, <1>3, <1>5

--------------------------------------------------------------------------------
(* Accounts and routes                                                        *)

\* Owners and methods never change, and an id is used once.
OwnersKept ==
    /\ \A a \in Accounts : account[a] # Nothing =>
          /\ account'[a] # Nothing
          /\ account'[a] # Removed =>
                /\ account[a] # Removed /\ account'[a].owner = account[a].owner
                /\ account'[a].method = account[a].method
    /\ \A p \in RouteIds : route[p] # Nothing =>
          /\ route'[p] # Nothing
          /\ p \in Routes' => p \in Routes /\ route'[p].owner = route[p].owner

LEMMA RowsKnown ==
    ASSUME RowTypes
    PROVE  /\ \A a \in Live : a \in Accounts /\ account[a] \in AccountRows
           /\ \A p \in Routes : p \in RouteIds /\ route[p] \in RouteRows /\ route[p].chain \in Seq(Accounts)
  BY DEF RowTypes, Live, Routes, RouteRows

LEMMA SharedKept ==
    ASSUME OwnersKept, NEW chain \in Seq(Accounts), Shared(account, chain)
    PROVE  Shared(account', chain)
<1>1. \A i \in DOMAIN chain : chain[i] \in Accounts
  OBVIOUS
<1>2. QED
  BY <1>1 DEF OwnersKept, Shared

\* What a request has decided on stays fit while others commit.
LEMMA DecisionKept ==
    ASSUME RowTypes, JobsInv, OwnersKept, NEW r \in Requests, job'[r] = job[r]
    PROVE  SetInv(r)' /\ UpdateInv(r)' /\ DeleteInv(r)' /\ CallInv(r)'
<1>1. SetInv(r) /\ UpdateInv(r) /\ DeleteInv(r) /\ CallInv(r)
  BY DEF JobsInv
<1>2. CallInv(r)'
  BY <1>1 DEF CallInv, Doing
<1>3. SetInv(r)'
  <2>1. SUFFICES ASSUME Doing(r, "set") PROVE SetInv(r)'
    BY DEF SetInv, Doing
  <2>2. /\ job[r].row \in RouteRows /\ job[r].row.chain # <<>> /\ job[r].found \subseteq RouteIds
        /\ job[r].row.owner = Deployment => Shared(account, job[r].row.chain)
        /\ \A p \in job[r].found :
              /\ route[p] # Nothing
              /\ p \in Routes => route[p].owner = job[r].row.owner
    BY <1>1, <2>1 DEF SetInv
  <2>3. job[r].row.chain \in Seq(Accounts)
    BY <2>2 DEF RouteRows
  <2>4. job[r].row.owner = Deployment => Shared(account', job[r].row.chain)
    BY <2>2, <2>3, SharedKept
  <2>5. \A p \in job[r].found : route'[p] # Nothing /\ (p \in Routes' => route'[p].owner = job[r].row.owner)
    BY <2>2 DEF OwnersKept
  <2>6. QED
    BY <2>2, <2>4, <2>5 DEF SetInv
<1>4. DeleteInv(r)'
  <2>1. SUFFICES ASSUME Doing(r, "delete") PROVE DeleteInv(r)'
    BY DEF DeleteInv, Doing
  <2>2. /\ job[r].account \in Accounts /\ DOMAIN job[r].routes \subseteq RouteIds
        /\ \A p \in DOMAIN job[r].routes :
              /\ job[r].routes[p] \in Seq(Accounts) /\ route[p] # Nothing
              /\ p \in Routes /\ route[p].owner = Deployment => Shared(account, job[r].routes[p])
    BY <1>1, <2>1 DEF DeleteInv
  <2>3. ASSUME NEW p \in DOMAIN job[r].routes
        PROVE  /\ job[r].routes[p] \in Seq(Accounts) /\ route'[p] # Nothing
               /\ p \in Routes' /\ route'[p].owner = Deployment => Shared(account', job[r].routes[p])
    <3>1. route'[p] # Nothing /\ (p \in Routes' => p \in Routes /\ route'[p].owner = route[p].owner)
      BY <2>2, <2>3 DEF OwnersKept
    <3>2. QED
      BY <2>2, <3>1, SharedKept
  <2>4. QED
    BY <2>2, <2>3 DEF DeleteInv
<1>5. UpdateInv(r)'
  <2>1. SUFFICES ASSUME Doing(r, "update") PROVE UpdateInv(r)'
    BY DEF UpdateInv, Doing
  <2> DEFINE a == job[r].account
  <2>2. /\ a \in Accounts /\ {job[r].old, job[r].new} \subseteq AccountRows /\ account[a] # Nothing
        /\ job[r].keyed /\ a \in Live => account[a].method = "api_key"
    BY <1>1, <2>1 DEF UpdateInv
  <2>3. account'[a] # Nothing
    BY <2>2 DEF OwnersKept
  <2>4. a \in Live' => a \in Live /\ account'[a].method = account[a].method
    BY <2>2 DEF OwnersKept, Live
  <2>5. QED
    BY <2>2, <2>3, <2>4 DEF UpdateInv
<1>6. QED
  BY <1>2, <1>3, <1>4, <1>5

\* A request that ends has decided on nothing.
LEMMA JobsKept ==
    ASSUME RowTypes, JobsInv, OwnersKept,
           UNCHANGED job \/ \E r \in Requests : Ends(r)
    PROVE  JobsInv'
<1>1. ASSUME NEW r \in Requests PROVE job'[r] \in {job[r], Idle}
  BY DEF JobsInv, Ends
<1>2. job' = [r \in Requests |-> job'[r]]
  BY DEF JobsInv, Ends
<1>3. ASSUME NEW r \in Requests PROVE SetInv(r)' /\ UpdateInv(r)' /\ DeleteInv(r)' /\ CallInv(r)'
  <2>1. CASE job'[r] = Idle
    BY <2>1 DEF SetInv, UpdateInv, DeleteInv, CallInv, Doing, Idle
  <2>2. CASE job'[r] = job[r]
    BY <2>2, DecisionKept
  <2>3. QED
    BY <1>1, <2>1, <2>2
<1>4. QED
  BY <1>2, <1>3 DEF JobsInv

\* A request decides: the rows are as they were.
LEMMA JobStep ==
    ASSUME AccountsInv, NEW r \in Requests, NEW j, Starts(r, j), UNCHANGED rowVars,
           (SetInv(r) /\ UpdateInv(r) /\ DeleteInv(r) /\ CallInv(r))'
    PROVE  AccountsInv'
<1>1. OwnersKept
  BY DEF OwnersKept, rowVars, Routes
<1>2. job' = [i \in Requests |-> job'[i]] /\ \A i \in Requests : i # r => job'[i] = job[i]
  BY DEF Starts, AccountsInv, JobsInv
<1>3. ASSUME NEW i \in Requests PROVE SetInv(i)' /\ UpdateInv(i)' /\ DeleteInv(i)' /\ CallInv(i)'
  BY <1>1, <1>2, DecisionKept DEF AccountsInv
<1>4. JobsInv'
  BY <1>2, <1>3 DEF JobsInv
<1>5. RowTypes' /\ RowsSound' /\ RoutesShared'
  BY DEF AccountsInv, RowTypes, RowsSound, RoutesShared, Routes, Live, rowVars
<1>6. QED
  BY <1>4, <1>5 DEF AccountsInv

\* The routes are as they were, and accounts keep their owners.
LEMMA SharedRoutesKept ==
    ASSUME RowTypes, RoutesShared, OwnersKept, UNCHANGED route
    PROVE  RoutesShared'
  BY RowsKnown, SharedKept DEF RoutesShared, Routes

LEMMA CreateStep ==
    ASSUME AccountsInv, NEW r \in Requests, Create(r)
    PROVE  AccountsInv'
<1> DEFINE New(owner, brand, method, url) ==
             [owner |-> owner, kind |-> brand, method |-> method, url |-> url,
              local |-> FALSE, status |-> "active"]
<1>p. PICK actor \in People, brand \in Kinds, owner \in Owners :
        \E method \in AuthMethods(brand), url \in Endpoints(brand) :
           \E a \in {b \in Accounts : account[b] = Nothing} :
              Inserts(a, Placed(New(owner, brand, method, url)))
  BY DEF Create
<1>1. PICK method \in AuthMethods(brand), url \in Endpoints(brand), a \in Accounts :
        account[a] = Nothing /\ Inserts(a, Placed(New(owner, brand, method, url)))
  BY <1>p
<1> DEFINE row == Placed(New(owner, brand, method, url))
<1>2. row = [owner |-> owner, kind |-> brand, method |-> method, url |-> url,
             local |-> row.local, status |-> "active"] /\ row.local \in BOOLEAN
  BY DEF Placed, Locality
<1> HIDE DEF row
<1>a. /\ account' = [account EXCEPT ![a] = row]
      /\ IF row.method = "api_key" THEN StoreCredential(a) ELSE UNCHANGED key
  BY <1>1 DEF Inserts, row
<1>3. method \in {"none", "api_key", "node_sign_in"} /\ url \in Urls
  BY <1>p, <1>1 DEF AuthMethods, Endpoints, Kinds, Urls, Hosts
<1>4. row \in AccountRows /\ row.method = method /\ row \notin {Nothing, Removed}
  BY <1>2, <1>3, NoRows DEF AccountRows
<1>5. UNCHANGED <<route, job>>
  BY DEF Create
<1>6. /\ account'[a] = row /\ \A b \in Accounts : b # a => account'[b] = account[b]
      /\ account' \in [Accounts -> AccountRows \cup {Nothing, Removed}]
  BY <1>a, <1>4 DEF AccountsInv, RowTypes
<1>7. RowTypes' /\ OwnersKept
  BY <1>1, <1>2, <1>a, <1>5, <1>6 DEF AccountsInv, RowTypes, OwnersKept, Routes
<1>8. RowsSound'
  <2>1. Live' = Live \cup {a} /\ a \notin Live
    BY <1>1, <1>4, <1>6, NoRows DEF Live
  <2>2. {b \in Live' : account'[b].method = "api_key"}
            = {b \in Live : account[b].method = "api_key"} \cup (IF method = "api_key" THEN {a} ELSE {})
    BY <1>4, <1>6, <2>1 DEF Live
  <2>3. key' = key \cup (IF method = "api_key" THEN {a} ELSE {})
    BY <1>a, <1>4 DEF StoreCredential
  <2>4. Routes' = Routes
    BY <1>5 DEF Routes
  <2>5. QED
    BY <1>5, <2>2, <2>3, <2>4 DEF AccountsInv, RowsSound
<1>9. QED
  BY <1>5, <1>7, <1>8, SharedRoutesKept, JobsKept DEF AccountsInv

\* A row is rewritten: its owner and what it authenticates with are the same.
LEMMA EditStep ==
    ASSUME AccountsInv, NEW a \in Live, NEW row \in AccountRows, NEW r \in Requests,
           row.owner = account[a].owner, row.method = account[a].method,
           account' = [account EXCEPT ![a] = row], UNCHANGED <<key, route>>, Ends(r)
    PROVE  AccountsInv'
<1>1. a \in Accounts /\ account[a] \notin {Nothing, Removed}
  BY DEF Live
<1>2. row \notin {Nothing, Removed}
  BY NoRows
<1>3. /\ account'[a] = row /\ \A b \in Accounts : b # a => account'[b] = account[b]
      /\ account' \in [Accounts -> AccountRows \cup {Nothing, Removed}]
  BY <1>1 DEF AccountsInv, RowTypes
<1>4. RowTypes' /\ OwnersKept
  BY <1>1, <1>2, <1>3 DEF AccountsInv, RowTypes, OwnersKept, Routes
<1>5. Live' = Live /\ Routes' = Routes
  BY <1>1, <1>2, <1>3 DEF Live, Routes
<1>6. \A b \in Live : account'[b].method = account[b].method
  BY <1>3 DEF Live
<1>7. {b \in Live : account'[b].method = "api_key"} = {b \in Live : account[b].method = "api_key"}
  BY <1>6
<1>8. RowsSound'
  BY <1>5, <1>7 DEF AccountsInv, RowsSound
<1>9. QED
  BY <1>4, <1>8, SharedRoutesKept, JobsKept DEF AccountsInv

\* Whatever a PATCH makes of a row keeps who owns it and how it authenticates.
LEMMA EditedRows ==
    ASSUME NEW old \in AccountRows, NEW row \in Edited(old)
    PROVE  row \in AccountRows
<1>1. CASE \E s \in {"active", "disabled"} : row = [old EXCEPT !.status = s]
  BY <1>1 DEF AccountRows
<1>2. CASE \E u \in Endpoints(old.kind) : row = Placed([old EXCEPT !.url = u])
  <2>1. PICK u \in Endpoints(old.kind) : row = Placed([old EXCEPT !.url = u])
    BY <1>2
  <2> DEFINE moved == [old EXCEPT !.url = u]
  <2>2. old.kind \in Kinds
    BY DEF AccountRows
  <2>3. u \in Urls
    BY <2>1, <2>2 DEF Endpoints, Urls, Hosts, Kinds
  <2>4. moved \in AccountRows
    BY <2>3 DEF AccountRows
  <2>5. Locality(moved) \in BOOLEAN
    BY DEF Locality
  <2>6. row = [moved EXCEPT !.local = Locality(moved)]
    BY <2>1 DEF Placed
  <2> HIDE DEF moved
  <2>7. QED
    BY <2>4, <2>5, <2>6 DEF AccountRows
<1>3. QED
  BY <1>1, <1>2 DEF Edited

LEMMA UpdateReadsStep ==
    ASSUME AccountsInv, NEW r \in Requests, UpdateReads(r)
    PROVE  AccountsInv'
<1> DEFINE decided(a, row, keyed) ==
             [op |-> "update", account |-> a, old |-> account[a], new |-> row, keyed |-> keyed]
<1>1. PICK a \in Live :
        /\ \/ \E row \in Edited(account[a]) : Starts(r, decided(a, row, FALSE))
           \/ account[a].method = "api_key" /\ Starts(r, decided(a, account[a], TRUE))
        /\ UNCHANGED rowVars
  BY DEF UpdateReads
<1>2. a \in Accounts /\ account[a] \in AccountRows /\ account[a] # Nothing
  BY RowsKnown DEF AccountsInv, Live
<1>3. PICK row \in AccountRows, keyed \in BOOLEAN :
        Starts(r, decided(a, row, keyed)) /\ (keyed => account[a].method = "api_key")
  BY <1>1, <1>2, EditedRows
<1>4. job'[r] = decided(a, row, keyed) /\ UNCHANGED <<account, route>>
  BY <1>1, <1>3 DEF Starts, AccountsInv, JobsInv, rowVars
<1>5. SetInv(r)' /\ DeleteInv(r)' /\ CallInv(r)'
  BY <1>4 DEF SetInv, DeleteInv, CallInv, Doing
<1>6. UpdateInv(r)'
  BY <1>2, <1>3, <1>4 DEF UpdateInv
<1>7. QED
  BY <1>1, <1>3, <1>5, <1>6, JobStep

LEMMA UpdateCommitsStep ==
    ASSUME AccountsInv, NEW r \in Requests, UpdateCommits(r)
    PROVE  AccountsInv'
<1> DEFINE a == job[r].account
           old == job[r].old
           new == job[r].new
           row == Written(account[a], old, new)
<1>1. /\ Doing(r, "update") /\ a \in Live /\ account' = [account EXCEPT ![a] = row]
      /\ IF job[r].keyed THEN StoreCredential(a) ELSE UNCHANGED key
      /\ Ends(r) /\ UNCHANGED route
  BY DEF UpdateCommits
<1>2. a \in Accounts /\ account[a] \in AccountRows
  BY <1>1, RowsKnown DEF AccountsInv
<1>3. old \in AccountRows /\ new \in AccountRows /\ (job[r].keyed => account[a].method = "api_key")
  BY <1>1 DEF AccountsInv, JobsInv, UpdateInv
<1>4. row \in AccountRows /\ row.owner = account[a].owner /\ row.method = account[a].method
  <2> DEFINE s == IF new.status = old.status THEN account[a].status ELSE new.status
             u == IF new.url = old.url THEN account[a].url ELSE new.url
             l == IF new.local = old.local THEN account[a].local ELSE new.local
  <2>1. s \in {"active", "disabled"} /\ u \in Urls /\ l \in BOOLEAN
    BY <1>2, <1>3 DEF AccountRows
  <2>2. row = [account[a] EXCEPT !.status = s, !.url = u, !.local = l]
    BY DEF Written
  <2> HIDE DEF s, u, l, row
  <2>3. QED
    BY <1>2, <2>1, <2>2 DEF AccountRows
<1>5. UNCHANGED key
  <2>1. CASE job[r].keyed
    <3>1. a \in key
      BY <1>1, <1>3, <2>1 DEF AccountsInv, RowsSound
    <3>2. QED
      BY <1>1, <2>1, <3>1 DEF StoreCredential
  <2>2. QED
    BY <1>1, <2>1
<1> HIDE DEF a, row
<1>6. QED
  BY <1>1, <1>4, <1>5, EditStep

\* The routes a deletion is about are written back without the account.
LEMMA DeleteReadsStep ==
    ASSUME AccountsInv, NEW r \in Requests, DeleteReads(r)
    PROVE  AccountsInv'
<1> DEFINE without(p, a) == Selected(route[p].chain, {i \in DOMAIN route[p].chain : route[p].chain[i] # a})
           found(a) == {q \in Routes : Contains(route[q].chain, a)}
           decided(a) == [op |-> "delete", account |-> a, routes |-> [p \in found(a) |-> without(p, a)]]
<1>1. PICK a \in Live : Starts(r, decided(a)) /\ UNCHANGED rowVars
  BY DEF DeleteReads
<1>2. ASSUME NEW p \in found(a)
      PROVE  /\ without(p, a) \in Seq(Accounts) /\ p \in RouteIds /\ route[p] # Nothing
             /\ route[p].owner = Deployment => Shared(account, without(p, a))
  <2>1. p \in Routes
    OBVIOUS
  <2>2. p \in RouteIds /\ route[p].chain \in Seq(Accounts) /\ route[p] # Nothing
    BY <2>1, RowsKnown DEF AccountsInv, Routes
  <2> DEFINE chain == route[p].chain
             I == {i \in DOMAIN chain : chain[i] # a}
  <2>3. I \subseteq DOMAIN chain /\ chain \in Seq(Accounts)
    BY <2>2
  <2>4. ASSUME route[p].owner = Deployment PROVE Shared(account, chain)
    BY <2>1, <2>4 DEF AccountsInv, RoutesShared
  <2> HIDE DEF chain, I
  <2>5. Selected(chain, I) \in Seq(Accounts)
        /\ \A k \in DOMAIN Selected(chain, I) : \E i \in I : Selected(chain, I)[k] = chain[i]
    BY <2>3, SelectedEntries
  <2>6. ASSUME route[p].owner = Deployment PROVE Shared(account, Selected(chain, I))
    <3>1. \A k \in DOMAIN Selected(chain, I) : \E i \in DOMAIN chain : Selected(chain, I)[k] = chain[i]
      BY <2>3, <2>5
    <3>2. QED
      BY <2>4, <2>6, <3>1 DEF Shared
  <2>7. without(p, a) = Selected(chain, I)
    BY DEF chain, I
  <2>8. QED
    BY <2>2, <2>5, <2>6, <2>7
<1>3. a \in Accounts
  BY DEF Live
<1> HIDE DEF without, found
<1>4. job'[r] = decided(a)
  BY <1>1 DEF Starts, AccountsInv, JobsInv
<1>5. SetInv(r)' /\ UpdateInv(r)' /\ CallInv(r)'
  BY <1>4 DEF SetInv, UpdateInv, CallInv, Doing
<1>6. DeleteInv(r)'
  BY <1>1, <1>2, <1>3, <1>4 DEF DeleteInv, Doing, rowVars
<1>7. QED
  BY <1>1, <1>5, <1>6, JobStep

\* The account and its key go, and what was read of its routes is written.
LEMMA DeleteCommitsStep ==
    ASSUME AccountsInv, NEW r \in Requests, DeleteCommits(r)
    PROVE  AccountsInv'
<1> DEFINE a == job[r].account
           found == job[r].routes
           read == DOMAIN found
<1>1. /\ Doing(r, "delete") /\ \A p \in read : found[p] # <<>> => p \in Routes
      /\ account' = [account EXCEPT ![a] = Removed]
      /\ DeleteCredential(a) /\ Ends(r)
      /\ route' = [p \in RouteIds |->
            IF p \notin read THEN route[p]
            ELSE IF found[p] = <<>> THEN Removed
            ELSE [route[p] EXCEPT !.chain = found[p]]]
  BY DEF DeleteCommits
<1>2. DeleteInv(r)
  BY DEF AccountsInv, JobsInv
<1>3. /\ a \in Accounts
      /\ \A p \in read : found[p] \in Seq(Accounts) /\ route[p] # Nothing
      /\ \A p \in read : p \in Routes /\ route[p].owner = Deployment => Shared(account, found[p])
  BY <1>1, <1>2 DEF DeleteInv
<1> HIDE DEF a, found, read
<1>4. a \in Accounts
  BY <1>3
<1>5. /\ account'[a] = Removed /\ \A b \in Accounts : b # a => account'[b] = account[b]
      /\ account' \in [Accounts -> AccountRows \cup {Nothing, Removed}]
  BY <1>1, <1>4 DEF AccountsInv, RowTypes
<1>6. ASSUME NEW p \in RouteIds
      PROVE  \/ route'[p] = route[p] /\ p \notin read
             \/ p \in read /\ found[p] = <<>> /\ route'[p] = Removed
             \/ /\ p \in read /\ p \in Routes /\ found[p] # <<>>
                /\ route'[p] = [route[p] EXCEPT !.chain = found[p]]
                /\ route'[p] \in RouteRows /\ route'[p].owner = route[p].owner
                /\ route'[p].chain = found[p] /\ route'[p] \notin {Nothing, Removed}
  <2>1. CASE p \notin read
    BY <1>1, <2>1
  <2>2. CASE p \in read /\ found[p] = <<>>
    BY <1>1, <2>2
  <2>3. CASE p \in read /\ found[p] # <<>>
    <3>1. p \in Routes /\ route[p] \in RouteRows /\ found[p] \in Seq(Accounts)
      BY <1>1, <1>3, <2>3, RowsKnown DEF AccountsInv
    <3>2. route'[p] = [route[p] EXCEPT !.chain = found[p]]
      BY <1>1, <2>3
    <3>3. route'[p] \in RouteRows /\ route'[p].owner = route[p].owner /\ route'[p].chain = found[p]
      BY <3>1, <3>2 DEF RouteRows
    <3>4. QED
      BY <2>3, <3>1, <3>2, <3>3, NoRows
  <2>4. QED
    BY <2>1, <2>2, <2>3
<1>7. OwnersKept
  <2>1. ASSUME NEW b \in Accounts, account[b] # Nothing
        PROVE  /\ account'[b] # Nothing
               /\ account'[b] # Removed =>
                     /\ account[b] # Removed /\ account'[b].owner = account[b].owner
                     /\ account'[b].method = account[b].method
    BY <1>4, <1>5, <2>1, NoRows
  <2>2. ASSUME NEW p \in RouteIds, route[p] # Nothing
        PROVE  route'[p] # Nothing /\ (p \in Routes' => p \in Routes /\ route'[p].owner = route[p].owner)
    BY <1>6, <2>2, NoRows DEF Routes
  <2>3. QED
    BY <2>1, <2>2 DEF OwnersKept
<1>8. RowTypes'
  <2>1. ASSUME NEW p \in RouteIds PROVE route'[p] \in RouteRows \cup {Nothing, Removed}
    BY <1>6 DEF AccountsInv, RowTypes
  <2>2. route' = [p \in RouteIds |-> route'[p]]
    BY <1>1
  <2>3. QED
    BY <1>5, <2>1, <2>2 DEF RowTypes
<1>9. RowsSound'
  <2>1. Live' = Live \ {a}
    BY <1>4, <1>5 DEF Live
  <2>2. \A b \in Live' : account'[b] = account[b]
    BY <1>5, <2>1 DEF Live
  <2>3. key' = key \ {a}
    BY <1>1 DEF DeleteCredential
  <2>4. key' = {b \in Live' : account'[b].method = "api_key"}
    BY <2>1, <2>2, <2>3 DEF AccountsInv, RowsSound
  <2>5. ASSUME NEW p \in Routes' PROVE route'[p].chain # <<>>
    <3>1. p \in RouteIds /\ route'[p] \notin {Nothing, Removed}
      BY DEF Routes
    <3>2. CASE route'[p] = route[p]
      BY <3>1, <3>2 DEF Routes, AccountsInv, RowsSound
    <3>3. QED
      BY <1>6, <3>1, <3>2
  <2>6. QED
    BY <2>4, <2>5 DEF RowsSound
<1>10. RoutesShared'
  <2>1. ASSUME NEW p \in Routes', route'[p].owner = Deployment PROVE Shared(account', route'[p].chain)
    <3>1. p \in RouteIds /\ route'[p] \notin {Nothing, Removed}
      BY DEF Routes
    <3>2. CASE route'[p] = route[p]
      <4>1. p \in Routes /\ route[p].chain \in Seq(Accounts)
        BY <3>1, <3>2, RowsKnown DEF Routes, AccountsInv
      <4>2. Shared(account, route[p].chain)
        BY <2>1, <3>2, <4>1 DEF AccountsInv, RoutesShared
      <4>3. QED
        BY <1>7, <3>2, <4>1, <4>2, SharedKept
    <3>3. CASE p \in read /\ p \in Routes /\ route'[p].owner = route[p].owner /\ route'[p].chain = found[p]
      BY <1>3, <1>7, <2>1, <3>3, SharedKept
    <3>4. QED
      BY <1>6, <3>1, <3>2, <3>3
  <2>2. QED
    BY <2>1 DEF RoutesShared
<1>11. QED
  BY <1>1, <1>7, <1>8, <1>9, <1>10, JobsKept DEF AccountsInv

LEMMA FailsStep ==
    ASSUME AccountsInv, NEW r \in Requests, Fails(r)
    PROVE  AccountsInv'
<1>1. Ends(r) /\ UNCHANGED rowVars
  BY DEF Fails
<1>2. OwnersKept
  BY <1>1 DEF OwnersKept, rowVars, Routes
<1>3. RowTypes' /\ RowsSound' /\ RoutesShared'
  BY <1>1 DEF AccountsInv, RowTypes, RowsSound, RoutesShared, Routes, Live, rowVars
<1>4. QED
  BY <1>1, <1>2, <1>3, JobsKept DEF AccountsInv

\* What a route may name was looked up before it is written.
LEMMA SetReadsStep ==
    ASSUME AccountsInv, NEW r \in Requests, SetReads(r)
    PROVE  AccountsInv'
<1>1. UNCHANGED rowVars
  BY DEF SetReads
<1>p. PICK actor \in People :
        \E owner \in {actor} \cup (IF actor = Admin THEN {Deployment} ELSE {}) :
           \E purpose \in Purposes, chain \in Chains :
              /\ \A i \in DOMAIN chain : MayRoute(actor, owner, purpose, chain[i])
              /\ Starts(r, [op |-> "set", found |-> PoliciesOf(owner, purpose),
                            row |-> [owner |-> owner, purpose |-> purpose, chain |-> chain]])
  BY DEF SetReads
<1>2. PICK owner \in {actor} \cup (IF actor = Admin THEN {Deployment} ELSE {}),
           purpose \in Purposes, chain \in Chains :
        /\ \A i \in DOMAIN chain : MayRoute(actor, owner, purpose, chain[i])
        /\ Starts(r, [op |-> "set", found |-> PoliciesOf(owner, purpose),
                      row |-> [owner |-> owner, purpose |-> purpose, chain |-> chain]])
  BY <1>p
<1> DEFINE row == [owner |-> owner, purpose |-> purpose, chain |-> chain]
           decided == [op |-> "set", found |-> PoliciesOf(owner, purpose), row |-> row]
<1>3. job'[r] = decided
  BY <1>2 DEF Starts, AccountsInv, JobsInv
<1>4. owner \in Owners
  BY <1>2 DEF Owners, People
<1>5. chain \in Seq(Accounts) /\ chain # <<>>
  <2>1. chain # <<>> /\ \E n \in 0..MaxChain : chain \in [1..n -> Accounts]
    BY <1>2 DEF Chains, BoundedSeq, SeqOf
  <2>2. PICK n \in 0..MaxChain : chain \in [1..n -> Accounts]
    BY <2>1
  <2>3. n \in Nat
    BY AccountsBounds
  <2>4. QED
    BY <2>1, <2>2, <2>3
<1>6. row \in RouteRows
  BY <1>4, <1>5 DEF RouteRows
<1>7. owner = Deployment => Shared(account, chain)
  BY <1>2, NoRows DEF MayRoute, Shared, Live
<1>8. \A p \in PoliciesOf(owner, purpose) : p \in RouteIds /\ route[p] # Nothing /\ route[p].owner = owner
  BY DEF PoliciesOf, Routes
<1>9. SetInv(r)'
  <2> HIDE DEF row
  <2>1. row.owner = owner /\ row.chain = chain
    BY DEF row
  <2>2. QED
    BY <1>1, <1>3, <1>5, <1>6, <1>7, <1>8, <2>1 DEF SetInv, Doing, rowVars
<1>10. UpdateInv(r)' /\ DeleteInv(r)' /\ CallInv(r)'
  BY <1>3 DEF UpdateInv, DeleteInv, CallInv, Doing
<1>11. Starts(r, decided)
  BY <1>2
<1> HIDE DEF decided
<1>12. QED
  BY <1>1, <1>9, <1>10, <1>11, JobStep

\* A route is written as it was decided: to the row that was found, or to a new one.
LEMMA SetCommitsStep ==
    ASSUME AccountsInv, NEW r \in Requests, SetCommits(r)
    PROVE  AccountsInv'
<1> DEFINE row == job[r].row
           found == job[r].found
<1>1. /\ Doing(r, "set") /\ Ends(r) /\ UNCHANGED <<account, key>>
      /\ \/ /\ found # {} /\ found \subseteq Routes
            /\ route' = [p \in RouteIds |-> IF p \in found THEN row ELSE route[p]]
         \/ /\ found = {}
            /\ \E p \in RouteIds : route[p] = Nothing /\ route' = [route EXCEPT ![p] = row]
  BY DEF SetCommits
<1>2. SetInv(r)
  BY DEF AccountsInv, JobsInv
<1>3. /\ row \in RouteRows /\ row.chain # <<>> /\ row.chain \in Seq(Accounts)
      /\ row.owner = Deployment => Shared(account, row.chain)
      /\ \A p \in found : p \in Routes => route[p].owner = row.owner
  BY <1>1, <1>2 DEF SetInv, RouteRows
<1> HIDE DEF row, found
<1>4. ASSUME NEW p \in RouteIds
      PROVE  \/ route'[p] = route[p]
             \/ /\ route'[p] = row
                /\ route[p] = Nothing \/ (p \in Routes /\ route[p].owner = row.owner)
  <2>1. CASE found # {}
    BY <1>1, <1>3, <2>1
  <2>2. CASE found = {}
    BY <1>1, <2>2 DEF AccountsInv, RowTypes
  <2>3. QED
    BY <2>1, <2>2
<1>5. row \notin {Nothing, Removed}
  BY <1>3, NoRows
<1>6. OwnersKept
  <2>1. ASSUME NEW p \in RouteIds, route[p] # Nothing
        PROVE  route'[p] # Nothing /\ (p \in Routes' => p \in Routes /\ route'[p].owner = route[p].owner)
    BY <1>4, <1>5, <2>1 DEF Routes
  <2>2. QED
    BY <1>1, <2>1 DEF OwnersKept
<1>7. RowTypes'
  <2>1. \A p \in RouteIds : route'[p] \in RouteRows \cup {Nothing, Removed}
    BY <1>3, <1>4 DEF AccountsInv, RowTypes
  <2>2. route' = [p \in RouteIds |-> route'[p]]
    BY <1>1 DEF AccountsInv, RowTypes
  <2>3. QED
    BY <1>1, <2>1, <2>2 DEF AccountsInv, RowTypes
<1>8. ASSUME NEW p \in Routes'
      PROVE  route'[p].chain # <<>> /\ (route'[p].owner = Deployment => Shared(account', route'[p].chain))
  <2>1. p \in RouteIds /\ route'[p] \notin {Nothing, Removed}
    BY DEF Routes
  <2>2. CASE route'[p] = row
    BY <1>1, <1>3, <2>2
  <2>3. CASE route'[p] = route[p]
    BY <1>1, <2>1, <2>3 DEF Routes, AccountsInv, RowsSound, RoutesShared
  <2>4. QED
    BY <1>4, <2>1, <2>2, <2>3
<1>9. RowsSound' /\ RoutesShared'
  BY <1>1, <1>8 DEF AccountsInv, RowsSound, RoutesShared, Live
<1>10. QED
  BY <1>1, <1>6, <1>7, <1>9, JobsKept DEF AccountsInv

LEMMA DeletePolicyStep ==
    ASSUME AccountsInv, NEW r \in Requests, DeletePolicy(r)
    PROVE  AccountsInv'
<1>1. PICK p \in Routes : route' = [route EXCEPT ![p] = Removed]
  BY DEF DeletePolicy
<1>2. UNCHANGED <<account, key, job>>
  BY DEF DeletePolicy
<1>3. p \in RouteIds
  BY DEF Routes
<1>4. /\ route'[p] = Removed /\ \A q \in RouteIds : q # p => route'[q] = route[q]
      /\ route' \in [RouteIds -> RouteRows \cup {Nothing, Removed}]
  BY <1>1, <1>3 DEF AccountsInv, RowTypes
<1>5. Routes' = Routes \ {p} /\ \A q \in Routes' : route'[q] = route[q]
  BY <1>3, <1>4 DEF Routes
<1>6. OwnersKept
  BY <1>2, <1>4, <1>5, NoRows DEF OwnersKept
<1>7. RowTypes' /\ RowsSound' /\ RoutesShared'
  BY <1>2, <1>4, <1>5 DEF AccountsInv, RowTypes, RowsSound, RoutesShared, Live
<1>8. QED
  BY <1>2, <1>6, <1>7, JobsKept DEF AccountsInv

\* What a call resolves to is its actor's to use, and local where it is private.
LEMMA TargetsUsable ==
    ASSUME AccountsInv, NEW actor \in People, NEW purpose, NEW privacy \in BOOLEAN,
           NEW targets \in Resolved(actor, purpose, privacy)
    PROVE  /\ targets \in Seq(Accounts) /\ targets # <<>>
           /\ \A i \in DOMAIN targets :
                 /\ targets[i] \in Live
                 /\ CanUse(account[targets[i]], actor)
                 /\ privacy => IsLocalTarget(account[targets[i]])
<1> DEFINE only == privacy \/ purpose \in LocalOnly
<1>1. PICK p \in Routes : targets = ChainTargets(p, actor, only) /\ targets # <<>>
  BY DEF Resolved
<1>2. route[p].chain \in Seq(Accounts)
  BY RowsKnown DEF AccountsInv
<1> DEFINE chain == route[p].chain
           I == {i \in DOMAIN chain :
                   LET a == chain[i]
                   IN  a \in Live /\ CanUse(account[a], actor) /\ (only => IsLocalTarget(account[a]))}
<1>3. targets = Selected(chain, I)
  BY <1>1 DEF ChainTargets
<1>4. I \subseteq DOMAIN chain
  OBVIOUS
<1>5. \A i \in I : /\ chain[i] \in Live /\ CanUse(account[chain[i]], actor)
                   /\ privacy => IsLocalTarget(account[chain[i]])
  OBVIOUS
<1> HIDE DEF chain, I, only
<1>6. chain \in Seq(Accounts)
  BY <1>2 DEF chain
<1>7. /\ Selected(chain, I) \in Seq(Accounts)
      /\ \A k \in DOMAIN Selected(chain, I) : \E i \in I : Selected(chain, I)[k] = chain[i]
  BY <1>4, <1>6, SelectedEntries
<1>8. QED
  BY <1>1, <1>3, <1>5, <1>7

LEMMA TargetOf ==
    ASSUME AccountsInv, NEW actor \in People, NEW privacy \in BOOLEAN, NEW a \in Live,
           CanUse(account[a], actor), privacy => IsLocalTarget(account[a])
    PROVE  /\ Target(a) \in Targets
           /\ Target(a).owner \in {Deployment, actor}
           /\ privacy => Target(a).kind = "local"
<1>1. account[a] \in AccountRows
  BY RowsKnown DEF AccountsInv
<1>2. QED
  BY <1>1 DEF Target, Targets, AccountRows, CanUse, Owns, IsLocalTarget

LEMMA CallResolvesStep ==
    ASSUME AccountsInv, NEW r \in Requests, CallResolves(r)
    PROVE  AccountsInv'
<1> DEFINE decided(actor, privacy, left) ==
             [op |-> "call", actor |-> actor, privacy |-> privacy, left |-> left]
<1>1. UNCHANGED rowVars
  BY DEF CallResolves
<1>2. PICK actor \in People, privacy \in BOOLEAN :
        \/ \E a \in Live :
              /\ Required(a, actor, "use")
              /\ privacy => IsLocalTarget(account[a])
              /\ Starts(r, decided(actor, privacy, <<Target(a)>>))
        \/ \E purpose \in Purposes : \E targets \in Resolved(actor, purpose, privacy) :
              Starts(r, decided(actor, privacy, [i \in DOMAIN targets |-> Target(targets[i])]))
  BY DEF CallResolves
<1>3. \E left \in Seq(Targets) :
        /\ left # <<>>
        /\ \A i \in DOMAIN left : /\ left[i].owner \in {Deployment, actor}
                                  /\ privacy => left[i].kind = "local"
        /\ Starts(r, decided(actor, privacy, left))
  <2>1. ASSUME NEW a \in Live, Required(a, actor, "use"), privacy => IsLocalTarget(account[a]),
               Starts(r, decided(actor, privacy, <<Target(a)>>))
        PROVE  <1>3!:
    <3>1. CanUse(account[a], actor)
      BY <2>1 DEF Required, Checks
    <3>2. Target(a) \in Targets /\ Target(a).owner \in {Deployment, actor}
          /\ (privacy => Target(a).kind = "local")
      BY <2>1, <3>1, TargetOf
    <3> DEFINE left == <<Target(a)>>
    <3>3. left \in Seq(Targets) /\ left # <<>> /\ DOMAIN left = {1} /\ left[1] = Target(a)
      BY <3>2
    <3>4. Starts(r, decided(actor, privacy, left))
      BY <2>1
    <3> HIDE DEF left
    <3>5. QED
      BY <3>2, <3>3, <3>4
  <2>2. ASSUME NEW purpose \in Purposes, NEW targets \in Resolved(actor, purpose, privacy),
               Starts(r, decided(actor, privacy, [i \in DOMAIN targets |-> Target(targets[i])]))
        PROVE  <1>3!:
    <3> DEFINE left == [i \in DOMAIN targets |-> Target(targets[i])]
    <3>1. /\ targets \in Seq(Accounts) /\ targets # <<>>
          /\ \A i \in DOMAIN targets :
                /\ targets[i] \in Live
                /\ CanUse(account[targets[i]], actor)
                /\ privacy => IsLocalTarget(account[targets[i]])
      BY TargetsUsable
    <3>2. \A i \in DOMAIN targets :
                /\ Target(targets[i]) \in Targets
                /\ Target(targets[i]).owner \in {Deployment, actor}
                /\ privacy => Target(targets[i]).kind = "local"
      BY <3>1, TargetOf
    <3>3. /\ DOMAIN targets = 1..Len(targets) /\ Len(targets) \in Nat /\ Len(targets) # 0
      BY <3>1, LenProperties, EmptySeq
    <3>4. left \in [1..Len(targets) -> Targets]
      BY <3>2, <3>3
    <3>5. left \in Seq(Targets) /\ left # <<>>
      BY <3>3, <3>4
    <3>6. \A i \in DOMAIN left : left[i].owner \in {Deployment, actor} /\ (privacy => left[i].kind = "local")
      BY <3>2
    <3>7. Starts(r, decided(actor, privacy, left))
      BY <2>2
    <3> HIDE DEF left
    <3>8. QED
      BY <3>5, <3>6, <3>7
  <2>3. QED
    BY <1>2, <2>1, <2>2
<1>4. PICK left \in Seq(Targets) :
        /\ left # <<>>
        /\ \A i \in DOMAIN left : /\ left[i].owner \in {Deployment, actor}
                                  /\ privacy => left[i].kind = "local"
        /\ Starts(r, decided(actor, privacy, left))
  BY <1>3
<1>5. job'[r] = decided(actor, privacy, left)
  BY <1>4 DEF Starts, AccountsInv, JobsInv
<1>6. CallInv(r)'
  BY <1>4, <1>5 DEF CallInv, Doing
<1>7. SetInv(r)' /\ UpdateInv(r)' /\ DeleteInv(r)'
  BY <1>5 DEF SetInv, UpdateInv, DeleteInv, Doing
<1>8. QED
  BY <1>1, <1>4, <1>6, <1>7, JobStep

\* A connection that is private goes to an account of kind "local", whose policy
\* leaves it the private addresses only.
LEMMA ConnectStep ==
    ASSUME AccountsInv, NEW r \in Requests, Connect(r)
    PROVE  AccountsInv'
<1> DEFINE t == Head(job[r].left)
           address == Resolve(t.url)
           decided == [op |-> "connected", actor |-> job[r].actor, privacy |-> job[r].privacy,
                       owner |-> t.owner, address |-> address]
<1>1. /\ Doing(r, "call") /\ Permits(AddressPolicy(t, job[r].privacy), address)
      /\ Starts(r, decided) /\ UNCHANGED rowVars
  BY DEF Connect, ConnectionFor, Starts
<1>2. CallInv(r)
  BY DEF AccountsInv, JobsInv
<1>3. /\ job[r].left \in Seq(Targets) /\ job[r].left # <<>>
      /\ \A i \in DOMAIN job[r].left :
            /\ job[r].left[i].owner \in {Deployment, job[r].actor}
            /\ job[r].privacy => job[r].left[i].kind = "local"
      /\ job[r].privacy \in BOOLEAN
  BY <1>1, <1>2 DEF CallInv
<1>4. t = job[r].left[1] /\ 1 \in DOMAIN job[r].left
  BY <1>3, LenProperties, EmptySeq
<1>5. t.owner \in {Deployment, job[r].actor} /\ (job[r].privacy => t.kind = "local")
  BY <1>3, <1>4
<1> HIDE DEF t, address
<1>6. job[r].privacy => address = "private"
  <2>1. SUFFICES ASSUME job[r].privacy PROVE address = "private"
    OBVIOUS
  <2>2. AddressPolicy(t, job[r].privacy) = PrivateOnlyPolicy(Networks(t))
    BY <1>3, <1>5, <2>1 DEF AddressPolicy
  <2>3. PrivateOnlyPolicy(Networks(t)) \subseteq {"private"}
    BY DEF PrivateOnlyPolicy, Networks
  <2>4. QED
    BY <1>1, <2>2, <2>3 DEF Permits
<1>7. job'[r] = decided
  BY <1>1 DEF Starts, AccountsInv, JobsInv
<1>8. (SetInv(r) /\ UpdateInv(r) /\ DeleteInv(r) /\ CallInv(r))'
  BY <1>5, <1>6, <1>7 DEF SetInv, UpdateInv, DeleteInv, CallInv, Doing
<1> HIDE DEF decided
<1>9. QED
  BY <1>1, <1>8, JobStep

LEMMA FallBackStep ==
    ASSUME AccountsInv, NEW r \in Requests, FallBack(r)
    PROVE  AccountsInv'
<1> DEFINE left == job[r].left
           rest == Tail(left)
           decided == [job[r] EXCEPT !.left = rest]
<1>1. Doing(r, "call") /\ Len(left) > 1 /\ Starts(r, decided) /\ UNCHANGED rowVars
  BY DEF FallBack, Starts
<1>2. CallInv(r)
  BY DEF AccountsInv, JobsInv
<1>3. /\ job[r] \in [op : {"call"}, actor : People, privacy : BOOLEAN, left : Seq(Targets)]
      /\ left \in Seq(Targets)
      /\ \A i \in DOMAIN left : /\ left[i].owner \in {Deployment, job[r].actor}
                                /\ job[r].privacy => left[i].kind = "local"
  BY <1>1, <1>2 DEF CallInv
<1> HIDE DEF left, rest
<1>4. rest \in Seq(Targets) /\ rest # <<>> /\ \A i \in DOMAIN rest : i + 1 \in DOMAIN left /\ rest[i] = left[i + 1]
  <2>1. Len(left) \in Nat /\ DOMAIN left = 1..Len(left) /\ left # <<>>
    BY <1>1, <1>3, LenProperties
  <2>2. /\ rest \in Seq(Targets) /\ Len(rest) = Len(left) - 1
        /\ \A i \in 1..Len(rest) : rest[i] = left[i + 1]
    BY <1>3, <2>1, HeadTailProperties DEF rest
  <2>3. DOMAIN rest = 1..Len(rest)
    BY <2>2, LenProperties
  <2>4. rest # <<>>
    BY <1>1, <2>1, <2>2
  <2>5. QED
    BY <2>1, <2>2, <2>3, <2>4
<1>5. job'[r] = decided
  BY <1>1 DEF Starts, AccountsInv, JobsInv
<1>6. /\ decided \in [op : {"call"}, actor : People, privacy : BOOLEAN, left : Seq(Targets)]
      /\ decided.left = rest /\ decided.actor = job[r].actor /\ decided.privacy = job[r].privacy
      /\ decided.op = "call"
  BY <1>3, <1>4
<1> HIDE DEF decided
<1>7. CallInv(r)'
  BY <1>3, <1>4, <1>5, <1>6 DEF CallInv, Doing
<1>8. SetInv(r)' /\ UpdateInv(r)' /\ DeleteInv(r)'
  BY <1>5, <1>6 DEF SetInv, UpdateInv, DeleteInv, Doing
<1>9. QED
  BY <1>1, <1>7, <1>8, JobStep

LEMMA AccountsIdle ==
    ASSUME AccountsInv, UNCHANGED <<rowVars, job>>
    PROVE  AccountsInv'
<1>1. OwnersKept
  BY DEF OwnersKept, rowVars, Routes
<1>2. RowTypes' /\ RowsSound' /\ RoutesShared'
  BY DEF AccountsInv, RowTypes, RowsSound, RoutesShared, Routes, Live, rowVars
<1>3. QED
  BY <1>1, <1>2, JobsKept DEF AccountsInv

LEMMA AccountsStart == AccountsInit => AccountsInv
<1> SUFFICES ASSUME AccountsInit PROVE AccountsInv
  OBVIOUS
<1>1. Live = {} /\ Routes = {}
  BY DEF AccountsInit, Live, Routes
<1>2. RowTypes
  BY DEF AccountsInit, RowTypes
<1>3. RowsSound /\ RoutesShared
  BY <1>1 DEF AccountsInit, RowsSound, RoutesShared
<1>4. JobsInv
  BY DEF AccountsInit, JobsInv, SetInv, UpdateInv, DeleteInv, CallInv, Doing, Idle
<1>5. QED
  BY <1>2, <1>3, <1>4 DEF AccountsInv

LEMMA AccountsStep == AccountsInv /\ [AccountsNext]_accountsVars => AccountsInv'
<1> SUFFICES ASSUME AccountsInv, [AccountsNext]_accountsVars PROVE AccountsInv'
  OBVIOUS
<1>1. ASSUME NEW r \in Requests,
             \/ Create(r) \/ UpdateReads(r) \/ UpdateCommits(r)
             \/ DeleteReads(r) \/ DeleteCommits(r) \/ Fails(r)
             \/ SetReads(r) \/ SetCommits(r) \/ DeletePolicy(r)
             \/ CallResolves(r) \/ Connect(r) \/ FallBack(r)
      PROVE  AccountsInv'
  BY <1>1, CreateStep, UpdateReadsStep, UpdateCommitsStep, DeleteReadsStep, DeleteCommitsStep, FailsStep, SetReadsStep,
     SetCommitsStep, DeletePolicyStep, CallResolvesStep, ConnectStep, FallBackStep
<1>2. CASE Repoint
  BY <1>2, AccountsIdle DEF Repoint
<1>3. CASE UNCHANGED accountsVars
  BY <1>3, AccountsIdle DEF accountsVars
<1>4. QED
  BY <1>1, <1>2, <1>3 DEF AccountsNext

LEMMA AccountsMean == AccountsInv => OwnKeysOnly /\ PrivacyKept /\ RowsSound
<1> SUFFICES ASSUME AccountsInv PROVE OwnKeysOnly /\ PrivacyKept /\ RowsSound
  OBVIOUS
<1>1. ASSUME NEW r \in Connected
      PROVE  /\ job[r].owner \in {Deployment, job[r].actor}
             /\ job[r].privacy => job[r].address = "private"
  BY DEF AccountsInv, JobsInv, CallInv, Connected, Doing
<1>2. ASSUME NEW p \in Routes, route[p].owner = Deployment, NEW i \in DOMAIN route[p].chain,
             route[p].chain[i] \in Live
      PROVE  account[route[p].chain[i]].owner = Deployment
  BY <1>2 DEF AccountsInv, RoutesShared, Shared, Live
<1>3. QED
  BY <1>1, <1>2 DEF AccountsInv, OwnKeysOnly, PrivacyKept

\* What the accounts keep, in every behaviour of the controller's services.
THEOREM AccountsInvariant == Spec => []AccountsInv
<1>1. Init => AccountsInv
  BY AccountsStart DEF Init
<1>2. AccountsInv /\ [Next]_vars => AccountsInv'
  BY AccountsStep DEF Next, vars
<1>3. QED
  BY <1>1, <1>2, PTL DEF Spec

\* Nobody is served through another user's account, however requests, deletions
\* and new routes interleave (routing.py:8), and no shared route names an account
\* of a user.
THEOREM NobodysKeys == Spec => []OwnKeysOnly
  BY AccountsInvariant, AccountsMean, PTL

\* A private call connects to private addresses, wherever names are pointed after
\* it resolved (netpolicy.py:96).
THEOREM PrivateStaysPrivate == Spec => []PrivacyKept
  BY AccountsInvariant, AccountsMean, PTL

\* Keys exist with the accounts that need them, and no route is without entries.
THEOREM KeysAndRoutes == Spec => []RowsSound
  BY AccountsInvariant, AccountsMean, PTL

--------------------------------------------------------------------------------
(* The stream of an adapter                                                   *)

\* What an event that is yielded adds to the events of its type, and to no other.
LEMMA Yielded ==
    ASSUME out \in Seq(Emitted), NEW event \in Emitted, Emit(event)
    PROVE  /\ out' \in Seq(Emitted)
           /\ Len(out) + 1 \notin DOMAIN out
           /\ DOMAIN out' = DOMAIN out \cup {Len(out) + 1}
           /\ out'[Len(out) + 1] = event /\ \A k \in DOMAIN out : out'[k] = out[k]
           /\ Events(event.type)' = Events(event.type) \cup {Len(out) + 1}
           /\ \A type : type # event.type => Events(type)' = Events(type)
<1>1. /\ out' \in Seq(Emitted) /\ Len(out') = Len(out) + 1
      /\ \A i \in 1..Len(out) : out'[i] = out[i]
      /\ out'[Len(out) + 1] = event
  BY AppendProperties DEF Emit
<1>2. Len(out) \in Nat /\ DOMAIN out = 1..Len(out) /\ DOMAIN out' = 1..Len(out) + 1
  BY <1>1, LenProperties
<1>3. Len(out) + 1 \notin DOMAIN out /\ DOMAIN out' = DOMAIN out \cup {Len(out) + 1}
  BY <1>2
<1>4. Events(event.type)' = Events(event.type) \cup {Len(out) + 1}
  BY <1>1, <1>2, <1>3 DEF Events
<1>5. ASSUME NEW type, type # event.type PROVE Events(type)' = Events(type)
  BY <1>1, <1>2, <1>3, <1>5 DEF Events
<1>6. QED
  BY <1>1, <1>2, <1>3, <1>4, <1>5

\* The contract sees the calls handed over, the usage, the FINISH and the error.
ContractUnmoved == UNCHANGED <<contractPhase, contractCalled>>

\* The events of these types are those there were.
EventsKept(types) ==
    \A type \in types : /\ Events(type)' = Events(type)
                        /\ \A k \in Events(type) : out'[k] = out[k]

Told == {"tool_call", "usage", "finish"}

LEMMA Unmoved ==
    ASSUME EventsKept(Told), at = "failed" <=> at' = "failed"
    PROVE  ContractUnmoved
<1>1. /\ Events("tool_call")' = Events("tool_call") /\ Events("usage")' = Events("usage")
      /\ Events("finish")' = Events("finish")
  BY DEF EventsKept, Told
<1>2. \A k \in Events("tool_call") : out'[k] = out[k]
  BY DEF EventsKept, Told
<1>3. contractCalled' = contractCalled
  BY <1>1, <1>2 DEF contractCalled
<1>4. contractPhase' = contractPhase
  BY <1>1 DEF contractPhase
<1>5. QED
  BY <1>3, <1>4 DEF ContractUnmoved

LEMMA SilentKept ==
    ASSUME UNCHANGED out
    PROVE  EventsKept(Told)
  BY DEF EventsKept, Events

\* An event of another kind is yielded.
LEMMA QuietYield ==
    ASSUME out \in Seq(Emitted), NEW event \in Emitted, event.type \notin Told, Emit(event)
    PROVE  EventsKept(Told) /\ out' \in Seq(Emitted)
<1>1. /\ out' \in Seq(Emitted)
      /\ \A k \in DOMAIN out : out'[k] = out[k]
      /\ \A type : type # event.type => Events(type)' = Events(type)
  BY Yielded
<1>2. ASSUME NEW type \in Told PROVE Events(type)' = Events(type) /\ \A k \in Events(type) : out'[k] = out[k]
  <2>1. type # event.type
    OBVIOUS
  <2>2. QED
    BY <1>1, <2>1 DEF Events
<1>3. QED
  BY <1>1, <1>2 DEF EventsKept

\* What is said of the events is still so if none was added, the provider has
\* sent no less, the adapter has come no less far and no further call is given
\* away.
LEMMA OutKept ==
    ASSUME OutInv, AnswerFaithful, EventsKept(Told), UNCHANGED <<dialect, size>>,
           wire'.begun = wire.begun \/ Events("finish") = {},
           \A i \in HandedOver' : i \in HandedOver /\ kept'[i] = kept[i],
           wire.stage # "content" => wire'.stage # "content",
           wire.stage = "over" => wire'.stage = "over",
           wire.closed \subseteq wire'.closed,
           at' = at \/ (at = "reading" /\ Events("tool_call") = {} /\ at' # "idle") \/ at' = "failed"
              \/ (dialect # "openai" /\ at = "reading" /\ at' \in {"usage", "ended"}),
           at' = "calls" => dialect = "openai",
           dialect = "claude" => at' \in {"idle", "reading", "ended", "failed"},
           finish' # "none" => wire'.stage # "content"
    PROVE  OutInv' /\ AnswerFaithful'
<1>1. /\ Events("tool_call")' = Events("tool_call") /\ Events("usage")' = Events("usage")
      /\ Events("finish")' = Events("finish")
      /\ \A k \in Events("tool_call") : out'[k] = out[k]
      /\ \A k \in Events("finish") : out'[k] = out[k]
  BY DEF EventsKept, Told
<1>2. contractCalled' = contractCalled
  BY <1>1 DEF contractCalled
<1>3. AnswerFaithful'
  <2>1. /\ \A k \in Events("tool_call")' : out'[k].kept \in {0, size'[out'[k].index]}
        /\ \A k \in Events("finish")' : out'[k].reason = "other" \/ wire'.stage # "content"
    BY <1>1 DEF AnswerFaithful
  <2>2. ASSUME NEW k \in Events("finish")', out'[k].reason \in Complete, NEW i \in wire'.begun
        PROVE  \E j \in Events("tool_call")' : out'[j] = ToolCall(i, size'[i])
    <3>1. k \in Events("finish") /\ out[k].reason \in Complete /\ i \in wire.begun
      BY <1>1, <2>2
    <3>2. PICK j \in Events("tool_call") : out[j] = ToolCall(i, size[i])
      BY <3>1 DEF AnswerFaithful
    <3>3. QED
      BY <1>1, <3>2
  <2>3. QED
    BY <2>1, <2>2 DEF AnswerFaithful, Complete
<1>4. \A i \in HandedOver' : \E k \in Events("tool_call")' : out'[k] = ToolCall(i, kept'[i])
  <2>1. \A i \in HandedOver : \E k \in Events("tool_call") : out[k] = ToolCall(i, kept[i])
    BY DEF OutInv
  <2>2. QED
    BY <1>1, <2>1
<1>5. OutInv'
  BY <1>1, <1>2, <1>4 DEF OutInv
<1>6. QED
  BY <1>3, <1>5

\* A call that the adapter has given away does not change.
LEMMA HandedKept ==
    ASSUME UNCHANGED <<dialect, at, kept>>, wire'.begun = wire.begun \/ at = "reading",
           wire'.closed = wire.closed
    PROVE  \A i \in HandedOver' : i \in HandedOver /\ kept'[i] = kept[i]
  BY DEF HandedOver

LEMMA EventsEmitted ==
    ASSUME NEW i \in Nat, NEW n \in Nat
    PROVE  /\ \A type \in {"text", "reasoning", "usage"} : Event(type) \in Emitted /\ Event(type).type = type
           /\ Delta(i) \in Emitted /\ Delta(i).type = "tool_call_delta"
           /\ ToolCall(i, n) \in Emitted /\ ToolCall(i, n).type = "tool_call"
           /\ ToolCall(i, n).index = i /\ ToolCall(i, n).kept = n
           /\ \A reason \in Finishes : /\ Finished(reason) \in Emitted
                                     /\ Finished(reason).type = "finish" /\ Finished(reason).reason = reason
<1>1. ASSUME NEW type \in {"text", "reasoning", "usage"} PROVE Event(type) \in Emitted /\ Event(type).type = type
  BY DEF Event, Emitted, Finishes
<1>2. Delta(i) \in Emitted /\ Delta(i).type = "tool_call_delta"
  BY DEF Event, Delta, Emitted, Finishes
<1>3. /\ ToolCall(i, n) \in Emitted /\ ToolCall(i, n).type = "tool_call"
      /\ ToolCall(i, n).index = i /\ ToolCall(i, n).kept = n
  BY DEF Event, ToolCall, Emitted, Finishes
<1>4. ASSUME NEW reason \in Finishes
      PROVE  /\ Finished(reason) \in Emitted
             /\ Finished(reason).type = "finish" /\ Finished(reason).reason = reason
  BY DEF Event, Finished, Emitted, Finishes
<1>5. QED
  BY <1>1, <1>2, <1>3, <1>4

LEMMA IndexesNat == \A i \in Indexes : i \in Nat
  BY StreamBounds DEF Indexes

LEMMA TextStep ==
    ASSUME StreamInv, Text
    PROVE  StreamInv' /\ ContractUnmoved
<1>1. PICK type \in {"text", "reasoning"} : Emit(Event(type))
  BY DEF Text
<1>2. UNCHANGED <<dialect, size, wire, at, kept, usage, finish>>
  BY DEF Text
<1>3. Event(type) \in Emitted /\ Event(type).type \notin Told /\ out \in Seq(Emitted)
  BY EventsEmitted DEF Told, StreamInv, StreamTypes, Event, Emitted
<1>4. EventsKept(Told) /\ out' \in Seq(Emitted)
  BY <1>1, <1>3, QuietYield
<1>5. StreamTypes' /\ WireInv'
  BY <1>2, <1>4 DEF StreamInv, StreamTypes, WireInv, AllSent
<1>6. OutInv' /\ AnswerFaithful'
  <2>1. OutInv /\ AnswerFaithful
    BY DEF StreamInv
  <2>2. /\ dialect = "claude" => at' \in {"idle", "reading", "ended", "failed"}
        /\ finish' # "none" => wire'.stage # "content"
        /\ at' = "calls" => dialect = "openai"
    BY <1>2, <2>1 DEF OutInv
  <2>3. \A i \in HandedOver' : i \in HandedOver /\ kept'[i] = kept[i]
    BY <1>2, HandedKept
  <2>4. QED
    BY <1>2, <1>4, <2>1, <2>2, <2>3, OutKept
<1>7. QED
  BY <1>2, <1>4, <1>5, <1>6, Unmoved DEF StreamInv

\* A call begins where its predecessors have: the calls begun are the first ones.
LEMMA Begun ==
    ASSUME StreamInv, NEW i \in Indexes, MayBegin(i)
    PROVE  /\ i \notin wire.begun /\ i \in Nat /\ i < MaxCalls /\ wire.begun = 0..i - 1
           /\ \E n \in 0..MaxCalls : wire.begun \cup {i} = 0..n - 1
<1>1. PICK n \in 0..MaxCalls : wire.begun = 0..n - 1
  BY DEF StreamInv, WireInv
<1>2. wire.closed \subseteq wire.begun
  BY DEF StreamInv, WireInv
<1>3. i \notin wire.begun /\ \A j \in Indexes : j < i => j \in wire.begun
  BY <1>2 DEF MayBegin, Sending
<1>4. i \in Nat /\ i < MaxCalls /\ n \in Nat /\ MaxCalls \in Nat
  BY StreamBounds DEF Indexes
<1>5. i >= n
  BY <1>1, <1>3, <1>4
<1>6. ~(i > n)
  <2>1. SUFFICES ASSUME i > n PROVE FALSE
    OBVIOUS
  <2>2. n \in Indexes
    BY <1>4, <2>1 DEF Indexes
  <2>3. n \in wire.begun
    BY <1>3, <2>1, <2>2
  <2>4. QED
    BY <1>1, <1>4, <2>3
<1>7. i = n
  BY <1>4, <1>5, <1>6
<1>8. wire.begun \cup {i} = 0..(i + 1) - 1 /\ i + 1 \in 0..MaxCalls
  BY <1>1, <1>4, <1>7
<1>9. QED
  BY <1>1, <1>3, <1>4, <1>7, <1>8

LEMMA BeginCallStep ==
    ASSUME StreamInv, BeginCall
    PROVE  StreamInv' /\ ContractUnmoved
<1>1. PICK i \in Indexes : /\ MayBegin(i) /\ Emit(Delta(i))
                           /\ wire' = [wire EXCEPT !.begun = wire.begun \cup {i}]
  BY DEF BeginCall
<1>2. UNCHANGED <<dialect, size, at, kept, usage, finish>> /\ at = "reading" /\ Fragmented
  BY <1>1 DEF BeginCall, MayBegin, Sending
<1>3. Delta(i) \in Emitted /\ Delta(i).type \notin Told /\ out \in Seq(Emitted)
  BY EventsEmitted, IndexesNat DEF Told, StreamInv, StreamTypes
<1>4. EventsKept(Told) /\ out' \in Seq(Emitted)
  BY <1>1, <1>3, QuietYield
<1>5. /\ wire' \in [begun : SUBSET Indexes, sent : [Indexes -> Nat], closed : SUBSET Indexes,
                    stage : {"content", "stopped", "counted", "over"}]
      /\ wire'.begun = wire.begun \cup {i} /\ wire'.sent = wire.sent
      /\ wire'.closed = wire.closed /\ wire'.stage = wire.stage /\ wire.stage = "content"
  BY <1>1 DEF StreamInv, StreamTypes, MayBegin, Sending
<1>6. StreamTypes'
  BY <1>2, <1>4, <1>5 DEF StreamInv, StreamTypes
<1>7. WireInv'
  <2>1. \E n \in 0..MaxCalls : wire'.begun = 0..n - 1
    BY <1>1, <1>5, Begun
  <2>2. dialect \in {"openai", "anthropic"}
    BY <1>2 DEF Fragmented
  <2>3. finish = "none"
    BY <1>5 DEF StreamInv, OutInv
  <2>4. QED
    BY <1>2, <1>5, <2>1, <2>2, <2>3 DEF StreamInv, WireInv, Complete
<1>8. OutInv' /\ AnswerFaithful'
  <2>1. OutInv /\ AnswerFaithful
    BY DEF StreamInv
  <2>2. /\ dialect = "claude" => at' \in {"idle", "reading", "ended", "failed"}
        /\ finish' # "none" => wire'.stage # "content"
        /\ at' = "calls" => dialect = "openai"
    BY <1>2, <1>5, <2>1 DEF OutInv
  <2>3. Events("finish") = {}
    BY <1>2, <1>5, <2>1 DEF OutInv, Fragmented
  <2>4. \A i_1 \in HandedOver' : i_1 \in HandedOver /\ kept'[i_1] = kept[i_1]
    BY <1>2, <1>5, HandedKept
  <2>5. QED
    BY <1>2, <1>4, <1>5, <2>1, <2>2, <2>3, <2>4, OutKept
<1>9. QED
  BY <1>2, <1>4, <1>6, <1>7, <1>8, Unmoved DEF StreamInv

LEMMA FragmentStep ==
    ASSUME StreamInv, Fragment
    PROVE  StreamInv' /\ ContractUnmoved
<1>1. PICK i \in wire.begun \ wire.closed :
        /\ wire.sent[i] < size[i] /\ Emit(Delta(i))
        /\ wire' = [wire EXCEPT !.sent = [wire.sent EXCEPT ![i] = wire.sent[i] + 1]]
        /\ kept' = [kept EXCEPT ![i] = kept[i] + 1]
  BY DEF Fragment
<1>2. /\ UNCHANGED <<dialect, size, at, usage, finish>> /\ at = "reading" /\ Fragmented
      /\ wire.stage = "content"
  BY DEF Fragment, Sending
<1>3. i \in Indexes /\ wire.sent \in [Indexes -> Nat] /\ kept \in [Indexes -> Nat] /\ kept = wire.sent
      /\ size \in [Indexes -> Nat]
  BY DEF StreamInv, StreamTypes, WireInv
<1>4. Delta(i) \in Emitted /\ Delta(i).type \notin Told /\ out \in Seq(Emitted)
  BY <1>3, EventsEmitted, IndexesNat DEF Told, StreamInv, StreamTypes
<1>5. EventsKept(Told) /\ out' \in Seq(Emitted)
  BY <1>1, <1>4, QuietYield
<1> DEFINE more == [wire.sent EXCEPT ![i] = wire.sent[i] + 1]
<1>6. /\ more \in [Indexes -> Nat] /\ more[i] = wire.sent[i] + 1
      /\ \A j \in Indexes : j # i => more[j] = wire.sent[j]
      /\ kept' = more
  BY <1>1, <1>3
<1>7. wire' = [wire EXCEPT !.sent = more]
  BY <1>1
<1> HIDE DEF more
<1>8. /\ wire' \in [begun : SUBSET Indexes, sent : [Indexes -> Nat], closed : SUBSET Indexes,
                    stage : {"content", "stopped", "counted", "over"}]
      /\ wire'.begun = wire.begun /\ wire'.sent = more
      /\ wire'.closed = wire.closed /\ wire'.stage = wire.stage
  BY <1>6, <1>7 DEF StreamInv, StreamTypes
<1>9. StreamTypes'
  BY <1>2, <1>5, <1>6, <1>8 DEF StreamInv, StreamTypes
<1>10. WireInv'
  <2>1. \A j \in Indexes : more[j] <= size[j]
    <3>1. \A j \in Indexes : wire.sent[j] <= size[j]
      BY DEF StreamInv, WireInv
    <3>2. wire.sent[i] < size[i] /\ wire.sent[i] \in Nat /\ size[i] \in Nat
      BY <1>1, <1>3 DEF StreamInv, StreamTypes
    <3>3. QED
      BY <1>6, <3>1, <3>2
  <2>2. finish = "none"
    BY <1>2 DEF StreamInv, OutInv
  <2>3. QED
    BY <1>2, <1>6, <1>8, <2>1, <2>2 DEF StreamInv, WireInv, Complete, Fragmented
<1>11. OutInv' /\ AnswerFaithful'
  <2>1. OutInv /\ AnswerFaithful
    BY DEF StreamInv
  <2>2. /\ dialect = "claude" => at' \in {"idle", "reading", "ended", "failed"}
        /\ finish' # "none" => wire'.stage # "content"
        /\ at' = "calls" => dialect = "openai"
    BY <1>2, <1>8, <2>1 DEF OutInv
  <2>3. ASSUME NEW j \in HandedOver' PROVE j \in HandedOver /\ kept'[j] = kept[j]
    <3>1. dialect = "anthropic" /\ j \in wire.closed /\ j \in HandedOver
      BY <1>2, <1>8, <2>3 DEF HandedOver, Fragmented
    <3>2. j # i /\ j \in Indexes
      BY <3>1 DEF StreamInv, StreamTypes
    <3>3. QED
      BY <1>3, <1>6, <3>1, <3>2
  <2>4. QED
    BY <1>2, <1>5, <1>8, <2>1, <2>2, <2>3, OutKept
<1>12. QED
  BY <1>2, <1>5, <1>9, <1>10, <1>11, Unmoved DEF StreamInv

\* A call is handed over while the provider is still sending.
LEMMA CallYielded ==
    ASSUME StreamInv, NEW i \in Indexes, i \notin wire.closed,
           wire'.closed = wire.closed \cup {i}, Emit(ToolCall(i, kept'[i])),
           kept'[i] \in {0, size[i]}, \A j \in wire.closed : kept'[j] = kept[j],
           at = "reading", dialect \in {"anthropic", "gemini", "ollama"}, wire.stage = "content",
           wire'.stage = wire.stage, UNCHANGED <<dialect, size, at, finish>>
    PROVE  /\ out' \in Seq(Emitted) /\ OutInv' /\ AnswerFaithful'
           /\ Contract!Call({i})
<1> DEFINE event == ToolCall(i, kept'[i])
<1>1. /\ event \in Emitted /\ event.type = "tool_call" /\ event.index = i /\ event.kept = kept'[i]
      /\ event = ToolCall(i, kept'[i])
  <2>1. kept'[i] \in Nat
    BY DEF StreamInv, StreamTypes
  <2>2. QED
    BY <2>1, EventsEmitted, IndexesNat
<1>2. Emit(event) /\ out \in Seq(Emitted)
  BY DEF StreamInv, StreamTypes
<1> HIDE DEF event
<1> DEFINE new == Len(out) + 1
<1>3. /\ out' \in Seq(Emitted) /\ new \notin DOMAIN out
      /\ out'[new] = event /\ \A k \in DOMAIN out : out'[k] = out[k]
      /\ Events("tool_call")' = Events("tool_call") \cup {new}
      /\ \A type : type # "tool_call" => Events(type)' = Events(type)
  BY <1>1, <1>2, Yielded
<1> HIDE DEF new
<1>4. /\ Events("usage")' = Events("usage") /\ Events("finish")' = Events("finish")
      /\ \A k \in Events("finish") : out'[k] = out[k]
      /\ \A k \in Events("tool_call") : out'[k] = out[k]
  BY <1>3 DEF Events
<1>5. contractCalled' = contractCalled \cup {i}
  BY <1>1, <1>3, <1>4 DEF contractCalled
<1>6. OutInv /\ AnswerFaithful
  BY DEF StreamInv
<1>7. Events("usage") = {} /\ Events("finish") = {} /\ contractCalled \subseteq wire.closed
  BY <1>6 DEF OutInv
<1>8. OutInv'
  <2>1. HandedOver = wire.closed /\ HandedOver' = wire.closed \cup {i}
    BY DEF HandedOver
  <2>2. ASSUME NEW j \in HandedOver' PROVE \E k \in Events("tool_call")' : out'[k] = ToolCall(j, kept'[j])
    <3>1. CASE j = i
      BY <1>1, <1>3, <3>1
    <3>2. CASE j # i
      <4>1. j \in wire.closed
        BY <2>1, <2>2, <3>2
      <4>2. PICK k \in Events("tool_call") : out[k] = ToolCall(j, kept[j])
        BY <1>6, <2>1, <4>1 DEF OutInv
      <4>3. QED
        BY <1>3, <1>4, <4>1, <4>2
    <3>3. QED
      BY <3>1, <3>2
  <2>3. QED
    BY <1>4, <1>5, <1>6, <1>7, <2>2 DEF OutInv
<1>9. AnswerFaithful'
  <2>1. \A k \in Events("tool_call")' : out'[k].kept \in {0, size'[out'[k].index]}
    BY <1>1, <1>3, <1>4, <1>6 DEF AnswerFaithful
  <2>2. Events("finish")' = {}
    BY <1>4, <1>7
  <2>3. QED
    BY <2>1, <2>2 DEF AnswerFaithful
<1>10. contractPhase = "content" /\ contractPhase' = "content"
  BY <1>4, <1>7 DEF contractPhase
<1>11. Contract!Call({i})
  BY <1>5, <1>7, <1>10 DEF Contract!Call
<1>12. QED
  BY <1>3, <1>8, <1>9, <1>11

LEMMA CloseBlockStep ==
    ASSUME StreamInv, CloseBlock
    PROVE  StreamInv' /\ Contract!Next
<1>1. PICK i \in wire.begun \ wire.closed :
        /\ wire' = [wire EXCEPT !.closed = wire.closed \cup {i}]
        /\ IF ParseFails(i)
           THEN at' = "failed" /\ UNCHANGED out
           ELSE Emit(ToolCall(i, kept[i])) /\ UNCHANGED at
  BY DEF CloseBlock
<1>2. /\ UNCHANGED <<dialect, size, kept, usage, finish>> /\ at = "reading"
      /\ dialect = "anthropic" /\ wire.stage = "content"
  BY DEF CloseBlock, Sending
<1>3. i \in Indexes
  BY DEF StreamInv, StreamTypes
<1>4. /\ wire' \in [begun : SUBSET Indexes, sent : [Indexes -> Nat], closed : SUBSET Indexes,
                    stage : {"content", "stopped", "counted", "over"}]
      /\ wire'.begun = wire.begun /\ wire'.sent = wire.sent
      /\ wire'.closed = wire.closed \cup {i} /\ wire'.stage = wire.stage
  BY <1>1, <1>3 DEF StreamInv, StreamTypes
<1>5. finish = "none"
  BY <1>2 DEF StreamInv, OutInv
<1>6. WireInv'
  BY <1>1, <1>2, <1>4, <1>5 DEF StreamInv, WireInv, Complete
<1>7. CASE ParseFails(i)
  <2>1. at' = "failed" /\ UNCHANGED out
    BY <1>1, <1>7
  <2>2. StreamTypes'
    BY <1>2, <1>4, <2>1 DEF StreamInv, StreamTypes
  <2>3. OutInv /\ AnswerFaithful /\ Events("finish") = {} /\ EventsKept(Told)
    BY <1>2, <2>1, SilentKept DEF StreamInv, OutInv
  <2>4. \A j \in HandedOver' : j \in HandedOver /\ kept'[j] = kept[j]
    BY <1>2, <2>1 DEF HandedOver
  <2>5. OutInv' /\ AnswerFaithful'
    BY <1>2, <1>4, <1>5, <2>1, <2>3, <2>4, OutKept
  <2>6. contractCalled' = contractCalled /\ contractPhase # "failed" /\ contractPhase' = "failed"
    BY <1>2, <2>1 DEF contractCalled, contractPhase, Events
  <2>7. Contract!Next
    BY <2>6 DEF Contract!Fail, Contract!Next
  <2>8. QED
    BY <1>6, <2>2, <2>5, <2>7 DEF StreamInv
<1>8. CASE ~ParseFails(i)
  <2>1. Emit(ToolCall(i, kept'[i])) /\ UNCHANGED at
    BY <1>1, <1>2, <1>8
  <2>2. kept[i] \in Nat /\ size[i] \in Nat /\ kept[i] <= size[i]
    BY <1>3 DEF StreamInv, StreamTypes, WireInv
  <2>3. kept'[i] \in {0, size[i]} /\ \A j \in wire.closed : kept'[j] = kept[j]
    BY <1>2, <1>8, <2>2 DEF ParseFails
  <2>4. out' \in Seq(Emitted) /\ OutInv' /\ AnswerFaithful' /\ Contract!Call({i})
    BY <1>2, <1>3, <1>4, <2>1, <2>3, CallYielded
  <2>5. StreamTypes'
    BY <1>2, <1>4, <2>1, <2>4 DEF StreamInv, StreamTypes
  <2>6. QED
    BY <1>3, <1>6, <2>4, <2>5 DEF StreamInv, Contract!Next
<1>9. QED
  BY <1>7, <1>8

LEMMA WholeCallStep ==
    ASSUME StreamInv, WholeCall
    PROVE  StreamInv' /\ Contract!Next
<1>1. PICK i \in Indexes :
        /\ MayBegin(i)
        /\ wire' = [wire EXCEPT !.begun = wire.begun \cup {i}, !.closed = wire.closed \cup {i},
                                !.sent = [wire.sent EXCEPT ![i] = size[i]]]
        /\ kept' = [kept EXCEPT ![i] = size[i]]
        /\ Emit(ToolCall(i, size[i]))
  BY ZenonT(30) DEF WholeCall
<1>2. /\ UNCHANGED <<dialect, size, at, usage, finish>> /\ at = "reading"
      /\ dialect \in {"gemini", "ollama"}
  BY <1>1 DEF WholeCall, MayBegin, Sending
<1>3. /\ wire.sent \in [Indexes -> Nat] /\ kept \in [Indexes -> Nat] /\ kept = wire.sent
      /\ size \in [Indexes -> Nat] /\ wire.stage = "content"
  BY <1>1 DEF StreamInv, StreamTypes, WireInv, MayBegin, Sending
<1> DEFINE whole == [wire.sent EXCEPT ![i] = size[i]]
<1>4. /\ whole \in [Indexes -> Nat] /\ whole[i] = size[i]
      /\ \A j \in Indexes : j # i => whole[j] = wire.sent[j]
      /\ kept' = whole
  BY <1>1, <1>3
<1>5. wire' = [wire EXCEPT !.begun = wire.begun \cup {i}, !.closed = wire.closed \cup {i}, !.sent = whole]
  BY <1>1
<1> HIDE DEF whole
<1>6. /\ wire' \in [begun : SUBSET Indexes, sent : [Indexes -> Nat], closed : SUBSET Indexes,
                    stage : {"content", "stopped", "counted", "over"}]
      /\ wire'.begun = wire.begun \cup {i} /\ wire'.sent = whole
      /\ wire'.closed = wire.closed \cup {i} /\ wire'.stage = wire.stage
  BY <1>4, <1>5 DEF StreamInv, StreamTypes
<1>7. i \notin wire.begun /\ i \notin wire.closed /\ \E n \in 0..MaxCalls : wire.begun \cup {i} = 0..n - 1
  BY <1>1, Begun DEF StreamInv, WireInv
<1>8. out' \in Seq(Emitted) /\ OutInv' /\ AnswerFaithful' /\ Contract!Call({i})
  <2>1. Emit(ToolCall(i, kept'[i])) /\ kept'[i] \in {0, size[i]}
    BY <1>1, <1>4
  <2>2. wire.closed \subseteq Indexes
    BY DEF StreamInv, StreamTypes
  <2>3. \A j \in wire.closed : kept'[j] = kept[j]
    BY <1>3, <1>4, <1>7, <2>2
  <2>4. QED
    BY <1>2, <1>3, <1>6, <1>7, <2>1, <2>3, CallYielded
<1>9. StreamTypes'
  BY <1>2, <1>4, <1>6, <1>8 DEF StreamInv, StreamTypes
<1>10. WireInv'
  <2>1. \A j \in Indexes : whole[j] <= size[j]
    <3>1. \A j \in Indexes : wire.sent[j] <= size[j]
      BY DEF StreamInv, WireInv
    <3>2. size[i] <= size[i]
      BY <1>3
    <3>3. QED
      BY <1>4, <3>1, <3>2
  <2>2. wire'.closed = wire'.begun
    BY <1>2, <1>6 DEF StreamInv, WireInv
  <2>3. AllSent'
    <3>1. wire.begun \subseteq Indexes /\ AllSent
      BY <1>2 DEF StreamInv, StreamTypes, WireInv
    <3>2. QED
      BY <1>2, <1>4, <1>6, <3>1 DEF AllSent
  <2>4. QED
    BY <1>2, <1>3, <1>4, <1>6, <1>7, <2>1, <2>2, <2>3 DEF StreamInv, WireInv
<1>11. QED
  BY <1>8, <1>9, <1>10 DEF StreamInv, Contract!Next

\* The adapter reads something, or stops reading, and yields nothing.
LEMMA SilentStep ==
    ASSUME StreamInv, at = "reading", UNCHANGED <<dialect, size, kept, out>>,
           usage' \in BOOLEAN, finish' \in Finishes,
           wire'.begun = wire.begun, wire'.sent = wire.sent, wire'.closed = wire.closed,
           wire' \in [begun : SUBSET Indexes, sent : [Indexes -> Nat], closed : SUBSET Indexes,
                      stage : {"content", "stopped", "counted", "over"}],
           finish' \in Complete => AllSent /\ (dialect = "anthropic" => wire.closed = wire.begun),
           wire.stage # "content" => wire'.stage # "content",
           wire.stage = "over" => wire'.stage = "over",
           finish' # "none" => wire'.stage # "content",
           \/ at' \in {"reading", "failed"}
           \/ dialect = "openai" /\ at' = "calls"
           \/ dialect = "claude" /\ at' = "ended"
           \/ dialect \notin {"openai", "claude"} /\ at' = "usage"
    PROVE  StreamInv' /\ (Contract!Next \/ ContractUnmoved)
<1>1. StreamTypes'
  BY DEF StreamInv, StreamTypes
<1>2. WireInv'
  <2>1. AllSent' <=> AllSent
    BY DEF AllSent
  <2>2. QED
    BY <2>1 DEF StreamInv, WireInv
<1>3. EventsKept(Told)
  BY SilentKept
<1>4. OutInv /\ AnswerFaithful
  BY DEF StreamInv
<1>5. dialect = "openai" => Events("tool_call") = {}
  BY <1>4 DEF OutInv
<1>6. OutInv' /\ AnswerFaithful'
  <2>1. \A i \in HandedOver' : i \in HandedOver /\ kept'[i] = kept[i]
    BY DEF HandedOver
  <2>2. QED
    BY <1>3, <1>4, <1>5, <2>1, OutKept
<1>7. CASE at' = "failed"
  <2>1. contractPhase' = "failed"
    BY <1>7 DEF contractPhase
  <2>2. contractPhase # "failed"
    BY DEF contractPhase
  <2>3. contractCalled' = contractCalled
    BY DEF contractCalled, Events
  <2>4. Contract!Next
    BY <2>1, <2>2, <2>3 DEF Contract!Fail, Contract!Next
  <2>5. QED
    BY <1>1, <1>2, <1>6, <2>4 DEF StreamInv
<1>8. CASE at' # "failed"
  BY <1>1, <1>2, <1>3, <1>6, <1>8, Unmoved DEF StreamInv
<1>9. QED
  BY <1>7, <1>8

LEMMA ReadingSteps ==
    ASSUME StreamInv, Stop \/ Count \/ EndMark \/ Closed \/ Broken
    PROVE  StreamInv' /\ (Contract!Next \/ ContractUnmoved)
<1> USE DEF Finishes
<1>1. /\ at = "reading" /\ UNCHANGED <<dialect, size, kept, out>>
  BY DEF Stop, Count, EndMark, Closed, Broken
<1>2. /\ wire \in [begun : SUBSET Indexes, sent : [Indexes -> Nat], closed : SUBSET Indexes,
                   stage : {"content", "stopped", "counted", "over"}]
      /\ usage \in BOOLEAN /\ finish \in Finishes /\ (finish # "none" => wire.stage # "content")
      /\ dialect \in {"openai", "anthropic", "gemini", "ollama", "claude"}
      /\ (finish \in Complete => AllSent /\ (dialect = "anthropic" => wire.closed = wire.begun))
  BY DEF StreamInv, StreamTypes, OutInv, WireInv
<1>3. CASE Stop /\ at' # "failed"
  <2>1. /\ finish' \in Reasons /\ wire.stage = "content" /\ dialect # "claude"
        /\ (dialect = "anthropic" => wire.closed = wire.begun)
        /\ wire' = [wire EXCEPT !.stage = IF dialect = "ollama" THEN "over" ELSE "stopped"]
        /\ at' = IF dialect = "ollama" THEN "usage" ELSE at
        /\ usage' = (usage \/ dialect = "ollama")
    BY <1>3 DEF Stop, HoldsFinish
  <2>2. finish' \in Finishes /\ (finish' \in Complete => AllSent)
    <3>1. dialect \in {"gemini", "ollama"} => AllSent
      BY DEF StreamInv, WireInv
    <3>2. QED
      BY <1>2, <2>1, <3>1 DEF Reasons, Complete
  <2>3. /\ wire'.begun = wire.begun /\ wire'.sent = wire.sent /\ wire'.closed = wire.closed
        /\ wire'.stage \in {"stopped", "over"}
        /\ wire' \in [begun : SUBSET Indexes, sent : [Indexes -> Nat], closed : SUBSET Indexes,
                      stage : {"content", "stopped", "counted", "over"}]
    BY <1>2, <2>1
  <2>4. usage' \in BOOLEAN
    BY <1>2, <2>1
  <2>5. at' \in {"reading", "failed"} \/ (dialect \notin {"openai", "claude"} /\ at' = "usage")
    BY <1>1, <2>1
  <2>6. QED
    BY <1>1, <2>1, <2>2, <2>3, <2>4, <2>5, SilentStep
<1>4. CASE Stop /\ at' = "failed"
  <2>1. UNCHANGED <<wire, usage, finish>>
    BY <1>1, <1>4 DEF Stop
  <2>2. QED
    BY <1>1, <1>2, <1>4, <2>1, SilentStep
<1>5. CASE Count
  <2>1. usage' = TRUE /\ UNCHANGED <<wire, at, finish>>
    BY <1>5 DEF Count
  <2>2. QED
    BY <1>1, <1>2, <2>1, SilentStep
<1>6. CASE EndMark
  <2>1. /\ Fragmented /\ wire.stage = "stopped"
        /\ wire' = [wire EXCEPT !.stage = "over"]
        /\ at' = IF dialect = "openai" THEN "calls" ELSE "usage"
        /\ UNCHANGED <<usage, finish>>
    BY <1>6 DEF EndMark
  <2>2. /\ wire'.begun = wire.begun /\ wire'.sent = wire.sent /\ wire'.closed = wire.closed
        /\ wire'.stage = "over"
        /\ wire' \in [begun : SUBSET Indexes, sent : [Indexes -> Nat], closed : SUBSET Indexes,
                      stage : {"content", "stopped", "counted", "over"}]
    BY <1>2, <2>1
  <2>3. (dialect = "openai" /\ at' = "calls") \/ (dialect \notin {"openai", "claude"} /\ at' = "usage")
    BY <2>1 DEF Fragmented
  <2>4. QED
    BY <1>1, <1>2, <2>1, <2>2, <2>3, SilentStep
<1>7. CASE Closed
  <2>1. UNCHANGED <<wire, usage, finish>>
    BY <1>7 DEF Closed
  <2>2. \/ at' \in {"reading", "failed"}
        \/ dialect = "openai" /\ at' = "calls"
        \/ dialect = "claude" /\ at' = "ended"
        \/ dialect \notin {"openai", "claude"} /\ at' = "usage"
    BY <1>2, <1>7 DEF Closed
  <2>3. QED
    BY <1>1, <1>2, <2>1, <2>2, SilentStep
<1>8. CASE Broken
  <2>1. UNCHANGED <<wire, usage, finish>> /\ at' = "failed"
    BY <1>8 DEF Broken
  <2>2. QED
    BY <1>1, <1>2, <2>1, SilentStep
<1>9. QED
  BY <1>3, <1>4, <1>5, <1>6, <1>7, <1>8

\* The usage or a FINISH is yielded.
LEMMA EndYielded ==
    ASSUME StreamInv, NEW event \in Emitted, event.type \in {"usage", "finish"}, Emit(event)
    PROVE  /\ out' \in Seq(Emitted)
           /\ contractCalled' = contractCalled /\ Events("tool_call")' = Events("tool_call")
           /\ \A k \in Events("tool_call") : out'[k] = out[k]
           /\ Events(event.type)' # {}
           /\ event.type = "usage" => /\ Events("finish")' = Events("finish")
                                      /\ \A k \in Events("finish") : out'[k] = out[k]
           /\ event.type = "finish" => /\ Events("usage")' = Events("usage")
                                       /\ \A k \in Events("finish")' : out'[k] = event \/
                                              (k \in Events("finish") /\ out'[k] = out[k])
<1>1. out \in Seq(Emitted)
  BY DEF StreamInv, StreamTypes
<1> DEFINE new == Len(out) + 1
<1>2. /\ out' \in Seq(Emitted)
      /\ out'[new] = event /\ \A k \in DOMAIN out : out'[k] = out[k]
      /\ Events(event.type)' = Events(event.type) \cup {new}
      /\ \A type : type # event.type => Events(type)' = Events(type)
  BY <1>1, Yielded
<1> HIDE DEF new
<1>3. \A type : \A k \in Events(type) : out'[k] = out[k]
  BY <1>2 DEF Events
<1>4. /\ Events("tool_call")' = Events("tool_call")
      /\ event.type = "usage" => Events("finish")' = Events("finish")
      /\ event.type = "finish" => Events("usage")' = Events("usage")
  BY <1>2
<1>5. contractCalled' = contractCalled
  BY <1>3, <1>4 DEF contractCalled
<1>6. event.type = "finish" => \A k \in Events("finish")' : out'[k] = event \/
                                  (k \in Events("finish") /\ out'[k] = out[k])
  BY <1>2, <1>3
<1>7. QED
  BY <1>2, <1>3, <1>4, <1>5, <1>6

LEMMA AgentCountsStep ==
    ASSUME StreamInv, AgentCounts
    PROVE  StreamInv' /\ (Contract!Next \/ ContractUnmoved)
<1>1. /\ at = "reading" /\ dialect = "claude" /\ wire.stage = "content"
      /\ wire' = [wire EXCEPT !.stage = "counted"] /\ Emit(Event("usage"))
      /\ UNCHANGED <<dialect, size, at, kept, usage, finish>>
  BY DEF AgentCounts
<1>2. Event("usage") \in Emitted /\ Event("usage").type = "usage"
  BY EventsEmitted
<1>3. /\ wire'.begun = wire.begun /\ wire'.sent = wire.sent /\ wire'.closed = wire.closed
      /\ wire'.stage = "counted"
      /\ wire' \in [begun : SUBSET Indexes, sent : [Indexes -> Nat], closed : SUBSET Indexes,
                    stage : {"content", "stopped", "counted", "over"}]
  BY <1>1 DEF StreamInv, StreamTypes
<1>4. /\ out' \in Seq(Emitted) /\ contractCalled' = contractCalled
      /\ Events("tool_call")' = Events("tool_call") /\ \A k \in Events("tool_call") : out'[k] = out[k]
      /\ Events("usage")' # {} /\ Events("finish")' = Events("finish")
      /\ \A k \in Events("finish") : out'[k] = out[k]
  BY <1>1, <1>2, EndYielded
<1>5. StreamTypes'
  BY <1>1, <1>3, <1>4 DEF StreamInv, StreamTypes
<1>6. WireInv'
  BY <1>1, <1>3 DEF StreamInv, WireInv, AllSent
<1>7. OutInv /\ AnswerFaithful
  BY DEF StreamInv
<1>8. Events("usage") = {} /\ Events("finish") = {}
  BY <1>1, <1>7 DEF OutInv
<1>9. OutInv'
  <2>1. HandedOver' = {}
    BY <1>1, <1>3 DEF HandedOver, StreamInv, WireInv
  <2>2. QED
    BY <1>1, <1>3, <1>4, <1>7, <1>8, <2>1 DEF OutInv
<1>10. AnswerFaithful'
  BY <1>1, <1>3, <1>4, <1>7, <1>8 DEF AnswerFaithful
<1>11. contractPhase = "content" /\ contractPhase' = "counted"
  BY <1>1, <1>4, <1>8 DEF contractPhase
<1>12. Contract!Next
  BY <1>4, <1>11 DEF Contract!Count, Contract!Next
<1>13. QED
  BY <1>5, <1>6, <1>9, <1>10, <1>12 DEF StreamInv

\* The FINISH is the last the contract hears, unless the connection breaks.
LEMMA FinishYielded ==
    ASSUME StreamInv, NEW reason \in Finishes, Emit(Finished(reason)),
           reason = "other" \/ wire'.stage # "content",
           reason \in Complete =>
                \A i \in wire'.begun : \E j \in Events("tool_call") : out[j] = ToolCall(i, size[i]),
           UNCHANGED <<dialect, size>>, at' \in {"reading", "ended"}, at # "failed",
           Events("finish") = {}
    PROVE  /\ out' \in Seq(Emitted) /\ AnswerFaithful' /\ Contract!Next
           /\ contractCalled' = contractCalled /\ Events("usage")' = Events("usage")
           /\ Events("tool_call")' = Events("tool_call")
           /\ \A k \in Events("tool_call") : out'[k] = out[k]
<1> DEFINE event == Finished(reason)
<1>1. event \in Emitted /\ event.type = "finish" /\ event.reason = reason
  BY EventsEmitted
<1>2. Emit(event)
  OBVIOUS
<1> HIDE DEF event
<1>3. /\ out' \in Seq(Emitted) /\ contractCalled' = contractCalled
      /\ Events("tool_call")' = Events("tool_call") /\ \A k \in Events("tool_call") : out'[k] = out[k]
      /\ Events("finish")' # {} /\ Events("usage")' = Events("usage")
      /\ \A k \in Events("finish")' : out'[k] = event
  BY <1>1, <1>2, EndYielded
<1>4. AnswerFaithful
  BY DEF StreamInv
<1>5. AnswerFaithful'
  <2>1. \A k \in Events("tool_call")' : out'[k].kept \in {0, size'[out'[k].index]}
    BY <1>3, <1>4 DEF AnswerFaithful
  <2>2. reason \in Complete =>
            \A i \in wire'.begun : \E j \in Events("tool_call")' : out'[j] = ToolCall(i, size'[i])
    BY <1>3
  <2>3. QED
    BY <1>1, <1>3, <2>1, <2>2 DEF AnswerFaithful
<1>6. contractPhase \in {"content", "counted"} /\ contractPhase' = "finished"
  BY <1>3 DEF contractPhase
<1>7. Contract!Next
  BY <1>3, <1>6 DEF Contract!Finish, Contract!Next
<1>8. QED
  BY <1>3, <1>5, <1>7

LEMMA AgentFinishesStep ==
    ASSUME StreamInv, AgentFinishes
    PROVE  StreamInv' /\ (Contract!Next \/ ContractUnmoved)
<1>1. /\ at = "reading" /\ dialect = "claude" /\ wire.stage = "counted"
      /\ wire' = [wire EXCEPT !.stage = "over"]
      /\ UNCHANGED <<dialect, size, at, kept, usage>>
  BY DEF AgentFinishes
<1>2. PICK reason \in Reasons : finish' = reason /\ Emit(Finished(reason))
  BY DEF AgentFinishes
<1>3. reason \in Finishes
  BY <1>1 DEF Reasons, Finishes
<1>4. /\ wire'.begun = wire.begun /\ wire'.sent = wire.sent /\ wire'.closed = wire.closed
      /\ wire'.stage = "over"
      /\ wire' \in [begun : SUBSET Indexes, sent : [Indexes -> Nat], closed : SUBSET Indexes,
                    stage : {"content", "stopped", "counted", "over"}]
  BY <1>1 DEF StreamInv, StreamTypes
<1>5. OutInv /\ AnswerFaithful /\ wire.begun = {} /\ wire.closed = {}
  BY <1>1 DEF StreamInv, WireInv
<1>6. Events("finish") = {}
  BY <1>1, <1>5 DEF OutInv
<1>7. /\ out' \in Seq(Emitted) /\ AnswerFaithful' /\ Contract!Next
      /\ contractCalled' = contractCalled /\ Events("usage")' = Events("usage")
      /\ Events("tool_call")' = Events("tool_call")
  BY <1>1, <1>2, <1>3, <1>4, <1>5, <1>6, FinishYielded
<1>8. StreamTypes'
  BY <1>1, <1>2, <1>3, <1>4, <1>7 DEF StreamInv, StreamTypes
<1>9. WireInv'
  BY <1>1, <1>4, <1>5 DEF StreamInv, WireInv, AllSent
<1>10. OutInv'
  <2>1. HandedOver' = {}
    BY <1>1, <1>4, <1>5 DEF HandedOver
  <2>2. QED
    BY <1>1, <1>4, <1>5, <1>7, <2>1 DEF OutInv
<1>11. QED
  BY <1>7, <1>8, <1>9, <1>10 DEF StreamInv

LEMMA HandFinishStep ==
    ASSUME StreamInv, HandFinish
    PROVE  StreamInv' /\ (Contract!Next \/ ContractUnmoved)
<1>1. /\ at = "finish" /\ at' = "ended" /\ Emit(Finished(LastReason))
      /\ UNCHANGED <<dialect, size, wire, kept, usage, finish>>
  BY DEF HandFinish
<1>2. OutInv /\ AnswerFaithful
  BY DEF StreamInv
<1>3. LastReason \in Finishes /\ (LastReason = "other" \/ wire.stage # "content")
  BY <1>2 DEF LastReason, StreamInv, StreamTypes, OutInv, Finishes
<1>4. Events("finish") = {} /\ dialect # "claude"
  BY <1>1, <1>2 DEF OutInv
<1>5. ASSUME LastReason \in Complete, NEW i \in wire.begun
      PROVE  \E j \in Events("tool_call") : out[j] = ToolCall(i, size[i])
  <2>1. finish \in Complete
    BY <1>5 DEF LastReason, Complete
  <2>2. kept[i] = size[i]
    BY <2>1 DEF StreamInv, WireInv, AllSent
  <2>3. i \in HandedOver
    BY <1>1, <2>1 DEF StreamInv, WireInv, HandedOver, StreamTypes
  <2>4. QED
    BY <1>2, <2>2, <2>3 DEF OutInv
<1>6. /\ out' \in Seq(Emitted) /\ AnswerFaithful' /\ Contract!Next
      /\ contractCalled' = contractCalled /\ Events("usage")' = Events("usage")
      /\ Events("tool_call")' = Events("tool_call")
      /\ \A k \in Events("tool_call") : out'[k] = out[k]
  BY <1>1, <1>3, <1>4, <1>5, FinishYielded
<1>7. StreamTypes' /\ WireInv'
  BY <1>1, <1>6 DEF StreamInv, StreamTypes, WireInv, AllSent
<1>8. OutInv'
  <2>1. HandedOver' = HandedOver /\ kept' = kept
    BY <1>1 DEF HandedOver
  <2>2. \A i \in HandedOver' : \E k \in Events("tool_call")' : out'[k] = ToolCall(i, kept'[i])
    BY <1>2, <1>6, <2>1 DEF OutInv
  <2>3. QED
    BY <1>1, <1>2, <1>4, <1>6, <2>2 DEF OutInv
<1>9. QED
  BY <1>6, <1>7, <1>8 DEF StreamInv

LEMMA HandUsageStep ==
    ASSUME StreamInv, HandUsage
    PROVE  StreamInv' /\ (Contract!Next \/ ContractUnmoved)
<1>1. /\ at = "usage" /\ at' = "finish"
      /\ out' = IF usage THEN Append(out, Event("usage")) ELSE out
      /\ UNCHANGED <<dialect, size, wire, kept, usage, finish>>
  BY DEF HandUsage
<1>2. OutInv /\ AnswerFaithful
  BY DEF StreamInv
<1>3. Events("usage") = {} /\ Events("finish") = {} /\ dialect # "claude"
  BY <1>1, <1>2 DEF OutInv
<1>4. CASE usage
  <2>1. Event("usage") \in Emitted /\ Event("usage").type = "usage" /\ Emit(Event("usage"))
    BY <1>1, <1>4, EventsEmitted DEF Emit
  <2>2. /\ out' \in Seq(Emitted) /\ contractCalled' = contractCalled
        /\ Events("tool_call")' = Events("tool_call") /\ \A k \in Events("tool_call") : out'[k] = out[k]
        /\ Events("usage")' # {} /\ Events("finish")' = Events("finish")
    BY <2>1, EndYielded
  <2>3. StreamTypes' /\ WireInv'
    BY <1>1, <2>2 DEF StreamInv, StreamTypes, WireInv, AllSent
  <2>4. OutInv'
    <3>1. HandedOver' = HandedOver /\ kept' = kept
      BY <1>1 DEF HandedOver
    <3>2. \A i \in HandedOver' : \E k \in Events("tool_call")' : out'[k] = ToolCall(i, kept'[i])
      BY <1>2, <2>2, <3>1 DEF OutInv
    <3>3. QED
      BY <1>1, <1>2, <1>3, <2>2, <3>2 DEF OutInv
  <2>5. AnswerFaithful'
    <3>1. /\ Events("finish")' = {} /\ UNCHANGED <<dialect, size, wire>>
          /\ Events("tool_call")' = Events("tool_call") /\ \A k \in Events("tool_call") : out'[k] = out[k]
      BY <1>1, <1>3, <2>2
    <3>2. QED
      BY <1>2, <3>1 DEF AnswerFaithful
  <2>6. contractPhase = "content" /\ contractPhase' = "counted"
    BY <1>1, <1>3, <2>2 DEF contractPhase
  <2>7. Contract!Next
    BY <2>2, <2>6 DEF Contract!Count, Contract!Next
  <2>8. QED
    BY <2>3, <2>4, <2>5, <2>7 DEF StreamInv
<1>5. CASE ~usage
  <2>1. UNCHANGED out
    BY <1>1, <1>5
  <2>2. /\ Events("tool_call")' = Events("tool_call") /\ Events("usage")' = Events("usage")
        /\ Events("finish")' = Events("finish") /\ contractCalled' = contractCalled
    BY <2>1 DEF Events, contractCalled
  <2>3. StreamTypes' /\ WireInv'
    BY <1>1, <2>1 DEF StreamInv, StreamTypes, WireInv, AllSent
  <2>4. OutInv'
    <3>1. HandedOver' = HandedOver /\ kept' = kept
      BY <1>1 DEF HandedOver
    <3>2. \A i \in HandedOver' : \E k \in Events("tool_call")' : out'[k] = ToolCall(i, kept'[i])
      BY <1>2, <2>1, <2>2, <3>1 DEF OutInv
    <3>3. QED
      BY <1>1, <1>2, <1>3, <2>2, <3>2 DEF OutInv
  <2>5. AnswerFaithful'
    BY <1>1, <1>2, <1>3, <2>1, <2>2 DEF AnswerFaithful
  <2>6. contractPhase' = contractPhase
    BY <1>1, <2>2 DEF contractPhase
  <2>7. QED
    BY <2>2, <2>3, <2>4, <2>5, <2>6 DEF StreamInv, ContractUnmoved
<1>6. QED
  BY <1>4, <1>5

\* The calls an OpenAI stream has gathered are handed over in the order of their
\* indexes: they are the first ones, so the positions name them.
LEMMA HandOverStep ==
    ASSUME StreamInv, HandOver
    PROVE  StreamInv' /\ (Contract!Next \/ ContractUnmoved)
<1>1. at = "calls" /\ UNCHANGED <<dialect, size, wire, kept, usage, finish>>
  BY DEF HandOver
<1>2. OutInv /\ AnswerFaithful
  BY DEF StreamInv
<1>3. Events("usage") = {} /\ Events("finish") = {} /\ Events("tool_call") = {} /\ dialect = "openai"
  BY <1>1, <1>2 DEF OutInv
<1>4. contractCalled = {} /\ contractPhase = "content"
  BY <1>1, <1>3 DEF contractCalled, contractPhase
<1>5. CASE \E i \in wire.begun : ParseFails(i)
  <2>1. at' = "failed" /\ UNCHANGED out
    BY <1>5 DEF HandOver
  <2>2. StreamTypes' /\ WireInv'
    BY <1>1, <2>1 DEF StreamInv, StreamTypes, WireInv, AllSent
  <2>3. /\ Events("tool_call")' = Events("tool_call") /\ Events("usage")' = Events("usage")
        /\ Events("finish")' = Events("finish") /\ contractCalled' = contractCalled
    BY <2>1 DEF Events, contractCalled
  <2>4. OutInv'
    <3>1. HandedOver' = {}
      BY <1>1, <1>3, <2>1 DEF HandedOver
    <3>2. QED
      BY <1>1, <1>2, <1>3, <2>1, <2>3, <3>1 DEF OutInv
  <2>5. AnswerFaithful'
    BY <1>1, <1>2, <1>3, <2>1, <2>3 DEF AnswerFaithful
  <2>6. contractPhase' = "failed"
    BY <2>1 DEF contractPhase
  <2>7. Contract!Next
    BY <1>4, <2>3, <2>6 DEF Contract!Fail, Contract!Next
  <2>8. QED
    BY <2>2, <2>4, <2>5, <2>7 DEF StreamInv
<1>6. CASE ~\E i \in wire.begun : ParseFails(i)
  <2>1. /\ at' = "usage"
        /\ out' = out \o [k \in 1..Cardinality(wire.begun) |-> ToolCall(k - 1, kept[k - 1])]
    BY <1>6 DEF HandOver
  <2>2. PICK n \in 0..MaxCalls : wire.begun = 0..n - 1
    BY DEF StreamInv, WireInv
  <2>3. n \in Nat /\ MaxCalls \in Nat
    BY <2>2, StreamBounds
  <2>4. Cardinality(wire.begun) = n
    <3>1. Cardinality(0..n - 1) = IF 0 > n - 1 THEN 0 ELSE (n - 1) - 0 + 1
      BY <2>3, FS_Interval
    <3>2. QED
      BY <2>2, <2>3, <3>1
  <2> DEFINE calls == [k \in 1..n |-> ToolCall(k - 1, kept[k - 1])]
  <2>5. out' = out \o calls
    BY <2>1, <2>4
  <2>6. /\ \A i \in Indexes : kept[i] \in Nat /\ size[i] \in Nat /\ kept[i] <= size[i]
        /\ wire.begun \subseteq Indexes
    BY DEF StreamInv, StreamTypes, WireInv
  <2>7. ASSUME NEW k \in 1..n
        PROVE  /\ k - 1 \in wire.begun /\ k - 1 \in Indexes /\ k - 1 \in Nat
               /\ calls[k] = ToolCall(k - 1, kept[k - 1]) /\ calls[k] \in Emitted
               /\ calls[k].type = "tool_call" /\ calls[k].index = k - 1 /\ calls[k].kept = kept[k - 1]
               /\ calls[k].kept \in {0, size[k - 1]}
    <3>1. k - 1 \in wire.begun /\ k - 1 \in Indexes /\ k - 1 \in Nat
      BY <2>2, <2>3, <2>6
    <3>2. kept[k - 1] \in Nat /\ size[k - 1] \in Nat /\ kept[k - 1] <= size[k - 1]
      BY <2>6, <3>1
    <3>3. calls[k] = ToolCall(k - 1, kept[k - 1])
      OBVIOUS
    <3>4. /\ calls[k] \in Emitted
          /\ calls[k].type = "tool_call" /\ calls[k].index = k - 1 /\ calls[k].kept = kept[k - 1]
      BY <3>1, <3>2, <3>3, EventsEmitted
    <3>5. ~ParseFails(k - 1)
      BY <1>6, <3>1
    <3>6. kept[k - 1] = 0 \/ kept[k - 1] = size[k - 1]
      BY <3>2, <3>5 DEF ParseFails
    <3>7. QED
      BY <2>6, <3>1, <3>3, <3>4, <3>6
  <2>8. calls \in Seq(Emitted) /\ Len(calls) = n
    BY <2>3, <2>7
  <2> HIDE DEF calls
  <2>9. out \in Seq(Emitted)
    BY DEF StreamInv, StreamTypes
  <2>10. /\ out' \in Seq(Emitted) /\ Len(out') = Len(out) + n /\ Len(out) \in Nat
         /\ \A k \in 1..Len(out) : out'[k] = out[k]
         /\ \A k \in Len(out) + 1..Len(out) + n : out'[k] = calls[k - Len(out)]
    <3>1. out \o calls \in Seq(Emitted)
      BY <2>8, <2>9, ConcatProperties
    <3>2. Len(out \o calls) = Len(out) + n
      BY <2>8, <2>9, ConcatProperties
    <3>3. Len(out) \in Nat
      BY <2>9, LenProperties
    <3>4. \A k \in 1..Len(out) + n : (out \o calls)[k] = IF k <= Len(out) THEN out[k] ELSE calls[k - Len(out)]
      BY <2>8, <2>9, ConcatProperties
    <3>5. QED
      BY <2>3, <2>5, <3>1, <3>2, <3>3, <3>4
  <2>11. DOMAIN out' = 1..Len(out) + n /\ DOMAIN out = 1..Len(out)
    BY <2>9, <2>10, LenProperties
  <2>12. ASSUME NEW k \in DOMAIN out', k \notin DOMAIN out
         PROVE  /\ k - Len(out) \in 1..n /\ out'[k] = calls[k - Len(out)]
                /\ out'[k].type = "tool_call" /\ out'[k].index = k - Len(out) - 1
                /\ out'[k].index \in wire.begun
                /\ out'[k].kept \in {0, size[out'[k].index]}
    <3>1. k - Len(out) \in 1..n /\ out'[k] = calls[k - Len(out)]
      BY <2>3, <2>10, <2>11, <2>12
    <3>2. QED
      BY <2>7, <3>1
  <2>13. Events("tool_call")' = DOMAIN out' \ DOMAIN out
    <3>1. \A k \in DOMAIN out : k \in DOMAIN out' /\ out'[k] = out[k] /\ out'[k].type # "tool_call"
      BY <1>3, <2>3, <2>10, <2>11 DEF Events
    <3>2. QED
      BY <2>12, <3>1 DEF Events
  <2>14. Events("usage")' = {} /\ Events("finish")' = {}
    <3>1. \A k \in DOMAIN out : out'[k] = out[k] /\ out'[k].type \notin {"usage", "finish"}
      BY <1>3, <2>10, <2>11 DEF Events
    <3>2. QED
      BY <2>12, <3>1 DEF Events
  <2>15. contractCalled' \subseteq wire.begun
    BY <2>12, <2>13 DEF contractCalled
  <2>16. StreamTypes' /\ WireInv'
    BY <1>1, <2>1, <2>10 DEF StreamInv, StreamTypes, WireInv, AllSent
  <2>17. OutInv'
    <3>1. ASSUME NEW i \in wire.begun
          PROVE  \E k \in Events("tool_call")' : out'[k] = ToolCall(i, kept[i])
      <4>1. i + 1 \in 1..n /\ i \in Nat /\ (i + 1) - 1 = i
        BY <2>2, <2>3
      <4>2. calls[i + 1] = ToolCall(i, kept[i])
        BY <2>7, <4>1
      <4>3. PICK k : k = Len(out) + (i + 1)
        OBVIOUS
      <4>4. k \in Len(out) + 1..Len(out) + n /\ k - Len(out) = i + 1 /\ k \in 1..Len(out) + n /\ k > Len(out)
        BY <2>3, <2>10, <4>1, <4>3
      <4>5. k \in DOMAIN out' /\ k \notin DOMAIN out
        BY <2>10, <2>11, <4>4
      <4>6. out'[k] = calls[i + 1]
        BY <2>12, <4>4, <4>5
      <4>7. QED
        BY <2>13, <4>2, <4>5, <4>6
    <3>2. HandedOver' = wire.begun /\ kept' = kept
      BY <1>1, <1>3, <2>1 DEF HandedOver
    <3>3. \A i \in HandedOver' : \E k \in Events("tool_call")' : out'[k] = ToolCall(i, kept'[i])
      BY <3>1, <3>2
    <3>4. QED
      BY <1>1, <1>2, <1>3, <2>1, <2>6, <2>14, <2>15, <3>3 DEF OutInv
  <2>18. AnswerFaithful'
    BY <1>1, <1>3, <2>12, <2>13, <2>14 DEF AnswerFaithful
  <2>19. contractPhase' = "content"
    BY <2>1, <2>14 DEF contractPhase
  <2>20. CASE contractCalled' = {}
    BY <1>4, <2>16, <2>17, <2>18, <2>19, <2>20 DEF StreamInv, ContractUnmoved
  <2>21. CASE contractCalled' # {}
    <3>1. Contract!Call(contractCalled')
      BY <1>4, <2>19, <2>21 DEF Contract!Call
    <3>2. contractCalled' \in SUBSET Indexes
      BY <2>6, <2>15
    <3>3. Contract!Next
      BY <3>1, <3>2 DEF Contract!Next
    <3>4. QED
      BY <2>16, <2>17, <2>18, <3>3 DEF StreamInv
  <2>22. QED
    BY <2>20, <2>21
<1>7. QED
  BY <1>5, <1>6

LEMMA StreamStart == StreamInit \/ StreamIdle => StreamInv
<1> SUFFICES ASSUME StreamInit \/ StreamIdle PROVE StreamInv
  OBVIOUS
<1>1. Events("tool_call") = {} /\ Events("usage") = {} /\ Events("finish") = {} /\ contractCalled = {}
  BY DEF StreamInit, StreamIdle, Events, contractCalled
<1>2. MaxFragments \in Nat /\ MaxCalls \in Nat
  BY StreamBounds
<1>3. StreamTypes
  <2>1. size \in [Indexes -> Nat]
    BY <1>2 DEF StreamInit, StreamIdle
  <2>2. wire \in [begun : SUBSET Indexes, sent : [Indexes -> Nat], closed : SUBSET Indexes,
                 stage : {"content", "stopped", "counted", "over"}]
    BY DEF StreamInit, StreamIdle, NothingSent
  <2>3. kept \in [Indexes -> Nat] /\ usage = FALSE /\ finish = "none" /\ out = <<>>
    BY DEF StreamInit, StreamIdle
  <2>4. dialect \in {"openai", "anthropic", "gemini", "ollama", "claude"} /\ at \in {"reading", "idle"}
    BY DEF StreamInit, StreamIdle
  <2>5. out \in Seq(Emitted)
    BY <2>3
  <2>6. QED
    BY <2>1, <2>2, <2>3, <2>4, <2>5 DEF StreamTypes, Finishes
<1>4. WireInv
  <2>1. {} = 0..0 - 1 /\ 0 \in 0..MaxCalls
    BY <1>2
  <2>2. wire = NothingSent /\ kept = wire.sent /\ size \in [Indexes -> Nat]
    BY <1>3 DEF StreamInit, StreamIdle, NothingSent, StreamTypes
  <2>3. QED
    BY <2>1, <2>2 DEF WireInv, NothingSent, AllSent
<1>5. OutInv
  <2>1. HandedOver = {}
    BY DEF StreamInit, StreamIdle, HandedOver, NothingSent
  <2>2. QED
    BY <1>1, <2>1 DEF StreamInit, StreamIdle, OutInv, NothingSent
<1>6. AnswerFaithful
  BY <1>1 DEF AnswerFaithful
<1>7. QED
  BY <1>3, <1>4, <1>5, <1>6 DEF StreamInv

LEMMA StreamUnmoved ==
    ASSUME StreamInv, UNCHANGED streamVars
    PROVE  StreamInv' /\ ContractUnmoved
<1>1. /\ \A type : Events(type)' = Events(type)
      /\ contractCalled' = contractCalled
  BY DEF streamVars, adapterVars, Events, contractCalled
<1>2. StreamTypes' /\ WireInv'
  BY DEF StreamInv, streamVars, adapterVars, StreamTypes, WireInv, AllSent
<1>3. OutInv'
  BY <1>1 DEF StreamInv, streamVars, adapterVars, OutInv, HandedOver
<1>4. AnswerFaithful'
  BY <1>1 DEF StreamInv, streamVars, adapterVars, AnswerFaithful
<1>5. contractPhase' = contractPhase
  BY <1>1 DEF streamVars, adapterVars, contractPhase
<1>6. QED
  BY <1>1, <1>2, <1>3, <1>4, <1>5 DEF StreamInv, ContractUnmoved

LEMMA StreamStep ==
    ASSUME StreamInv, [StreamNext]_streamVars
    PROVE  StreamInv' /\ (Contract!Next \/ ContractUnmoved)
<1>1. CASE Text \/ BeginCall \/ Fragment \/ CloseBlock \/ WholeCall
  BY <1>1, TextStep, BeginCallStep, FragmentStep, CloseBlockStep, WholeCallStep
<1>2. CASE Stop \/ Count \/ EndMark \/ Closed \/ Broken
  BY <1>2, ReadingSteps
<1>3. CASE AgentCounts \/ AgentFinishes \/ HandOver \/ HandUsage \/ HandFinish
  BY <1>3, AgentCountsStep, AgentFinishesStep, HandOverStep, HandUsageStep, HandFinishStep
<1>4. CASE UNCHANGED streamVars
  BY <1>4, StreamUnmoved
<1>5. QED
  BY <1>1, <1>2, <1>3, <1>4 DEF StreamNext

\* What the adapters keep, whatever the dialect.
THEOREM StreamInvariant == Spec => []StreamInv
<1>1. Init => StreamInv
  BY StreamStart DEF Init, Begins
<1>2. StreamInv /\ [Next]_vars => StreamInv'
  BY StreamStep DEF Next, vars
<1>3. QED
  BY <1>1, <1>2, PTL DEF Spec

\* A call is never handed over with a part of its arguments, and an answer that is
\* reported as complete has every call of the provider with all of its arguments
\* (tool calls of any number and size).
THEOREM AnswersFaithful == Spec => []AnswerFaithful
<1>1. StreamInv => AnswerFaithful
  BY DEF StreamInv
<1>2. QED
  BY <1>1, StreamInvariant, PTL

\* Every adapter implements AdapterContract: each call once, the usage after the
\* content, one FINISH or an error (llm/types.py:202).
THEOREM AdaptersImplement == Spec => ImplementsContract
<1>1. Init => Contract!Init
  <2>1. SUFFICES ASSUME Init PROVE Contract!Init
    OBVIOUS
  <2>2. out = <<>> /\ at # "failed"
    BY <2>1 DEF Init, Begins, StreamInit, StreamIdle
  <2>3. \A type : Events(type) = {}
    BY <2>2 DEF Events
  <2>4. QED
    BY <2>2, <2>3 DEF Contract!Init, contractPhase, contractCalled
<1>2. StreamInv /\ [Next]_vars => [Contract!Next]_(Contract!contractVars)
  <2>1. SUFFICES ASSUME StreamInv, [Next]_vars PROVE Contract!Next \/ UNCHANGED Contract!contractVars
    OBVIOUS
  <2>2. [StreamNext]_streamVars
    BY <2>1 DEF Next, vars
  <2>3. Contract!Next \/ ContractUnmoved
    BY <2>1, <2>2, StreamStep
  <2>4. QED
    BY <2>3 DEF ContractUnmoved, Contract!contractVars
<1>3. QED
  BY <1>1, <1>2, StreamInvariant, PTL DEF Spec, ImplementsContract, Contract!Spec

--------------------------------------------------------------------------------
(* The placement of a task                                                    *)

\* Sorting permutes the positions.
LEMMA Sorted ==
    ASSUME NEW T, NEW seq \in Seq(T), NEW scores, \A k \in DOMAIN seq : scores[k] \in Int
    PROVE  /\ DOMAIN BestFirst(seq, scores) = DOMAIN seq
           /\ BestFirst(seq, scores) \in Seq(T)
           /\ \E place \in [DOMAIN seq -> DOMAIN seq] :
                 /\ \A k, l \in DOMAIN seq : place[k] = place[l] => k = l
                 /\ \A k \in DOMAIN seq : BestFirst(seq, scores)[k] = seq[place[k]]
<1> DEFINE S == DOMAIN seq
           place == [k \in S |-> Ranked(S, scores)[k]]
<1>1. S = 1..Len(seq) /\ Len(seq) \in Nat
  BY LenProperties
<1>2. S \in SUBSET Int /\ IsFiniteSet(S) /\ Cardinality(S) = Len(seq)
  <2>1. IsFiniteSet(1..Len(seq)) /\ Cardinality(1..Len(seq)) = IF 1 > Len(seq) THEN 0 ELSE Len(seq) - 1 + 1
    <3>1. 1 \in Int /\ Len(seq) \in Int
      BY <1>1
    <3>2. QED
      BY <3>1, FS_Interval
  <2>2. QED
    BY <1>1, <2>1
<1> HIDE DEF S
<1>3. \A i \in S : scores[i] \in Int
  BY DEF S
<1>4. \A k \in 1..Cardinality(S) :
         /\ Ranked(S, scores)[k] \in S
         /\ Cardinality(UpTo(S, scores, Ranked(S, scores)[k])) = k
  BY <1>2, <1>3, Ranks
<1>5. place \in [S -> S] /\ \A k, l \in S : place[k] = place[l] => k = l
  BY <1>1, <1>2, <1>4
<1>6. /\ DOMAIN BestFirst(seq, scores) = S
      /\ \A k \in S : BestFirst(seq, scores)[k] = seq[place[k]]
  BY DEF BestFirst, S
<1>7. \A k \in S : seq[k] \in T
  BY DEF S
<1>8. BestFirst(seq, scores) \in Seq(T)
  <2>1. \A k \in S : BestFirst(seq, scores)[k] \in T
    BY <1>5, <1>6, <1>7
  <2>2. BestFirst(seq, scores) = [k \in 1..Len(seq) |-> BestFirst(seq, scores)[k]]
    BY <1>1 DEF BestFirst, S
  <2>3. QED
    BY <1>1, <2>1, <2>2
<1> HIDE DEF place
<1>9. \E f \in [S -> S] : /\ \A k, l \in S : f[k] = f[l] => k = l
                          /\ \A k \in S : BestFirst(seq, scores)[k] = seq[f[k]]
  BY <1>5, <1>6
<1>10. QED
  BY <1>6, <1>8, <1>9 DEF S

\* Finitely many scores have a best one and a worst one.
LEMMA Extremes ==
    ASSUME NEW S \in SUBSET Int, IsFiniteSet(S), S # {}, NEW scores, \A i \in S : scores[i] \in Int
    PROVE  /\ \E i \in S : \A j \in S : scores[i] >= scores[j]
           /\ \E i \in S : \A j \in S : scores[i] <= scores[j]
<1> DEFINE n == Cardinality(S)
<1>1. n \in Nat /\ n # 0
  BY FS_CardinalityType, FS_EmptySet
<1>2. \A k \in 1..n : /\ Ranked(S, scores)[k] \in S
                      /\ Cardinality(UpTo(S, scores, Ranked(S, scores)[k])) = k
  BY Ranks
<1>a. 1 \in 1..n /\ n \in 1..n
  BY <1>1
<1> HIDE DEF n
<1>3. \A i \in S : UpTo(S, scores, i) \subseteq S /\ i \in UpTo(S, scores, i)
  BY DEF UpTo
<1>4. \E i \in S : \A j \in S : scores[i] >= scores[j]
  <2>1. PICK i \in S : Cardinality(UpTo(S, scores, i)) = 1
    BY <1>2, <1>a
  <2>2. IsFiniteSet(UpTo(S, scores, i)) /\ i \in UpTo(S, scores, i)
    BY <1>3, FS_Subset
  <2>3. \A j \in UpTo(S, scores, i) : j = i
    BY <2>1, <2>2, FS_Singleton
  <2>4. ASSUME NEW j \in S PROVE scores[i] >= scores[j]
    <3>1. j = i \/ j \notin UpTo(S, scores, i)
      BY <2>3
    <3>2. scores[i] \in Int /\ scores[j] \in Int
      OBVIOUS
    <3>3. QED
      BY <3>1, <3>2 DEF UpTo
  <2>5. QED
    BY <2>4
<1>5. \E i \in S : \A j \in S : scores[i] <= scores[j]
  <2>1. PICK i \in S : Cardinality(UpTo(S, scores, i)) = n
    BY <1>2, <1>a
  <2>2. UpTo(S, scores, i) = S
    BY <1>3, <2>1, FS_Subset DEF n
  <2>3. ASSUME NEW j \in S PROVE scores[i] <= scores[j]
    <3>1. j \in UpTo(S, scores, i) /\ scores[i] \in Int /\ scores[j] \in Int
      BY <2>2
    <3>2. QED
      BY <3>1 DEF UpTo
  <2>4. QED
    BY <2>3
<1>6. QED
  BY <1>4, <1>5

LEMMA FitScored ==
    ASSUME NEW n \in Rows, NEW type \in {"coding", "retrieval", "tool", "vision", "general"},
           EffectiveRole(n) \in Range(PreferredRoles(type))
    PROVE  Fit(n, type) \in Int
<1> DEFINE roles == PreferredRoles(type)
<1>1. Len(roles) \in Int /\ DOMAIN roles \subseteq Int
  <2> DEFINE Roles == {"ai_compute", "hybrid", "knowledge", "vision", "tool"}
  <2>1. roles \in Seq(Roles)
    <3>1. ASSUME NEW role \in Roles PROVE <<role, "hybrid">> \in Seq(Roles)
      OBVIOUS
    <3>2. <<"hybrid", "ai_compute", "knowledge", "tool">> \in Seq(Roles)
      OBVIOUS
    <3>3. \/ roles = <<"hybrid", "ai_compute", "knowledge", "tool">>
          \/ \E role \in Roles : roles = <<role, "hybrid">>
      BY DEF PreferredRoles
    <3>4. QED
      BY <3>1, <3>2, <3>3
  <2> HIDE DEF roles
  <2>2. Len(roles) \in Nat /\ DOMAIN roles = 1..Len(roles)
    BY <2>1, LenProperties
  <2>3. QED
    BY <2>2
<1>2. \E i \in DOMAIN roles : roles[i] = EffectiveRole(n)
  BY DEF Range
<1> HIDE DEF roles
<1>3. (CHOOSE i \in DOMAIN roles : roles[i] = EffectiveRole(n)) \in DOMAIN roles
  BY <1>2
<1>4. (CHOOSE i \in DOMAIN roles : roles[i] = EffectiveRole(n)) \in Int
  BY <1>1, <1>3
<1>5. Fit(n, type) = Len(roles) + 1 - (CHOOSE i \in DOMAIN roles : roles[i] = EffectiveRole(n))
  BY DEF Fit, roles
<1>6. QED
  BY <1>1, <1>4, <1>5

LEMMA RowScored ==
    ASSUME NEW n \in Rows, NEW type \in {"coding", "retrieval", "tool", "vision", "general"}, NEW model,
           EffectiveRole(n) \in Range(PreferredRoles(type))
    PROVE  RankScore(n, type, model) \in Int
<1>1. Fit(n, type) \in Int
  BY FitScored
<1>2. n.ram \in Nat /\ n.vram \in Nat /\ n.cpu \in Nat /\ n.memory \in Nat /\ n.tasks \in Nat
  BY DEF Rows
<1>3. Least(n.ram, 128) \in Nat /\ Least(n.vram, 48) \in Nat
  BY <1>2 DEF Least
<1>4. (100 * Least(n.ram, 128)) \div 128 \in Int /\ (100 * Least(n.vram, 48)) \div 48 \in Int
  BY <1>3
<1>5. (IF model \in n.models THEN 200 ELSE 0) \in Int
  OBVIOUS
<1>6. QED
  BY <1>1, <1>2, <1>4, <1>5 DEF RankScore

LEMMA GpusScored ==
    ASSUME NEW n \in Rows, NEW t \in Asks
    PROVE  GpuShare(n, t) \in Int
<1> DEFINE scores == {GpuScore(n.gpus[g]) : g \in Usable(n, t)}
           score == [g \in Usable(n, t) |-> GpuScore(n.gpus[g])]
<1>1. n.gpus \in Seq(Gpus) /\ Usable(n, t) \subseteq DOMAIN n.gpus
  BY DEF Rows, Usable, Roomy
<1>2. Usable(n, t) \in SUBSET Int /\ IsFiniteSet(Usable(n, t))
  BY <1>1, PositionsFinite
<1>3. ASSUME NEW g \in Usable(n, t) PROVE GpuScore(n.gpus[g]) \in Int
  <2>1. n.gpus[g] \in Gpus
    BY <1>1
  <2>2. /\ n.gpus[g].total \in Nat \ {0} /\ n.gpus[g].used \in Nat /\ n.gpus[g].util \in Nat
    BY <2>1 DEF Gpus
  <2>3. Free(n.gpus[g]) \in Nat
    BY <2>2 DEF Free
  <2>4. 600 * Free(n.gpus[g]) \in Int
    BY <2>3
  <2>5. (600 * Free(n.gpus[g])) \div n.gpus[g].total \in Int
    BY <2>2, <2>4
  <2>6. QED
    BY <2>2, <2>5 DEF GpuScore
<1>4. CASE t.provider # "local" \/ scores = {}
  BY <1>4 DEF GpuShare
<1>5. CASE ~(t.provider # "local" \/ scores = {})
  <2>1. Usable(n, t) # {} /\ \A g \in Usable(n, t) : score[g] \in Int
    BY <1>3, <1>5
  <2> HIDE DEF score
  <2>2. /\ \E i \in Usable(n, t) : \A j \in Usable(n, t) : score[i] >= score[j]
        /\ \E i \in Usable(n, t) : \A j \in Usable(n, t) : score[i] <= score[j]
    BY <1>2, <2>1, Extremes
  <2>3. /\ \E s \in scores : \A o \in scores : s >= o
        /\ \E s \in scores : \A o \in scores : s <= o
    BY <2>2 DEF score
  <2>4. scores \subseteq Int
    BY <1>3
  <2> HIDE DEF scores
  <2> DEFINE best == CHOOSE s \in scores : \A o \in scores :
                        IF RequiredVram(n, t) # Unknown THEN s <= o ELSE s >= o
  <2>5. best \in scores
    <3>1. \E s \in scores : \A o \in scores : IF RequiredVram(n, t) # Unknown THEN s <= o ELSE s >= o
      BY <2>3
    <3>2. QED
      BY <3>1
  <2>6. GpuShare(n, t) = best
    BY <1>5 DEF GpuShare, scores
  <2>7. QED
    BY <2>4, <2>5, <2>6
<1>6. QED
  BY <1>4, <1>5

LEMMA RouteScored ==
    ASSUME NEW n \in Rows, NEW t \in Asks, EffectiveRole(n) \in Range(PreferredRoles(t.type))
    PROVE  RouteScore(n, t) \in Int
<1>1. t.type \in {"coding", "retrieval", "tool", "vision", "general"}
  BY DEF Asks
<1>2. Fit(n, t.type) \in Int /\ GpuShare(n, t) \in Int
  BY <1>1, FitScored, GpusScored
<1>3. n.cpu \in Nat /\ n.memory \in Nat /\ n.tasks \in Nat
  BY DEF Rows
<1>4. QED
  BY <1>2, <1>3 DEF RouteScore

\* The nodes that fit a role, best first, each once.
LEMMA CandidatesFit ==
    ASSUME nodes \in Seq(Rows), NEW t \in Asks
    PROVE  /\ RankCandidates(t.type, t.model) \in Seq(DOMAIN nodes)
           /\ \A k, l \in DOMAIN RankCandidates(t.type, t.model) :
                 RankCandidates(t.type, t.model)[k] = RankCandidates(t.type, t.model)[l] => k = l
           /\ \A k \in DOMAIN RankCandidates(t.type, t.model) :
                 EffectiveRole(nodes[RankCandidates(t.type, t.model)[k]]) \in Range(PreferredRoles(t.type))
<1> DEFINE S == {i \in DOMAIN nodes :
                   /\ nodes[i].status = "online"
                   /\ nodes[i].agent \in {"http", "https"}
                   /\ EffectiveRole(nodes[i]) \in Range(PreferredRoles(t.type))}
           fit == InOrder(S)
           scores == [k \in DOMAIN fit |-> RankScore(nodes[fit[k]], t.type, t.model)]
<1>1. \A i \in S : i \in DOMAIN nodes /\ EffectiveRole(nodes[i]) \in Range(PreferredRoles(t.type))
  OBVIOUS
<1>2. RankCandidates(t.type, t.model) = BestFirst(fit, scores)
  BY DEF RankCandidates
<1>3. S \subseteq DOMAIN nodes
  OBVIOUS
<1> HIDE DEF S
<1>4. S \in SUBSET Int /\ IsFiniteSet(S)
  BY <1>3, PositionsFinite
<1>5. /\ Cardinality(S) \in Nat
      /\ DOMAIN fit = 1..Cardinality(S)
      /\ \A k \in 1..Cardinality(S) : fit[k] \in S
      /\ \A k, l \in 1..Cardinality(S) : fit[k] = fit[l] => k = l
  BY <1>4, Places
<1>6. fit \in Seq(S)
  <2>1. fit = [k \in 1..Cardinality(S) |-> fit[k]]
    BY DEF InOrder, Ranked
  <2>2. QED
    BY <1>5, <2>1
<1> HIDE DEF fit
<1>7. \A k \in DOMAIN fit : scores[k] \in Int
  <2>1. ASSUME NEW k \in DOMAIN fit PROVE RankScore(nodes[fit[k]], t.type, t.model) \in Int
    <3>1. fit[k] \in S /\ nodes[fit[k]] \in Rows
      BY <1>1, <1>5
    <3>2. t.type \in {"coding", "retrieval", "tool", "vision", "general"}
      BY DEF Asks
    <3>3. QED
      BY <1>1, <3>1, <3>2, RowScored
  <2>2. QED
    BY <2>1
<1> HIDE DEF scores
<1> DEFINE ranked == BestFirst(fit, scores)
<1>8. /\ DOMAIN ranked = DOMAIN fit /\ ranked \in Seq(S)
      /\ \E place \in [DOMAIN fit -> DOMAIN fit] :
            /\ \A k, l \in DOMAIN fit : place[k] = place[l] => k = l
            /\ \A k \in DOMAIN fit : ranked[k] = fit[place[k]]
  BY <1>6, <1>7, Sorted, SMTT(30)
<1> HIDE DEF ranked
<1>9. \A k, l \in DOMAIN ranked : ranked[k] = ranked[l] => k = l
  <2>1. PICK place \in [DOMAIN fit -> DOMAIN fit] :
            /\ \A k, l \in DOMAIN fit : place[k] = place[l] => k = l
            /\ \A k \in DOMAIN fit : ranked[k] = fit[place[k]]
    BY <1>8
  <2>2. QED
    BY <1>5, <1>8, <2>1
<1>10. \A k \in DOMAIN ranked : ranked[k] \in S
  BY <1>8
<1>11. ranked \in Seq(DOMAIN nodes)
  BY <1>1, <1>8
<1>12. RankCandidates(t.type, t.model) = ranked
  BY <1>2 DEF ranked
<1>13. QED
  BY <1>1, <1>9, <1>10, <1>11, <1>12

\* The nodes a task may go to: each once, and each eligible.
LEMMA ChosenEligible ==
    ASSUME nodes \in Seq(Rows), NEW t \in Asks, ~CloudDenied(t)
    PROVE  \A k \in DOMAIN RouteCandidates(t) :
              /\ \E i \in DOMAIN nodes : RouteCandidates(t)[k] = Decision(i, t) /\ Eligible(nodes[i], t)
              /\ \A l \in DOMAIN RouteCandidates(t) :
                    RouteCandidates(t)[k].node = RouteCandidates(t)[l].node => k = l
<1> DEFINE candidates == RankCandidates(t.type, t.model)
           I == {k \in DOMAIN candidates : Eligible(nodes[candidates[k]], t)}
           ranked == Selected(candidates, I)
           made == [k \in DOMAIN ranked |-> Decision(ranked[k], t)]
           scores == [k \in DOMAIN made |-> made[k].score]
<1>1. RouteCandidates(t) = BestFirst(made, scores)
  BY DEF RouteCandidates
<1>2. I \subseteq DOMAIN candidates /\ \A k \in I : Eligible(nodes[candidates[k]], t)
  OBVIOUS
<1>3. /\ candidates \in Seq(DOMAIN nodes)
      /\ \A k, l \in DOMAIN candidates : candidates[k] = candidates[l] => k = l
      /\ \A k \in DOMAIN candidates :
            EffectiveRole(nodes[candidates[k]]) \in Range(PreferredRoles(t.type))
  BY CandidatesFit
<1> HIDE DEF candidates, I
<1>4. /\ ranked \in Seq(DOMAIN nodes) /\ Cardinality(I) \in Nat /\ DOMAIN ranked = 1..Cardinality(I)
      /\ \A k \in DOMAIN ranked : \E i \in I : ranked[k] = candidates[i]
      /\ \A k, l \in DOMAIN ranked : ranked[k] = ranked[l] => k = l
  BY <1>2, <1>3, SelectedEntries
<1> HIDE DEF ranked
<1>5. ASSUME NEW k \in DOMAIN ranked
      PROVE  /\ ranked[k] \in DOMAIN nodes /\ Eligible(nodes[ranked[k]], t)
             /\ made[k] = Decision(ranked[k], t) /\ made[k].node = ranked[k]
             /\ made[k].score \in Int
  <2>1. PICK i \in I : ranked[k] = candidates[i]
    BY <1>4
  <2>2. /\ ranked[k] \in DOMAIN nodes /\ Eligible(nodes[ranked[k]], t)
        /\ EffectiveRole(nodes[ranked[k]]) \in Range(PreferredRoles(t.type))
    BY <1>2, <1>3, <1>4, <2>1
  <2>3. nodes[ranked[k]] \in Rows
    BY <2>2
  <2> DEFINE n == nodes[ranked[k]]
  <2>5. RouteScore(n, t) \in Int
    BY <2>2, <2>3, RouteScored
  <2>6. made[k] = Decision(ranked[k], t)
    OBVIOUS
  <2>7. made[k].node = ranked[k] /\ made[k].score = RouteScore(n, t)
    BY <2>6 DEF Decision
  <2>8. QED
    BY <2>2, <2>5, <2>6, <2>7
<1> DEFINE Made == {Decision(i, t) : i \in DOMAIN nodes}
<1>6. DOMAIN made = DOMAIN ranked /\ made \in Seq(Made)
  <2>1. \A k \in DOMAIN ranked : Decision(ranked[k], t) \in Made
    BY <1>5
  <2> HIDE DEF Made
  <2>2. made = [k \in 1..Cardinality(I) |-> Decision(ranked[k], t)]
    BY <1>4
  <2>3. made \in [1..Cardinality(I) -> Made]
    BY <1>4, <2>1, <2>2
  <2> HIDE DEF made
  <2>4. made \in Seq(Made)
    <3>1. Cardinality(I) \in Nat
      BY <1>4
    <3>2. QED
      BY <2>3, <3>1
  <2>5. QED
    BY <1>4, <2>3, <2>4
<1>7. \A k \in DOMAIN made : scores[k] \in Int
  BY <1>5
<1> HIDE DEF made, scores, Made
<1> DEFINE sorted == BestFirst(made, scores)
<1>8. /\ DOMAIN sorted = DOMAIN made /\ sorted \in Seq(Made)
      /\ \E place \in [DOMAIN made -> DOMAIN made] :
            /\ \A k, l \in DOMAIN made : place[k] = place[l] => k = l
            /\ \A k \in DOMAIN made : sorted[k] = made[place[k]]
  <2>1. made \in Seq(Made)
    BY <1>6
  <2>2. \A k \in DOMAIN made : scores[k] \in Int
    BY <1>7
  <2>3. QED
    BY <2>1, <2>2, Sorted, SMTT(30)
<1> HIDE DEF sorted
<1>9. PICK place \in [DOMAIN made -> DOMAIN made] :
            /\ \A k, l \in DOMAIN made : place[k] = place[l] => k = l
            /\ \A k \in DOMAIN made : sorted[k] = made[place[k]]
  BY <1>8
<1>10. ASSUME NEW k \in DOMAIN sorted
       PROVE  /\ \E i \in DOMAIN nodes : sorted[k] = Decision(i, t) /\ Eligible(nodes[i], t)
              /\ \A l \in DOMAIN sorted : sorted[k].node = sorted[l].node => k = l
  <2>1. place[k] \in DOMAIN ranked /\ sorted[k] = made[place[k]]
    BY <1>6, <1>8, <1>9
  <2>2. \E i \in DOMAIN nodes : sorted[k] = Decision(i, t) /\ Eligible(nodes[i], t)
    BY <1>5, <2>1
  <2>3. ASSUME NEW l \in DOMAIN sorted, sorted[k].node = sorted[l].node PROVE k = l
    <3>1. place[l] \in DOMAIN ranked /\ sorted[l] = made[place[l]]
      BY <1>6, <1>8, <1>9
    <3>2. ranked[place[k]] = ranked[place[l]]
      BY <1>5, <2>1, <2>3, <3>1
    <3>3. place[k] = place[l]
      BY <1>4, <2>1, <3>1, <3>2
    <3>4. QED
      BY <1>8, <1>9, <3>3
  <2>4. QED
    BY <2>2, <2>3
<1>11. RouteCandidates(t) = sorted
  BY <1>1 DEF sorted
<1>12. QED
  BY <1>10, <1>11

\* Where the model fits an eligible node, wherever its runtime places it.
LEMMA EligibleFits ==
    ASSUME NEW n \in Rows, NEW t \in Tasks, Eligible(n, t), t.provider = "local",
           NEW asked,
           asked = IF t.vram # Unknown THEN t.vram
                   ELSE IF t.model \in DOMAIN Catalog /\ n.gpus # <<>>
                   THEN Catalog[t.model].vram ELSE Unknown,
           asked # Unknown
    PROVE  IF Usable(n, t) # {}
           THEN n.gpus # <<>> /\ \A g \in DOMAIN n.gpus : n.gpus[g].known /\ Free(n.gpus[g]) >= asked + Margin
           ELSE t.fallback /\ HasRam(n, t)
<1>1. LocalOk(n, t)
  BY DEF Eligible
<1>2. t.model \in DOMAIN Catalog => t.model # "none"
  BY SchedulerRows
<1>3. RequiredVram(n, t) = asked
  BY <1>2 DEF RequiredVram, ModelFor
<1>4. CASE Usable(n, t) # {}
  <2>1. Roomy(n, t) = DOMAIN n.gpus /\ DOMAIN n.gpus # {}
    BY <1>3, <1>4 DEF Usable
  <2>2. n.gpus # <<>>
    BY <2>1
  <2>3. \A g \in Roomy(n, t) : n.gpus[g].known /\ Free(n.gpus[g]) >= asked + Margin
    BY <1>3 DEF Roomy
  <2>4. QED
    BY <1>4, <2>1, <2>2, <2>3
<1>5. CASE Usable(n, t) = {}
  <2>1. CpuFallback(n, t)
    BY <1>1, <1>3, <1>5 DEF LocalOk
  <2>2. t.fallback /\ n.ramFree # Unknown
    BY <2>1 DEF CpuFallback
  <2>3. ModelFor(n, t) \in n.models /\ t.model \in {ModelFor(n, t), "none"}
    BY <1>1 DEF LocalOk, ModelFor
  <2>4. IF t.ram \notin {Unknown, 0} THEN n.ramFree >= t.ram
        ELSE ModelFor(n, t) \in DOMAIN Catalog /\ n.ramFree >= Catalog[ModelFor(n, t)].ram
    BY <2>1 DEF CpuFallback
  <2>5. HasRam(n, t)
    BY <2>2, <2>3, <2>4 DEF HasRam
  <2>6. QED
    BY <1>5, <2>2, <2>5
<1>6. QED
  BY <1>4, <1>5

RowsKnownTo == nodes \in Seq(Rows) /\ task \in Tasks

LEMMA RouteSafe ==
    ASSUME RowsKnownTo, Route
    PROVE  RowsKnownTo' /\ PlacementSafe'
<1>1. nodes \in Seq(Rows) /\ task \in Tasks /\ task \in Asks
  BY SchedulerRows DEF RowsKnownTo
<1>2. decisions' = RouteCandidates(task) /\ UNCHANGED <<nodes, task>>
  BY DEF Route
<1>3. CASE CloudDenied(task)
  <2>1. decisions' = <<>>
    BY <1>2, <1>3 DEF RouteCandidates
  <2>2. QED
    BY <1>1, <1>2, <2>1 DEF PlacementSafe, RowsKnownTo
<1>4. CASE ~CloudDenied(task)
  <2>1. \A k \in DOMAIN decisions' :
              /\ \E i \in DOMAIN nodes : decisions'[k] = Decision(i, task) /\ Eligible(nodes[i], task)
              /\ \A l \in DOMAIN decisions' : decisions'[k].node = decisions'[l].node => k = l
    BY <1>1, <1>2, <1>4, ChosenEligible
  <2>2. ~(task.privacy /\ task.provider # "local")
    BY <1>4 DEF CloudDenied
  <2>3. ASSUME NEW k \in DOMAIN decisions', NEW asked, task.provider = "local",
               asked = IF task.vram # Unknown THEN task.vram
                       ELSE IF task.model \in DOMAIN Catalog /\ nodes[decisions'[k].node].gpus # <<>>
                       THEN Catalog[task.model].vram ELSE Unknown,
               asked # Unknown
        PROVE  \/ /\ nodes[decisions'[k].node].gpus # <<>> /\ ~decisions'[k].onCpu
                  /\ \A g \in DOMAIN nodes[decisions'[k].node].gpus :
                        /\ nodes[decisions'[k].node].gpus[g].known
                        /\ Free(nodes[decisions'[k].node].gpus[g]) >= asked + Margin
               \/ decisions'[k].onCpu /\ task.fallback /\ HasRam(nodes[decisions'[k].node], task)
    <3>1. PICK i \in DOMAIN nodes : decisions'[k] = Decision(i, task) /\ Eligible(nodes[i], task)
      BY <2>1
    <3>2. decisions'[k].node = i
      BY <3>1 DEF Decision
    <3> DEFINE n == nodes[i]
    <3>3. n \in Rows
      BY <1>1
    <3>4. asked = IF task.vram # Unknown THEN task.vram
                  ELSE IF task.model \in DOMAIN Catalog /\ n.gpus # <<>>
                  THEN Catalog[task.model].vram ELSE Unknown
      BY <2>3, <3>2
    <3>5. RequiredVram(n, task) # Unknown
      BY <2>3, <3>4, SchedulerRows DEF RequiredVram, ModelFor
    <3>6. decisions'[k].onCpu = (Usable(n, task) = {})
      BY <2>3, <3>1, <3>5 DEF Decision
    <3>7. IF Usable(n, task) # {}
          THEN n.gpus # <<>> /\ \A g \in DOMAIN n.gpus : n.gpus[g].known /\ Free(n.gpus[g]) >= asked + Margin
          ELSE task.fallback /\ HasRam(n, task)
      <4> HIDE DEF n
      <4>1. Eligible(n, task)
        BY <3>1 DEF n
      <4>2. QED
        BY <1>1, <2>3, <3>3, <3>4, <4>1, EligibleFits
    <3>8. nodes[decisions'[k].node] = n
      BY <3>2
    <3>9. QED
      <4> HIDE DEF n
      <4>1. CASE Usable(n, task) # {}
        <5>1. n.gpus # <<>> /\ \A g \in DOMAIN n.gpus : n.gpus[g].known /\ Free(n.gpus[g]) >= asked + Margin
          BY <3>7, <4>1
        <5>2. ~decisions'[k].onCpu
          BY <3>6, <4>1
        <5>3. QED
          BY <3>8, <5>1, <5>2, Zenon
      <4>2. CASE Usable(n, task) = {}
        <5>1. task.fallback /\ HasRam(n, task)
          BY <3>7, <4>2
        <5>2. decisions'[k].onCpu
          BY <3>6, <4>2
        <5>3. QED
          BY <3>8, <5>1, <5>2, Zenon
      <4>3. QED
        BY <4>1, <4>2
  <2>4. nodes' = nodes /\ task' = task
    BY <1>2
  <2>5. ASSUME NEW k \in DOMAIN decisions'
        PROVE  LET n == nodes'[decisions'[k].node]
                   asked == IF task'.vram # Unknown THEN task'.vram
                            ELSE IF task'.model \in DOMAIN Catalog /\ n.gpus # <<>>
                            THEN Catalog[task'.model].vram ELSE Unknown
               IN  task'.provider = "local" /\ asked # Unknown =>
                     \/ /\ n.gpus # <<>> /\ ~decisions'[k].onCpu
                        /\ \A g \in DOMAIN n.gpus : n.gpus[g].known /\ Free(n.gpus[g]) >= asked + Margin
                     \/ decisions'[k].onCpu /\ task'.fallback /\ HasRam(n, task')
    BY <2>3, <2>4, Zenon
  <2>6. (\A i, j \in DOMAIN decisions : decisions[i].node = decisions[j].node => i = j)'
    BY <2>1
  <2>7. PlacementSafe'
    BY <2>2, <2>4, <2>5, <2>6, Zenon DEF PlacementSafe
  <2>8. QED
    BY <1>1, <2>4, <2>7 DEF RowsKnownTo
<1>5. QED
  BY <1>3, <1>4

\* Wherever the runtime of a chosen node places the model, it fits (scheduler.py:191):
\* for any number of nodes and cards.
THEOREM PlacementsSafe == Spec => []PlacementSafe
<1>1. Init => RowsKnownTo /\ PlacementSafe
  <2>1. SUFFICES ASSUME Init PROVE RowsKnownTo /\ PlacementSafe
    OBVIOUS
  <2>2. decisions = Undecided
    BY <2>1 DEF Init, Begins, SchedulerInit, SchedulerIdle
  <2>3. SchedulerInit \/ SchedulerIdle
    BY <2>1 DEF Init, Begins
  <2>4. nodes \in Seq(Rows)
    <3>1. \A S \in SUBSET Rows : [1..Registered -> S] \subseteq Seq(Rows)
      BY SchedulerBounds
    <3>2. nodes = <<>> \/ nodes \in [1..Registered -> NodeRows]
      BY <2>3 DEF SchedulerInit, SchedulerIdle
    <3>3. NodeRows \in SUBSET Rows /\ <<>> \in Seq(Rows)
      BY SchedulerRows
    <3>4. QED
      BY <3>1, <3>2, <3>3
  <2>5. task \in Tasks
    BY <2>3, SchedulerRows DEF SchedulerInit, SchedulerIdle
  <2>6. QED
    BY <2>2, <2>4, <2>5 DEF RowsKnownTo, PlacementSafe
<1>2. RowsKnownTo /\ PlacementSafe /\ [Next]_vars => (RowsKnownTo /\ PlacementSafe)'
  <2>1. SUFFICES ASSUME RowsKnownTo, PlacementSafe, [Next]_vars PROVE (RowsKnownTo /\ PlacementSafe)'
    OBVIOUS
  <2>2. CASE Route
    BY <2>1, <2>2, RouteSafe
  <2>3. CASE UNCHANGED schedulerVars
    BY <2>1, <2>3 DEF schedulerVars, RowsKnownTo, PlacementSafe
  <2>4. QED
    BY <2>1, <2>2, <2>3 DEF Next, vars, SchedulerNext
<1>3. QED
  BY <1>1, <1>2, PTL DEF Spec

--------------------------------------------------------------------------------
(* The lines of a body                                                        *)

\* The members of S up to i: the rank of i in S is their number.
Below(S, i) == {j \in S : j <= i}

\* InOrder lists the members of a set of numbers, each at its rank.
LEMMA OrderRank ==
    ASSUME NEW S \in SUBSET Int, IsFiniteSet(S)
    PROVE  /\ Cardinality(S) \in Nat
           /\ \A k \in 1..Cardinality(S) :
                 InOrder(S)[k] \in S /\ Cardinality(Below(S, InOrder(S)[k])) = k
           /\ \A i \in S : /\ Cardinality(Below(S, i)) \in 1..Cardinality(S)
                           /\ InOrder(S)[Cardinality(Below(S, i))] = i
<1> DEFINE zero == [i \in S |-> 0]
<1>1. \A i \in S : UpTo(S, zero, i) = Below(S, i)
  BY DEF UpTo, Below
<1>2. /\ Cardinality(S) \in Nat
      /\ \A k \in 1..Cardinality(S) :
            /\ Ranked(S, zero)[k] \in S
            /\ Cardinality(UpTo(S, zero, Ranked(S, zero)[k])) = k
  <2>1. \A i \in S : zero[i] \in Int
    OBVIOUS
  <2> HIDE DEF zero
  <2>2. QED
    BY <2>1, Ranks
<1>3. \A k \in 1..Cardinality(S) : InOrder(S)[k] \in S /\ Cardinality(Below(S, InOrder(S)[k])) = k
  BY <1>1, <1>2 DEF InOrder
<1>4. ASSUME NEW i \in S
      PROVE  /\ IsFiniteSet(Below(S, i)) /\ i \in Below(S, i)
             /\ Cardinality(Below(S, i)) \in 1..Cardinality(S)
  <2>1. Below(S, i) \in SUBSET S /\ i \in Below(S, i)
    BY DEF Below
  <2>2. IsFiniteSet(Below(S, i)) /\ Cardinality(Below(S, i)) <= Cardinality(S)
    BY <2>1, FS_Subset
  <2>3. Cardinality(Below(S, i)) \in Nat /\ Cardinality(Below(S, i)) # 0
    BY <2>1, <2>2, FS_CardinalityType, FS_EmptySet
  <2>4. QED
    BY <1>2, <2>1, <2>2, <2>3
<1>5. ASSUME NEW i \in S, NEW j \in S, i < j
      PROVE  Cardinality(Below(S, i)) # Cardinality(Below(S, j))
  <2>1. Below(S, i) \in SUBSET Below(S, j)
    <3>1. i \in Int /\ j \in Int
      OBVIOUS
    <3>2. ASSUME NEW x \in S, x <= i PROVE x <= j
      BY <1>5, <3>1, <3>2
    <3>3. QED
      BY <3>2 DEF Below
  <2>2. j \notin Below(S, i) /\ j \in Below(S, j)
    BY <1>5 DEF Below
  <2>3. QED
    BY <1>4, <2>1, <2>2, FS_Subset
<1>6. ASSUME NEW i \in S PROVE InOrder(S)[Cardinality(Below(S, i))] = i
  <2> DEFINE k == Cardinality(Below(S, i))
             j == InOrder(S)[k]
  <2>1. k \in 1..Cardinality(S)
    BY <1>4
  <2>2. j \in S /\ Cardinality(Below(S, j)) = k
    BY <1>3, <2>1
  <2>3. ~(i < j) /\ ~(j < i)
    BY <1>5, <2>2
  <2>4. i \in Int /\ j \in Int
    BY <2>2
  <2>5. QED
    BY <2>3, <2>4
<1>7. QED
  BY <1>2, <1>3, <1>4, <1>6

\* The members of one set before those of another.
LEMMA OrderJoined ==
    ASSUME NEW A \in SUBSET Int, NEW B \in SUBSET Int, IsFiniteSet(A), IsFiniteSet(B),
           \A a \in A, b \in B : a < b
    PROVE  /\ IsFiniteSet(A \cup B) /\ Cardinality(A \cup B) = Cardinality(A) + Cardinality(B)
           /\ \A k \in 1..Cardinality(A) : InOrder(A \cup B)[k] = InOrder(A)[k]
           /\ \A k \in 1..Cardinality(B) : InOrder(A \cup B)[Cardinality(A) + k] = InOrder(B)[k]
<1>1. A \cup B \in SUBSET Int /\ IsFiniteSet(A \cup B)
  BY FS_Union
<1>2. Cardinality(A) \in Nat /\ Cardinality(B) \in Nat
  BY FS_CardinalityType
<1>3. ASSUME NEW C \in SUBSET B
      PROVE  IsFiniteSet(C) /\ Cardinality(A \cup C) = Cardinality(A) + Cardinality(C)
  <2>1. IsFiniteSet(C)
    BY FS_Subset
  <2>2. A \cap C = {}
    <3>1. ASSUME NEW x \in A, x \in C PROVE FALSE
      <4>1. x < x /\ x \in Int
        BY <3>1
      <4>2. QED
        BY <4>1
    <3>2. QED
      BY <3>1
  <2>3. Cardinality(A \cup C) = Cardinality(A) + Cardinality(C) - Cardinality(A \cap C)
    BY <2>1, FS_Union
  <2>4. Cardinality(A \cap C) = 0
    BY <2>2, FS_EmptySet
  <2>5. Cardinality(C) \in Nat
    BY <2>1, FS_CardinalityType
  <2>6. QED
    BY <1>2, <2>1, <2>3, <2>4, <2>5
<1>4. ASSUME NEW k \in 1..Cardinality(A) PROVE InOrder(A \cup B)[k] = InOrder(A)[k]
  <2> DEFINE i == InOrder(A)[k]
  <2>1. i \in A /\ Cardinality(Below(A, i)) = k
    BY OrderRank
  <2> HIDE DEF i
  <2>2. Below(A \cup B, i) = Below(A, i)
    <3>1. ASSUME NEW b \in B PROVE ~(b <= i)
      <4>1. i < b /\ i \in Int /\ b \in Int
        BY <2>1
      <4>2. QED
        BY <4>1
    <3>2. QED
      BY <3>1 DEF Below
  <2>3. InOrder(A \cup B)[Cardinality(Below(A \cup B, i))] = i
    BY <1>1, <2>1, OrderRank
  <2>4. QED
    BY <2>1, <2>2, <2>3 DEF i
<1>5. ASSUME NEW k \in 1..Cardinality(B)
      PROVE  InOrder(A \cup B)[Cardinality(A) + k] = InOrder(B)[k]
  <2> DEFINE i == InOrder(B)[k]
  <2>1. i \in B /\ Cardinality(Below(B, i)) = k
    BY OrderRank
  <2> HIDE DEF i
  <2>2. Below(A \cup B, i) = A \cup Below(B, i)
    <3>1. ASSUME NEW a \in A PROVE a <= i
      <4>1. a < i /\ i \in Int /\ a \in Int
        BY <2>1
      <4>2. QED
        BY <4>1
    <3>2. QED
      BY <3>1 DEF Below
  <2>3. InOrder(A \cup B)[Cardinality(Below(A \cup B, i))] = i
    BY <1>1, <2>1, OrderRank
  <2>4. Below(B, i) \in SUBSET B
    BY DEF Below
  <2>5. Cardinality(Below(A \cup B, i)) = Cardinality(A) + k
    BY <1>3, <2>1, <2>2, <2>4
  <2>6. QED
    BY <2>3, <2>5 DEF i
<1>6. QED
  BY <1>1, <1>3, <1>4, <1>5

\* A set of places, L further on.
Moved(S, L) == {j + L : j \in S}

LEMMA MovedCounts ==
    ASSUME NEW S \in SUBSET Int, IsFiniteSet(S), NEW L \in Int
    PROVE  IsFiniteSet(Moved(S, L)) /\ Cardinality(Moved(S, L)) = Cardinality(S)
<1> DEFINE f == [j \in S |-> j + L]
<1>1. f \in [S -> Moved(S, L)] /\ \A y \in Moved(S, L) : \E j \in S : f[j] = y
  BY DEF Moved
<1>2. \A i, j \in S : f[i] = f[j] => i = j
  <2>1. ASSUME NEW i \in S, NEW j \in S, i + L = j + L PROVE i = j
    <3>1. i \in Int /\ j \in Int
      OBVIOUS
    <3>2. QED
      BY <2>1, <3>1
  <2>2. QED
    BY <2>1
<1>3. f \in Bijection(S, Moved(S, L))
  <2> HIDE DEF f
  <2>1. QED
    BY <1>1, <1>2 DEF Bijection, Injection, IsInjective, Surjection
<1>4. ExistsBijection(S, Moved(S, L))
  BY <1>3 DEF ExistsBijection
<1>5. QED
  BY <1>4, FS_Bijection

\* The order does not depend on where the numbers are.
LEMMA OrderMoved ==
    ASSUME NEW S \in SUBSET Int, IsFiniteSet(S), NEW L \in Int
    PROVE  /\ Moved(S, L) \in SUBSET Int /\ IsFiniteSet(Moved(S, L))
           /\ Cardinality(Moved(S, L)) = Cardinality(S)
           /\ \A k \in 1..Cardinality(S) : InOrder(Moved(S, L))[k] = InOrder(S)[k] + L
<1>1. Moved(S, L) \in SUBSET Int
  <2>1. ASSUME NEW j \in S PROVE j + L \in Int
    <3>1. j \in Int
      OBVIOUS
    <3>2. QED
      BY <3>1
  <2>2. QED
    BY <2>1 DEF Moved
<1>2. IsFiniteSet(Moved(S, L)) /\ Cardinality(Moved(S, L)) = Cardinality(S)
  BY MovedCounts
<1>3. ASSUME NEW k \in 1..Cardinality(S) PROVE InOrder(Moved(S, L))[k] = InOrder(S)[k] + L
  <2> DEFINE i == InOrder(S)[k]
  <2>1. i \in S /\ Cardinality(Below(S, i)) = k
    BY OrderRank
  <2> HIDE DEF i
  <2>2. Below(Moved(S, L), i + L) = Moved(Below(S, i), L)
    <3>1. ASSUME NEW j \in S PROVE j + L <= i + L <=> j <= i
      <4>1. i \in Int /\ j \in Int
        BY <2>1
      <4>2. QED
        BY <4>1
    <3>2. QED
      BY <3>1 DEF Below, Moved
  <2>3. Below(S, i) \in SUBSET Int /\ IsFiniteSet(Below(S, i))
    <3>1. Below(S, i) \in SUBSET S
      BY DEF Below
    <3>2. QED
      BY <3>1, FS_Subset
  <2>4. Cardinality(Below(Moved(S, L), i + L)) = k
    BY <2>1, <2>2, <2>3, MovedCounts
  <2>5. i + L \in Moved(S, L)
    BY <2>1 DEF Moved
  <2>6. InOrder(Moved(S, L))[Cardinality(Below(Moved(S, L), i + L))] = i + L
    BY <1>1, <1>2, <2>5, OrderRank
  <2>7. QED
    BY <2>4, <2>6 DEF i
<1>4. QED
  BY <1>1, <1>2, <1>3

LEMMA LeastNumber == ASSUME NEW S, S \subseteq Nat, S # {} PROVE \E x \in S : \A y \in S : x <= y
<1> DEFINE R == {ss \in Nat \X Nat : ss[1] < ss[2]}
<1>1. IsWellFoundedOn(R, Nat)
  BY NatLessThanWellFounded DEF OpToRel
<1>2. PICK x \in S : \A y \in S : <<y, x>> \notin R
  <2> HIDE DEF R
  <2> QED
    BY <1>1, WFMin
<1>3. ASSUME NEW y \in S PROVE x <= y
  <2>1. x \in Nat /\ y \in Nat /\ <<y, x>> \in Nat \X Nat
    OBVIOUS
  <2>2. ~(y < x)
    BY <1>2, <2>1
  <2>3. QED
    BY <2>1, <2>2
<1>4. QED
  BY <1>3

\* What holds of 0, and of each number that follows one of which it holds.
LEMMA Along ==
    ASSUME NEW good, NEW last \in Nat, 0 \in good,
           \A k \in 1..last : k - 1 \in good => k \in good
    PROVE  \A k \in 0..last : k \in good
<1> DEFINE bad == {k \in 0..last : k \notin good}
<1>1. SUFFICES ASSUME bad # {} PROVE FALSE
  OBVIOUS
<1>2. PICK n \in bad : \A k \in bad : n <= k
  <2>1. bad \subseteq Nat
    OBVIOUS
  <2> HIDE DEF bad
  <2>2. QED
    BY <1>1, <2>1, LeastNumber
<1>3. n \in 1..last
  OBVIOUS
<1>4. n - 1 \in 0..last /\ ~(n <= n - 1)
  BY <1>3
<1>5. n - 1 \notin bad
  <2> HIDE DEF bad
  <2>1. QED
    BY <1>2, <1>4
<1>6. QED
  BY <1>2, <1>3, <1>4, <1>5

\* A function that is defined step by step exists.
ClosedUnder(step, S, last) == \A k \in 1..last, e \in S : step[<<k, e>>] \in S

Iteration(f, start, step, S, last) ==
    /\ f \in [0..last -> S] /\ f[0] = start
    /\ \A k \in 1..last : f[k] = step[<<k, f[k - 1]>>]

LEMMA Iterated ==
    ASSUME NEW S, NEW start \in S, NEW last \in Nat, NEW step, ClosedUnder(step, S, last)
    PROVE  \E f : Iteration(f, start, step, S, last)
<1> DEFINE Runs(f, n) == Iteration(f, start, step, S, n)
           good == {n \in Nat : \E f : Runs(f, n)}
<1>1. 0 \in good
  <2>1. Runs([k \in 0..0 |-> start], 0)
    BY DEF Iteration
  <2> HIDE DEF Runs
  <2>2. QED
    BY <2>1
<1>2. ASSUME NEW n \in 1..last, n - 1 \in good PROVE n \in good
  <2>1. n \in Nat /\ n - 1 \in Nat
    OBVIOUS
  <2>2. PICK f : Runs(f, n - 1)
    BY <1>2
  <2>3. /\ f \in [0..n - 1 -> S] /\ f[0] = start
        /\ \A k \in 1..n - 1 : f[k] = step[<<k, f[k - 1]>>]
    BY <2>2 DEF Iteration
  <2> DEFINE g == [k \in 0..n |-> IF k = n THEN step[<<n, f[n - 1]>>] ELSE f[k]]
  <2>4. g \in [0..n -> S]
    <3>1. f[n - 1] \in S
      BY <2>1, <2>3
    <3>2. step[<<n, f[n - 1]>>] \in S
      BY <3>1 DEF ClosedUnder
    <3>3. \A k \in 0..n : k # n => f[k] \in S
      BY <2>1, <2>3
    <3>4. QED
      BY <3>2, <3>3
  <2>5. g[0] = start
    BY <2>1, <2>3
  <2>6. ASSUME NEW k \in 1..n PROVE g[k] = step[<<k, g[k - 1]>>]
    <3>1. k \in 0..n /\ k - 1 \in 0..n /\ k - 1 # n
      BY <2>1
    <3>2. g[k - 1] = f[k - 1]
      BY <3>1
    <3>3. CASE k = n
      BY <3>1, <3>2, <3>3
    <3>4. CASE k # n
      <4>1. k \in 1..n - 1
        BY <2>1, <3>4
      <4>2. QED
        BY <2>3, <3>1, <3>2, <3>4, <4>1
    <3>5. QED
      BY <3>3, <3>4
  <2>7. Runs(g, n)
    <3> HIDE DEF g
    <3>1. QED
      BY <2>4, <2>5, <2>6 DEF Iteration
  <2>8. QED
    <3> HIDE DEF Runs
    <3>1. QED
      BY <2>1, <2>7
<1>3. last \in good
  <2> HIDE DEF good
  <2>1. \A k \in 0..last : k \in good
    BY <1>1, <1>2, Along
  <2>2. QED
    BY <2>1
<1>4. QED
  BY <1>3

LEMMA Stripped ==
    ASSUME NEW T, NEW line \in Seq(T)
    PROVE  StripReturn(line) \in Seq(T) /\ (line = <<>> => StripReturn(line) = <<>>)
<1> DEFINE endings == {n \in 0..Len(line) : \A k \in n + 1..Len(line) : line[k] = "r"}
           n == CHOOSE n \in endings : \A m \in endings : n <= m
<1>1. Len(line) \in Nat /\ \A i \in 1..Len(line) : line[i] \in T
  BY LenProperties
<1>2. Len(line) \in endings /\ endings \subseteq Nat
  BY <1>1
<1>3. n \in endings
  <2> HIDE DEF endings
  <2>1. \E x \in endings : \A y \in endings : x <= y
    BY <1>2, LeastNumber
  <2>2. QED
    BY <2>1
<1>4. StripReturn(line) = SubSeq(line, 1, n)
  BY DEF StripReturn
<1>5. n \in 0..Len(line)
  BY <1>3
<1> HIDE DEF n, endings
<1>6. SubSeq(line, 1, n) \in Seq(T)
  <2>1. 1 \in Int /\ n \in Int /\ \A i \in 1..n : line[i] \in T
    BY <1>1, <1>5
  <2>2. QED
    BY <2>1, SubSeqProperties
<1>7. ASSUME line = <<>> PROVE SubSeq(line, 1, n) = <<>>
  <2>1. 1 \in Int /\ n \in Int /\ n < 1
    BY <1>5, <1>7
  <2>2. QED
    BY <2>1, SubSeqEmpty
<1>8. QED
  BY <1>4, <1>6, <1>7

\* From its place L on, one text reads as the other.
Shifted(u, v, L) == \A i \in 1..Len(u), j \in 1..Len(v) : j = i + L => v[j] = u[i]

\* The same stretch of two texts.
Alike(u, v, L, m, n, first, last) ==
    /\ m \in Int /\ n \in Int /\ first \in Int /\ last \in Int
    /\ m >= 1 /\ n <= Len(u) /\ first >= 1 /\ last <= Len(v)
    /\ L \in Int /\ Shifted(u, v, L) /\ first = m + L /\ last = n + L

\* The places m to n of a text.
Stretch(s, m, n) == SubSeq(s, m, n)

LEMMA SameStretch ==
    ASSUME NEW T, NEW u \in Seq(T), NEW v \in Seq(T),
           NEW L, NEW m, NEW n, NEW first, NEW last, Alike(u, v, L, m, n, first, last)
    PROVE  Stretch(v, first, last) = Stretch(u, m, n)
<1>0. /\ m \in Int /\ n \in Int /\ first \in Int /\ last \in Int
      /\ m >= 1 /\ n <= Len(u) /\ first >= 1 /\ last <= Len(v)
  BY DEF Alike
<1>L. Len(u) \in Nat /\ Len(v) \in Nat
  BY LenProperties
<1>S. L \in Int /\ Shifted(u, v, L) /\ first = m + L /\ last = n + L
  BY DEF Alike
<1>1. /\ Len(u) \in Nat /\ Len(v) \in Nat
      /\ \A i \in 1..Len(u) : u[i] \in T
      /\ \A i \in 1..Len(v) : v[i] \in T
  BY LenProperties
<1>2. /\ SubSeq(u, m, n) \in Seq(T)
      /\ Len(SubSeq(u, m, n)) = IF m <= n THEN n - m + 1 ELSE 0
      /\ \A i \in 1..n - m + 1 : SubSeq(u, m, n)[i] = u[m + i - 1]
  <2>1. \A i \in m..n : u[i] \in T
    BY <1>0, <1>1
  <2>2. QED
    BY <1>0, <2>1, SubSeqProperties
<1>3. /\ SubSeq(v, first, last) \in Seq(T)
      /\ Len(SubSeq(v, first, last)) = IF first <= last THEN last - first + 1 ELSE 0
      /\ \A i \in 1..last - first + 1 : SubSeq(v, first, last)[i] = v[first + i - 1]
  <2>1. \A i \in first..last : v[i] \in T
    BY <1>0, <1>1
  <2>2. QED
    BY <1>0, <2>1, SubSeqProperties
<1>4. Len(SubSeq(v, first, last)) = Len(SubSeq(u, m, n))
  BY <1>0, <1>S, <1>2, <1>3
<1>5. ASSUME NEW k \in 1..Len(SubSeq(u, m, n)) PROVE SubSeq(v, first, last)[k] = SubSeq(u, m, n)[k]
  <2> DEFINE i == m + k - 1
             j == first + k - 1
  <2>1. k \in 1..n - m + 1 /\ k \in 1..last - first + 1
    BY <1>0, <1>S, <1>2
  <2>2. SubSeq(u, m, n)[k] = u[i] /\ SubSeq(v, first, last)[k] = v[j]
    BY <1>2, <1>3, <2>1
  <2>3. i \in 1..Len(u) /\ j \in 1..Len(v) /\ j = i + L
    BY <1>0, <1>L, <1>S, <2>1
  <2> HIDE DEF i, j
  <2>4. v[j] = u[i]
    BY <1>S, <2>3 DEF Shifted
  <2>5. QED
    BY <2>2, <2>4
<1>6. SubSeq(v, first, last) = SubSeq(u, m, n)
  BY <1>2, <1>3, <1>4, <1>5, SeqEqual
<1>7. QED
  BY <1>6 DEF Stretch

\* Where the last complete line of a text ends.
LastEnd(given) ==
    IF Newlines(given) = {} THEN 0 ELSE InOrder(Newlines(given))[Cardinality(Newlines(given))]

LEMMA EndsOfLines ==
    ASSUME NEW T, NEW given \in Seq(T)
    PROVE  /\ Newlines(given) \in SUBSET Int /\ IsFiniteSet(Newlines(given))
           /\ Cardinality(Newlines(given)) \in Nat
           /\ LastEnd(given) \in 0..Len(given) /\ Len(given) \in Nat
           /\ \A j \in Newlines(given) : j \in 1..LastEnd(given)
           /\ Cardinality(Newlines(given)) > 0
                 => LastEnd(given) = InOrder(Newlines(given))[Cardinality(Newlines(given))]
           /\ Cardinality(Newlines(given)) = 0 => LastEnd(given) = 0
           /\ RestOf(given) = SubSeq(given, LastEnd(given) + 1, Len(given))
<1> DEFINE E == Newlines(given)
<1>1. Len(given) \in Nat /\ DOMAIN given = 1..Len(given)
  BY LenProperties
<1>2. E \subseteq DOMAIN given
  BY DEF Newlines
<1>3. E \in SUBSET Int /\ IsFiniteSet(E)
  BY <1>2, PositionsFinite
<1>4. RestOf(given) = SubSeq(given, LastEnd(given) + 1, Len(given))
  BY DEF RestOf, LastEnd
<1>5. Cardinality(E) \in Nat /\ (Cardinality(E) = 0 <=> E = {})
  BY <1>3, FS_CardinalityType, FS_EmptySet
<1>6. CASE E = {}
  BY <1>1, <1>3, <1>4, <1>5, <1>6 DEF LastEnd
<1>7. CASE E # {}
  <2> DEFINE L == LastEnd(given)
  <2>1. L = InOrder(E)[Cardinality(E)]
    BY <1>7 DEF LastEnd
  <2> HIDE DEF L, E
  <2>2. Cardinality(E) \in 1..Cardinality(E)
    BY <1>5, <1>7
  <2>3. L \in E /\ Cardinality(Below(E, L)) = Cardinality(E)
    BY <1>3, <2>1, <2>2, OrderRank
  <2>4. Below(E, L) \in SUBSET E
    BY DEF Below
  <2>5. Below(E, L) = E
    BY <1>3, <2>3, <2>4, FS_Subset
  <2>6. \A j \in E : j <= L
    BY <2>5 DEF Below
  <2>7. QED
    BY <1>1, <1>2, <1>3, <1>4, <1>5, <1>7, <2>1, <2>3, <2>6 DEF L, E
<1>8. QED
  BY <1>6, <1>7

\* The line that ends with the k-th newline.
LineOf(given, k) ==
    StripReturn(SubSeq(given, IF k = 1 THEN 1 ELSE InOrder(Newlines(given))[k - 1] + 1,
                             InOrder(Newlines(given))[k] - 1))

LEMMA LinesListed ==
    ASSUME NEW T, NEW given \in Seq(T)
    PROVE  /\ LinesOf(given) \in Seq(Seq(T)) /\ Len(LinesOf(given)) = Cardinality(Newlines(given))
           /\ \A k \in 1..Cardinality(Newlines(given)) : LinesOf(given)[k] = LineOf(given, k)
           /\ \A k \in 1..Cardinality(Newlines(given)) :
                 InOrder(Newlines(given))[k] \in 1..Len(given)
<1> DEFINE E == Newlines(given)
           n == Cardinality(E)
<1>1. /\ E \in SUBSET Int /\ IsFiniteSet(E) /\ n \in Nat /\ Len(given) \in Nat
      /\ LastEnd(given) \in 0..Len(given) /\ \A j \in E : j \in 1..LastEnd(given)
  BY EndsOfLines
<1>2. \A k \in 1..n : InOrder(E)[k] \in 1..Len(given)
  <2> HIDE DEF E
  <2>1. \A k \in 1..n : InOrder(E)[k] \in E
    BY <1>1, OrderRank
  <2>2. ASSUME NEW j \in E PROVE j \in 1..Len(given)
    <3>1. j \in 1..LastEnd(given)
      BY <1>1
    <3>2. QED
      BY <1>1, <3>1
  <2>3. QED
    BY <2>1, <2>2
<1>3. DOMAIN InOrder(E) = 1..n
  BY DEF InOrder, Ranked
<1>4. LinesOf(given) = [k \in 1..n |-> LineOf(given, k)]
  BY <1>3 DEF LinesOf, LineOf
<1>5. ASSUME NEW k \in 1..n PROVE LineOf(given, k) \in Seq(T)
  <2> DEFINE first == IF k = 1 THEN 1 ELSE InOrder(E)[k - 1] + 1
             last == InOrder(E)[k] - 1
  <2>1. first \in Int /\ first >= 1
    <3>1. CASE k = 1
      BY <3>1
    <3>2. CASE k # 1
      <4>1. k - 1 \in 1..n
        BY <1>1, <3>2
      <4>2. InOrder(E)[k - 1] \in 1..Len(given)
        BY <1>2, <4>1
      <4>3. QED
        BY <1>1, <3>2, <4>2
    <3>3. QED
      BY <3>1, <3>2
  <2>2. last \in Int /\ last <= Len(given)
    BY <1>1, <1>2
  <2>3. LineOf(given, k) = StripReturn(SubSeq(given, first, last))
    BY DEF LineOf
  <2> HIDE DEF first, last
  <2>4. \A i \in first..last : given[i] \in T
    <3>1. \A i \in 1..Len(given) : given[i] \in T
      BY LenProperties
    <3>2. QED
      BY <1>1, <2>1, <2>2, <3>1
  <2>5. SubSeq(given, first, last) \in Seq(T)
    BY <2>1, <2>2, <2>4, SubSeqProperties
  <2>6. QED
    BY <2>3, <2>5, Stripped
<1> HIDE DEF n, E
<1>6. LinesOf(given) \in [1..n -> Seq(T)]
  BY <1>4, <1>5
<1>7. LinesOf(given) \in Seq(Seq(T)) /\ Len(LinesOf(given)) = n
  BY <1>1, <1>6
<1>8. QED
  BY <1>2, <1>4, <1>7 DEF n, E

\* What is held of a text when more of it arrives.
Held(given, more) == RestOf(given) \o more

LEMMA HeldBack ==
    ASSUME NEW T, NEW given \in Seq(T), NEW more \in Seq(T)
    PROVE  /\ RestOf(given) \in Seq(T) /\ Held(given, more) \in Seq(T) /\ given \o more \in Seq(T)
           /\ Len(RestOf(given)) = Len(given) - LastEnd(given)
           /\ Len(Held(given, more)) = Len(given \o more) - LastEnd(given)
           /\ Len(given \o more) \in Nat /\ Len(given) <= Len(given \o more)
           /\ LastEnd(given) \in 0..Len(given)
           /\ Shifted(Held(given, more), given \o more, LastEnd(given))
           /\ Shifted(given, given \o more, 0)
<1> DEFINE L == LastEnd(given)
           rest == RestOf(given)
           held == Held(given, more)
           whole == given \o more
<1>1. /\ Len(given) \in Nat /\ Len(more) \in Nat /\ \A i \in 1..Len(given) : given[i] \in T
  BY LenProperties
<1>2. L \in 0..Len(given) /\ rest = SubSeq(given, L + 1, Len(given))
  BY EndsOfLines
<1> HIDE DEF L, rest
<1>3. /\ rest \in Seq(T) /\ Len(rest) = Len(given) - L
      /\ \A i \in 1..Len(rest) : rest[i] = given[i + L]
  <2> DEFINE first == L + 1
  <2>1. first \in 1..Len(given) + 1 /\ Len(given) \in Int /\ \A i \in first..Len(given) : given[i] \in T
    BY <1>1, <1>2
  <2>2. /\ SubSeq(given, first, Len(given)) \in Seq(T)
        /\ Len(SubSeq(given, first, Len(given))) = IF first <= Len(given) THEN Len(given) - first + 1 ELSE 0
        /\ \A i \in 1..Len(given) - first + 1 : SubSeq(given, first, Len(given))[i] = given[first + i - 1]
    <3> HIDE DEF first
    <3>1. QED
      BY <2>1, SubSeqProperties
  <2>3. Len(rest) = Len(given) - L
    BY <1>1, <1>2, <2>1, <2>2
  <2>4. ASSUME NEW i \in 1..Len(rest) PROVE rest[i] = given[i + L]
    <3>1. i \in 1..Len(given) - first + 1 /\ first + i - 1 = i + L
      BY <1>1, <1>2, <2>3
    <3>2. QED
      BY <1>2, <2>2, <3>1
  <2>5. QED
    BY <1>2, <2>2, <2>3, <2>4
<1>4. /\ held \in Seq(T) /\ Len(held) = Len(rest) + Len(more)
      /\ \A i \in 1..Len(rest) + Len(more) : held[i] = IF i <= Len(rest) THEN rest[i] ELSE more[i - Len(rest)]
  <2>1. held = rest \o more
    BY DEF Held, rest
  <2>2. /\ rest \o more \in Seq(T) /\ Len(rest \o more) = Len(rest) + Len(more)
        /\ \A i \in 1..Len(rest) + Len(more) :
              (rest \o more)[i] = IF i <= Len(rest) THEN rest[i] ELSE more[i - Len(rest)]
    BY <1>3, ConcatProperties
  <2> HIDE DEF held
  <2>3. QED
    BY <2>1, <2>2
<1>5. /\ whole \in Seq(T) /\ Len(whole) = Len(given) + Len(more)
      /\ \A i \in 1..Len(given) + Len(more) : whole[i] = IF i <= Len(given) THEN given[i] ELSE more[i - Len(given)]
  BY ConcatProperties
<1> HIDE DEF held, whole
<1>6. /\ Len(held) = Len(whole) - L /\ Len(whole) \in Nat /\ Len(given) <= Len(whole)
      /\ Len(rest) \in Nat
  BY <1>1, <1>2, <1>3, <1>4, <1>5
<1>7. ASSUME NEW i \in 1..Len(held), NEW j \in 1..Len(whole), j = i + L PROVE held[i] = whole[j]
  <2>1. i \in 1..Len(rest) + Len(more) /\ j \in 1..Len(given) + Len(more)
    BY <1>4, <1>5
  <2>2. L \in Int /\ Len(given) \in Nat /\ Len(rest) = Len(given) - L
    BY <1>1, <1>2, <1>3
  <2>3. CASE i <= Len(rest)
    <3>1. j <= Len(given) /\ i \in 1..Len(rest)
      BY <1>7, <2>2, <2>3
    <3>2. held[i] = rest[i] /\ whole[j] = given[j]
      BY <1>4, <1>5, <2>1, <2>3, <3>1
    <3>3. rest[i] = given[i + L]
      BY <1>3, <3>1
    <3>4. QED
      BY <1>7, <3>2, <3>3
  <2>4. CASE ~(i <= Len(rest))
    <3>1. ~(j <= Len(given)) /\ j - Len(given) = i - Len(rest)
      BY <1>7, <2>2, <2>4
    <3>2. held[i] = more[i - Len(rest)]
      BY <1>4, <2>1, <2>4
    <3>3. whole[j] = more[j - Len(given)]
      BY <1>5, <2>1, <3>1
    <3>4. more[j - Len(given)] = more[i - Len(rest)]
      BY <3>1
    <3>5. QED
      BY <3>2, <3>3, <3>4
  <2>5. QED
    BY <2>3, <2>4
<1>8. Shifted(held, whole, L)
  BY <1>7 DEF Shifted
<1>9. Shifted(given, whole, 0)
  <2>1. ASSUME NEW i \in 1..Len(given), NEW j \in 1..Len(whole), j = i + 0 PROVE whole[j] = given[i]
    <3>1. j = i /\ i <= Len(given) /\ i \in 1..Len(given) + Len(more)
      BY <1>1, <2>1
    <3>2. QED
      BY <1>5, <3>1
  <2>2. QED
    BY <2>1 DEF Shifted
<1>10. QED
  BY <1>2, <1>3, <1>4, <1>5, <1>6, <1>8, <1>9 DEF L, rest, held, whole

\* The newlines of a text that goes on: those it had, and those of what is held.
LEMMA NewlinesJoined ==
    ASSUME NEW T, NEW given \in Seq(T), NEW more \in Seq(T)
    PROVE  /\ Cardinality(Newlines(given \o more))
                = Cardinality(Newlines(given)) + Cardinality(Newlines(Held(given, more)))
           /\ \A k \in 1..Cardinality(Newlines(given)) :
                 InOrder(Newlines(given \o more))[k] = InOrder(Newlines(given))[k]
           /\ \A k \in 1..Cardinality(Newlines(Held(given, more))), l \in Int :
                 l = Cardinality(Newlines(given)) + k
                    => InOrder(Newlines(given \o more))[l]
                          = InOrder(Newlines(Held(given, more)))[k] + LastEnd(given)
<1> DEFINE L == LastEnd(given)
           held == Held(given, more)
           whole == given \o more
           A == Newlines(given)
           H == Newlines(held)
           B == Moved(H, L)
<1>1. /\ held \in Seq(T) /\ whole \in Seq(T) /\ Len(whole) \in Nat
      /\ Len(held) = Len(whole) - L /\ L \in 0..Len(given) /\ Len(given) <= Len(whole)
      /\ Shifted(held, whole, L) /\ Shifted(given, whole, 0)
  BY HeldBack
<1>2. /\ A \in SUBSET Int /\ IsFiniteSet(A) /\ Len(given) \in Nat
      /\ \A j \in A : j \in 1..L
  BY EndsOfLines
<1> HIDE DEF L, held, whole
<1>3. H \in SUBSET Int /\ IsFiniteSet(H)
  BY <1>1, EndsOfLines
<1>4. L \in Int
  BY <1>1, <1>2
<1>5. /\ B \in SUBSET Int /\ IsFiniteSet(B) /\ Cardinality(B) = Cardinality(H)
      /\ \A k \in 1..Cardinality(H) : InOrder(B)[k] = InOrder(H)[k] + L
  <2> HIDE DEF H
  <2>1. QED
    BY <1>3, <1>4, OrderMoved
<1>6. /\ DOMAIN given = 1..Len(given) /\ DOMAIN held = 1..Len(held) /\ DOMAIN whole = 1..Len(whole)
      /\ Len(held) \in Nat
  BY <1>1, LenProperties
<1>7. Newlines(whole) = A \cup B
  <2>1. ASSUME NEW j \in Newlines(whole) PROVE j \in A \cup B
    <3>1. j \in 1..Len(whole) /\ whole[j] = "n"
      BY <1>6 DEF Newlines
    <3>2. CASE j <= L
      <4>1. j \in 1..Len(given) /\ j = j + 0
        BY <1>1, <1>2, <3>1, <3>2
      <4>2. given[j] = "n"
        BY <1>1, <3>1, <4>1 DEF Shifted
      <4>3. QED
        BY <1>6, <4>1, <4>2 DEF Newlines
    <3>3. CASE ~(j <= L)
      <4>1. PICK i \in 1..Len(held) : j = i + L
        <5>1. j - L \in 1..Len(held) /\ j = (j - L) + L
          BY <1>1, <1>4, <3>1, <3>3
        <5>2. QED
          BY <5>1
      <4>2. held[i] = "n"
        BY <1>1, <3>1, <4>1 DEF Shifted
      <4>3. i \in H
        BY <1>6, <4>2 DEF Newlines
      <4>4. QED
        BY <4>1, <4>3 DEF Moved
    <3>4. QED
      BY <3>2, <3>3
  <2>2. ASSUME NEW j \in A PROVE j \in Newlines(whole)
    <3>1. j \in 1..Len(given) /\ given[j] = "n"
      BY <1>6 DEF Newlines
    <3>2. j \in 1..Len(whole) /\ j = j + 0
      BY <1>1, <1>2, <3>1
    <3>3. whole[j] = "n"
      BY <1>1, <3>1, <3>2 DEF Shifted
    <3>4. QED
      BY <1>6, <3>2, <3>3 DEF Newlines
  <2>3. ASSUME NEW i \in H PROVE i + L \in Newlines(whole)
    <3>1. i \in 1..Len(held) /\ held[i] = "n"
      BY <1>6 DEF Newlines
    <3> DEFINE j == i + L
    <3>2. j \in 1..Len(whole) /\ j = i + L
      BY <1>1, <1>4, <3>1
    <3> HIDE DEF j
    <3>3. whole[j] = "n"
      BY <1>1, <3>1, <3>2 DEF Shifted
    <3>4. j \in Newlines(whole)
      BY <1>6, <3>2, <3>3 DEF Newlines
    <3>5. QED
      BY <3>4 DEF j
  <2>4. QED
    BY <2>1, <2>2, <2>3 DEF Moved
<1>8. \A a \in A, b \in B : a < b
  <2>1. ASSUME NEW a \in A, NEW i \in H PROVE a < i + L
    <3>1. i \in 1..Len(held) /\ a \in 1..L
      BY <1>2, <1>6 DEF Newlines
    <3>2. QED
      BY <1>4, <1>6, <3>1
  <2>2. QED
    BY <2>1 DEF Moved
<1> HIDE DEF A, B, H
<1>9. /\ Cardinality(A \cup B) = Cardinality(A) + Cardinality(B)
      /\ \A k \in 1..Cardinality(A) : InOrder(A \cup B)[k] = InOrder(A)[k]
      /\ \A k \in 1..Cardinality(B) : InOrder(A \cup B)[Cardinality(A) + k] = InOrder(B)[k]
  BY <1>2, <1>5, <1>8, OrderJoined
<1>10. ASSUME NEW k \in 1..Cardinality(H), NEW l \in Int, l = Cardinality(A) + k
       PROVE  InOrder(Newlines(whole))[l] = InOrder(H)[k] + L
  BY <1>5, <1>7, <1>9, <1>10
<1>11. Cardinality(Newlines(whole)) = Cardinality(A) + Cardinality(H)
       /\ \A k \in 1..Cardinality(A) : InOrder(Newlines(whole))[k] = InOrder(A)[k]
  BY <1>5, <1>7, <1>9
<1>12. QED
  BY <1>10, <1>11 DEF A, H, L, held, whole

\* Chunks make no difference: the lines of what was read, and those that what was
\* held back gives with the next chunk, are the lines of it all.
LEMMA ChunksJoin ==
    ASSUME NEW T, NEW given \in Seq(T), NEW more \in Seq(T)
    PROVE  /\ LinesOf(given \o more) = LinesOf(given) \o LinesOf(Held(given, more))
           /\ RestOf(given \o more) = RestOf(Held(given, more))
<1> DEFINE L == LastEnd(given)
           held == Held(given, more)
           whole == given \o more
           n == Cardinality(Newlines(given))
           m == Cardinality(Newlines(held))
           ends == InOrder(Newlines(given))
           here == InOrder(Newlines(held))
           every == InOrder(Newlines(whole))
<1>1. /\ held \in Seq(T) /\ whole \in Seq(T) /\ Len(whole) \in Nat
      /\ Len(held) = Len(whole) - L /\ L \in 0..Len(given) /\ Len(given) <= Len(whole)
      /\ Shifted(held, whole, L) /\ Shifted(given, whole, 0)
  BY HeldBack
<1>2. /\ n \in Nat /\ Len(given) \in Nat /\ (n > 0 => L = ends[n]) /\ (n = 0 => L = 0)
  BY EndsOfLines
<1>3. /\ Cardinality(Newlines(whole)) = n + m
      /\ \A k \in 1..n : every[k] = ends[k]
      /\ \A k \in 1..m, l \in Int : l = n + k => every[l] = here[k] + L
  BY NewlinesJoined
<1>4. /\ LinesOf(given) \in Seq(Seq(T)) /\ Len(LinesOf(given)) = n
      /\ \A k \in 1..n : LinesOf(given)[k] = LineOf(given, k)
      /\ \A k \in 1..n : ends[k] \in 1..Len(given)
  BY LinesListed
<1> HIDE DEF held, whole
<1>5. /\ LinesOf(held) \in Seq(Seq(T)) /\ Len(LinesOf(held)) = m /\ m \in Nat
      /\ \A k \in 1..m : LinesOf(held)[k] = LineOf(held, k)
      /\ \A k \in 1..m : here[k] \in 1..Len(held)
      /\ LinesOf(whole) \in Seq(Seq(T)) /\ Len(LinesOf(whole)) = n + m
      /\ \A k \in 1..n + m : LinesOf(whole)[k] = LineOf(whole, k)
  BY <1>1, <1>3, LinesListed, EndsOfLines
<1>6. /\ \A k : LineOf(given, k) = StripReturn(SubSeq(given, IF k = 1 THEN 1 ELSE ends[k - 1] + 1, ends[k] - 1))
      /\ \A k : LineOf(held, k) = StripReturn(SubSeq(held, IF k = 1 THEN 1 ELSE here[k - 1] + 1, here[k] - 1))
      /\ \A k : LineOf(whole, k) = StripReturn(SubSeq(whole, IF k = 1 THEN 1 ELSE every[k - 1] + 1, every[k] - 1))
  BY DEF LineOf
<1> HIDE DEF L, n, m, ends, here, every
<1>T. /\ L \in Nat /\ n \in Nat /\ m \in Nat
      /\ Len(given) \in Nat /\ Len(held) \in Nat /\ Len(whole) \in Nat
      /\ Len(held) = Len(whole) - L /\ L <= Len(given) /\ Len(given) <= Len(whole)
  <2>1. Len(held) \in Nat
    BY <1>1, LenProperties
  <2>2. QED
    BY <1>1, <1>2, <1>5, <2>1
<1>S. given \in Seq(T) /\ held \in Seq(T) /\ whole \in Seq(T)
  BY <1>1
<1>7. ASSUME NEW k \in 1..n PROVE LineOf(whole, k) = LineOf(given, k)
  <2> DEFINE first == IF k = 1 THEN 1 ELSE ends[k - 1] + 1
             last == ends[k] - 1
  <2>1. /\ first \in Int /\ last \in Int /\ first >= 1 /\ last <= Len(given)
        /\ first = (IF k = 1 THEN 1 ELSE every[k - 1] + 1)
        /\ last = every[k] - 1
    <3>1. ends[k] \in 1..Len(given) /\ every[k] = ends[k]
      BY <1>3, <1>4
    <3>2. CASE k = 1
      BY <1>2, <3>1, <3>2
    <3>3. CASE k # 1
      <4>1. k - 1 \in 1..n
        BY <1>2, <3>3
      <4>2. ends[k - 1] \in 1..Len(given) /\ every[k - 1] = ends[k - 1]
        BY <1>3, <1>4, <4>1
      <4>3. QED
        BY <1>2, <3>1, <3>3, <4>2
    <3>4. QED
      BY <3>2, <3>3
  <2> HIDE DEF first, last
  <2>2. Alike(given, whole, 0, first, last, first, last)
    <3>1. last <= Len(whole) /\ first = first + 0 /\ last = last + 0
      BY <1>T, <2>1
    <3>2. QED
      BY <1>1, <2>1, <3>1 DEF Alike
  <2>3. SubSeq(whole, first, last) = SubSeq(given, first, last)
    <3>1. Stretch(whole, first, last) = Stretch(given, first, last)
      BY <1>S, <2>2, SameStretch
    <3>2. QED
      BY <3>1 DEF Stretch
  <2>5. LineOf(whole, k) = StripReturn(SubSeq(whole, first, last)) /\ LineOf(given, k) = StripReturn(SubSeq(given, first, last))
    BY <1>6, <2>1 DEF first, last
  <2>6. QED
    BY <2>3, <2>5
<1>8. ASSUME NEW k \in 1..m, NEW l \in Int, l = n + k PROVE LineOf(whole, l) = LineOf(held, k)
  <2> DEFINE first == IF k = 1 THEN 1 ELSE here[k - 1] + 1
             last == here[k] - 1
             from == IF l = 1 THEN 1 ELSE every[l - 1] + 1
             to == every[l] - 1
  <2>1. /\ LineOf(whole, l) = StripReturn(SubSeq(whole, from, to))
        /\ LineOf(held, k) = StripReturn(SubSeq(held, first, last))
    BY <1>6
  <2>2. last \in Int /\ last <= Len(held) /\ to = last + L
    <3>1. here[k] \in 1..Len(held) /\ every[l] = here[k] + L
      BY <1>3, <1>5, <1>8
    <3>2. QED
      BY <1>T, <3>1
  <2>3. first \in Int /\ first >= 1 /\ from = first + L
    <3>1. CASE k = 1 /\ n = 0
      BY <1>2, <1>T, <1>8, <3>1
    <3>2. CASE k = 1 /\ n # 0
      <4>1. n \in 1..n /\ n > 0 /\ l - 1 = n /\ l # 1
        BY <1>T, <1>8, <3>2
      <4>2. every[l - 1] = L
        BY <1>2, <1>3, <4>1
      <4>3. from = every[l - 1] + 1 /\ first = 1
        BY <3>2, <4>1
      <4>4. QED
        BY <1>T, <4>2, <4>3
    <3>3. CASE k # 1
      <4>1. k - 1 \in 1..m /\ l - 1 \in Int /\ l - 1 = n + (k - 1) /\ l # 1
        BY <1>T, <1>8, <3>3
      <4>2. here[k - 1] \in 1..Len(held) /\ every[l - 1] = here[k - 1] + L
        BY <1>3, <1>5, <4>1
      <4>3. from = every[l - 1] + 1 /\ first = here[k - 1] + 1
        BY <3>3, <4>1
      <4> DEFINE x == here[k - 1]
                 y == every[l - 1]
      <4>4. x \in 1..Len(held) /\ y = x + L /\ from = y + 1 /\ first = x + 1
        BY <4>2, <4>3
      <4> HIDE DEF x, y, from, first
      <4>5. QED
        BY <1>T, <4>4
    <3>4. QED
      BY <3>1, <3>2, <3>3
  <2> HIDE DEF first, last, from, to
  <2>4. from \in Int /\ to \in Int /\ from >= 1 /\ to <= Len(whole) /\ L \in Int
    BY <1>T, <2>2, <2>3
  <2>5. SubSeq(whole, from, to) = SubSeq(held, first, last)
    <3>1. Alike(held, whole, L, first, last, from, to)
      BY <1>1, <2>2, <2>3, <2>4 DEF Alike
    <3>2. Stretch(whole, from, to) = Stretch(held, first, last)
      BY <1>S, <3>1, SameStretch
    <3>3. QED
      BY <3>2 DEF Stretch
  <2>6. QED
    BY <2>1, <2>5
<1>9. LinesOf(whole) = LinesOf(given) \o LinesOf(held)
  <2>1. /\ LinesOf(given) \o LinesOf(held) \in Seq(Seq(T)) /\ Len(LinesOf(given) \o LinesOf(held)) = n + m
        /\ \A k \in 1..n + m : (LinesOf(given) \o LinesOf(held))[k]
                                  = IF k <= n THEN LinesOf(given)[k] ELSE LinesOf(held)[k - n]
    BY <1>4, <1>5, ConcatProperties
  <2>2. ASSUME NEW k \in 1..n + m PROVE LinesOf(whole)[k] = (LinesOf(given) \o LinesOf(held))[k]
    <3>1. CASE k <= n
      <4>1. k \in 1..n
        BY <1>T, <3>1
      <4>2. QED
        BY <1>4, <1>5, <1>7, <2>1, <3>1, <4>1
    <3>2. CASE ~(k <= n)
      <4>1. k - n \in 1..m /\ k = n + (k - n) /\ k \in Int
        BY <1>T, <3>2
      <4>2. LineOf(whole, k) = LineOf(held, k - n)
        BY <1>8, <4>1
      <4>3. QED
        BY <1>5, <2>1, <3>2, <4>1, <4>2
    <3>3. QED
      BY <3>1, <3>2
  <2>3. QED
    BY <1>5, <2>1, <2>2, SeqEqual
<1>10. RestOf(whole) = RestOf(held)
  <2> DEFINE e == LastEnd(held)
             first == e + 1
  <2>1. /\ RestOf(whole) = SubSeq(whole, LastEnd(whole) + 1, Len(whole))
        /\ RestOf(held) = SubSeq(held, e + 1, Len(held)) /\ e \in 0..Len(held) /\ Len(held) \in Nat
        /\ (m > 0 => e = here[m]) /\ (m = 0 => e = 0)
        /\ (n + m > 0 => LastEnd(whole) = every[n + m]) /\ (n + m = 0 => LastEnd(whole) = 0)
    BY <1>1, <1>3, EndsOfLines DEF m, here, every
  <2>2. LastEnd(whole) = e + L
    <3>1. CASE m > 0
      <4>1. m \in 1..m /\ n + m > 0 /\ n + m \in Int
        BY <1>T, <3>1
      <4>2. QED
        BY <1>3, <2>1, <3>1, <4>1
    <3>2. CASE m = 0 /\ n > 0
      <4>1. n \in 1..n /\ n + m = n
        BY <1>2, <3>2
      <4>2. every[n] = L /\ e = 0 /\ L \in Nat
        BY <1>1, <1>2, <1>3, <2>1, <3>2, <4>1
      <4>3. QED
        BY <2>1, <3>2, <4>1, <4>2
    <3>3. CASE m = 0 /\ n = 0
      BY <1>2, <2>1, <3>3
    <3>4. QED
      BY <1>2, <1>5, <3>1, <3>2, <3>3
  <2> DEFINE from == LastEnd(whole) + 1
  <2>3. RestOf(whole) = SubSeq(whole, from, Len(whole)) /\ RestOf(held) = SubSeq(held, first, Len(held))
    BY <2>1
  <2>4. e \in Nat /\ LastEnd(whole) = e + L
    BY <2>1, <2>2
  <2> HIDE DEF e
  <2>5. /\ first \in Int /\ Len(held) \in Int /\ first >= 1 /\ Len(held) <= Len(held)
        /\ from \in Int /\ Len(whole) \in Int /\ from >= 1 /\ Len(whole) <= Len(whole)
        /\ from = first + L /\ Len(whole) = Len(held) + L /\ L \in Int
    BY <1>T, <2>4
  <2> HIDE DEF first, from
  <2>7. SubSeq(whole, from, Len(whole)) = SubSeq(held, first, Len(held))
    <3>1. Alike(held, whole, L, first, Len(held), from, Len(whole))
      BY <1>1, <2>5 DEF Alike
    <3>2. Stretch(whole, from, Len(whole)) = Stretch(held, first, Len(held))
      BY <1>S, <3>1, SameStretch
    <3>3. QED
      BY <3>2 DEF Stretch
  <2>8. QED
    BY <2>3, <2>7
<1>11. QED
  BY <1>9, <1>10 DEF held, whole

--------------------------------------------------------------------------------
(* The messages of the lines                                                  *)

SseNames == {"none", "event"}

SseHeld == [name : SseNames, data : Nat, messages : Seq(SseNames \X Nat)]

LEMMA SseLineHeld == ASSUME NEW state \in SseHeld, NEW line PROVE SseLine(state, line) \in SseHeld
<1>1. state.name \in SseNames /\ state.data \in Nat /\ state.messages \in Seq(SseNames \X Nat)
  BY DEF SseHeld
<1>2. SseStart \in SseHeld
  BY EmptySeq DEF SseStart, SseHeld, SseNames
<1>3. Append(state.messages, <<state.name, state.data>>) \in Seq(SseNames \X Nat)
  BY <1>1, AppendProperties
<1>4. \A told \in Seq(SseNames \X Nat) : [SseStart EXCEPT !.messages = told] \in SseHeld
  BY <1>2 DEF SseHeld
<1>5. [state EXCEPT !.name = "event"] \in SseHeld /\ [state EXCEPT !.data = @ + 1] \in SseHeld
  <2>1. [state EXCEPT !.name = "event"] \in SseHeld
    BY <1>1 DEF SseHeld, SseNames
  <2>2. state.data + 1 \in Nat
    BY <1>1
  <2>3. [state EXCEPT !.data = state.data + 1] \in SseHeld
    BY <2>2 DEF SseHeld
  <2>4. QED
    BY <2>1, <2>3
<1>6. QED
  BY <1>1, <1>3, <1>4, <1>5 DEF SseLine

\* The states of iter_sse: how they follow one another.
SseRun(states, given) ==
    /\ states \in [0..Len(given) -> SseHeld] /\ states[0] = SseStart
    /\ \A n \in 1..Len(given) : states[n] = SseLine(states[n - 1], given[n])

LEMMA SseRuns ==
    ASSUME NEW T, NEW given \in Seq(T)
    PROVE  SseRun(SseStates(given), given)
<1> DEFINE last == Len(given)
           S == SseHeld
           start == SseStart
           step == [x \in (1..last) \X S |-> SseLine(x[2], given[x[1]])]
<1>1. last \in Nat
  BY LenProperties
<1>2. start \in S
  BY EmptySeq DEF SseStart, SseHeld, SseNames
<1>3. ASSUME NEW k \in 1..last, NEW e \in S
      PROVE  step[<<k, e>>] \in S /\ step[<<k, e>>] = SseLine(e, given[k])
  <2>1. SseLine(e, given[k]) \in S
    BY SseLineHeld
  <2>2. <<k, e>> \in (1..last) \X S /\ <<k, e>>[1] = k /\ <<k, e>>[2] = e
    OBVIOUS
  <2>3. step[<<k, e>>] = SseLine(e, given[k])
    BY <2>2
  <2>4. QED
    BY <2>1, <2>3
<1> HIDE DEF step, S, start, last
<1>4. PICK f : /\ f \in [0..last -> S] /\ f[0] = start
               /\ \A k \in 1..last : f[k] = SseLine(f[k - 1], given[k])
  <2>1. ClosedUnder(step, S, last)
    BY <1>3 DEF ClosedUnder
  <2>2. PICK f : Iteration(f, start, step, S, last)
    BY <1>1, <1>2, <2>1, Iterated
  <2>3. ASSUME NEW k \in 1..last PROVE f[k] = SseLine(f[k - 1], given[k])
    <3>1. k - 1 \in 0..last
      BY <1>1
    <3>2. f[k - 1] \in S
      BY <2>2, <3>1 DEF Iteration
    <3>3. QED
      BY <1>3, <2>2, <3>2 DEF Iteration
  <2>4. QED
    BY <2>2, <2>3 DEF Iteration
<1> USE DEF S, start, last
<1>5. f = [n \in 0..Len(given) |-> IF n = 0 THEN SseStart ELSE SseLine(f[n - 1], given[n])]
  <2>1. \A n \in 0..last : n # 0 => n \in 1..last
    BY <1>1
  <2>2. \A n \in 0..last : f[n] = IF n = 0 THEN SseStart ELSE SseLine(f[n - 1], given[n])
    BY <1>4, <2>1
  <2>3. QED
    BY <1>4, <2>2
<1> DEFINE s == SseStates(given)
<1>6. s = [n \in 0..Len(given) |-> IF n = 0 THEN SseStart ELSE SseLine(s[n - 1], given[n])]
  BY <1>5 DEF SseStates
<1>7. /\ s[0] = SseStart
      /\ \A n \in 1..last : s[n] = SseLine(s[n - 1], given[n])
  <2> HIDE DEF s
  <2>1. 0 \in 0..last /\ \A n \in 1..last : n \in 0..last /\ n # 0
    BY <1>1
  <2>2. QED
    BY <1>6, <2>1
<1> HIDE DEF s
<1> DEFINE good == {n \in 0..last : s[n] \in SseHeld}
<1>8. \A n \in 0..last : n \in good
  <2>1. 0 \in good
    BY <1>1, <1>2, <1>7
  <2>2. ASSUME NEW n \in 1..last, n - 1 \in good PROVE n \in good
    <3>1. s[n - 1] \in SseHeld /\ n \in 0..last
      BY <1>1, <2>2
    <3>2. s[n] \in SseHeld
      BY <1>7, <3>1, SseLineHeld
    <3>3. QED
      BY <3>1, <3>2
  <2> HIDE DEF good, last
  <2>3. QED
    BY <1>1, <2>1, <2>2, Along
<1>9. s \in [0..last -> SseHeld]
  BY <1>6, <1>8
<1>10. QED
  BY <1>7, <1>9 DEF SseRun, s

\* A line more: the states before it are the same.
LEMMA SseGoesOn ==
    ASSUME NEW T, NEW given \in Seq(T), NEW line \in T
    PROVE  /\ SseStates(given)[Len(given)] \in SseHeld
           /\ SseStates(Append(given, line))[Len(given) + 1] = SseLine(SseStates(given)[Len(given)], line)
<1> DEFINE more == Append(given, line)
           s == SseStates(given)
           t == SseStates(more)
           last == Len(given)
<1>1. /\ more \in Seq(T) /\ Len(more) = last + 1 /\ last \in Nat
      /\ \A i \in 1..last : more[i] = given[i]
      /\ more[last + 1] = line
  BY AppendProperties, LenProperties
<1>2. SseRun(s, given) /\ SseRun(t, more)
  BY <1>1, SseRuns
<1> HIDE DEF more, s, t
<1>3. /\ s \in [0..last -> SseHeld] /\ s[0] = t[0]
      /\ \A n \in 1..last : s[n] = SseLine(s[n - 1], given[n])
      /\ \A n \in 1..last + 1 : t[n] = SseLine(t[n - 1], more[n])
  BY <1>1, <1>2 DEF SseRun
<1> HIDE DEF last
<1> DEFINE good == {n \in 0..last : s[n] = t[n]}
<1>4. \A n \in 0..last : n \in good
  <2>1. 0 \in good
    BY <1>1, <1>3
  <2>2. ASSUME NEW n \in 1..last, n - 1 \in good PROVE n \in good
    <3>1. s[n - 1] = t[n - 1] /\ n \in 0..last /\ n \in 1..last + 1
      BY <1>1, <2>2
    <3>2. s[n] = SseLine(s[n - 1], given[n]) /\ t[n] = SseLine(t[n - 1], given[n])
      BY <1>1, <1>3, <3>1
    <3>3. QED
      BY <3>1, <3>2
  <2> HIDE DEF good
  <2>3. QED
    BY <1>1, <2>1, <2>2, Along
<1>5. last \in 0..last /\ last + 1 \in 1..last + 1 /\ last + 1 - 1 = last
  BY <1>1
<1>6. s[last] = t[last] /\ s[last] \in SseHeld
  BY <1>3, <1>4, <1>5
<1>7. t[last + 1] = SseLine(t[last + 1 - 1], more[last + 1])
  BY <1>3, <1>5
<1>8. QED
  BY <1>1, <1>5, <1>6, <1>7 DEF s, t, more, last

\* A stream that ends with an empty line, or does not, has the same messages.
LEMMA SseEnds ==
    ASSUME NEW T, NEW given \in Seq(Seq(T))
    PROVE  IterSse(Append(given, <<>>)) = IterSse(given)
<1> DEFINE more == Append(given, <<>>)
           state == SseStates(given)[Len(given)]
           next == SseStates(more)[Len(more)]
<1>1. <<>> \in Seq(T)
  BY EmptySeq
<1>2. Len(more) = Len(given) + 1
  BY <1>1, AppendProperties
<1>3. state \in SseHeld /\ next = SseLine(state, <<>>)
  BY <1>1, <1>2, SseGoesOn
<1>4. /\ IterSse(given) = IF state.data > 0 THEN Append(state.messages, <<state.name, state.data>>) ELSE state.messages
      /\ IterSse(more) = IF next.data > 0 THEN Append(next.messages, <<next.name, next.data>>) ELSE next.messages
  BY DEF IterSse
<1> HIDE DEF state, next
<1>5. next = [name |-> "none", data |-> 0,
              messages |-> IF state.data > 0 THEN Append(state.messages, <<state.name, state.data>>) ELSE state.messages]
  BY <1>3 DEF SseLine, SseStart
<1>6. QED
  BY <1>4, <1>5

--------------------------------------------------------------------------------
(* The reader                                                                 *)

\* A newline at the end makes a line of what was held back.
LEMMA LastLine ==
    ASSUME NEW T, "n" \in T, NEW given \in Seq(T)
    PROVE  LinesOf(Append(given, "n")) = Append(LinesOf(given), StripReturn(RestOf(given)))
<1> DEFINE end == <<"n">>
           rest == RestOf(given)
           held == Held(given, end)
           whole == given \o end
           L == LastEnd(given)
           E == Newlines(held)
<1>1. end \in Seq(T) /\ Len(end) = 1 /\ end[1] = "n"
  OBVIOUS
<1> HIDE DEF end
<1>2. /\ rest \in Seq(T) /\ held \in Seq(T) /\ whole \in Seq(T)
      /\ Len(rest) = Len(given) - L /\ Len(held) = Len(whole) - L
      /\ L \in 0..Len(given) /\ Shifted(held, whole, L)
  BY <1>1, HeldBack
<1>3. /\ Len(given) \in Nat /\ \A j \in Newlines(given) : j \in 1..L
  BY EndsOfLines
<1>4. /\ Len(whole) = Len(given) + 1 /\ Len(held) = Len(rest) + 1 /\ Len(rest) \in Nat /\ L \in Int
  <2>1. Len(whole) = Len(given) + Len(end)
    BY <1>1, ConcatProperties
  <2>2. QED
    BY <1>1, <1>2, <1>3, <2>1
<1>5. /\ held[Len(held)] = "n" /\ Shifted(rest, held, 0)
  <2>1. /\ Len(rest \o end) = Len(rest) + Len(end)
        /\ \A i \in 1..Len(rest) + Len(end) : (rest \o end)[i] = IF i <= Len(rest) THEN rest[i] ELSE end[i - Len(rest)]
    BY <1>1, <1>2, ConcatProperties
  <2>2. held = rest \o end
    BY DEF Held
  <2> HIDE DEF held, rest
  <2>3. \A i \in 1..Len(held) : held[i] = IF i <= Len(rest) THEN rest[i] ELSE end[i - Len(rest)]
    BY <1>1, <1>4, <2>1, <2>2
  <2>4. Len(held) \in 1..Len(held) /\ ~(Len(held) <= Len(rest)) /\ Len(held) - Len(rest) = 1
    BY <1>4
  <2>5. held[Len(held)] = "n"
    BY <1>1, <2>3, <2>4
  <2>6. ASSUME NEW i \in 1..Len(rest), NEW j \in 1..Len(held), j = i + 0 PROVE held[j] = rest[i]
    <3>1. j = i /\ j <= Len(rest)
      BY <1>4, <2>6
    <3>2. QED
      BY <2>3, <3>1
  <2>7. QED
    BY <2>5, <2>6 DEF Shifted
<1> HIDE DEF rest, held, whole, L
<1>6. E = {Len(held)}
  <2>1. DOMAIN held = 1..Len(held) /\ Len(held) \in 1..Len(held)
    BY <1>2, <1>4, LenProperties
  <2>2. DOMAIN given = 1..Len(given)
    BY LenProperties
  <2>3. ASSUME NEW i \in 1..Len(held), held[i] = "n", i # Len(held) PROVE FALSE
    <3> DEFINE j == i + L
    <3>1. j \in 1..Len(given) /\ j \in 1..Len(whole) /\ j = i + L /\ j > L
      BY <1>2, <1>3, <1>4, <2>3
    <3> HIDE DEF j
    <3>2. whole[j] = "n"
      BY <1>2, <2>3, <3>1 DEF Shifted
    <3>3. Shifted(given, whole, 0)
      BY <1>1, HeldBack DEF whole
    <3>4. j = j + 0
      BY <3>1
    <3>5. given[j] = "n"
      BY <3>1, <3>2, <3>3, <3>4 DEF Shifted
    <3>6. j \in Newlines(given)
      BY <2>2, <3>1, <3>5 DEF Newlines
    <3>7. j \in 1..L
      BY <1>3, <3>6
    <3>8. QED
      BY <1>4, <3>1, <3>7
  <2>4. QED
    BY <1>5, <2>1, <2>3 DEF Newlines
<1>7. LinesOf(held) = <<StripReturn(rest)>>
  <2>1. Cardinality(E) = 1 /\ IsFiniteSet(E) /\ E \in SUBSET Int
    <3>1. Cardinality({Len(held)}) = 1 /\ IsFiniteSet({Len(held)})
      BY FS_Singleton
    <3>2. {Len(held)} \in SUBSET Int
      BY <1>4
    <3> HIDE DEF E
    <3>3. QED
      BY <1>6, <3>1, <3>2
  <2>2. InOrder(E)[1] = Len(held)
    <3>1. 1 \in 1..Cardinality(E)
      BY <2>1
    <3> HIDE DEF E
    <3>2. InOrder(E)[1] \in E
      BY <2>1, <3>1, OrderRank
    <3>3. QED
      BY <1>6, <3>2
  <2>3. /\ LinesOf(held) \in Seq(Seq(T)) /\ Len(LinesOf(held)) = 1
        /\ LinesOf(held)[1] = LineOf(held, 1)
    <3>1. /\ LinesOf(held) \in Seq(Seq(T)) /\ Len(LinesOf(held)) = Cardinality(Newlines(held))
          /\ \A k \in 1..Cardinality(Newlines(held)) : LinesOf(held)[k] = LineOf(held, k)
      BY <1>2, LinesListed
    <3>2. Cardinality(Newlines(held)) = 1 /\ 1 \in 1..Cardinality(Newlines(held))
      BY <2>1
    <3>3. QED
      BY <3>1, <3>2
  <2>4. LineOf(held, 1) = StripReturn(SubSeq(held, 1, Len(held) - 1))
    BY <2>2 DEF LineOf
  <2>5. Len(held) - 1 = Len(rest)
    BY <1>4
  <2>6. Stretch(held, 1, Len(rest)) = Stretch(rest, 1, Len(rest))
    <3>1. Len(rest) = Len(rest) + 0 /\ Len(rest) <= Len(held) /\ 1 = 1 + 0
      BY <1>4
    <3>2. Alike(rest, held, 0, 1, Len(rest), 1, Len(rest))
      BY <1>4, <1>5, <3>1 DEF Alike
    <3>3. QED
      BY <1>2, <3>2, SameStretch
  <2>7. SubSeq(rest, 1, Len(rest)) = rest
    BY <1>2, SubSeqFull
  <2>8. LinesOf(held)[1] = StripReturn(rest)
    BY <2>3, <2>4, <2>5, <2>6, <2>7 DEF Stretch
  <2>9. StripReturn(rest) \in Seq(T)
    BY <1>2, Stripped
  <2>10. <<StripReturn(rest)>> \in Seq(Seq(T)) /\ Len(<<StripReturn(rest)>>) = 1
         /\ <<StripReturn(rest)>>[1] = StripReturn(rest)
    BY <2>9
  <2>11. \A i \in 1..1 : LinesOf(held)[i] = <<StripReturn(rest)>>[i]
    BY <2>8, <2>10
  <2>12. QED
    BY <2>3, <2>10, <2>11, SeqEqual
<1>8. LinesOf(whole) = LinesOf(given) \o LinesOf(held)
  BY <1>1, ChunksJoin DEF whole, held
<1>9. Append(given, "n") = whole
  BY AppendIsConcat DEF whole, end
<1>10. LinesOf(given) \in Seq(Seq(T)) /\ StripReturn(rest) \in Seq(T)
  BY <1>2, LinesListed, Stripped
<1>11. Append(LinesOf(given), StripReturn(rest)) = LinesOf(given) \o <<StripReturn(rest)>>
  BY <1>10, AppendIsConcat
<1>12. QED
  BY <1>7, <1>8, <1>9, <1>11 DEF rest

\* The inductive invariant: it has taken a beginning of the body and made of it
\* what the body read as a whole makes of it.
ReaderInv ==
    /\ body \in Seq(Alphabet) /\ taken \in 0..Len(body)
    /\ LinesOfBody

\* The characters of a body: newlines among them, whether the instance has them
\* or not.
Characters == Alphabet \cup {"n"}

\* What the reader has read when it has taken k characters.
Read(given, k) == SubSeq(given, 1, k)

LEMMA ReadOn ==
    ASSUME NEW T, NEW given \in Seq(T), NEW k \in 0..Len(given), NEW n \in 1..Len(given) - k
    PROVE  /\ k + n \in 0..Len(given) /\ Read(given, k) \in Seq(T)
           /\ SubSeq(given, k + 1, k + n) \in Seq(T)
           /\ Read(given, k + n) = Read(given, k) \o SubSeq(given, k + 1, k + n)
<1>1. Len(given) \in Nat /\ \A i \in 1..Len(given) : given[i] \in T
  BY LenProperties
<1> DEFINE e == k + n
           b == k + 1
<1>2. /\ e \in 0..Len(given) /\ e \in k..Len(given) /\ 1 \in 1..Len(given) + 1 /\ k \in 1 - 1..Len(given)
      /\ b \in Int /\ e \in Int /\ 1 \in Int /\ k \in Int
      /\ \A i \in b..e : i \in 1..Len(given)
      /\ \A i \in 1..k : i \in 1..Len(given)
  BY <1>1
<1>3. SubSeq(given, 1, k) \o SubSeq(given, k + 1, e) = SubSeq(given, 1, e)
  <2> HIDE DEF e
  <2>1. QED
    BY <1>2, ConcatAdjacentSubSeq
<1>4. SubSeq(given, 1, k) \in Seq(T)
  <2>1. \A i \in 1..k : given[i] \in T
    BY <1>1, <1>2
  <2>2. QED
    BY <1>2, <2>1, SubSeqProperties
<1>5. SubSeq(given, b, e) \in Seq(T)
  <2>1. \A i \in b..e : given[i] \in T
    BY <1>1, <1>2
  <2> HIDE DEF b, e
  <2>2. QED
    BY <1>2, <2>1, SubSeqProperties
<1>6. QED
  BY <1>2, <1>3, <1>4, <1>5 DEF Read

LEMMA ReaderStart == ReaderInit \/ ReaderIdle => ReaderInv
<1>1. SUFFICES ASSUME ReaderInit \/ ReaderIdle PROVE ReaderInv
  OBVIOUS
<1>2. body \in Seq(Alphabet) /\ taken = 0 /\ buffer = <<>> /\ lines = <<>>
  <2>1. ASSUME NEW s \in BoundedSeq(Alphabet, MaxBody) PROVE s \in Seq(Alphabet)
    <3>1. PICK m \in 0..MaxBody : s \in [1..m -> Alphabet]
      BY DEF BoundedSeq, SeqOf
    <3>2. m \in Nat
      BY ReaderBounds
    <3>3. QED
      BY <3>1, <3>2
  <2>2. <<>> \in Seq(Alphabet)
    BY EmptySeq
  <2>3. QED
    BY <1>1, <2>1, <2>2 DEF ReaderInit, ReaderIdle
<1>3. taken \in 0..Len(body)
  BY <1>2, LenProperties
<1>4. SubSeq(body, 1, taken) = <<>>
  <2>1. 1 \in Int /\ 0 \in Int /\ 0 < 1
    OBVIOUS
  <2>2. SubSeq(body, 1, 0) = <<>>
    BY <2>1, SubSeqEmpty
  <2>3. QED
    BY <1>2, <2>2
<1>5. LinesOf(<<>>) = <<>> /\ RestOf(<<>>) = <<>>
  <2> DEFINE given == <<>>
  <2>1. given \in Seq(Alphabet) /\ Len(given) = 0 /\ DOMAIN given = 1..0
    BY EmptySeq, LenProperties
  <2>2. Newlines(given) = {}
    BY <2>1 DEF Newlines
  <2>3. Cardinality(Newlines(given)) = 0
    BY <2>2, FS_EmptySet
  <2>4. /\ LinesOf(given) \in Seq(Seq(Alphabet)) /\ Len(LinesOf(given)) = 0
    BY <2>1, <2>3, LinesListed
  <2>5. RestOf(given) = SubSeq(given, 0 + 1, 0)
    BY <2>1, <2>2 DEF RestOf
  <2>6. 1 \in Int /\ 0 \in Int /\ 0 < 1 /\ 0 + 1 = 1
    OBVIOUS
  <2> HIDE DEF given
  <2>7. SubSeq(given, 1, 0) = <<>>
    BY <2>6, SubSeqEmpty
  <2>8. LinesOf(given) = <<>>
    BY <2>4, EmptySeq
  <2>9. QED
    BY <2>5, <2>6, <2>7, <2>8 DEF given
<1>6. CASE ReaderInit
  <2>1. reading = "open" /\ Len(<<>>) <= MaxLineBytes /\ taken <= MaxStreamBytes
    BY <1>2, <1>6, ReaderBounds, EmptySeq DEF ReaderInit
  <2>2. QED
    BY <1>2, <1>3, <1>4, <1>5, <2>1 DEF ReaderInv, LinesOfBody
<1>7. CASE ReaderIdle
  <2>1. reading = "done" /\ body = <<>>
    BY <1>7 DEF ReaderIdle
  <2>2. "n" \in Characters /\ <<>> \in Seq(Characters) /\ <<>> \in Seq(Seq(Characters))
    BY EmptySeq DEF Characters
  <2>3. LinesOf(Append(<<>>, "n")) = Append(LinesOf(<<>>), StripReturn(RestOf(<<>>)))
    BY <2>2, LastLine
  <2>4. StripReturn(<<>>) = <<>>
    BY <2>2, Stripped
  <2>5. IterSse(Append(<<>>, <<>>)) = IterSse(<<>>)
    BY <2>2, SseEnds
  <2>6. LinesOf(Append(<<>>, "n")) = Append(<<>>, <<>>)
    BY <1>5, <2>3, <2>4
  <2>7. IterSse(lines) = IterSse(LinesOf(Append(body, "n")))
    BY <1>2, <2>1, <2>5, <2>6
  <2>8. QED
    BY <1>2, <1>3, <2>1, <2>7 DEF ReaderInv, LinesOfBody
<1>8. QED
  BY <1>1, <1>6, <1>7

LEMMA ChunkStep == ASSUME ReaderInv, Chunk PROVE ReaderInv'
<1> DEFINE given == Read(body, taken)
<1>1. /\ body \in Seq(Alphabet) /\ taken \in 0..Len(body) /\ body' = body
      /\ lines = LinesOf(given) /\ buffer = RestOf(given)
  BY DEF ReaderInv, LinesOfBody, Chunk, Read
<1> DEFINE Piece(n) == SubSeq(body, taken + 1, taken + n)
<1>2. PICK n \in 1..Len(body) - taken :
          /\ taken' = taken + n
          /\ IF taken' > MaxStreamBytes
             THEN reading' = "too_large" /\ UNCHANGED <<buffer, lines>>
             ELSE /\ lines' = lines \o LinesOf(buffer \o Piece(n))
                  /\ buffer' = RestOf(buffer \o Piece(n))
                  /\ reading' = IF Len(buffer') > MaxLineBytes THEN "too_large" ELSE "open"
  BY DEF Chunk
<1> DEFINE piece == Piece(n)
           now == Read(body', taken')
<1>3. /\ taken' \in 0..Len(body) /\ given \in Seq(Alphabet) /\ piece \in Seq(Alphabet)
      /\ now = given \o piece
  <2>1. /\ taken + n \in 0..Len(body) /\ Read(body, taken) \in Seq(Alphabet)
        /\ SubSeq(body, taken + 1, taken + n) \in Seq(Alphabet)
        /\ Read(body, taken + n) = Read(body, taken) \o SubSeq(body, taken + 1, taken + n)
    BY <1>1, ReadOn
  <2>2. QED
    BY <1>1, <1>2, <2>1
<1> HIDE DEF given, piece, now
<1>4. buffer \o piece = Held(given, piece)
  BY <1>1 DEF Held
<1>5. CASE taken' > MaxStreamBytes
  <2>1. reading' = "too_large"
    BY <1>2, <1>5
  <2>2. QED
    BY <1>1, <1>3, <2>1 DEF ReaderInv, LinesOfBody
<1>6. CASE ~(taken' > MaxStreamBytes)
  <2>1. /\ lines' = lines \o LinesOf(buffer \o piece) /\ buffer' = RestOf(buffer \o piece)
        /\ reading' = IF Len(buffer') > MaxLineBytes THEN "too_large" ELSE "open"
    BY <1>2, <1>6 DEF piece
  <2>2. lines' = LinesOf(now) /\ buffer' = RestOf(now)
    <3>1. /\ LinesOf(given \o piece) = LinesOf(given) \o LinesOf(Held(given, piece))
          /\ RestOf(given \o piece) = RestOf(Held(given, piece))
      BY <1>3, ChunksJoin
    <3>2. /\ lines' = lines \o LinesOf(Held(given, piece)) /\ buffer' = RestOf(Held(given, piece))
      BY <1>4, <2>1
    <3>3. QED
      BY <1>1, <1>3, <3>1, <3>2
  <2>3. RestOf(now) \in Seq(Alphabet)
    <3>1. now \in Seq(Alphabet)
      BY <1>3, ConcatProperties
    <3>2. <<>> \in Seq(Alphabet)
      BY EmptySeq
    <3>3. QED
      BY <3>1, <3>2, HeldBack
  <2>4. Len(buffer') \in Nat /\ taken' \in Nat
    BY <1>1, <1>3, <2>2, <2>3, LenProperties
  <2>5. reading' = "open" => Len(buffer') <= MaxLineBytes
    BY <2>1, <2>4, ReaderBounds
  <2>6. taken' <= MaxStreamBytes
    BY <1>6, <2>4, ReaderBounds
  <2>7. reading' # "done"
    BY <2>1
  <2>8. now = SubSeq(body', 1, taken')
    BY DEF now, Read
  <2>9. QED
    BY <1>1, <1>3, <2>2, <2>5, <2>6, <2>7, <2>8 DEF ReaderInv, LinesOfBody
<1>7. QED
  BY <1>5, <1>6

LEMMA CloseBodyStep == ASSUME ReaderInv, CloseBody PROVE ReaderInv'
<1>1. /\ body \in Seq(Alphabet) /\ taken = Len(body) /\ body' = body /\ taken' = taken
      /\ lines = LinesOf(SubSeq(body, 1, taken)) /\ buffer = RestOf(SubSeq(body, 1, taken))
      /\ lines' = (IF buffer = <<>> THEN lines ELSE Append(lines, StripReturn(buffer)))
      /\ reading' = "done" /\ taken \in 0..Len(body)
  BY DEF ReaderInv, LinesOfBody, CloseBody
<1>2. lines = LinesOf(body) /\ buffer = RestOf(body)
  <2>1. SubSeq(body, 1, Len(body)) = body
    BY <1>1, SubSeqFull
  <2>2. QED
    BY <1>1, <2>1
<1>3. "n" \in Characters /\ body \in Seq(Characters)
  BY <1>1, SeqMonotonic DEF Characters
<1>4. LinesOf(Append(body, "n")) = Append(lines, StripReturn(buffer))
  BY <1>2, <1>3, LastLine
<1>5. IterSse(lines') = IterSse(LinesOf(Append(body, "n")))
  <2>1. CASE buffer = <<>>
    <3>1. <<>> \in Seq(Characters) /\ lines \in Seq(Seq(Characters))
      BY <1>2, <1>3, EmptySeq, LinesListed
    <3>2. StripReturn(<<>>) = <<>>
      BY <3>1, Stripped
    <3>3. IterSse(Append(lines, <<>>)) = IterSse(lines)
      BY <3>1, SseEnds
    <3>4. QED
      BY <1>1, <1>4, <2>1, <3>2, <3>3
  <2>2. CASE buffer # <<>>
    BY <1>1, <1>4, <2>2
  <2>3. QED
    BY <2>1, <2>2
<1>6. QED
  BY <1>1, <1>5 DEF ReaderInv, LinesOfBody

LEMMA ReaderStep == ReaderInv /\ [ReaderNext]_readerVars => ReaderInv'
<1>1. ASSUME ReaderInv, UNCHANGED readerVars PROVE ReaderInv'
  BY <1>1 DEF ReaderInv, LinesOfBody, readerVars
<1>2. QED
  BY <1>1, ChunkStep, CloseBodyStep DEF ReaderNext

\* The lines of a streamed answer, and with them its messages, are those of its
\* body, however long it is and in whichever chunks it arrives, and what the reader
\* holds back stays within its limits (http.py:188).
THEOREM LinesFaithful == Spec => []LinesOfBody
<1>1. Init => ReaderInv
  BY ReaderStart DEF Init, Begins
<1>2. ReaderInv /\ [Next]_vars => ReaderInv'
  BY ReaderStep DEF Next, vars
<1>3. ReaderInv => LinesOfBody
  BY DEF ReaderInv
<1>4. QED
  BY <1>1, <1>2, <1>3, PTL DEF Spec

--------------------------------------------------------------------------------
(* The conversation an adapter sends                                          *)

CallNames == Nat \X Nat

Ids == ({"call"} \X Nat) \cup ({"given"} \X Nat \X Nat)

Calls == Ids \X CallNames

Messages ==
    {m \in [role : {"user", "assistant", "tool"}, calls : Seq(Calls), of : Ids \cup {<<>>},
            answers : CallNames \cup {<<>>}, named : BOOLEAN] :
        m.role # "assistant" => m.calls = <<>>}

\* The parts and the turns the messages may become.
PartsOf(s) == UNION {{MessageParts(s, i)[k] : k \in DOMAIN MessageParts(s, i)} : i \in DOMAIN talk}

TurnsOf(s) == [role : {RoleIn(s, talk[i].role) : i \in DOMAIN talk}, parts : Seq(PartsOf(s))]

KindOf(m) == IF m.role = "tool" THEN "result" ELSE IF m.calls # <<>> THEN "call" ELSE "text"

LEMMA PartsTyped ==
    ASSUME talk \in Seq(Messages), NEW s, NEW i \in DOMAIN talk
    PROVE  /\ MessageParts(s, i) \in Seq(PartsOf(s)) /\ Turn(s, i) \in TurnsOf(s)
           /\ \A k \in DOMAIN MessageParts(s, i) :
                 /\ MessageParts(s, i)[k].message = i
                 /\ MessageParts(s, i)[k].kind = KindOf(talk[i])
<1> DEFINE m == talk[i]
           parts == MessageParts(s, i)
<1>1. m \in Messages
  BY LenProperties
<1>2. m.calls \in Seq(Calls) /\ (m.role = "tool" => m.calls = <<>>)
  BY <1>1 DEF Messages
<1>3. /\ \E n \in Nat : parts = [k \in 1..n |-> parts[k]]
      /\ \A k \in DOMAIN parts : parts[k].message = i /\ parts[k].kind = KindOf(m)
  <2>1. CASE m.role = "tool"
    <3> DEFINE name == IF s \in {"gemini", "ollama"} THEN ResultName(m) ELSE m.answers
    <3>1. parts = <<Part("result", i, m.of, name)>>
      BY <1>2, <2>1 DEF MessageParts
    <3> HIDE DEF name
    <3>2. parts = [k \in 1..1 |-> Part("result", i, m.of, name)]
      BY <3>1
    <3> HIDE DEF parts, m
    <3>3. QED
      BY <2>1, <3>2 DEF KindOf, Part
  <2>2. CASE m.role # "tool" /\ m.calls # <<>>
    <3>1. parts = [k \in DOMAIN m.calls |-> Part("call", i, m.calls[k][1], m.calls[k][2])]
      BY <2>2 DEF MessageParts
    <3>2. DOMAIN m.calls = 1..Len(m.calls) /\ Len(m.calls) \in Nat
      BY <1>2, LenProperties
    <3> HIDE DEF parts, m
    <3>3. QED
      BY <2>2, <3>1, <3>2 DEF KindOf, Part
  <2>3. CASE m.role # "tool" /\ m.calls = <<>>
    <3>1. parts = <<Part("text", i, <<>>, <<>>)>>
      BY <2>3 DEF MessageParts
    <3>2. parts = [k \in 1..1 |-> Part("text", i, <<>>, <<>>)]
      BY <3>1
    <3> HIDE DEF parts, m
    <3>3. QED
      BY <2>3, <3>2 DEF KindOf, Part
  <2>4. QED
    BY <2>1, <2>2, <2>3
<1>4. \A k \in DOMAIN parts : parts[k] \in PartsOf(s)
  BY DEF PartsOf
<1>5. parts \in Seq(PartsOf(s))
  <2> HIDE DEF parts
  <2>1. PICK n \in Nat : parts = [k \in 1..n |-> parts[k]]
    BY <1>3
  <2>2. \A k \in 1..n : parts[k] \in PartsOf(s)
    BY <1>4, <2>1
  <2>3. parts \in [1..n -> PartsOf(s)]
    BY <2>1, <2>2
  <2>4. QED
    BY <2>3
<1>6. Turn(s, i) \in TurnsOf(s)
  BY <1>5 DEF Turn, TurnsOf
<1>7. QED
  BY <1>3, <1>5, <1>6

LEMMA PlaceOf ==
    ASSUME NEW turns, NEW p
    PROVE  p \in PlacesOf(turns) <=>
              \E i \in DOMAIN turns : \E j \in DOMAIN turns[i].parts : p = <<i, j>>
BY DEF PlacesOf

\* Turns that tell the first n messages of the conversation: their parts, each at
\* some place, no part before one of an earlier message, and nothing else.
Tells(turns, s, n) ==
    /\ turns \in Seq(TurnsOf(s))
    /\ \A p \in PlacesOf(turns) : \E i \in 1..n : \E k \in DOMAIN MessageParts(s, i) :
          PartAt(turns, p) = MessageParts(s, i)[k]
    /\ \A p, q \in PlacesOf(turns) :
          Before(p, q) => PartAt(turns, p).message <= PartAt(turns, q).message
    /\ \A i \in 1..n : \A k \in DOMAIN MessageParts(s, i) :
          \E p \in PlacesOf(turns) : PartAt(turns, p) = MessageParts(s, i)[k]

\* A message more: what was told stays in its place, its parts follow.
LEMMA ToldMore ==
    ASSUME talk \in Seq(Messages), NEW s, NEW n \in Nat, n + 1 \in DOMAIN talk,
           NEW turns, Tells(turns, s, n), NEW more \in Seq(TurnsOf(s)),
           PlacesOf(turns) \subseteq PlacesOf(more),
           \A p \in PlacesOf(turns) : PartAt(more, p) = PartAt(turns, p),
           \A p \in PlacesOf(more) \ PlacesOf(turns) : \E k \in DOMAIN MessageParts(s, n + 1) :
              PartAt(more, p) = MessageParts(s, n + 1)[k],
           \A k \in DOMAIN MessageParts(s, n + 1) : \E p \in PlacesOf(more) :
              PartAt(more, p) = MessageParts(s, n + 1)[k],
           \A p \in PlacesOf(more), q \in PlacesOf(turns) : Before(p, q) => p \in PlacesOf(turns)
    PROVE  Tells(more, s, n + 1)
<1>1. 1..n \subseteq DOMAIN talk /\ \A i \in 1..n + 1 : i \in DOMAIN talk
  <2>1. DOMAIN talk = 1..Len(talk) /\ Len(talk) \in Nat
    BY LenProperties
  <2>2. QED
    BY <2>1
<1>2. \A p \in PlacesOf(turns) : PartAt(more, p).message \in 1..n
  <2>1. SUFFICES ASSUME NEW p \in PlacesOf(turns) PROVE PartAt(turns, p).message \in 1..n
    OBVIOUS
  <2>2. PICK i \in 1..n : \E k \in DOMAIN MessageParts(s, i) : PartAt(turns, p) = MessageParts(s, i)[k]
    BY DEF Tells
  <2>3. QED
    BY <1>1, <2>2, PartsTyped
<1>3. \A p \in PlacesOf(more) \ PlacesOf(turns) : PartAt(more, p).message = n + 1
  BY <1>1, PartsTyped
<1>4. ASSUME NEW p \in PlacesOf(more)
      PROVE  \E i \in 1..n + 1 : \E k \in DOMAIN MessageParts(s, i) : PartAt(more, p) = MessageParts(s, i)[k]
  <2>1. CASE p \in PlacesOf(turns)
    <3>1. PICK i \in 1..n : \E k \in DOMAIN MessageParts(s, i) : PartAt(turns, p) = MessageParts(s, i)[k]
      BY <2>1 DEF Tells
    <3>2. i \in 1..n + 1
      OBVIOUS
    <3>3. QED
      BY <2>1, <3>1, <3>2
  <2>2. CASE p \notin PlacesOf(turns)
    <3>1. n + 1 \in 1..n + 1
      OBVIOUS
    <3>2. QED
      BY <2>2, <3>1
  <2>3. QED
    BY <2>1, <2>2
<1>5. ASSUME NEW p \in PlacesOf(more), NEW q \in PlacesOf(more), Before(p, q)
      PROVE  PartAt(more, p).message <= PartAt(more, q).message
  <2>1. CASE q \in PlacesOf(turns)
    <3>1. p \in PlacesOf(turns)
      BY <1>5, <2>1
    <3>2. PartAt(turns, p).message <= PartAt(turns, q).message
      BY <1>5, <2>1, <3>1 DEF Tells
    <3>3. QED
      BY <2>1, <3>1, <3>2
  <2>2. CASE q \notin PlacesOf(turns)
    <3>1. PartAt(more, q).message = n + 1 /\ PartAt(more, p).message \in 1..n + 1
      BY <1>2, <1>3, <2>2
    <3>2. QED
      BY <3>1
  <2>3. QED
    BY <2>1, <2>2
<1>6. ASSUME NEW i \in 1..n + 1, NEW k \in DOMAIN MessageParts(s, i)
      PROVE  \E p \in PlacesOf(more) : PartAt(more, p) = MessageParts(s, i)[k]
  <2>1. CASE i = n + 1
    BY <2>1
  <2>2. CASE i # n + 1
    <3>1. i \in 1..n
      BY <2>2
    <3>2. PICK p \in PlacesOf(turns) : PartAt(turns, p) = MessageParts(s, i)[k]
      BY <3>1 DEF Tells
    <3>3. QED
      BY <3>2
  <2>3. QED
    BY <2>1, <2>2
<1>7. QED
  BY <1>4, <1>5, <1>6 DEF Tells

Alternate(turns) == \A i \in 1..Len(turns) - 1 : turns[i].role # turns[i + 1].role

\* A turn of another role follows, one of the same role is joined to the last.
LEMMA Appended ==
    ASSUME talk \in Seq(Messages), NEW s, NEW n \in Nat, n + 1 \in DOMAIN talk,
           NEW turns, Tells(turns, s, n),
           turns = <<>> \/ turns[Len(turns)].role # Turn(s, n + 1).role
    PROVE  /\ Tells(Append(turns, Turn(s, n + 1)), s, n + 1)
           /\ Alternate(turns) => Alternate(Append(turns, Turn(s, n + 1)))
<1> DEFINE turn == Turn(s, n + 1)
           more == Append(turns, turn)
           L == Len(turns)
<1>1. turns \in Seq(TurnsOf(s)) /\ turn \in TurnsOf(s)
  BY PartsTyped DEF Tells
<1>2. /\ more \in Seq(TurnsOf(s)) /\ DOMAIN more = 1..L + 1 /\ Len(more) = L + 1
      /\ DOMAIN turns = 1..L /\ L \in Nat
      /\ \A i \in 1..L : more[i] = turns[i]
      /\ more[L + 1] = turn
  <2> HIDE DEF turn
  <2>1. QED
    BY <1>1, AppendProperties, LenProperties
<1>3. turn.parts = MessageParts(s, n + 1)
  BY DEF Turn
<1> HIDE DEF turn, more, L
<1>4. /\ PlacesOf(turns) \subseteq PlacesOf(more)
      /\ \A p \in PlacesOf(turns) : PartAt(more, p) = PartAt(turns, p) /\ p[1] \in 1..L
  <2>1. SUFFICES ASSUME NEW p \in PlacesOf(turns)
                 PROVE  p \in PlacesOf(more) /\ PartAt(more, p) = PartAt(turns, p) /\ p[1] \in 1..L
    OBVIOUS
  <2>2. PICK i \in DOMAIN turns : \E j \in DOMAIN turns[i].parts : p = <<i, j>>
    BY PlaceOf
  <2>3. PICK j \in DOMAIN turns[i].parts : p = <<i, j>>
    BY <2>2
  <2>4. i \in DOMAIN more /\ more[i] = turns[i] /\ i \in 1..L
    BY <1>2
  <2>5. p \in PlacesOf(more)
    BY <2>3, <2>4, PlaceOf
  <2>6. QED
    BY <2>3, <2>4, <2>5 DEF PartAt
<1>5. ASSUME NEW p \in PlacesOf(more) \ PlacesOf(turns)
      PROVE  p[1] = L + 1 /\ \E k \in DOMAIN turn.parts : PartAt(more, p) = turn.parts[k]
  <2>1. PICK i \in DOMAIN more : \E j \in DOMAIN more[i].parts : p = <<i, j>>
    BY PlaceOf
  <2>2. PICK j \in DOMAIN more[i].parts : p = <<i, j>>
    BY <2>1
  <2>3. i = L + 1
    <3>1. SUFFICES ASSUME i # L + 1 PROVE FALSE
      OBVIOUS
    <3>2. i \in DOMAIN turns /\ more[i] = turns[i]
      BY <1>2, <3>1
    <3>3. QED
      BY <2>2, <3>2, PlaceOf
  <2>4. QED
    BY <1>2, <2>2, <2>3 DEF PartAt
<1>6. ASSUME NEW k \in DOMAIN turn.parts
      PROVE  \E p \in PlacesOf(more) : PartAt(more, p) = turn.parts[k]
  <2>1. L + 1 \in DOMAIN more
    BY <1>2
  <2>2. <<L + 1, k>> \in PlacesOf(more)
    BY <1>2, <2>1, PlaceOf
  <2>3. PartAt(more, <<L + 1, k>>) = turn.parts[k]
    BY <1>2 DEF PartAt
  <2>4. QED
    BY <2>2, <2>3
<1>7. ASSUME NEW p \in PlacesOf(more), NEW q \in PlacesOf(turns), Before(p, q), p \notin PlacesOf(turns)
      PROVE  FALSE
  <2>1. p[1] = L + 1 /\ q[1] \in 1..L
    BY <1>4, <1>5, <1>7
  <2>2. QED
    BY <1>2, <1>7, <2>1 DEF Before
<1>8. Tells(more, s, n + 1)
  BY <1>2, <1>3, <1>4, <1>5, <1>6, <1>7, ToldMore
<1>9. ASSUME Alternate(turns) PROVE Alternate(more)
  <2>1. ASSUME NEW i \in 1..Len(more) - 1 PROVE more[i].role # more[i + 1].role
    <3>1. i \in 1..L /\ more[i] = turns[i]
      BY <1>2
    <3>2. CASE i = L
      <4>1. turns # <<>> /\ turns[L].role # turn.role
        <5>1. turns # <<>>
          BY <1>2, <3>1
        <5>2. QED
          BY <5>1 DEF turn, L
      <4>2. QED
        BY <1>2, <3>1, <3>2, <4>1
    <3>3. CASE i # L
      <4>1. i \in 1..L - 1 /\ i + 1 \in 1..L
        BY <1>2, <3>1, <3>3
      <4>2. turns[i].role # turns[i + 1].role
        BY <1>9, <4>1 DEF Alternate, L
      <4>3. QED
        BY <1>2, <3>1, <4>1, <4>2
    <3>4. QED
      BY <3>2, <3>3
  <2>2. QED
    BY <2>1 DEF Alternate
<1>10. QED
  BY <1>8, <1>9 DEF more, turn

\* Where the entries of two sequences are when they are joined.
LEMMA JoinedAt ==
    ASSUME NEW T, NEW u \in Seq(T), NEW v \in Seq(T), NEW w, w = u \o v
    PROVE  /\ Len(u) \in Nat /\ DOMAIN u = 1..Len(u)
           /\ \A j \in 1..Len(u) : j \in DOMAIN w /\ w[j] = u[j]
           /\ \A j \in DOMAIN w : j \in Nat /\
                 (j \notin 1..Len(u) =>
                    j > Len(u) /\ j - Len(u) \in DOMAIN v /\ w[j] = v[j - Len(u)])
           /\ \A k \in DOMAIN v : Len(u) + k \in DOMAIN w /\ w[Len(u) + k] = v[k]
<1> DEFINE D == Len(u)
           E == Len(v)
<1>1. /\ D \in Nat /\ DOMAIN u = 1..D /\ E \in Nat /\ DOMAIN v = 1..E
  BY LenProperties
<1>2. /\ w \in Seq(T) /\ Len(w) = D + E
      /\ \A j \in 1..D + E : w[j] = IF j <= D THEN u[j] ELSE v[j - D]
  BY ConcatProperties
<1>3. DOMAIN w = 1..D + E
  BY <1>2, LenProperties
<1> HIDE DEF D, E
<1>4. ASSUME NEW j \in 1..D PROVE j \in DOMAIN w /\ w[j] = u[j]
  BY <1>1, <1>2, <1>3
<1>5. ASSUME NEW j \in DOMAIN w
      PROVE  j \in Nat /\ (j \notin 1..D => j > D /\ j - D \in DOMAIN v /\ w[j] = v[j - D])
  BY <1>1, <1>2, <1>3
<1>6. ASSUME NEW k \in DOMAIN v PROVE D + k \in DOMAIN w /\ w[D + k] = v[k]
  <2> DEFINE j == D + k
  <2>1. j \in 1..D + E /\ ~(j <= D) /\ j - D = k
    BY <1>1
  <2> HIDE DEF j
  <2>2. w[j] = v[k]
    BY <1>2, <2>1
  <2>3. QED
    BY <1>3, <2>1, <2>2 DEF j
<1>7. QED
  BY <1>1, <1>4, <1>5, <1>6 DEF D, E

JoinLast(turns, turn) == [turns EXCEPT ![Len(turns)].parts = @ \o turn.parts]

TurnSet(T) == \E Z, P : T = [role : Z, parts : Seq(P)]

LastIsJoined(turns, turn, more, T) ==
    /\ Len(turns) \in Nat /\ Len(turns) # 0 /\ DOMAIN turns = 1..Len(turns)
    /\ more \in Seq(T)
    /\ DOMAIN more = 1..Len(turns) /\ Len(more) = Len(turns)
    /\ \A i \in 1..Len(turns) : i # Len(turns) => more[i] = turns[i]
    /\ more[Len(turns)].role = turns[Len(turns)].role
    /\ more[Len(turns)].parts = turns[Len(turns)].parts \o turn.parts

LEMMA LastJoined ==
    ASSUME NEW T, TurnSet(T), NEW turns \in Seq(T), turns # <<>>,
           NEW turn \in T, NEW more, more = JoinLast(turns, turn)
    PROVE  LastIsJoined(turns, turn, more, T)
<1> DEFINE L == Len(turns)
           old == turns[L]
           joined == [old EXCEPT !.parts = @ \o turn.parts]
<1>0. PICK Z, P : T = [role : Z, parts : Seq(P)]
  BY DEF TurnSet
<1>1. L \in Nat /\ L # 0 /\ DOMAIN turns = 1..L
  <2>1. DOMAIN turns = 1..L /\ L \in Nat
    BY LenProperties
  <2>2. QED
    BY <2>1
<1>2. L \in 1..L /\ old \in T
  <2>1. L \in 1..L
    BY <1>1
  <2>2. QED
    BY <2>1, LenProperties
<1>3. joined \in T /\ joined.role = old.role /\ joined.parts = old.parts \o turn.parts
  <2>1. old.parts \in Seq(P) /\ turn.parts \in Seq(P)
    BY <1>0, <1>2
  <2>2. old.parts \o turn.parts \in Seq(P)
    BY <2>1, ConcatProperties
  <2> HIDE DEF old
  <2>3. QED
    BY <1>0, <1>2, <2>2
<1>4. more = [turns EXCEPT ![L] = joined]
  BY DEF JoinLast
<1> HIDE DEF joined
<1>5. /\ more \in Seq(T) /\ Len(more) = L
      /\ \A j \in 1..L : more[j] = IF j = L THEN joined ELSE turns[j]
  <2>1. turns \in Seq(T) /\ joined \in T /\ L \in 1..Len(turns)
    BY <1>2, <1>3
  <2>2. /\ [turns EXCEPT ![L] = joined] \in Seq(T)
        /\ Len([turns EXCEPT ![L] = joined]) = Len(turns)
        /\ \A j \in 1..Len(turns) : [turns EXCEPT ![L] = joined][j] = IF j = L THEN joined ELSE turns[j]
    BY <2>1, ExceptSeq
  <2>3. QED
    BY <1>4, <2>2
<1>6. DOMAIN more = 1..L
  BY <1>5, LenProperties
<1> HIDE DEF L
<1>7. more[L] = joined /\ \A i \in 1..L : i # L => more[i] = turns[i]
  BY <1>2, <1>5
<1>8. QED
  BY <1>1, <1>3, <1>5, <1>6, <1>7 DEF L, LastIsJoined

LEMMA Joined ==
    ASSUME talk \in Seq(Messages), NEW s, NEW n \in Nat, n + 1 \in DOMAIN talk,
           NEW turns, Tells(turns, s, n),
           turns # <<>>, turns[Len(turns)].role = Turn(s, n + 1).role,
           NEW more, more = JoinLast(turns, Turn(s, n + 1))
    PROVE  Tells(more, s, n + 1) /\ (Alternate(turns) => Alternate(more))
<1> DEFINE turn == Turn(s, n + 1)
           L == Len(turns)
           old == turns[L]
           joined == more[L]
           D == Len(old.parts)
<1>1. turns \in Seq(TurnsOf(s)) /\ turn \in TurnsOf(s)
  BY PartsTyped DEF Tells
<1>2. /\ L \in Nat /\ L # 0 /\ DOMAIN turns = 1..L
      /\ more \in Seq(TurnsOf(s)) /\ DOMAIN more = 1..L /\ Len(more) = L
      /\ \A i \in 1..L : i # L => more[i] = turns[i]
      /\ joined.role = old.role
      /\ joined.parts = old.parts \o turn.parts
  <2> DEFINE T == TurnsOf(s)
  <2>1. turns \in Seq(T) /\ turn \in T /\ TurnSet(T) /\ turns # <<>>
    BY <1>1 DEF TurnsOf, TurnSet
  <2> HIDE DEF turn, T
  <2>2. more = JoinLast(turns, turn)
    BY DEF turn
  <2>3. LastIsJoined(turns, turn, more, T)
    BY <2>1, <2>2, LastJoined
  <2>4. QED
    BY <2>3 DEF T, LastIsJoined
<1> HIDE DEF L
<1>3. L \in 1..L /\ old \in TurnsOf(s)
  <2>1. L \in 1..L
    BY <1>2
  <2>2. QED
    BY <1>1, <2>1, LenProperties DEF L
<1>4. /\ old.parts \in Seq(PartsOf(s)) /\ turn.parts \in Seq(PartsOf(s))
      /\ joined.role = old.role
      /\ joined.parts = old.parts \o turn.parts
  <2> HIDE DEF old, turn, joined
  <2>1. old.parts \in Seq(PartsOf(s)) /\ turn.parts \in Seq(PartsOf(s))
    BY <1>1, <1>3 DEF TurnsOf
  <2>2. QED
    BY <1>2, <2>1
<1>5. /\ D \in Nat /\ DOMAIN old.parts = 1..D
      /\ \A j \in 1..D : j \in DOMAIN joined.parts /\ joined.parts[j] = old.parts[j]
      /\ \A j \in DOMAIN joined.parts : j \in Nat /\
            (j \notin 1..D => j > D /\ j - D \in DOMAIN turn.parts /\ joined.parts[j] = turn.parts[j - D])
      /\ \A k \in DOMAIN turn.parts :
            D + k \in DOMAIN joined.parts /\ joined.parts[D + k] = turn.parts[k]
  <2> DEFINE u == old.parts
             v == turn.parts
             w == joined.parts
  <2> HIDE DEF old, turn, joined
  <2>1. u \in Seq(PartsOf(s)) /\ v \in Seq(PartsOf(s)) /\ w = u \o v
    BY <1>4
  <2> HIDE DEF u, v, w
  <2>2. /\ Len(u) \in Nat /\ DOMAIN u = 1..Len(u)
        /\ \A j \in 1..Len(u) : j \in DOMAIN w /\ w[j] = u[j]
        /\ \A j \in DOMAIN w : j \in Nat /\
              (j \notin 1..Len(u) =>
                 j > Len(u) /\ j - Len(u) \in DOMAIN v /\ w[j] = v[j - Len(u)])
        /\ \A k \in DOMAIN v : Len(u) + k \in DOMAIN w /\ w[Len(u) + k] = v[k]
    BY <2>1, JoinedAt
  <2>3. QED
    BY <2>2 DEF u, v, w
<1>6. /\ more \in Seq(TurnsOf(s)) /\ DOMAIN more = 1..L /\ Len(more) = L
      /\ \A i \in 1..L : i # L => more[i] = turns[i]
      /\ more[L] = joined
  BY <1>2
<1>7. turn.parts = MessageParts(s, n + 1) /\ turns[L] = old /\ old.role = turn.role
  BY DEF Turn, L
<1> HIDE DEF turn, L, D, old, joined
<1>8. /\ PlacesOf(turns) \subseteq PlacesOf(more)
      /\ \A p \in PlacesOf(turns) : PartAt(more, p) = PartAt(turns, p) /\ p[1] \in 1..L
                                       /\ (p[1] = L => p[2] \in 1..D)
  <2>1. SUFFICES ASSUME NEW p \in PlacesOf(turns)
                 PROVE  /\ p \in PlacesOf(more) /\ PartAt(more, p) = PartAt(turns, p) /\ p[1] \in 1..L
                        /\ (p[1] = L => p[2] \in 1..D)
    OBVIOUS
  <2>2. PICK i \in DOMAIN turns : \E j \in DOMAIN turns[i].parts : p = <<i, j>>
    BY PlaceOf
  <2>3. PICK j \in DOMAIN turns[i].parts : p = <<i, j>>
    BY <2>2
  <2>4. i \in DOMAIN more /\ j \in DOMAIN more[i].parts /\ more[i].parts[j] = turns[i].parts[j]
        /\ i \in 1..L /\ (i = L => j \in 1..D)
    <3>1. CASE i = L
      <4>1. j \in 1..D
        BY <1>5, <1>7, <3>1
      <4>2. QED
        BY <1>2, <1>5, <1>6, <1>7, <3>1, <4>1
    <3>2. CASE i # L
      BY <1>2, <1>6, <3>2
    <3>3. QED
      BY <3>1, <3>2
  <2>5. p \in PlacesOf(more)
    BY <2>3, <2>4, PlaceOf
  <2>6. QED
    BY <2>3, <2>4, <2>5 DEF PartAt
<1>9. ASSUME NEW p \in PlacesOf(more) \ PlacesOf(turns)
      PROVE  /\ p[1] = L /\ p[2] > D /\ p[2] \in Nat
             /\ \E k \in DOMAIN turn.parts : PartAt(more, p) = turn.parts[k]
  <2>0. p \in PlacesOf(more) /\ p \notin PlacesOf(turns)
    OBVIOUS
  <2>1. PICK i \in DOMAIN more : \E j \in DOMAIN more[i].parts : p = <<i, j>>
    BY <2>0, PlaceOf
  <2>2. PICK j \in DOMAIN more[i].parts : p = <<i, j>>
    BY <2>1
  <2>3. i = L
    <3>1. SUFFICES ASSUME i # L PROVE FALSE
      OBVIOUS
    <3>2. i \in DOMAIN turns /\ more[i] = turns[i]
      BY <1>2, <1>6, <3>1
    <3>3. QED
      BY <2>2, <3>2, PlaceOf
  <2>4. j \in DOMAIN joined.parts
    BY <1>6, <2>3
  <2>5. j \notin 1..D
    <3>1. SUFFICES ASSUME j \in 1..D PROVE FALSE
      OBVIOUS
    <3>2. L \in DOMAIN turns /\ j \in DOMAIN turns[L].parts
      BY <1>2, <1>5, <1>7, <3>1
    <3>3. QED
      BY <2>2, <2>3, <3>2, PlaceOf
  <2>6. j \in Nat /\ j > D /\ j - D \in DOMAIN turn.parts /\ joined.parts[j] = turn.parts[j - D]
    BY <1>5, <2>4, <2>5
  <2>7. PartAt(more, p) = turn.parts[j - D]
    BY <1>6, <2>2, <2>3, <2>6 DEF PartAt
  <2>8. QED
    BY <2>2, <2>3, <2>6, <2>7
<1>10. ASSUME NEW k \in DOMAIN turn.parts
       PROVE  \E p \in PlacesOf(more) : PartAt(more, p) = turn.parts[k]
  <2>1. L \in DOMAIN more /\ D + k \in DOMAIN more[L].parts /\ more[L].parts[D + k] = turn.parts[k]
    BY <1>3, <1>5, <1>6
  <2>2. <<L, D + k>> \in PlacesOf(more)
    BY <2>1, PlaceOf
  <2>3. PartAt(more, <<L, D + k>>) = turn.parts[k]
    BY <2>1 DEF PartAt
  <2>4. QED
    BY <2>2, <2>3
<1>11. ASSUME NEW p \in PlacesOf(more), NEW q \in PlacesOf(turns), Before(p, q), p \notin PlacesOf(turns)
       PROVE  FALSE
  <2>1. p[1] = L /\ p[2] > D /\ p[2] \in Nat /\ q[1] \in 1..L /\ (q[1] = L => q[2] \in 1..D)
    BY <1>8, <1>9, <1>11
  <2>2. p[1] < q[1] \/ (p[1] = q[1] /\ p[2] < q[2])
    BY <1>11 DEF Before
  <2>3. L \in Nat /\ D \in Nat
    BY <1>2, <1>5
  <2>4. QED
    BY <2>1, <2>2, <2>3
<1>12. Tells(more, s, n + 1)
  BY <1>6, <1>7, <1>8, <1>9, <1>10, <1>11, ToldMore
<1>13. ASSUME Alternate(turns) PROVE Alternate(more)
  <2>1. \A i \in 1..L : more[i].role = turns[i].role
    BY <1>4, <1>6, <1>7
  <2>2. ASSUME NEW i \in 1..Len(more) - 1 PROVE more[i].role # more[i + 1].role
    <3>1. i \in 1..L - 1 /\ i \in 1..L /\ i + 1 \in 1..L
      BY <1>2, <1>6
    <3>2. turns[i].role # turns[i + 1].role
      BY <1>13, <3>1 DEF Alternate, L
    <3>3. QED
      BY <2>1, <3>1, <3>2
  <2>3. QED
    BY <2>2 DEF Alternate
<1>14. QED
  BY <1>12, <1>13

LEMMA PlainTold == ASSUME talk \in Seq(Messages), NEW s PROVE Tells(PlainTurns(s), s, Len(talk))
<1> DEFINE turns == PlainTurns(s)
           L == Len(talk)
<1>1. DOMAIN talk = 1..L /\ L \in Nat
  BY LenProperties
<1>2. turns = [i \in 1..L |-> Turn(s, i)]
  BY <1>1 DEF PlainTurns
<1> HIDE DEF L, turns
<1>3. turns \in Seq(TurnsOf(s))
  <2>1. \A i \in 1..L : Turn(s, i) \in TurnsOf(s)
    BY <1>1, PartsTyped
  <2>2. turns \in [1..L -> TurnsOf(s)]
    BY <1>2, <2>1
  <2>3. QED
    BY <1>1, <2>2
<1>4. \A i \in 1..L : i \in DOMAIN turns /\ turns[i].parts = MessageParts(s, i)
  BY <1>2 DEF Turn
<1>5. ASSUME NEW p \in PlacesOf(turns)
      PROVE  p[1] \in 1..L /\ \E k \in DOMAIN MessageParts(s, p[1]) : PartAt(turns, p) = MessageParts(s, p[1])[k]
  <2>1. PICK i \in DOMAIN turns : \E j \in DOMAIN turns[i].parts : p = <<i, j>>
    BY PlaceOf
  <2>2. PICK j \in DOMAIN turns[i].parts : p = <<i, j>>
    BY <2>1
  <2>3. i \in 1..L
    BY <1>2
  <2>4. j \in DOMAIN MessageParts(s, i) /\ PartAt(turns, p) = MessageParts(s, i)[j]
    BY <1>4, <2>2, <2>3 DEF PartAt
  <2>5. QED
    BY <2>2, <2>3, <2>4
<1>6. \A p \in PlacesOf(turns) : PartAt(turns, p).message = p[1]
  BY <1>1, <1>5, PartsTyped
<1>7. ASSUME NEW p \in PlacesOf(turns), NEW q \in PlacesOf(turns), Before(p, q)
      PROVE  PartAt(turns, p).message <= PartAt(turns, q).message
  <2>1. p[1] \in 1..L /\ q[1] \in 1..L
    BY <1>5
  <2>2. p[1] <= q[1]
    BY <1>1, <1>7, <2>1 DEF Before
  <2>3. QED
    BY <1>6, <2>2
<1>8. ASSUME NEW i \in 1..L, NEW k \in DOMAIN MessageParts(s, i)
      PROVE  \E p \in PlacesOf(turns) : PartAt(turns, p) = MessageParts(s, i)[k]
  <2>1. i \in DOMAIN turns /\ k \in DOMAIN turns[i].parts
    BY <1>4
  <2>2. <<i, k>> \in PlacesOf(turns)
    BY <2>1, PlaceOf
  <2>3. PartAt(turns, <<i, k>>) = MessageParts(s, i)[k]
    BY <1>4 DEF PartAt
  <2>4. QED
    BY <2>2, <2>3
<1>9. Tells(turns, s, L)
  BY <1>3, <1>5, <1>7, <1>8 DEF Tells
<1>10. QED
  BY <1>9 DEF turns, L

LEMMA Pushed ==
    ASSUME talk \in Seq(Messages), NEW s, NEW i \in DOMAIN talk, NEW turns \in Seq(TurnsOf(s))
    PROVE  /\ Push(turns, Turn(s, i)) \in Seq(TurnsOf(s))
           /\ \/ /\ turns # <<>> /\ turns[Len(turns)].role = Turn(s, i).role
                 /\ Push(turns, Turn(s, i)) = JoinLast(turns, Turn(s, i))
              \/ /\ turns = <<>> \/ turns[Len(turns)].role # Turn(s, i).role
                 /\ Push(turns, Turn(s, i)) = Append(turns, Turn(s, i))
<1> DEFINE turn == Turn(s, i)
<1>1. turn \in TurnsOf(s)
  BY PartsTyped
<1> HIDE DEF turn
<1>2. CASE turns # <<>> /\ turns[Len(turns)].role = turn.role
  <2>1. Push(turns, turn) = JoinLast(turns, turn)
    BY <1>2 DEF Push, Last, JoinLast
  <2>2. JoinLast(turns, turn) \in Seq(TurnsOf(s))
    <3> DEFINE more == JoinLast(turns, turn)
               T == TurnsOf(s)
    <3>1. TurnSet(T)
      BY DEF TurnSet, TurnsOf
    <3>2. more = JoinLast(turns, turn) /\ turn \in T /\ turns \in Seq(T)
      BY <1>1
    <3> HIDE DEF more, T
    <3>3. LastIsJoined(turns, turn, more, T)
      BY <1>2, <3>1, <3>2, LastJoined
    <3>4. QED
      BY <3>2, <3>3 DEF T, LastIsJoined
  <2>3. QED
    BY <1>2, <2>1, <2>2 DEF turn
<1>3. CASE turns = <<>> \/ turns[Len(turns)].role # turn.role
  <2>1. Push(turns, turn) = Append(turns, turn)
    BY <1>3 DEF Push, Last
  <2>2. Append(turns, turn) \in Seq(TurnsOf(s))
    BY <1>1, AppendProperties
  <2>3. QED
    BY <1>3, <2>1, <2>2 DEF turn
<1>4. QED
  BY <1>2, <1>3

LEMMA MergingIs ==
    ASSUME talk \in Seq(Messages), NEW s
    PROVE  Merging(s) = [n \in 0..Len(talk) |->
                            IF n = 0 THEN <<>> ELSE Push(Merging(s)[n - 1], Turn(s, n))]
<1> DEFINE L == Len(talk)
           S == Seq(TurnsOf(s))
           start == <<>>
           step == [x \in (1..L) \X S |-> Push(x[2], Turn(s, x[1]))]
<1>1. DOMAIN talk = 1..L /\ L \in Nat
  BY LenProperties
<1>2. start \in S
  BY EmptySeq
<1>3. ASSUME NEW k \in 1..L, NEW e \in S
      PROVE  step[<<k, e>>] \in S /\ step[<<k, e>>] = Push(e, Turn(s, k))
  <2>1. Push(e, Turn(s, k)) \in S
    BY <1>1, Pushed
  <2>2. <<k, e>> \in (1..L) \X S /\ <<k, e>>[1] = k /\ <<k, e>>[2] = e
    BY <2>1
  <2>3. step[<<k, e>>] = Push(e, Turn(s, k))
    BY <2>2
  <2>4. QED
    BY <2>1, <2>3
<1> HIDE DEF step, S, L, start
<1>4. PICK f : Iteration(f, start, step, S, L)
  <2>1. ClosedUnder(step, S, L)
    BY <1>3 DEF ClosedUnder
  <2>2. QED
    BY <1>1, <1>2, <2>1, Iterated
<1>5. ASSUME NEW n \in 0..L PROVE f[n] = IF n = 0 THEN <<>> ELSE Push(f[n - 1], Turn(s, n))
  <2>1. CASE n = 0
    BY <1>4, <2>1 DEF start, Iteration
  <2>2. CASE n # 0
    <3>1. n \in 1..L /\ n - 1 \in 0..L
      BY <1>1, <2>2
    <3>2. f[n - 1] \in S
      BY <1>4, <3>1 DEF Iteration
    <3>3. f[n] = Push(f[n - 1], Turn(s, n))
      BY <1>3, <1>4, <3>1, <3>2 DEF Iteration
    <3>4. QED
      BY <2>2, <3>3
  <2>3. QED
    BY <2>1, <2>2
<1>6. f = [n \in 0..L |-> IF n = 0 THEN <<>> ELSE Push(f[n - 1], Turn(s, n))]
  BY <1>4, <1>5 DEF Iteration
<1>7. QED
  BY <1>6 DEF Merging, L

LEMMA MergedTold ==
    ASSUME talk \in Seq(Messages), NEW s
    PROVE  Tells(MergedTurns(s), s, Len(talk)) /\ Alternate(MergedTurns(s))
<1> DEFINE L == Len(talk)
           f == Merging(s)
           good == {n \in 0..L : Tells(f[n], s, n) /\ Alternate(f[n])}
<1>1. DOMAIN talk = 1..L /\ L \in Nat
  BY LenProperties
<1>2. f = [n \in 0..L |-> IF n = 0 THEN <<>> ELSE Push(f[n - 1], Turn(s, n))]
  BY MergingIs
<1> HIDE DEF f, L
<1>3. 0 \in good
  <2>1. f[0] = <<>> /\ 0 \in 0..L
    BY <1>1, <1>2
  <2>2. <<>> \in Seq(TurnsOf(s)) /\ PlacesOf(<<>>) = {}
    <3>1. \A p : p \notin PlacesOf(<<>>)
      BY PlaceOf
    <3>2. QED
      BY <3>1, EmptySeq
  <2>3. Tells(<<>>, s, 0) /\ Alternate(<<>>)
    BY <2>2 DEF Tells, Alternate
  <2>4. QED
    BY <2>1, <2>3
<1>4. ASSUME NEW n \in 1..L, n - 1 \in good PROVE n \in good
  <2> DEFINE m == n - 1
  <2>1. m \in Nat /\ m + 1 = n /\ n \in 0..L /\ n # 0 /\ n \in DOMAIN talk
    BY <1>1
  <2>2. f[n] = Push(f[m], Turn(s, n)) /\ Tells(f[m], s, m) /\ Alternate(f[m])
    BY <1>2, <1>4, <2>1
  <2> HIDE DEF m
  <2> DEFINE turns == f[m]
             more == f[n]
  <2>3. more = Push(turns, Turn(s, m + 1)) /\ Tells(turns, s, m) /\ Alternate(turns)
        /\ m + 1 \in DOMAIN talk
    BY <2>1, <2>2
  <2> HIDE DEF turns, more
  <2>4. turns \in Seq(TurnsOf(s))
    BY <2>3 DEF Tells
  <2>5. \/ /\ turns # <<>> /\ turns[Len(turns)].role = Turn(s, m + 1).role
           /\ more = JoinLast(turns, Turn(s, m + 1))
        \/ /\ turns = <<>> \/ turns[Len(turns)].role # Turn(s, m + 1).role
           /\ more = Append(turns, Turn(s, m + 1))
    BY <2>3, <2>4, Pushed
  <2>6. Tells(more, s, m + 1) /\ Alternate(more)
    <3>1. CASE turns # <<>> /\ turns[Len(turns)].role = Turn(s, m + 1).role
      BY <2>1, <2>3, <2>5, <3>1, Joined
    <3>2. CASE turns = <<>> \/ turns[Len(turns)].role # Turn(s, m + 1).role
      <4>1. more = Append(turns, Turn(s, m + 1))
        BY <2>5, <3>2
      <4>2. QED
        BY <2>1, <2>3, <3>2, <4>1, Appended
    <3>3. QED
      BY <3>1, <3>2
  <2>7. QED
    BY <2>1, <2>6 DEF more
<1>5. L \in good
  <2> HIDE DEF good
  <2>1. \A n \in 0..L : n \in good
    BY <1>1, <1>3, <1>4, Along
  <2>2. QED
    BY <1>1, <2>1
<1>6. QED
  BY <1>5 DEF MergedTurns, f, L

\* Of a message: its calls are named by their place and carry the provider's id
\* or one the adapter made; a result follows the last answer, one for each of its
\* calls so far; a user speaks when none is pending.
CallsNamed(i) ==
    \A k \in DOMAIN talk[i].calls :
        /\ k <= MaxAsked /\ talk[i].calls[k][2] = <<i - 1, k>>
        /\ talk[i].calls[k][1] \in {<<"call", k - 1>>, <<"given", i - 1, k>>}

ResultOf(i, a) ==
    /\ talk[a].role = "assistant" /\ i - a \in DOMAIN talk[a].calls
    /\ \A j \in a + 1..i : talk[j].role = "tool"
    /\ talk[i].of = talk[a].calls[i - a][1] /\ talk[i].answers = talk[a].calls[i - a][2]

NonePending(i) ==
    \A a \in 1..i - 1 :
        talk[a].role = "assistant" /\ (\A j \in a + 1..i - 1 : talk[j].role # "assistant")
           => i - a \notin DOMAIN talk[a].calls

MessageKept(i) ==
    /\ CallsNamed(i)
    /\ talk[i].role = "tool" => \E a \in 1..i - 1 : ResultOf(i, a)
    /\ talk[i].role = "user" => NonePending(i)

TalkInv ==
    /\ speaker \in Speakers /\ options \subseteq Options /\ Valid(options)
    /\ talk \in Seq(Messages) /\ (verdict # "idle" => talk # <<>>)
    /\ \A i \in DOMAIN talk : MessageKept(i)
    /\ speaker # "claude" => \A p \in PlacesOf(payload) : PartAt(payload, p).message \in DOMAIN talk

\* The inductive invariant: the conversation is one a client may have, and what
\* was sent of it can still be told apart.
RequestInv == TalkInv /\ OptionsKept /\ ConversationKept

\* The id of a call tells the calls of one answer apart.
LEMMA IdsDiffer ==
    ASSUME TalkInv, NEW i \in DOMAIN talk, NEW k \in DOMAIN talk[i].calls,
           NEW l \in DOMAIN talk[i].calls, talk[i].calls[k][1] = talk[i].calls[l][1]
    PROVE  k = l /\ k \in Nat /\ k <= MaxAsked
<1> DEFINE calls == talk[i].calls
           id(n) == calls[n][1]
           L == i - 1
<1>1. calls \in Seq(Calls)
  <2>1. talk[i] \in Messages
    BY LenProperties DEF TalkInv
  <2>2. QED
    BY <2>1 DEF Messages
<1>2. k \in Nat \ {0} /\ l \in Nat \ {0}
  <2> HIDE DEF calls
  <2>1. DOMAIN calls = 1..Len(calls) /\ Len(calls) \in Nat
    BY <1>1, LenProperties
  <2>2. k \in DOMAIN calls /\ l \in DOMAIN calls
    BY DEF calls
  <2>3. QED
    BY <2>1, <2>2
<1>3. /\ id(k) \in {<<"call", k - 1>>, <<"given", L, k>>} /\ k <= MaxAsked
      /\ id(l) \in {<<"call", l - 1>>, <<"given", L, l>>}
      /\ id(k) = id(l)
  BY DEF TalkInv, MessageKept, CallsNamed
<1> HIDE DEF id, L
<1>4. CASE id(k) = <<"call", k - 1>>
  <2>1. id(k)[2] = k - 1 /\ id(k)[1] = "call"
    BY <1>4
  <2>2. id(l) = <<"call", l - 1>>
    <3>1. CASE id(l) = <<"given", L, l>>
      <4>1. id(l)[1] = "given"
        BY <3>1
      <4>2. QED
        BY <1>3, <2>1, <4>1
    <3>2. QED
      BY <1>3, <3>1
  <2>3. id(l)[2] = l - 1
    BY <2>2
  <2>4. QED
    BY <1>2, <1>3, <2>1, <2>3
<1>5. CASE id(k) = <<"given", L, k>>
  <2>1. id(k)[3] = k /\ id(k)[1] = "given"
    BY <1>5
  <2>2. id(l) = <<"given", L, l>>
    <3>1. CASE id(l) = <<"call", l - 1>>
      <4>1. id(l)[1] = "call"
        BY <3>1
      <4>2. QED
        BY <1>3, <2>1, <4>1
    <3>2. QED
      BY <1>3, <3>1
  <2>3. id(l)[3] = l
    BY <2>2
  <2>4. QED
    BY <1>2, <1>3, <2>1, <2>3
<1>6. QED
  BY <1>3, <1>4, <1>5

\* An id of one answer leads back to the call.
LEMMA NamedByCall ==
    ASSUME TalkInv, NEW a \in DOMAIN talk, NEW k \in DOMAIN talk[a].calls,
           ~GivenTwice(talk[a].calls[k][1])
    PROVE  NameOf(talk[a].calls[k][1]) = talk[a].calls[k][2]
<1> DEFINE id == talk[a].calls[k][1]
           made == {p \in (DOMAIN talk) \X (1..MaxAsked) :
                       p[2] <= Len(talk[p[1]].calls) /\ talk[p[1]].calls[p[2]][1] = id}
           S == {i \in DOMAIN talk : MadeIn(i, id)}
<1>1. DOMAIN talk = 1..Len(talk) /\ Len(talk) \in Nat
  BY LenProperties DEF TalkInv
<1>2. \A i \in DOMAIN talk : DOMAIN talk[i].calls = 1..Len(talk[i].calls) /\ Len(talk[i].calls) \in Nat
  <2>1. SUFFICES ASSUME NEW i \in DOMAIN talk
                 PROVE  DOMAIN talk[i].calls = 1..Len(talk[i].calls) /\ Len(talk[i].calls) \in Nat
    OBVIOUS
  <2>2. talk[i] \in Messages
    BY LenProperties DEF TalkInv
  <2>3. talk[i].calls \in Seq(Calls)
    BY <2>2 DEF Messages
  <2>4. QED
    BY <2>3, LenProperties
<1>3. \A i \in S : i = a
  <2>1. SUFFICES ASSUME NEW i \in S, i # a PROVE FALSE
    OBVIOUS
  <2>2. a \in S
    BY DEF MadeIn
  <2>3. IsFiniteSet(S)
    <3>1. IsFiniteSet(DOMAIN talk)
      <4>1. 1 \in Int /\ Len(talk) \in Int
        BY <1>1
      <4>2. IsFiniteSet(1..Len(talk))
        BY <4>1, FS_Interval
      <4>3. QED
        BY <1>1, <4>2
    <3>2. S \subseteq DOMAIN talk
      OBVIOUS
    <3>3. QED
      BY <3>1, <3>2, FS_Subset
  <2> HIDE DEF S
  <2>4. Cardinality(S) \in Nat /\ Cardinality(S) <= 1
    <3>1. Cardinality(S) \in Nat
      BY <2>3, FS_CardinalityType
    <3>2. ~(Cardinality(S) > 1)
      BY DEF GivenTwice, S
    <3>3. QED
      BY <3>1, <3>2
  <2>5. Cardinality({a}) = 1 /\ {a} \subseteq S
    BY <2>2, FS_Singleton
  <2>6. Cardinality({a}) = Cardinality(S)
    <3>1. Cardinality({a}) <= Cardinality(S)
      BY <2>3, <2>5, FS_Subset
    <3>2. QED
      BY <2>4, <2>5, <3>1
  <2>7. {a} = S
    BY <2>3, <2>5, <2>6, FS_Subset
  <2>8. QED
    BY <2>1, <2>7
<1>4. ASSUME NEW p \in made PROVE p = <<a, k>>
  <2>1. /\ p = <<p[1], p[2]>> /\ p[1] \in DOMAIN talk /\ p[2] \in 1..MaxAsked
        /\ p[2] <= Len(talk[p[1]].calls) /\ talk[p[1]].calls[p[2]][1] = id
    OBVIOUS
  <2>2. p[2] \in DOMAIN talk[p[1]].calls
    BY <1>2, <2>1, RequestBounds
  <2>3. p[1] \in S
    BY <2>1, <2>2 DEF MadeIn
  <2>4. p[1] = a
    BY <1>3, <2>3
  <2>5. p[2] = k
    BY <2>1, <2>2, <2>4, IdsDiffer
  <2>6. QED
    BY <2>1, <2>4, <2>5
<1>5. <<a, k>> \in made
  <2>1. k \in Nat /\ k <= MaxAsked
    BY IdsDiffer
  <2>2. k \in 1..Len(talk[a].calls)
    BY <1>2
  <2>3. k \in 1..MaxAsked /\ k <= Len(talk[a].calls)
    BY <1>2, <2>1, <2>2, RequestBounds
  <2>4. QED
    BY <2>3
<1> DEFINE last == CHOOSE p \in made : \A q \in made : q[1] < p[1] \/ (q[1] = p[1] /\ q[2] <= p[2])
<1>6. last = <<a, k>>
  <2>1. k \in Nat
    BY IdsDiffer
  <2>2. a \in Nat
    BY <1>1
  <2> HIDE DEF made
  <2>3. \A q \in made : q[1] < <<a, k>>[1] \/ (q[1] = <<a, k>>[1] /\ q[2] <= <<a, k>>[2])
    BY <1>4, <2>1
  <2>4. last \in made
    BY <1>5, <2>3
  <2>5. QED
    BY <1>4, <2>4
<1>7. NameOf(id) = talk[last[1]].calls[last[2]][2]
  BY DEF NameOf
<1> HIDE DEF last
<1>8. QED
  BY <1>6, <1>7

\* The parts of a result: it has the id of its call, and its name unless two
\* answers share the id and the client does not state the name.
LEMMA ResultPart ==
    ASSUME TalkInv, NEW s, NEW i \in DOMAIN talk, talk[i].role = "tool",
           NEW k \in DOMAIN MessageParts(s, i)
    PROVE  \/ MessageParts(s, i)[k].name = talk[i].answers
           \/ ~talk[i].named /\ GivenTwice(talk[i].of)
<1> DEFINE m == talk[i]
           name == IF s \in {"gemini", "ollama"} THEN ResultName(m) ELSE m.answers
<1>1. m \in Messages
  BY LenProperties DEF TalkInv
<1>2. m.calls = <<>> /\ m.named \in BOOLEAN
  BY <1>1 DEF Messages
<1>3. MessageParts(s, i) = <<Part("result", i, m.of, name)>>
  BY <1>2 DEF MessageParts
<1>4. MessageParts(s, i)[k].name = name
  <2> HIDE DEF name, m
  <2>1. DOMAIN MessageParts(s, i) = {1}
    BY <1>3
  <2>2. k = 1
    BY <2>1
  <2>3. QED
    BY <1>3, <2>2 DEF Part
<1>5. CASE s \in {"gemini", "ollama"} /\ ~m.named /\ ~GivenTwice(m.of)
  <2>1. PICK a \in 1..i - 1 : ResultOf(i, a)
    BY DEF TalkInv, MessageKept
  <2>2. a \in DOMAIN talk
    <3>1. DOMAIN talk = 1..Len(talk) /\ Len(talk) \in Nat
      BY LenProperties DEF TalkInv
    <3>2. QED
      BY <3>1
  <2>3. /\ i - a \in DOMAIN talk[a].calls
        /\ m.of = talk[a].calls[i - a][1] /\ m.answers = talk[a].calls[i - a][2]
    BY <2>1 DEF ResultOf
  <2>4. NameOf(m.of) = m.answers
    BY <1>5, <2>2, <2>3, NamedByCall
  <2>5. QED
    BY <1>4, <1>5, <2>4 DEF ResultName
<1>6. CASE ~(s \in {"gemini", "ollama"}) \/ m.named
  BY <1>4, <1>6 DEF ResultName
<1>7. QED
  BY <1>5, <1>6

\* The call a result answers is a part of the answer before it.
LEMMA CallPart ==
    ASSUME TalkInv, NEW s, NEW a \in DOMAIN talk, NEW k \in DOMAIN talk[a].calls,
           talk[a].role = "assistant"
    PROVE  /\ k \in DOMAIN MessageParts(s, a) /\ MessageParts(s, a)[k].kind = "call"
           /\ MessageParts(s, a)[k].id = talk[a].calls[k][1]
           /\ MessageParts(s, a)[k].name = talk[a].calls[k][2]
<1> DEFINE m == talk[a]
<1>1. m.calls # <<>>
  OBVIOUS
<1>2. MessageParts(s, a) = [l \in DOMAIN m.calls |-> Part("call", a, m.calls[l][1], m.calls[l][2])]
  BY <1>1 DEF MessageParts
<1>3. QED
  BY <1>2 DEF Part

\* Whatever tells the conversation lets the provider find the call of a result.
LEMMA ResultsFound ==
    ASSUME TalkInv, NEW s, NEW turns, Tells(turns, s, Len(talk)), NEW n \in PlacesOf(turns),
           PartAt(turns, n).kind = "result"
    PROVE  LET part == PartAt(turns, n)
               m == talk[part.message]
           IN  /\ part.name = m.answers \/ (~m.named /\ GivenTwice(m.of))
               /\ \E p \in PlacesOf(turns) :
                     /\ Before(p, n) /\ PartAt(turns, p).kind = "call"
                     /\ PartAt(turns, p).id = m.of /\ PartAt(turns, p).name = m.answers
                     /\ \A q \in PlacesOf(turns) :
                           Before(p, q) /\ Before(q, n) => PartAt(turns, q).kind # "text"
<1>0. talk \in Seq(Messages)
  BY DEF TalkInv
<1>1. DOMAIN talk = 1..Len(talk) /\ Len(talk) \in Nat
  BY <1>0, LenProperties
<1>2. ASSUME NEW p \in PlacesOf(turns)
      PROVE  LET i == PartAt(turns, p).message
             IN  /\ i \in DOMAIN talk /\ PartAt(turns, p).kind = KindOf(talk[i])
                 /\ \E k \in DOMAIN MessageParts(s, i) : PartAt(turns, p) = MessageParts(s, i)[k]
  <2>1. PICK i \in 1..Len(talk) : \E k \in DOMAIN MessageParts(s, i) : PartAt(turns, p) = MessageParts(s, i)[k]
    BY DEF Tells
  <2>2. PICK k \in DOMAIN MessageParts(s, i) : PartAt(turns, p) = MessageParts(s, i)[k]
    BY <2>1
  <2>3. i \in DOMAIN talk /\ MessageParts(s, i)[k].message = i /\ MessageParts(s, i)[k].kind = KindOf(talk[i])
    BY <1>0, <1>1, PartsTyped
  <2>4. QED
    BY <2>2, <2>3
<1> DEFINE i == PartAt(turns, n).message
<1>3. i \in DOMAIN talk /\ talk[i].role = "tool"
  <2>1. i \in DOMAIN talk /\ KindOf(talk[i]) = "result"
    BY <1>2
  <2>2. QED
    BY <2>1 DEF KindOf
<1>4. PICK k \in DOMAIN MessageParts(s, i) : PartAt(turns, n) = MessageParts(s, i)[k]
  BY <1>2
<1> DEFINE part == PartAt(turns, n)
           m == talk[i]
<1>5. part.name = m.answers \/ (~m.named /\ GivenTwice(m.of))
  <2> HIDE DEF i
  <2>1. QED
    BY <1>3, <1>4, ResultPart
<1>6. PICK a \in 1..i - 1 : ResultOf(i, a)
  <2> HIDE DEF i
  <2>1. QED
    BY <1>3 DEF TalkInv, MessageKept
<1>7. a \in DOMAIN talk /\ a < i /\ a \in Nat /\ i \in Nat
  BY <1>1, <1>3
<1>8. /\ talk[a].role = "assistant" /\ i - a \in DOMAIN talk[a].calls
      /\ \A j \in a + 1..i : talk[j].role = "tool"
      /\ m.of = talk[a].calls[i - a][1] /\ m.answers = talk[a].calls[i - a][2]
  BY <1>6 DEF ResultOf
<1> DEFINE c == i - a
<1>9. PICK p \in PlacesOf(turns) : PartAt(turns, p) = MessageParts(s, a)[c]
  <2>1. c \in DOMAIN MessageParts(s, a) /\ a \in 1..Len(talk)
    BY <1>1, <1>7, <1>8, CallPart
  <2> HIDE DEF c
  <2>2. QED
    BY <2>1 DEF Tells
<1> HIDE DEF i
<1>10. /\ PartAt(turns, p).kind = "call" /\ PartAt(turns, p).message = a
       /\ PartAt(turns, p).id = m.of /\ PartAt(turns, p).name = m.answers
  <2>1. c \in DOMAIN MessageParts(s, a) /\ MessageParts(s, a)[c].kind = "call"
        /\ MessageParts(s, a)[c].id = talk[a].calls[c][1]
        /\ MessageParts(s, a)[c].name = talk[a].calls[c][2]
    BY <1>7, <1>8, CallPart
  <2>2. MessageParts(s, a)[c].message = a
    BY <1>0, <1>7, <2>1, PartsTyped
  <2>3. QED
    BY <1>8, <1>9, <2>1, <2>2
<1>11. Before(p, n)
  <2>1. Before(p, n) \/ Before(n, p) \/ p = n
    <3>1. ASSUME NEW q \in PlacesOf(turns) PROVE q = <<q[1], q[2]>> /\ q[1] \in Nat /\ q[2] \in Nat
      <4>1. PICK u \in DOMAIN turns : \E v \in DOMAIN turns[u].parts : q = <<u, v>>
        BY PlaceOf
      <4>2. PICK v \in DOMAIN turns[u].parts : q = <<u, v>>
        BY <4>1
      <4>3. turns \in Seq(TurnsOf(s))
        BY DEF Tells
      <4>4. DOMAIN turns = 1..Len(turns) /\ Len(turns) \in Nat /\ turns[u] \in TurnsOf(s)
        BY <4>3, LenProperties
      <4>5. turns[u].parts \in Seq(PartsOf(s))
        BY <4>4 DEF TurnsOf
      <4>6. DOMAIN turns[u].parts = 1..Len(turns[u].parts) /\ Len(turns[u].parts) \in Nat
        BY <4>5, LenProperties
      <4>7. u \in Nat /\ v \in Nat
        BY <4>4, <4>6
      <4>8. QED
        BY <4>2, <4>7
    <3>2. /\ p = <<p[1], p[2]>> /\ p[1] \in Nat /\ p[2] \in Nat
          /\ n = <<n[1], n[2]>> /\ n[1] \in Nat /\ n[2] \in Nat
      BY <3>1
    <3>3. p[1] < n[1] \/ n[1] < p[1] \/ (p[1] = n[1] /\ (p[2] < n[2] \/ n[2] < p[2] \/ p[2] = n[2]))
      BY <3>2
    <3>4. QED
      BY <3>2, <3>3 DEF Before
  <2>2. p # n
    BY <1>7, <1>10 DEF i
  <2>3. ~Before(n, p)
    <3>1. Before(n, p) => PartAt(turns, n).message <= PartAt(turns, p).message
      BY DEF Tells
    <3>2. QED
      BY <1>7, <1>10, <3>1 DEF i
  <2>4. QED
    BY <2>1, <2>2, <2>3
<1>12. ASSUME NEW q \in PlacesOf(turns), Before(p, q), Before(q, n)
       PROVE  PartAt(turns, q).kind # "text"
  <2> DEFINE j == PartAt(turns, q).message
  <2>1. j \in DOMAIN talk /\ PartAt(turns, q).kind = KindOf(talk[j])
    BY <1>2
  <2>2. a <= j /\ j <= i
    <3>1. PartAt(turns, p).message <= j /\ j <= PartAt(turns, n).message
      BY <1>12 DEF Tells
    <3>2. QED
      BY <1>10, <3>1 DEF i
  <2> HIDE DEF j
  <2>3. CASE j = a
    <3>1. talk[a].calls # <<>>
      BY <1>8
    <3>2. QED
      BY <1>8, <2>1, <2>3, <3>1 DEF KindOf
  <2>4. CASE j # a
    <3>1. j \in a + 1..i
      BY <1>1, <1>7, <2>1, <2>2, <2>4
    <3>2. QED
      BY <1>8, <2>1, <3>1 DEF KindOf
  <2>5. QED
    BY <2>3, <2>4
<1>13. QED
  BY <1>5, <1>10, <1>11, <1>12 DEF i

\* What is sent without an option that was asked for would not have been changed by it.
LEMMA OptionsSent ==
    ASSUME speaker \in Speakers, options \subseteq Options, Valid(options),
           CheckRequest(speaker, options), CanBuild(speaker, options)
    PROVE  /\ options \ Carried(speaker, options) \subseteq
                 Moot(options) \cup (IF speaker = "claude" THEN {"temperature", "max_tokens", "stop"} ELSE {})
           /\ options \cap unable = {}
<1>1. options \cap unable = {}
  BY DEF CheckRequest, Lacks
<1>2. SUFFICES ASSUME NEW o \in options, o \notin Carried(speaker, options)
               PROVE  o \in Moot(options) \cup (IF speaker = "claude" THEN {"temperature", "max_tokens", "stop"} ELSE {})
  BY <1>1
<1>3. o \in Options /\ options \cap ApiLacks(speaker) = {} /\ ("effort" \in options => SendsEffort(speaker))
  BY DEF CheckRequest, Lacks
<1>4. CASE speaker \in {"openai", "compatible"}
  <2>1. Carried(speaker, options) = OpenAIPayload(options)
    BY <1>4 DEF Carried
  <2>2. "tools" \notin options /\ o \in {"parallel", "serial"}
    BY <1>2, <2>1 DEF OpenAIPayload
  <2>3. QED
    BY <2>2 DEF Moot
<1>5. CASE speaker = "anthropic"
  <2>1. Carried(speaker, options) = AnthropicPayload(options)
    BY <1>5 DEF Carried
  <2>2. o \in {"parallel", "json"} \cup (IF "tools" \in options THEN {} ELSE {"none", "serial"})
            \cup (IF "none" \in options THEN {"serial"} ELSE {})
    BY <1>2, <2>1 DEF AnthropicPayload
  <2>3. o # "json"
    BY <1>3, <1>5 DEF ApiLacks
  <2>4. QED
    BY <2>2, <2>3 DEF Moot
<1>6. CASE speaker = "gemini"
  <2>1. Carried(speaker, options) = GeminiPayload(options)
    BY <1>6 DEF Carried
  <2>2. o \in {"parallel", "effort"}
    BY <1>2, <2>1 DEF GeminiPayload
  <2>3. o # "effort"
    BY <1>3, <1>6 DEF SendsEffort
  <2>4. QED
    BY <2>2, <2>3 DEF Moot
<1>7. CASE speaker = "ollama"
  <2>1. Carried(speaker, options) = OllamaPayload(options)
    BY <1>7 DEF Carried
  <2>2. o \in {"auto", "parallel"}
    BY <1>2, <2>1 DEF OllamaPayload
  <2>3. QED
    BY <2>2 DEF Moot
<1>8. CASE speaker = "claude"
  <2>1. o \notin {"tools", "parallel", "schema", "json", "image"} /\ "tools" \notin options
    BY <1>3, <1>8 DEF ApiLacks
  <2>2. o # "effort"
    BY <1>3, <1>8 DEF SendsEffort
  <2>3. o \notin {"required", "tool"}
    BY <2>1 DEF Valid
  <2>4. o \in {"auto", "none", "serial", "temperature", "max_tokens", "stop"}
    BY <1>3, <2>1, <2>2, <2>3 DEF Options, Features
  <2>5. QED
    BY <1>8, <2>1, <2>4 DEF Moot
<1>9. QED
  BY <1>4, <1>5, <1>6, <1>7, <1>8 DEF Speakers

\* What a request sends can be told apart.
LEMMA ConversationSent ==
    ASSUME TalkInv, speaker # "claude"
    PROVE  /\ Tells(ConvertMessages(speaker), speaker, Len(talk))
           /\ speaker \in {"anthropic", "gemini"} => Alternate(ConvertMessages(speaker))
<1>1. talk \in Seq(Messages) /\ speaker \in Speakers
  BY DEF TalkInv
<1>2. CASE speaker \in {"anthropic", "gemini"}
  BY <1>1, <1>2, MergedTold DEF ConvertMessages
<1>3. CASE speaker \notin {"anthropic", "gemini"}
  BY <1>1, <1>3, PlainTold DEF ConvertMessages
<1>4. QED
  BY <1>2, <1>3

\* Every part that is sent is of a message of the conversation.
LEMMA PartOfMessage ==
    ASSUME talk \in Seq(Messages), NEW s, NEW turns, Tells(turns, s, Len(talk)), NEW p \in PlacesOf(turns)
    PROVE  PartAt(turns, p).message \in DOMAIN talk
<1>1. DOMAIN talk = 1..Len(talk) /\ Len(talk) \in Nat
  BY LenProperties
<1>2. PICK i \in 1..Len(talk) : \E k \in DOMAIN MessageParts(s, i) : PartAt(turns, p) = MessageParts(s, i)[k]
  BY DEF Tells
<1>3. QED
  BY <1>1, <1>2, PartsTyped

LEMMA AskStep == ASSUME RequestInv, Ask PROVE RequestInv'
<1>1. /\ verdict = "open" /\ UNCHANGED <<speaker, talk, options, unable>>
      /\ \/ CheckRequest(speaker, options) /\ CanBuild(speaker, options)
            /\ verdict' = "sent" /\ payload' = ConvertMessages(speaker)
         \/ verdict' = "refused" /\ UNCHANGED payload
  BY DEF Ask
<1>2. /\ TalkInv /\ OptionsKept /\ ConversationKept
      /\ speaker \in Speakers /\ options \subseteq Options /\ Valid(options) /\ talk \in Seq(Messages)
  BY DEF RequestInv, TalkInv
<1>3. OptionsKept'
  <2>1. CASE verdict' = "sent"
    <3>1. CheckRequest(speaker, options) /\ CanBuild(speaker, options)
      BY <1>1, <2>1
    <3>2. QED
      BY <1>1, <1>2, <3>1, OptionsSent DEF OptionsKept
  <2>2. CASE verdict' # "sent"
    BY <2>2 DEF OptionsKept
  <2>3. QED
    BY <2>1, <2>2
<1>4. TalkInv'
  <2>1. speaker' # "claude" => \A p \in PlacesOf(payload') : PartAt(payload', p).message \in DOMAIN talk
    <3>1. CASE UNCHANGED payload
      BY <1>1, <1>2, <3>1 DEF TalkInv
    <3>2. CASE payload' = ConvertMessages(speaker)
      BY <1>1, <1>2, <3>2, ConversationSent, PartOfMessage
    <3>3. QED
      BY <1>1, <3>1, <3>2
  <2>2. talk # <<>> /\ \A i \in DOMAIN talk : MessageKept(i)
    BY <1>1, <1>2 DEF TalkInv
  <2>3. \A i \in DOMAIN talk : MessageKept(i)'
    BY <1>1, <2>2 DEF MessageKept, CallsNamed, ResultOf, NonePending
  <2>4. /\ (speaker \in Speakers /\ options \subseteq Options /\ Valid(options))'
        /\ (talk \in Seq(Messages))' /\ (talk # <<>>)'
    BY <1>1, <1>2, <2>2
  <2>5. QED
    BY <1>1, <2>1, <2>3, <2>4 DEF TalkInv
<1>5. ConversationKept'
  <2>1. \A id : GivenTwice(id)' <=> GivenTwice(id)
    BY <1>1 DEF GivenTwice, MadeIn
  <2>2. CASE UNCHANGED payload
    BY <1>1, <1>2, <2>1, <2>2 DEF ConversationKept
  <2>3. CASE payload' = ConvertMessages(speaker)
    <3>1. SUFFICES ASSUME speaker # "claude" PROVE ConversationKept'
      BY <1>1 DEF ConversationKept
    <3> DEFINE turns == ConvertMessages(speaker)
    <3>2. Tells(turns, speaker, Len(talk)) /\ (speaker \in {"anthropic", "gemini"} => Alternate(turns))
      BY <1>2, <3>1, ConversationSent
    <3> HIDE DEF turns
    <3>3. \A n \in PlacesOf(turns) :
              LET part == PartAt(turns, n)
                  m == talk[part.message]
              IN  part.kind = "result" =>
                    /\ part.name = m.answers \/ (~m.named /\ GivenTwice(m.of))
                    /\ \E p \in PlacesOf(turns) :
                          /\ Before(p, n) /\ PartAt(turns, p).kind = "call"
                          /\ PartAt(turns, p).id = m.of /\ PartAt(turns, p).name = m.answers
                          /\ \A q \in PlacesOf(turns) :
                                Before(p, q) /\ Before(q, n) => PartAt(turns, q).kind # "text"
      BY <1>2, <3>2, ResultsFound
    <3>4. speaker \in {"anthropic", "gemini"} => \A i \in 1..Len(turns) - 1 : turns[i].role # turns[i + 1].role
      BY <3>2 DEF Alternate
    <3>5. payload' = turns /\ talk' = talk /\ speaker' = speaker
      BY <1>1, <2>3 DEF turns
    <3>6. QED
      BY <2>1, <3>3, <3>4, <3>5 DEF ConversationKept
  <2>4. QED
    BY <1>1, <2>2, <2>3
<1>6. QED
  BY <1>3, <1>4, <1>5 DEF RequestInv

LEMMA Longer ==
    ASSUME talk \in Seq(Messages), NEW m \in Messages, talk' = Append(talk, m)
    PROVE  /\ talk' \in Seq(Messages) /\ talk' # <<>>
           /\ DOMAIN talk = 1..Len(talk) /\ Len(talk) \in Nat
           /\ DOMAIN talk' = 1..Len(talk) + 1 /\ Len(talk') = Len(talk) + 1
           /\ \A i \in 1..Len(talk) : talk'[i] = talk[i]
           /\ talk'[Len(talk) + 1] = m
<1> DEFINE more == Append(talk, m)
           L == Len(talk)
<1>1. /\ more \in Seq(Messages) /\ more # <<>> /\ Len(more) = L + 1
      /\ \A i \in 1..L : more[i] = talk[i]
      /\ more[L + 1] = m
  BY AppendProperties
<1>2. DOMAIN talk = 1..L /\ L \in Nat
  BY LenProperties
<1> HIDE DEF L
<1>3. talk' = more
  OBVIOUS
<1> HIDE DEF more
<1>4. DOMAIN more = 1..L + 1
  BY <1>1, LenProperties
<1>5. QED
  BY <1>1, <1>2, <1>3, <1>4 DEF L

\* What the conversation was stays as it is when something more is said.
LEMMA MessagesStay ==
    ASSUME talk \in Seq(Messages), NEW m \in Messages, talk' = Append(talk, m),
           NEW i \in DOMAIN talk, MessageKept(i)
    PROVE  MessageKept(i)'
<1> DEFINE L == Len(talk)
<1>1. /\ DOMAIN talk = 1..L /\ L \in Nat /\ i \in 1..L
      /\ \A j \in 1..L : talk'[j] = talk[j]
  BY Longer
<1> HIDE DEF L
<1>2. \A j \in 1..i : talk'[j] = talk[j]
  BY <1>1
<1>3. talk'[i] = talk[i]
  BY <1>1
<1>4. CallsNamed(i)'
  BY <1>3 DEF MessageKept, CallsNamed
<1>5. ASSUME NEW a \in 1..i - 1, ResultOf(i, a) PROVE ResultOf(i, a)'
  <2>1. talk'[a] = talk[a] /\ \A j \in a + 1..i : talk'[j] = talk[j]
    BY <1>1, <1>2
  <2>2. QED
    BY <1>3, <1>5, <2>1 DEF ResultOf
<1>6. ASSUME NonePending(i) PROVE NonePending(i)'
  <2>1. ASSUME NEW a \in 1..i - 1, talk'[a].role = "assistant",
               \A j \in a + 1..i - 1 : talk'[j].role # "assistant"
        PROVE  i - a \notin DOMAIN talk'[a].calls
    <3>1. talk'[a] = talk[a] /\ \A j \in a + 1..i - 1 : talk'[j] = talk[j]
      BY <1>1, <1>2
    <3>2. talk[a].role = "assistant" /\ \A j \in a + 1..i - 1 : talk[j].role # "assistant"
      BY <2>1, <3>1
    <3>3. QED
      BY <1>6, <3>1, <3>2 DEF NonePending
  <2>2. QED
    BY <2>1 DEF NonePending
<1>7. QED
  BY <1>3, <1>4, <1>5, <1>6 DEF MessageKept

\* GivenTwice, of a conversation that is given.
GivenIn(said, id) ==
    Cardinality({i \in DOMAIN said : \E k \in DOMAIN said[i].calls : said[i].calls[k][1] = id}) > 1

LEMMA MoreGiven ==
    ASSUME talk \in Seq(Messages), NEW m \in Messages, talk' = Append(talk, m), NEW id,
           GivenIn(talk, id)
    PROVE  GivenIn(talk', id)
<1> DEFINE L == Len(talk)
           S == {i \in DOMAIN talk : \E k \in DOMAIN talk[i].calls : talk[i].calls[k][1] = id}
           T == {i \in DOMAIN talk' : \E k \in DOMAIN talk'[i].calls : talk'[i].calls[k][1] = id}
<1>1. /\ DOMAIN talk = 1..L /\ L \in Nat /\ DOMAIN talk' = 1..L + 1
      /\ \A j \in 1..L : talk'[j] = talk[j]
  BY Longer
<1> HIDE DEF L
<1>2. S \subseteq T
  <2>1. SUFFICES ASSUME NEW i \in S PROVE i \in T
    OBVIOUS
  <2>2. i \in DOMAIN talk' /\ talk'[i] = talk[i]
    BY <1>1
  <2>3. QED
    BY <2>2
<1>3. IsFiniteSet(T)
  <2>1. 1 \in Int /\ L + 1 \in Int
    BY <1>1
  <2>2. IsFiniteSet(1..L + 1)
    BY <2>1, FS_Interval
  <2>3. T \subseteq 1..L + 1
    BY <1>1
  <2>4. QED
    BY <2>2, <2>3, FS_Subset
<1> HIDE DEF S, T
<1>4. Cardinality(S) <= Cardinality(T) /\ IsFiniteSet(S)
  BY <1>2, <1>3, FS_Subset
<1>5. Cardinality(S) > 1 /\ Cardinality(S) \in Nat /\ Cardinality(T) \in Nat
  BY <1>3, <1>4, FS_CardinalityType DEF GivenIn, S
<1>6. Cardinality(T) > 1
  BY <1>4, <1>5
<1>7. QED
  BY <1>6 DEF GivenIn, T

LEMMA SayStep ==
    ASSUME RequestInv, NEW m \in Messages, Say(m),
           NEW new, new = Len(talk) + 1, MessageKept(new)',
           verdict' = "sent" => verdict = "sent"
    PROVE  RequestInv'
<1>1. /\ TalkInv /\ OptionsKept /\ ConversationKept /\ talk \in Seq(Messages)
      /\ talk' = Append(talk, m) /\ UNCHANGED <<speaker, options, unable, payload>>
  BY DEF RequestInv, TalkInv, Say
<1>2. OptionsKept'
  BY <1>1 DEF OptionsKept
<1>3. /\ talk' \in Seq(Messages) /\ talk' # <<>>
      /\ DOMAIN talk = 1..Len(talk) /\ Len(talk) \in Nat
      /\ DOMAIN talk' = 1..Len(talk) + 1 /\ Len(talk') = Len(talk) + 1
      /\ \A i \in 1..Len(talk) : talk'[i] = talk[i]
      /\ talk'[Len(talk) + 1] = m
  BY <1>1, Longer
<1>4. TalkInv'
  <2>1. ASSUME NEW i \in DOMAIN talk' PROVE MessageKept(i)'
    <3>1. CASE i = new
      BY <3>1
    <3>2. CASE i # new
      <4>1. i \in DOMAIN talk
        BY <1>3, <3>2
      <4>2. MessageKept(i)
        BY <1>1, <4>1 DEF TalkInv
      <4>3. QED
        BY <1>1, <4>1, <4>2, MessagesStay
    <3>3. QED
      BY <3>1, <3>2
  <2>2. speaker' # "claude" => \A p \in PlacesOf(payload') : PartAt(payload', p).message \in DOMAIN talk'
    <3>1. DOMAIN talk \subseteq DOMAIN talk'
      BY <1>3
    <3>2. QED
      BY <1>1, <3>1 DEF TalkInv
  <2>3. (speaker \in Speakers /\ options \subseteq Options /\ Valid(options))'
    BY <1>1 DEF TalkInv
  <2>4. QED
    BY <1>3, <2>1, <2>2, <2>3 DEF TalkInv
<1>5. ConversationKept'
  <2>1. \A id : GivenIn(talk, id) => GivenIn(talk', id)
    BY <1>1, MoreGiven
  <2>2. speaker # "claude" => \A p \in PlacesOf(payload) :
           talk'[PartAt(payload, p).message] = talk[PartAt(payload, p).message]
    BY <1>1, <1>3 DEF TalkInv
  <2>3. SUFFICES ASSUME payload # NoPayload, speaker # "claude"
                 PROVE  ConversationKept'
    BY <1>1 DEF ConversationKept
  <2>4. ASSUME NEW n \in PlacesOf(payload), PartAt(payload, n).kind = "result"
        PROVE  LET part == PartAt(payload, n)
                   w == talk'[part.message]
               IN  /\ part.name = w.answers \/ (~w.named /\ GivenIn(talk', w.of))
                   /\ \E p \in PlacesOf(payload) :
                         /\ Before(p, n) /\ PartAt(payload, p).kind = "call"
                         /\ PartAt(payload, p).id = w.of /\ PartAt(payload, p).name = w.answers
                         /\ \A q \in PlacesOf(payload) :
                               Before(p, q) /\ Before(q, n) => PartAt(payload, q).kind # "text"
    <3> DEFINE part == PartAt(payload, n)
               w == talk[part.message]
    <3>1. /\ part.name = w.answers \/ (~w.named /\ GivenIn(talk, w.of))
          /\ \E p \in PlacesOf(payload) :
                /\ Before(p, n) /\ PartAt(payload, p).kind = "call"
                /\ PartAt(payload, p).id = w.of /\ PartAt(payload, p).name = w.answers
                /\ \A q \in PlacesOf(payload) :
                      Before(p, q) /\ Before(q, n) => PartAt(payload, q).kind # "text"
      BY <1>1, <2>3, <2>4 DEF ConversationKept, GivenTwice, MadeIn, GivenIn
    <3>2. talk'[part.message] = w
      BY <2>2, <2>3
    <3> HIDE DEF w
    <3>3. part.name = w.answers \/ (~w.named /\ GivenIn(talk', w.of))
      BY <2>1, <3>1
    <3>4. QED
      BY <3>1, <3>2, <3>3
  <2>5. speaker \in {"anthropic", "gemini"} =>
           \A i \in 1..Len(payload) - 1 : payload[i].role # payload[i + 1].role
    BY <1>1, <2>3 DEF ConversationKept
  <2>6. \A id : GivenTwice(id)' <=> GivenIn(talk', id)
    BY DEF GivenTwice, MadeIn, GivenIn
  <2>7. payload' = payload /\ speaker' = speaker
    BY <1>1
  <2>8. \A n \in PlacesOf(payload) :
           LET part == PartAt(payload, n)
               w == talk'[part.message]
           IN  part.kind = "result" =>
                 /\ part.name = w.answers \/ (~w.named /\ GivenIn(talk', w.of))
                 /\ \E p \in PlacesOf(payload) :
                       /\ Before(p, n) /\ PartAt(payload, p).kind = "call"
                       /\ PartAt(payload, p).id = w.of /\ PartAt(payload, p).name = w.answers
                       /\ \A q \in PlacesOf(payload) :
                             Before(p, q) /\ Before(q, n) => PartAt(payload, q).kind # "text"
    BY <2>4
  <2>9. QED
    BY <2>5, <2>6, <2>7, <2>8 DEF ConversationKept
<1>6. QED
  BY <1>2, <1>4, <1>5 DEF RequestInv

LEMMA UserSaysStep == ASSUME RequestInv, UserSays PROVE RequestInv'
<1> DEFINE m == [role |-> "user", calls |-> <<>>, of |-> <<>>, answers |-> <<>>, named |-> FALSE]
           L == Len(talk)
<1>1. Say(m) /\ verdict = "open" /\ UNCHANGED verdict /\ Pending = {} /\ Last(talk).role # "user"
  BY DEF UserSays
<1>2. m \in Messages
  BY EmptySeq DEF Messages
<1>3. talk \in Seq(Messages) /\ talk' = Append(talk, m)
  BY <1>1 DEF RequestInv, TalkInv, Say
<1> HIDE DEF m
<1>4. /\ DOMAIN talk = 1..L /\ L \in Nat
      /\ DOMAIN talk' = 1..L + 1
      /\ \A i \in 1..L : talk'[i] = talk[i]
      /\ talk'[L + 1] = m
  BY <1>2, <1>3, Longer
<1>5. m.role = "user" /\ m.calls = <<>>
  BY DEF m
<1>6. ASSUME NEW a \in 1..L, talk'[a].role = "assistant", \A j \in a + 1..L : talk'[j].role # "assistant"
      PROVE  L + 1 - a \notin DOMAIN talk'[a].calls
  <2> HIDE DEF L
  <2>1. talk'[a] = talk[a] /\ a \in Answers
    BY <1>4, <1>6 DEF Answers
  <2>2. \A j \in Answers : j <= a /\ j \in Nat
    <3>1. SUFFICES ASSUME NEW j \in Answers PROVE j <= a /\ j \in Nat
      OBVIOUS
    <3>2. j \in 1..L /\ talk'[j].role = "assistant"
      BY <1>4 DEF Answers
    <3>3. j \notin a + 1..L
      BY <1>6, <3>2
    <3>4. QED
      BY <1>4, <3>2, <3>3
  <2>3. LastAnswer = a
    <3>1. LastAnswer \in Answers /\ \A j \in Answers : j <= LastAnswer
      BY <2>1, <2>2 DEF LastAnswer
    <3>2. QED
      BY <2>1, <2>2, <3>1
  <2>4. \A k \in DOMAIN talk[a].calls : k # L - a + 1
    BY <1>1, <2>1, <2>3 DEF Pending, L
  <2>5. L + 1 - a = L - a + 1
    BY <1>4
  <2>6. QED
    BY <2>1, <2>4, <2>5
<1> DEFINE new == L + 1
<1>7. \A i : i = new => MessageKept(i)'
  <2>1. SUFFICES ASSUME NEW i, i = L + 1 PROVE MessageKept(i)'
    OBVIOUS
  <2> HIDE DEF L
  <2>2. CallsNamed(i)'
    BY <1>4, <1>5, <2>1 DEF CallsNamed
  <2>3. talk'[i].role = "user"
    BY <1>4, <1>5, <2>1
  <2>4. i - 1 = L
    BY <1>4, <2>1
  <2>5. NonePending(i)'
    BY <1>6, <2>1, <2>4 DEF NonePending
  <2>6. QED
    BY <2>2, <2>3, <2>5 DEF MessageKept
<1>8. QED
  <2>1. PICK i : i = L + 1
    OBVIOUS
  <2>2. MessageKept(i)'
    BY <1>7, <2>1
  <2>3. QED
    BY <1>1, <1>2, <2>1, <2>2, SayStep

LEMMA MadeOrGiven ==
    ASSUME NEW id \in ProviderIds, NEW k
    PROVE  GivenOrMade(id, k) \in {<<"call", k - 1>>, <<"given", Len(talk), k>>}
<1>1. CASE id = ""
  BY <1>1, Zenon DEF GivenOrMade
<1>2. CASE id = "given" /\ id # ""
  BY <1>2, Zenon DEF GivenOrMade
<1>3. QED
  BY <1>1, <1>2, Zenon DEF ProviderIds

\* The ids an answer's calls are given.
LEMMA CallsGiven ==
    ASSUME NEW N \in Nat, NEW ids \in [1..N -> ProviderIds], N <= MaxAsked,
           speaker \in Speakers, talk \in Seq(Messages)
    PROVE  LET read == CallIds(speaker, ids)
           IN  \E D \in {0, N} : DOMAIN read = 1..D /\
                  \A k \in 1..D : read[k] \in {<<"call", k - 1>>, <<"given", Len(talk), k>>}
<1> DEFINE read == CallIds(speaker, ids)
<1>1. \A k \in 1..N : GivenOrMade(ids[k], k) \in {<<"call", k - 1>>, <<"given", Len(talk), k>>}
  <2>1. SUFFICES ASSUME NEW k \in 1..N
                 PROVE  GivenOrMade(ids[k], k) \in {<<"call", k - 1>>, <<"given", Len(talk), k>>}
    OBVIOUS
  <2>2. ids[k] \in ProviderIds
    OBVIOUS
  <2>3. QED
    BY <2>2, MadeOrGiven
<1>2. CASE speaker = "claude"
  <2>1. read = <<>>
    BY <1>2 DEF CallIds
  <2>2. DOMAIN read = 1..0
    BY <2>1
  <2> HIDE DEF read
  <2>3. \E D \in {0, N} : DOMAIN read = 1..D /\
           \A k \in 1..D : read[k] \in {<<"call", k - 1>>, <<"given", Len(talk), k>>}
    BY <2>2
  <2>4. QED
    BY <2>3 DEF read
<1>3. CASE speaker # "claude"
  <2>1. read = [k \in DOMAIN ids |-> GivenOrMade(ids[k], k)]
    BY <1>3 DEF CallIds, ParseOpenAI, ParseGemini, ParseOllama, Speakers
  <2>2. read = [k \in 1..N |-> GivenOrMade(ids[k], k)]
    BY <2>1
  <2> HIDE DEF read
  <2>3. DOMAIN read = 1..N /\ \A k \in 1..N : read[k] = GivenOrMade(ids[k], k)
    BY <2>2
  <2>4. \E D \in {0, N} : DOMAIN read = 1..D /\
           \A k \in 1..D : read[k] \in {<<"call", k - 1>>, <<"given", Len(talk), k>>}
    BY <1>1, <2>3
  <2>5. QED
    BY <2>4 DEF read
<1>4. QED
  BY <1>2, <1>3

LEMMA AnswerStep == ASSUME RequestInv, Answer PROVE RequestInv'
<1>1. /\ verdict = "sent" /\ verdict' = "open"
      /\ talk \in Seq(Messages) /\ speaker \in Speakers
  BY DEF Answer, RequestInv, TalkInv
<1>2. PICK N \in 0..MaxAsked : \E ids \in [1..N -> ProviderIds] :
          Say([role |-> "assistant", of |-> <<>>, answers |-> <<>>, named |-> FALSE,
               calls |-> [k \in DOMAIN CallIds(speaker, ids) |->
                             << CallIds(speaker, ids)[k], <<Len(talk), k>> >>]])
  BY DEF Answer
<1>3. PICK ids \in [1..N -> ProviderIds] :
          Say([role |-> "assistant", of |-> <<>>, answers |-> <<>>, named |-> FALSE,
               calls |-> [k \in DOMAIN CallIds(speaker, ids) |->
                             << CallIds(speaker, ids)[k], <<Len(talk), k>> >>]])
  BY <1>2
<1>4. N \in Nat /\ N <= MaxAsked
  BY RequestBounds
<1> DEFINE read == CallIds(speaker, ids)
           L == Len(talk)
           calls == [k \in DOMAIN read |-> << read[k], <<L, k>> >>]
           m == [role |-> "assistant", of |-> <<>>, answers |-> <<>>, named |-> FALSE, calls |-> calls]
<1>5. Say(m)
  BY <1>3
<1>6. PICK D \in {0, N} : DOMAIN read = 1..D /\
          \A k \in 1..D : read[k] \in {<<"call", k - 1>>, <<"given", L, k>>}
  BY <1>1, <1>4, CallsGiven
<1>7. L \in Nat /\ D \in Nat /\ D <= MaxAsked
  <2>1. L \in Nat
    BY <1>1, LenProperties
  <2>2. QED
    BY <1>4, <1>6, <2>1, RequestBounds
<1> HIDE DEF read, L
<1>8. /\ DOMAIN calls = 1..D
      /\ \A k \in 1..D : calls[k] = << read[k], <<L, k>> >>
  BY <1>6
<1>9. \A k \in 1..D : calls[k] \in Calls
  <2>1. SUFFICES ASSUME NEW k \in 1..D PROVE calls[k] \in Calls
    OBVIOUS
  <2>2. k \in Nat /\ k - 1 \in Nat
    BY <1>7
  <2>3. read[k] \in Ids
    <3>1. <<"call", k - 1>> \in Ids /\ <<"given", L, k>> \in Ids
      BY <1>7, <2>2 DEF Ids
    <3>2. QED
      BY <1>6, <3>1
  <2>4. <<L, k>> \in CallNames
    BY <1>7, <2>2 DEF CallNames
  <2>5. << read[k], <<L, k>> >> \in Calls
    <3> DEFINE id == read[k]
               name == <<L, k>>
    <3>1. id \in Ids /\ name \in CallNames
      BY <2>3, <2>4
    <3> HIDE DEF id, name
    <3>2. <<id, name>> \in Calls
      BY <3>1 DEF Calls
    <3>3. QED
      BY <3>2 DEF id, name
  <2> HIDE DEF calls
  <2>6. QED
    BY <1>8, <2>5
<1>10. calls \in Seq(Calls)
  <2>1. calls = [k \in 1..D |-> << read[k], <<L, k>> >>]
    BY <1>6
  <2> HIDE DEF calls
  <2>2. calls \in [1..D -> Calls]
    BY <1>8, <1>9, <2>1
  <2>3. QED
    BY <1>7, <2>2
<1> HIDE DEF calls
<1>11. m \in Messages
  BY <1>10 DEF Messages
<1>12. m.role = "assistant" /\ m.calls = calls
  OBVIOUS
<1>13. talk' = Append(talk, m)
  BY <1>5 DEF Say
<1> HIDE DEF m
<1>14. talk'[L + 1] = m
  BY <1>1, <1>11, <1>13, Longer DEF L
<1>15. \A i : i = L + 1 => MessageKept(i)'
  <2>1. SUFFICES ASSUME NEW i, i = L + 1 PROVE MessageKept(i)'
    OBVIOUS
  <2>2. talk'[i] = m /\ i - 1 = L
    BY <1>7, <1>14, <2>1
  <2>3. ASSUME NEW k \in DOMAIN calls
        PROVE  /\ k <= MaxAsked /\ calls[k][2] = <<i - 1, k>>
               /\ calls[k][1] \in {<<"call", k - 1>>, <<"given", i - 1, k>>}
    <3>1. k \in 1..D /\ k <= MaxAsked
      BY <1>7, <1>8, RequestBounds
    <3>2. calls[k][1] = read[k] /\ calls[k][2] = <<L, k>>
      BY <1>8, <3>1
    <3>3. QED
      BY <1>6, <2>2, <3>1, <3>2
  <2>4. CallsNamed(i)'
    BY <1>12, <2>2, <2>3 DEF CallsNamed
  <2>5. QED
    BY <1>12, <2>2, <2>4 DEF MessageKept
<1>16. QED
  <2>1. PICK i : i = L + 1
    OBVIOUS
  <2>2. MessageKept(i)'
    BY <1>15, <2>1
  <2>3. QED
    BY <1>1, <1>5, <1>11, <2>1, <2>2, SayStep DEF L

LEMMA ToolResultStep == ASSUME RequestInv, ToolResult PROVE RequestInv'
<1> DEFINE L == Len(talk)
           a == LastAnswer
<1>1. TalkInv /\ talk \in Seq(Messages)
  BY DEF RequestInv, TalkInv
<1>2. PICK k \in Pending, named \in BOOLEAN :
          Say([role |-> "tool", calls |-> <<>>, of |-> talk[a].calls[k][1],
               answers |-> talk[a].calls[k][2], named |-> named])
  BY DEF ToolResult
<1>3. UNCHANGED verdict
  BY DEF ToolResult
<1>4. Answers # {} /\ k \in DOMAIN talk[a].calls /\ k = L - a + 1
  BY DEF Pending
<1>5. DOMAIN talk = 1..L /\ L \in Nat
  BY <1>1, LenProperties
<1> HIDE DEF L
<1>6. a \in Answers /\ \A j \in Answers : j <= a
  <2>1. Answers \subseteq 1..L
    BY <1>5 DEF Answers
  <2> DEFINE below == {L - j : j \in Answers}
  <2>2. below \subseteq Nat /\ below # {}
    <3>1. \A j \in Answers : L - j \in Nat
      BY <1>5, <2>1
    <3>2. PICK j \in Answers : TRUE
      BY <1>4
    <3>3. L - j \in below
      OBVIOUS
    <3>4. QED
      BY <3>1, <3>3
  <2> HIDE DEF below
  <2>3. PICK d \in below : \A e \in below : d <= e
    BY <2>2, LeastNumber
  <2>4. PICK j \in Answers : d = L - j
    BY <2>3 DEF below
  <2>5. \A i \in Answers : i <= j
    <3>1. SUFFICES ASSUME NEW i \in Answers PROVE i <= j
      OBVIOUS
    <3>2. L - i \in below
      BY DEF below
    <3>3. L - j <= L - i
      BY <2>3, <2>4, <3>2
    <3>4. i \in 1..L /\ j \in 1..L
      BY <2>1
    <3>5. QED
      BY <1>5, <3>3, <3>4
  <2>6. QED
    BY <2>5 DEF LastAnswer
<1> HIDE DEF a
<1>7. a \in 1..L /\ talk[a].role = "assistant" /\ a \in DOMAIN talk
  BY <1>5, <1>6 DEF Answers
<1>8. \A j \in a + 1..L : talk[j].role # "assistant"
  <2>1. SUFFICES ASSUME NEW j \in a + 1..L, talk[j].role = "assistant" PROVE FALSE
    OBVIOUS
  <2>2. j \in DOMAIN talk /\ ~(j <= a)
    BY <1>5, <1>7
  <2>3. QED
    BY <1>6, <2>1, <2>2 DEF Answers
<1> DEFINE calls == talk[a].calls
<1>9. calls \in Seq(Calls) /\ DOMAIN calls = 1..Len(calls) /\ Len(calls) \in Nat
  <2>1. talk[a] \in Messages
    BY <1>1, <1>7, LenProperties
  <2>2. calls \in Seq(Calls)
    BY <2>1 DEF Messages
  <2> HIDE DEF calls
  <2>3. QED
    BY <2>2, LenProperties
<1>10. \A j \in a + 1..L : talk[j].role = "tool"
  <2>1. SUFFICES ASSUME NEW j \in a + 1..L, talk[j].role # "tool" PROVE FALSE
    OBVIOUS
  <2>2. j \in DOMAIN talk /\ talk[j] \in Messages
    <3>1. j \in DOMAIN talk
      BY <1>5, <1>7
    <3>2. QED
      BY <1>1, <3>1, LenProperties
  <2>3. talk[j].role = "user"
    BY <1>8, <2>1, <2>2 DEF Messages
  <2>4. NonePending(j)
    BY <1>1, <2>2, <2>3 DEF TalkInv, MessageKept
  <2>5. a \in 1..j - 1 /\ \A l \in a + 1..j - 1 : talk[l].role # "assistant"
    BY <1>5, <1>7, <1>8
  <2>6. j - a \notin DOMAIN calls
    BY <1>7, <2>4, <2>5 DEF NonePending
  <2> HIDE DEF calls
  <2>7. k \in 1..Len(calls)
    BY <1>4, <1>9 DEF calls
  <2>8. j - a \in 1..Len(calls)
    BY <1>4, <1>5, <1>7, <1>9, <2>7
  <2>9. QED
    BY <1>9, <2>6, <2>8
<1> DEFINE m == [role |-> "tool", calls |-> <<>>, of |-> calls[k][1], answers |-> calls[k][2], named |-> named]
<1>11. Say(m)
  BY <1>2
<1>12. calls[k] \in Calls
  <2> HIDE DEF calls
  <2>1. k \in DOMAIN calls
    BY <1>4 DEF calls
  <2>2. QED
    BY <1>9, <2>1, LenProperties
<1> HIDE DEF calls
<1>13. m \in Messages
  <2>1. calls[k][1] \in Ids /\ calls[k][2] \in CallNames
    BY <1>12 DEF Calls
  <2>2. <<>> \in Seq(Calls)
    BY EmptySeq
  <2>3. QED
    BY <2>1, <2>2 DEF Messages
<1>14. m.role = "tool" /\ m.calls = <<>> /\ m.of = calls[k][1] /\ m.answers = calls[k][2]
  OBVIOUS
<1>15. talk' = Append(talk, m)
  BY <1>11 DEF Say
<1> HIDE DEF m
<1>16. talk'[L + 1] = m /\ \A j \in 1..L : talk'[j] = talk[j]
  BY <1>1, <1>13, <1>15, Longer DEF L
<1>17. \A i : i = L + 1 => MessageKept(i)'
  <2>1. SUFFICES ASSUME NEW i, i = L + 1 PROVE MessageKept(i)'
    OBVIOUS
  <2>2. talk'[i] = m /\ a \in 1..i - 1 /\ i - a = k
    BY <1>4, <1>5, <1>7, <1>16, <2>1
  <2>3. CallsNamed(i)'
    BY <1>14, <2>2 DEF CallsNamed
  <2>4. talk'[a] = talk[a]
    BY <1>7, <1>16
  <2>5. ASSUME NEW j \in a + 1..i PROVE talk'[j].role = "tool"
    <3>1. CASE j = i
      BY <1>14, <2>2, <3>1
    <3>2. CASE j # i
      <4>1. j \in a + 1..L /\ j \in 1..L
        BY <1>5, <1>7, <2>1, <3>2
      <4>2. QED
        BY <1>10, <1>16, <4>1
    <3>3. QED
      BY <3>1, <3>2
  <2>6. /\ talk'[a].role = "assistant" /\ i - a \in DOMAIN talk'[a].calls
        /\ talk'[i].of = talk'[a].calls[i - a][1] /\ talk'[i].answers = talk'[a].calls[i - a][2]
    BY <1>4, <1>7, <1>14, <2>2, <2>4 DEF calls
  <2>7. \E b \in 1..i - 1 : ResultOf(i, b)'
    <3>1. PICK b : b = a
      OBVIOUS
    <3>2. b \in 1..i - 1
      BY <2>2, <3>1
    <3>3. ResultOf(i, b)'
      BY <2>5, <2>6, <3>1 DEF ResultOf
    <3>4. QED
      BY <3>2, <3>3
  <2>8. talk'[i].role = "tool"
    BY <1>14, <2>2
  <2>9. QED
    BY <2>3, <2>7, <2>8 DEF MessageKept
<1>18. QED
  <2>1. PICK i : i = L + 1
    OBVIOUS
  <2>2. MessageKept(i)'
    BY <1>17, <2>1
  <2>3. QED
    BY <1>3, <1>11, <1>13, <2>1, <2>2, SayStep DEF L

LEMMA RequestStart == RequestInit \/ RequestIdle => RequestInv
<1>1. CASE RequestIdle
  <2>1. options \subseteq Options /\ speaker \in Speakers
    BY <1>1 DEF RequestIdle, Speakers
  <2>2. Valid(options)
    <3>1. \A S : {} \cap S = {}
      OBVIOUS
    <3>2. Cardinality({}) <= 1
      BY FS_EmptySet
    <3>3. QED
      BY <1>1, <3>1, <3>2 DEF RequestIdle, Valid, AtMostOne
  <2>3. talk \in Seq(Messages) /\ DOMAIN talk = {} /\ verdict = "idle" /\ payload = <<>>
    BY <1>1, EmptySeq DEF RequestIdle, NoPayload
  <2>4. PlacesOf(payload) = {}
    <3>1. \A p : p \notin PlacesOf(<<>>)
      BY PlaceOf
    <3>2. QED
      BY <2>3, <3>1
  <2>5. QED
    BY <2>1, <2>2, <2>3, <2>4 DEF RequestInv, TalkInv, OptionsKept, ConversationKept, NoPayload
<1>2. CASE RequestInit
  <2> DEFINE m == [role |-> "user", calls |-> <<>>, of |-> <<>>, answers |-> <<>>, named |-> FALSE]
  <2>1. options \subseteq Options /\ speaker \in Speakers /\ Valid(options)
    BY <1>2 DEF RequestInit
  <2>2. talk = <<m>> /\ verdict = "open" /\ payload = <<>>
    BY <1>2 DEF RequestInit, NoPayload
  <2>3. m \in Messages /\ m.role = "user" /\ m.calls = <<>>
    BY EmptySeq DEF Messages
  <2> HIDE DEF m
  <2>4. talk \in Seq(Messages) /\ DOMAIN talk = {1} /\ talk[1] = m /\ talk # <<>>
    BY <2>2, <2>3
  <2>5. MessageKept(1)
    BY <2>3, <2>4 DEF MessageKept, CallsNamed, NonePending
  <2>6. PlacesOf(payload) = {}
    <3>1. \A p : p \notin PlacesOf(<<>>)
      BY PlaceOf
    <3>2. QED
      BY <2>2, <3>1
  <2>7. TalkInv
    BY <2>1, <2>4, <2>5, <2>6 DEF TalkInv
  <2>8. QED
    BY <2>2, <2>7 DEF RequestInv, OptionsKept, ConversationKept, NoPayload
<1>3. QED
  BY <1>1, <1>2

LEMMA RequestStep == RequestInv /\ [RequestNext]_requestVars => RequestInv'
<1>1. ASSUME RequestInv, UNCHANGED requestVars PROVE RequestInv'
  <2>1. UNCHANGED <<speaker, talk, options, unable, verdict, payload>>
    BY <1>1 DEF requestVars
  <2>2. TalkInv'
    <3>1. \A i : MessageKept(i) => MessageKept(i)'
      BY <2>1 DEF MessageKept, CallsNamed, ResultOf, NonePending
    <3>2. TalkInv
      BY <1>1 DEF RequestInv
    <3>3. QED
      BY <2>1, <3>1, <3>2 DEF TalkInv
  <2>3. \A id : GivenTwice(id)' <=> GivenTwice(id)
    BY <2>1 DEF GivenTwice, MadeIn
  <2>4. OptionsKept' /\ ConversationKept'
    BY <1>1, <2>1, <2>3 DEF RequestInv, OptionsKept, ConversationKept
  <2>5. QED
    BY <2>2, <2>4 DEF RequestInv
<1>2. QED
  BY <1>1, AskStep, AnswerStep, ToolResultStep, UserSaysStep DEF RequestNext

\* What reaches a provider is what the client asked for: every option that
\* matters, and a conversation of any length whose results it can tell apart,
\* however the dialect merges turns and names calls (gemini.py:65).
THEOREM RequestsFaithful == Spec => []RequestFaithful
<1>1. Init => RequestInv
  BY RequestStart DEF Init, Begins
<1>2. RequestInv /\ [Next]_vars => RequestInv'
  BY RequestStep DEF Next, vars
<1>3. RequestInv => RequestFaithful
  BY DEF RequestInv, RequestFaithful
<1>4. QED
  BY <1>1, <1>2, <1>3, PTL DEF Spec

--------------------------------------------------------------------------------
(* The chunks of a document                                                   *)

\* t is what s holds after its first n characters.
Occurs(t, s, n) ==
    /\ t \in Seq(Nat) /\ s \in Seq(Nat) /\ n \in Nat /\ n + Len(t) <= Len(s)
    /\ \A j \in 1..Len(t) : t[j] = s[n + j]

LEMMA OccursDeeper ==
    ASSUME NEW w, NEW t, NEW s, NEW m, NEW n, Occurs(w, t, m), Occurs(t, s, n)
    PROVE  Occurs(w, s, n + m)
<1>1. /\ w \in Seq(Nat) /\ t \in Seq(Nat) /\ s \in Seq(Nat) /\ m \in Nat /\ n \in Nat
      /\ m + Len(w) <= Len(t) /\ n + Len(t) <= Len(s)
  BY DEF Occurs
<1>2. Len(w) \in Nat /\ Len(t) \in Nat /\ Len(s) \in Nat
  BY <1>1, LenProperties
<1>3. n + m \in Nat /\ n + m + Len(w) <= Len(s)
  BY <1>1, <1>2
<1>4. ASSUME NEW j \in 1..Len(w) PROVE w[j] = s[n + m + j]
  <2>1. m + j \in 1..Len(t) /\ n + (m + j) = n + m + j
    BY <1>1, <1>2
  <2>2. w[j] = t[m + j]
    BY DEF Occurs
  <2>3. t[m + j] = s[n + (m + j)]
    BY <2>1 DEF Occurs
  <2>4. QED
    BY <2>1, <2>2, <2>3
<1>5. QED
  BY <1>1, <1>3, <1>4 DEF Occurs

LEMMA OccursInside ==
    ASSUME NEW w, NEW t, NEW s, NEW m, NEW n, Occurs(w, s, m), Occurs(t, s, n),
           n <= m, m + Len(w) <= n + Len(t)
    PROVE  Occurs(w, t, m - n)
<1>1. /\ w \in Seq(Nat) /\ t \in Seq(Nat) /\ s \in Seq(Nat) /\ m \in Nat /\ n \in Nat
  BY DEF Occurs
<1>2. Len(w) \in Nat /\ Len(t) \in Nat /\ Len(s) \in Nat
  BY <1>1, LenProperties
<1>3. m - n \in Nat /\ m - n + Len(w) <= Len(t)
  BY <1>1, <1>2
<1>4. ASSUME NEW j \in 1..Len(w) PROVE w[j] = t[m - n + j]
  <2>1. m - n + j \in 1..Len(t) /\ n + (m - n + j) = m + j
    BY <1>1, <1>2, <1>3
  <2>2. w[j] = s[m + j]
    BY DEF Occurs
  <2>3. t[m - n + j] = s[n + (m - n + j)]
    BY <2>1 DEF Occurs
  <2>4. QED
    BY <2>1, <2>2, <2>3
<1>5. QED
  BY <1>1, <1>3, <1>4 DEF Occurs

LEMMA SubSeqOccurs ==
    ASSUME NEW s \in Seq(Nat), NEW lo \in Nat, NEW hi \in Nat, 1 <= lo, lo <= hi + 1, hi <= Len(s)
    PROVE  Occurs(SubSeq(s, lo, hi), s, lo - 1) /\ Len(SubSeq(s, lo, hi)) = hi - lo + 1
<1>1. Len(s) \in Nat /\ \A i \in 1..Len(s) : s[i] \in Nat
  BY LenProperties
<1>2. \A i \in lo..hi : s[i] \in Nat
  BY <1>1
<1>3. /\ SubSeq(s, lo, hi) \in Seq(Nat)
      /\ Len(SubSeq(s, lo, hi)) = IF lo <= hi THEN hi - lo + 1 ELSE 0
      /\ \A i \in 1..hi - lo + 1 : SubSeq(s, lo, hi)[i] = s[lo + i - 1]
  <2>1. lo \in Int /\ hi \in Int
    OBVIOUS
  <2>2. QED
    BY ONLY <1>2, <2>1, SubSeqProperties
<1>4. Len(SubSeq(s, lo, hi)) = hi - lo + 1
  BY <1>3
<1>5. ASSUME NEW i \in 1..Len(SubSeq(s, lo, hi)) PROVE SubSeq(s, lo, hi)[i] = s[lo - 1 + i]
  <2>1. lo + i - 1 = lo - 1 + i /\ i \in 1..hi - lo + 1
    BY <1>4
  <2>2. QED
    BY <1>3, <2>1
<1>6. lo - 1 \in Nat /\ lo - 1 + Len(SubSeq(s, lo, hi)) <= Len(s)
  BY <1>1, <1>4
<1>7. QED
  BY <1>3, <1>4, <1>5, <1>6 DEF Occurs

LEMMA JoinedOccur ==
    ASSUME NEW s \in Seq(Nat), NEW t \in Seq(Nat)
    PROVE  /\ s \o t \in Seq(Nat) /\ Len(s \o t) = Len(s) + Len(t)
           /\ Occurs(s, s \o t, 0) /\ Occurs(t, s \o t, Len(s))
<1>1. /\ s \o t \in Seq(Nat) /\ Len(s \o t) = Len(s) + Len(t)
      /\ \A i \in 1..Len(s) + Len(t) : (s \o t)[i] = IF i <= Len(s) THEN s[i] ELSE t[i - Len(s)]
  BY ConcatProperties
<1>2. Len(s) \in Nat /\ Len(t) \in Nat
  BY LenProperties
<1>3. ASSUME NEW j \in 1..Len(s) PROVE s[j] = (s \o t)[0 + j]
  <2>1. j \in 1..Len(s) + Len(t) /\ j <= Len(s) /\ 0 + j = j
    BY <1>2
  <2>2. QED
    BY <1>1, <2>1
<1>4. ASSUME NEW j \in 1..Len(t) PROVE t[j] = (s \o t)[Len(s) + j]
  <2>1. Len(s) + j \in 1..Len(s) + Len(t) /\ ~(Len(s) + j <= Len(s)) /\ Len(s) + j - Len(s) = j
    BY <1>2
  <2>2. QED
    BY <1>1, <2>1
<1>5. 0 + Len(s) <= Len(s \o t) /\ Len(s) + Len(t) <= Len(s \o t)
  BY <1>1, <1>2
<1>6. QED
  BY <1>1, <1>2, <1>3, <1>4, <1>5 DEF Occurs

\* The characters of a text are in the order of the document.
Ascends(s) == \A i, j \in DOMAIN s : i < j /\ s[i] # 0 /\ s[j] # 0 => s[i] < s[j]

InkBelow(s, t) == \A u \in Inked(s), v \in Inked(t) : u < v

LEMMA OccursInk ==
    ASSUME NEW t, NEW s, NEW n, Occurs(t, s, n)
    PROVE  Inked(t) \subseteq Inked(s) /\ (Ascends(s) => Ascends(t))
<1>1. /\ t \in Seq(Nat) /\ s \in Seq(Nat) /\ n \in Nat /\ n + Len(t) <= Len(s)
      /\ \A j \in 1..Len(t) : t[j] = s[n + j]
  BY DEF Occurs
<1>2. Len(t) \in Nat /\ Len(s) \in Nat /\ DOMAIN t = 1..Len(t) /\ DOMAIN s = 1..Len(s)
  BY <1>1, LenProperties
<1>3. \A j \in 1..Len(t) : n + j \in 1..Len(s)
  BY <1>1, <1>2
<1>4. Inked(t) \subseteq Inked(s)
  BY <1>1, <1>2, <1>3 DEF Inked
<1>5. ASSUME Ascends(s), NEW i \in DOMAIN t, NEW j \in DOMAIN t, i < j, t[i] # 0, t[j] # 0
      PROVE  t[i] < t[j]
  <2>1. /\ n + i \in DOMAIN s /\ n + j \in DOMAIN s /\ n + i < n + j
        /\ t[i] = s[n + i] /\ t[j] = s[n + j]
    <3>1. i \in 1..Len(t) /\ j \in 1..Len(t) /\ i \in Nat /\ j \in Nat /\ n \in Nat
      BY <1>1, <1>2
    <3>2. n + i \in DOMAIN s /\ n + j \in DOMAIN s
      BY <1>2, <1>3, <3>1
    <3>3. n + i < n + j
      BY <1>5, <3>1
    <3>4. t[i] = s[n + i] /\ t[j] = s[n + j]
      BY <1>1, <3>1
    <3>5. QED
      BY <3>2, <3>3, <3>4
  <2>2. QED
    BY <1>5, <2>1 DEF Ascends
<1>6. QED
  BY <1>4, <1>5 DEF Ascends

LEMMA JoinedInk ==
    ASSUME NEW s \in Seq(Nat), NEW t \in Seq(Nat)
    PROVE  /\ Inked(s \o t) = Inked(s) \cup Inked(t)
           /\ Ascends(s) /\ Ascends(t) /\ InkBelow(s, t) => Ascends(s \o t)
<1> DEFINE both == s \o t
<1>1. both \in Seq(Nat) /\ Len(both) = Len(s) + Len(t) /\ Occurs(s, both, 0) /\ Occurs(t, both, Len(s))
  BY JoinedOccur
<1> HIDE DEF both
<1>2. /\ Len(s) \in Nat /\ Len(t) \in Nat
      /\ DOMAIN s = 1..Len(s) /\ DOMAIN t = 1..Len(t) /\ DOMAIN both = 1..Len(both)
  BY <1>1, LenProperties
<1>3. /\ \A j \in DOMAIN s : s[j] = both[j]
      /\ \A j \in DOMAIN t : t[j] = both[Len(s) + j]
  <2>1. \A j \in DOMAIN s : 0 + j = j
    BY <1>2
  <2>2. QED
    BY <1>1, <1>2, <2>1 DEF Occurs
<1>4. ASSUME NEW i \in DOMAIN both
      PROVE  \/ i \in DOMAIN s /\ both[i] = s[i]
             \/ i > Len(s) /\ i - Len(s) \in DOMAIN t /\ both[i] = t[i - Len(s)]
  <2>1. CASE i <= Len(s)
    BY <1>1, <1>2, <1>3, <2>1
  <2>2. CASE ~(i <= Len(s))
    <3>1. i > Len(s) /\ i - Len(s) \in DOMAIN t /\ Len(s) + (i - Len(s)) = i
      BY <1>1, <1>2, <2>2
    <3>2. QED
      BY <1>3, <3>1
  <2>3. QED
    BY <2>1, <2>2
<1>5. Inked(both) = Inked(s) \cup Inked(t)
  <2>1. Inked(s) \subseteq Inked(both) /\ Inked(t) \subseteq Inked(both)
    BY <1>1, OccursInk
  <2>2. Inked(both) \subseteq Inked(s) \cup Inked(t)
    BY <1>4 DEF Inked
  <2>3. QED
    BY <2>1, <2>2
<1>6. ASSUME Ascends(s), Ascends(t), InkBelow(s, t),
             NEW i \in DOMAIN both, NEW j \in DOMAIN both, i < j, both[i] # 0, both[j] # 0
      PROVE  both[i] < both[j]
  <2>0. i \in Nat /\ j \in Nat
    BY <1>2
  <2>1. CASE j \in DOMAIN s /\ both[j] = s[j]
    <3>1. i \in DOMAIN s /\ both[i] = s[i]
      BY <1>2, <1>3, <1>6, <2>0, <2>1
    <3>2. QED
      BY <1>6, <2>1, <3>1 DEF Ascends
  <2>2. CASE j > Len(s) /\ j - Len(s) \in DOMAIN t /\ both[j] = t[j - Len(s)]
    <3>1. CASE i \in DOMAIN s /\ both[i] = s[i]
      <4>1. both[i] \in Inked(s) /\ both[j] \in Inked(t)
        BY <1>6, <2>2, <3>1 DEF Inked
      <4>2. QED
        BY <1>6, <4>1 DEF InkBelow
    <3>2. CASE i > Len(s) /\ i - Len(s) \in DOMAIN t /\ both[i] = t[i - Len(s)]
      <4>1. i - Len(s) < j - Len(s)
        BY <1>2, <1>6, <2>0
      <4>2. QED
        BY <1>6, <2>2, <3>2, <4>1 DEF Ascends
    <3>3. QED
      BY <1>4, <3>1, <3>2
  <2>3. QED
    BY <1>4, <2>1, <2>2
<1>7. Ascends(s) /\ Ascends(t) /\ InkBelow(s, t) => Ascends(both)
  BY <1>6 DEF Ascends
<1>8. QED
  BY <1>5, <1>7 DEF both

\* A word is something that occurs and holds no blank.
WordAt(w, s, n) == Occurs(w, s, n) /\ 1 <= Len(w) /\ \A j \in 1..Len(w) : w[j] # 0

LEMMA WordOccurs ==
    ASSUME NEW s \in Seq(Nat), NEW w
    PROVE  w \in WordsOf(s)
              <=> \E n \in Nat : WordAt(w, s, n)
<1>0. Len(s) \in Nat /\ DOMAIN s = 1..Len(s)
  BY LenProperties
<1>1. ASSUME w \in WordsOf(s)
      PROVE  \E n \in Nat : WordAt(w, s, n)
  <2>1. PICK v \in (DOMAIN s) \X (DOMAIN s) :
               /\ v[1] <= v[2] /\ \A m \in v[1]..v[2] : s[m] # 0
               /\ w = SubSeq(s, v[1], v[2])
    BY <1>1 DEF WordsOf
  <2> DEFINE a == v[1]
             b == v[2]
  <2>2. a \in 1..Len(s) /\ b \in 1..Len(s) /\ a <= b /\ \A m \in a..b : s[m] # 0
    BY <1>0, <2>1
  <2>w. w = SubSeq(s, a, b)
    BY <2>1
  <2> HIDE DEF a, b
  <2>3. a \in Nat /\ b \in Nat /\ 1 <= a /\ a <= b + 1 /\ b <= Len(s) /\ a - 1 \in Nat
    BY <1>0, <2>2
  <2>4. Occurs(w, s, a - 1) /\ Len(w) = b - a + 1
    BY <2>w, <2>3, SubSeqOccurs
  <2>5. ASSUME NEW j \in 1..Len(w) PROVE w[j] # 0
    <3>1. a - 1 + j \in a..b
      BY <2>2, <2>3, <2>4
    <3>2. w[j] = s[a - 1 + j]
      BY <2>4 DEF Occurs
    <3>3. QED
      BY <2>2, <3>1, <3>2
  <2>6. 1 <= Len(w)
    BY <2>2, <2>3, <2>4
  <2>7. QED
    BY <2>3, <2>4, <2>5, <2>6 DEF WordAt
<1>2. ASSUME NEW n \in Nat, WordAt(w, s, n) PROVE w \in WordsOf(s)
  <2>0. Occurs(w, s, n) /\ 1 <= Len(w) /\ \A j \in 1..Len(w) : w[j] # 0
    BY <1>2 DEF WordAt
  <2> DEFINE a == n + 1
             b == n + Len(w)
             v == <<a, b>>
             t == SubSeq(s, a, b)
  <2>1. w \in Seq(Nat) /\ n + Len(w) <= Len(s) /\ Len(w) \in Nat
    BY <2>0, LenProperties DEF Occurs
  <2>2. a \in 1..Len(s) /\ b \in 1..Len(s) /\ a <= b /\ a \in Nat /\ b \in Nat
    BY <1>0, <2>0, <2>1
  <2>3. ASSUME NEW m \in a..b PROVE s[m] # 0
    <3>1. m - n \in 1..Len(w) /\ n + (m - n) = m
      BY <2>0, <2>1
    <3>2. w[m - n] = s[n + (m - n)]
      BY <2>0, <3>1 DEF Occurs
    <3>3. QED
      BY <2>0, <3>1, <3>2
  <2>4. Occurs(t, s, a - 1) /\ Len(t) = b - a + 1
    <3> HIDE DEF a, b
    <3>1. a <= b + 1 /\ 1 <= a /\ b <= Len(s)
      BY <1>0, <2>2
    <3>2. QED
      BY <2>2, <3>1, SubSeqOccurs
  <2>5. t = w
    <3>1. Len(t) = Len(w) /\ t \in Seq(Nat) /\ a - 1 = n
      BY <2>0, <2>1, <2>4 DEF Occurs
    <3>2. \A j \in 1..Len(w) : t[j] = w[j]
      <4> HIDE DEF t
      <4>1. QED
        BY <2>0, <2>4, <3>1 DEF Occurs
    <3> HIDE DEF t
    <3>3. QED
      BY <2>1, <3>1, <3>2, SeqEqual
  <2>6. v \in (DOMAIN s) \X (DOMAIN s) /\ v[1] = a /\ v[2] = b
    BY <1>0, <2>2
  <2>7. QED
    BY <2>2, <2>3, <2>5, <2>6 DEF WordsOf
<1>3. QED
  BY <1>1, <1>2

\* A word of a part is one of the whole.
LEMMA WordsOfPart ==
    ASSUME NEW t, NEW s, NEW n, Occurs(t, s, n)
    PROVE  WordsOf(t) \subseteq WordsOf(s)
<1>1. SUFFICES ASSUME NEW w \in WordsOf(t) PROVE w \in WordsOf(s)
  OBVIOUS
<1>2. t \in Seq(Nat) /\ s \in Seq(Nat) /\ n \in Nat
  BY DEF Occurs
<1>3. PICK m \in Nat : WordAt(w, t, m)
  BY <1>1, <1>2, WordOccurs
<1>4. WordAt(w, s, n + m) /\ n + m \in Nat
  <2>1. Occurs(w, t, m) /\ 1 <= Len(w) /\ \A j \in 1..Len(w) : w[j] # 0
    BY <1>3 DEF WordAt
  <2>2. Occurs(w, s, n + m)
    BY <2>1, OccursDeeper
  <2>3. n + m \in Nat
    BY <1>2
  <2>4. QED
    BY <2>1, <2>2, <2>3 DEF WordAt
<1>5. QED
  BY <1>2, <1>3, <1>4, WordOccurs

LEMMA WordWithin ==
    ASSUME NEW s \in Seq(Nat), NEW w \in WordsOf(s)
    PROVE  Within(w, s)
<1>1. PICK n \in Nat : Occurs(w, s, n) /\ 1 <= Len(w)
  BY WordOccurs DEF WordAt
<1>2. w \in Seq(Nat) /\ n + Len(w) <= Len(s)
  BY <1>1 DEF Occurs
<1>3. Len(w) \in Nat /\ Len(s) \in Nat
  BY <1>2, LenProperties
<1> DEFINE t == SubSeq(s, n + 1, n + Len(w))
<1>4. Occurs(t, s, n + 1 - 1) /\ Len(t) = n + Len(w) - (n + 1) + 1
  <2> DEFINE lo == n + 1
             hi == n + Len(w)
  <2>1. lo \in Nat /\ hi \in Nat /\ 1 <= lo /\ lo <= hi + 1 /\ hi <= Len(s)
    BY <1>2, <1>3
  <2> HIDE DEF lo, hi
  <2>2. Occurs(SubSeq(s, lo, hi), s, lo - 1) /\ Len(SubSeq(s, lo, hi)) = hi - lo + 1
    BY <2>1, SubSeqOccurs
  <2>3. QED
    BY <2>2 DEF lo, hi
<1>5. n + 1 - 1 = n /\ Len(t) = Len(w) /\ n \in 0..Len(s) - Len(w)
  BY <1>2, <1>3, <1>4
<1> HIDE DEF t
<1>6. t = w
  <2>1. \A j \in 1..Len(w) : t[j] = w[j]
    BY <1>1, <1>4, <1>5 DEF Occurs
  <2>2. t \in Seq(Nat)
    BY <1>4 DEF Occurs
  <2>3. QED
    BY <1>2, <1>5, <2>1, <2>2, SeqEqual
<1>7. QED
  BY <1>5, <1>6 DEF Within, t

\* t is s without the blanks around it.
Stripping(t, s) ==
    /\ t \in Seq(Nat) /\ Len(t) <= Len(s)
    /\ Inked(t) = Inked(s) /\ (Ascends(s) => Ascends(t))
    /\ WordsOf(s) \subseteq WordsOf(t)

LEMMA BlankInk == ASSUME NEW s \in Seq(Nat) PROVE Blank(s) <=> Inked(s) = {}
  BY DEF Blank, Inked

LEMMA StripIs ==
    ASSUME NEW s \in Seq(Nat)
    PROVE  Stripping(Strip(s), s) /\ (Strip(s) = <<>> <=> Inked(s) = {})
<1> DEFINE ink == {j \in DOMAIN s : s[j] # 0}
<1>0. Len(s) \in Nat /\ DOMAIN s = 1..Len(s)
  BY LenProperties
<1>1. ink \subseteq 1..Len(s) /\ (ink = {} <=> Inked(s) = {})
  BY <1>0 DEF Inked
<1>2. CASE ink = {}
  <2>1. Strip(s) = <<>>
    BY <1>2 DEF Strip
  <2>2. <<>> \in Seq(Nat) /\ Len(<<>>) = 0 /\ DOMAIN <<>> = {}
    OBVIOUS
  <2>3. Inked(<<>>) = {} /\ Ascends(<<>>)
    BY <2>2 DEF Inked, Ascends
  <2>4. WordsOf(s) = {}
    <3>1. SUFFICES ASSUME NEW w \in WordsOf(s) PROVE FALSE
      OBVIOUS
    <3>2. PICK v \in (DOMAIN s) \X (DOMAIN s) : v[1] <= v[2] /\ \A m \in v[1]..v[2] : s[m] # 0
      BY <3>1 DEF WordsOf
    <3>3. v[1] \in DOMAIN s /\ v[1] \in v[1]..v[2]
      BY <1>0, <3>2
    <3>4. QED
      BY <1>2, <3>2, <3>3
  <2>5. Stripping(<<>>, s)
    <3> HIDE DEF ink
    <3>0. Inked(s) = {}
      BY <1>1, <1>2
    <3>1. Inked(<<>>) = Inked(s)
      BY <2>3, <3>0, Zenon
    <3>l. Len(<<>>) <= Len(s)
      BY <1>0, <2>2
    <3>2. WordsOf(s) \subseteq WordsOf(<<>>)
      BY <2>4
    <3>3. QED
      BY <2>2, <2>3, <3>1, <3>l, <3>2 DEF Stripping
  <2>6. QED
    BY <1>1, <1>2, <2>1, <2>5
<1>3. CASE ink # {}
  <2> DEFINE lo == CHOOSE j \in ink : \A i \in ink : j <= i
             hi == CHOOSE j \in ink : \A i \in ink : j >= i
             t == SubSeq(s, lo, hi)
  <2>1. Strip(s) = t
    BY <1>3 DEF Strip
  <2>2. \E j \in ink : \A i \in ink : j <= i
    <3>1. ink \subseteq Nat
      BY <1>1
    <3> HIDE DEF ink
    <3>2. QED
      BY <1>3, <3>1, LeastNumber
  <2>3. \E j \in ink : \A i \in ink : j >= i
    <3> DEFINE left == {Len(s) - i : i \in ink}
    <3>1. left \subseteq Nat /\ left # {}
      BY <1>0, <1>1, <1>3
    <3>2. PICK x \in left : \A y \in left : x <= y
      <4> HIDE DEF left
      <4>1. QED
        BY <3>1, LeastNumber
    <3>3. PICK j \in ink : x = Len(s) - j
      OBVIOUS
    <3>4. ASSUME NEW i \in ink PROVE j >= i
      <4>1. x <= Len(s) - i
        BY <3>2
      <4>2. i \in Nat /\ j \in Nat
        BY <1>1
      <4>3. QED
        BY <1>0, <3>3, <4>1, <4>2
    <3>5. QED
      BY <3>4
  <2>4. lo \in ink /\ \A i \in ink : lo <= i
    <3> HIDE DEF ink
    <3>1. QED
      BY <2>2
  <2>5. hi \in ink /\ \A i \in ink : hi >= i
    <3> HIDE DEF ink
    <3>1. QED
      BY <2>3
  <2> HIDE DEF lo, hi
  <2>6. /\ lo \in Nat /\ hi \in Nat /\ 1 <= lo /\ lo <= hi + 1 /\ hi <= Len(s)
        /\ lo <= hi /\ lo - 1 \in Nat
    BY <1>0, <1>1, <2>4, <2>5
  <2>7. Occurs(t, s, lo - 1) /\ Len(t) = hi - lo + 1
    BY <2>6, SubSeqOccurs
  <2> HIDE DEF t
  <2>8. t \in Seq(Nat) /\ Len(t) \in Nat /\ DOMAIN t = 1..Len(t) /\ Len(t) <= Len(s)
    <3>1. t \in Seq(Nat)
      BY <2>7 DEF Occurs
    <3>2. QED
      BY <1>0, <2>6, <2>7, <3>1, LenProperties
  <2>9. Inked(t) \subseteq Inked(s) /\ (Ascends(s) => Ascends(t))
    BY <2>7, OccursInk
  <2>10. ASSUME NEW u \in Inked(s) PROVE u \in Inked(t)
    <3>1. PICK i \in ink : u = s[i] /\ u # 0
      BY DEF Inked
    <3>2. lo <= i /\ i <= hi /\ i \in Nat
      BY <1>1, <2>4, <2>5
    <3>3. i - lo + 1 \in DOMAIN t /\ lo - 1 + (i - lo + 1) = i
      BY <2>6, <2>7, <2>8, <3>2
    <3>4. t[i - lo + 1] = s[lo - 1 + (i - lo + 1)]
      BY <2>7, <2>8, <3>3 DEF Occurs
    <3>5. QED
      BY <3>1, <3>3, <3>4 DEF Inked
  <2>11. ASSUME NEW w \in WordsOf(s) PROVE w \in WordsOf(t)
    <3>1. PICK n \in Nat : WordAt(w, s, n)
      BY <2>11, WordOccurs
    <3>2. Occurs(w, s, n) /\ 1 <= Len(w) /\ \A j \in 1..Len(w) : w[j] # 0
      BY <3>1 DEF WordAt
    <3>3. w \in Seq(Nat) /\ n + Len(w) <= Len(s) /\ \A j \in 1..Len(w) : w[j] = s[n + j]
      BY <3>2 DEF Occurs
    <3>4. Len(w) \in Nat
      BY <3>3, LenProperties
    <3>5. n + 1 \in ink /\ n + Len(w) \in ink
      <4>1. 1 \in 1..Len(w) /\ Len(w) \in 1..Len(w)
        BY <3>2, <3>4
      <4>2. n + 1 \in 1..Len(s) /\ n + Len(w) \in 1..Len(s)
        BY <1>0, <3>2, <3>3, <3>4
      <4>3. w[1] = s[n + 1] /\ w[Len(w)] = s[n + Len(w)]
        BY <3>3, <4>1
      <4>4. QED
        BY <1>0, <3>2, <4>1, <4>2, <4>3
    <3>6. lo - 1 <= n /\ n + Len(w) <= lo - 1 + Len(t)
      <4>1. lo <= n + 1 /\ hi >= n + Len(w)
        BY <2>4, <2>5, <3>5
      <4>2. QED
        BY <2>6, <2>7, <3>4, <4>1
    <3>7. Occurs(w, t, n - (lo - 1))
      BY <2>7, <3>2, <3>6, OccursInside
    <3>8. WordAt(w, t, n - (lo - 1)) /\ n - (lo - 1) \in Nat
      <4>1. n - (lo - 1) \in Nat
        BY <2>6, <3>6
      <4>2. QED
        BY <3>2, <3>7, <4>1 DEF WordAt
    <3>9. QED
      BY <2>8, <3>8, WordOccurs
  <2>12. Stripping(t, s)
    BY <2>8, <2>9, <2>10, <2>11 DEF Stripping
  <2>13. t # <<>>
    <3>1. Len(t) # 0
      BY <2>6, <2>7
    <3>2. QED
      BY <2>8, <3>1, EmptySeq
  <2>14. QED
    BY <1>1, <1>3, <2>1, <2>12, <2>13
<1>4. QED
  BY <1>2, <1>3

\* What a list of texts holds.
Texts == Seq(Seq(Nat))

InkOf(list) == UNION {Inked(list[c]) : c \in DOMAIN list}

WordsIn(list) == UNION {WordsOf(list[c]) : c \in DOMAIN list}

Fits(s) == s \in Seq(Nat) /\ Len(s) <= Size /\ Ascends(s)

Fitting(list) == \A c \in DOMAIN list : Fits(list[c])

LEMMA ListGrows ==
    ASSUME NEW list \in Texts, NEW s \in Seq(Nat)
    PROVE  /\ Append(list, s) \in Texts /\ Append(list, s) # <<>>
           /\ InkOf(Append(list, s)) = InkOf(list) \cup Inked(s)
           /\ WordsIn(Append(list, s)) = WordsIn(list) \cup WordsOf(s)
           /\ Fitting(list) /\ Fits(s) => Fitting(Append(list, s))
<1> DEFINE more == Append(list, s)
<1>1. /\ more \in Seq(Seq(Nat)) /\ Len(more) = Len(list) + 1
      /\ \A c \in 1..Len(list) : more[c] = list[c]
      /\ more[Len(list) + 1] = s
  BY AppendProperties DEF Texts
<1>2. Len(list) \in Nat /\ DOMAIN list = 1..Len(list) /\ DOMAIN more = 1..Len(more)
  BY <1>1, LenProperties DEF Texts
<1> HIDE DEF more
<1>3. DOMAIN more = DOMAIN list \cup {Len(list) + 1} /\ \A c \in DOMAIN list : more[c] = list[c]
  BY <1>1, <1>2
<1>4. InkOf(more) = InkOf(list) \cup Inked(s)
  <2>1. InkOf(more) \subseteq InkOf(list) \cup Inked(s)
    BY <1>1, <1>3 DEF InkOf
  <2>2. Inked(s) \subseteq InkOf(more)
    BY <1>1, <1>3 DEF InkOf
  <2>3. InkOf(list) \subseteq InkOf(more)
    BY <1>3 DEF InkOf
  <2>4. QED
    BY <2>1, <2>2, <2>3
<1>5. WordsIn(more) = WordsIn(list) \cup WordsOf(s)
  <2>1. WordsIn(more) \subseteq WordsIn(list) \cup WordsOf(s)
    BY <1>1, <1>3 DEF WordsIn
  <2>2. WordsOf(s) \subseteq WordsIn(more)
    BY <1>1, <1>3 DEF WordsIn
  <2>3. WordsIn(list) \subseteq WordsIn(more)
    BY <1>3 DEF WordsIn
  <2>4. QED
    BY <2>1, <2>2, <2>3
<1>6. Fitting(list) /\ Fits(s) => Fitting(more)
  BY <1>1, <1>3 DEF Fitting
<1>7. more # <<>>
  <2>1. Len(more) # 0
    BY <1>1, <1>2
  <2>2. QED
    BY <1>1, <2>1, EmptySeq
<1>8. QED
  BY <1>1, <1>4, <1>5, <1>6, <1>7 DEF more, Texts

LEMMA ListsJoin ==
    ASSUME NEW list \in Texts, NEW rest \in Texts
    PROVE  /\ list \o rest \in Texts
           /\ InkOf(list \o rest) = InkOf(list) \cup InkOf(rest)
           /\ WordsIn(list \o rest) = WordsIn(list) \cup WordsIn(rest)
           /\ Fitting(list) /\ Fitting(rest) => Fitting(list \o rest)
<1> DEFINE both == list \o rest
<1>1. /\ both \in Seq(Seq(Nat)) /\ Len(both) = Len(list) + Len(rest)
      /\ \A i \in 1..Len(list) + Len(rest) :
            both[i] = IF i <= Len(list) THEN list[i] ELSE rest[i - Len(list)]
  BY ConcatProperties DEF Texts
<1> HIDE DEF both
<1>2. /\ Len(list) \in Nat /\ DOMAIN list = 1..Len(list) /\ DOMAIN both = 1..Len(both)
      /\ Len(rest) \in Nat /\ DOMAIN rest = 1..Len(rest)
  BY <1>1, LenProperties DEF Texts
<1>3. ASSUME NEW c \in DOMAIN list PROVE c \in DOMAIN both /\ both[c] = list[c]
  BY <1>1, <1>2
<1>4. ASSUME NEW c \in DOMAIN rest
      PROVE  Len(list) + c \in DOMAIN both /\ both[Len(list) + c] = rest[c]
  <2>1. /\ Len(list) + c \in 1..Len(list) + Len(rest) /\ ~(Len(list) + c <= Len(list))
        /\ Len(list) + c - Len(list) = c
    BY <1>2
  <2>2. QED
    BY <1>1, <1>2, <2>1
<1>5. ASSUME NEW c \in DOMAIN both
      PROVE  \/ \E d \in DOMAIN list : both[c] = list[d]
             \/ \E d \in DOMAIN rest : both[c] = rest[d]
  <2>1. CASE c <= Len(list)
    BY <1>1, <1>2, <2>1
  <2>2. CASE ~(c <= Len(list))
    <3>1. c - Len(list) \in DOMAIN rest
      BY <1>1, <1>2, <2>2
    <3>2. QED
      BY <1>1, <1>2, <2>2, <3>1
  <2>3. QED
    BY <2>1, <2>2
<1>6. InkOf(both) = InkOf(list) \cup InkOf(rest)
  <2>1. InkOf(both) \subseteq InkOf(list) \cup InkOf(rest)
    BY <1>5 DEF InkOf
  <2>2. InkOf(list) \subseteq InkOf(both)
    BY <1>3 DEF InkOf
  <2>3. InkOf(rest) \subseteq InkOf(both)
    BY <1>4 DEF InkOf
  <2>4. QED
    BY <2>1, <2>2, <2>3
<1>7. WordsIn(both) = WordsIn(list) \cup WordsIn(rest)
  <2>1. WordsIn(both) \subseteq WordsIn(list) \cup WordsIn(rest)
    BY <1>5 DEF WordsIn
  <2>2. WordsIn(list) \subseteq WordsIn(both)
    BY <1>3 DEF WordsIn
  <2>3. WordsIn(rest) \subseteq WordsIn(both)
    BY <1>4 DEF WordsIn
  <2>4. QED
    BY <2>1, <2>2, <2>3
<1>8. Fitting(list) /\ Fitting(rest) => Fitting(both)
  BY <1>5 DEF Fitting
<1>9. QED
  BY <1>1, <1>6, <1>7, <1>8 DEF both, Texts

LEMMA FlushIs ==
    ASSUME chunks \in Texts, Fitting(chunks), Fits(current)
    PROVE  /\ Flush \in Texts /\ Fitting(Flush)
           /\ InkOf(Flush) = InkOf(chunks) \cup Inked(current)
           /\ WordsIn(chunks) \cup WordsOf(current) \subseteq WordsIn(Flush)
           /\ Flush # <<>> => chunks # <<>> \/ Inked(current) # {}
<1> DEFINE whole == Strip(current)
<1>1. current \in Seq(Nat) /\ Len(current) <= Size /\ Ascends(current) /\ Len(current) \in Nat
  BY LenProperties DEF Fits
<1>2. Stripping(whole, current) /\ (whole = <<>> <=> Inked(current) = {})
  BY <1>1, StripIs
<1> HIDE DEF whole
<1>3. /\ whole \in Seq(Nat) /\ Len(whole) \in Nat /\ Len(whole) <= Len(current)
      /\ Inked(whole) = Inked(current) /\ WordsOf(current) \subseteq WordsOf(whole)
      /\ Ascends(whole)
  BY <1>1, <1>2, LenProperties DEF Stripping
<1>4. Fits(whole)
  <2>1. Len(whole) <= Size
    BY <1>1, <1>3, LoaderBounds
  <2>2. QED
    BY <1>3, <2>1 DEF Fits
<1>5. CASE Blank(current)
  <2>1. Flush = chunks /\ Inked(current) = {}
    BY <1>1, <1>5, BlankInk DEF Flush
  <2>2. whole = <<>>
    BY <1>2, <2>1
  <2>3. WordsOf(whole) = {}
    BY <2>2 DEF WordsOf
  <2>4. QED
    BY <1>3, <2>1, <2>3
<1>6. CASE ~Blank(current)
  <2>1. Flush = Append(chunks, whole) /\ Inked(current) # {}
    BY <1>1, <1>6, BlankInk DEF Flush, whole
  <2>2. /\ Append(chunks, whole) \in Texts
        /\ InkOf(Append(chunks, whole)) = InkOf(chunks) \cup Inked(whole)
        /\ WordsIn(Append(chunks, whole)) = WordsIn(chunks) \cup WordsOf(whole)
        /\ Fitting(Append(chunks, whole))
    BY <1>3, <1>4, ListGrows
  <2>3. QED
    BY <1>3, <2>1, <2>2
<1>7. QED
  BY <1>5, <1>6

\* Where the windows of the hard split begin.
LEMMA Steps ==
    ASSUME NEW d \in Nat, d >= 1
    PROVE  /\ \A k \in Nat : k * d \in Nat /\ (k + 1) * d = k * d + d /\ k <= k * d
           /\ 0 * d = 0
<1>1. ASSUME NEW k \in Nat PROVE k * d \in Nat /\ (k + 1) * d = k * d + d
  OBVIOUS
<1>2. 0 * d = 0
  OBVIOUS
<1>3. ASSUME NEW k \in Nat PROVE k <= k * d
  <2> DEFINE good == {n \in Nat : n <= n * d}
  <2>1. 0 \in good
    OBVIOUS
  <2>2. \A n \in 1..k : n - 1 \in good => n \in good
    <3>1. SUFFICES ASSUME NEW n \in 1..k, n - 1 \in good PROVE n \in good
      OBVIOUS
    <3>2. n - 1 \in Nat /\ n - 1 <= (n - 1) * d /\ n \in Nat
      BY <3>1
    <3>3. n * d = (n - 1) * d + d
      OBVIOUS
    <3>4. (n - 1) * d \in Nat
      BY <3>2
    <3>5. QED
      BY <3>2, <3>3, <3>4
  <2> HIDE DEF good
  <2>3. \A n \in 0..k : n \in good
    BY <2>1, <2>2, Along
  <2>4. k \in good
    BY <2>3
  <2>5. QED
    BY <2>4 DEF good
<1>4. QED
  BY <1>1, <1>2, <1>3

\* Each character has a window that begins less than a step before it.
LEMMA WindowOf ==
    ASSUME NEW d \in Nat, d >= 1, NEW v \in Nat, v >= 1
    PROVE  \E k \in 1..v : (k - 1) * d < v /\ v <= (k - 1) * d + d
<1> DEFINE behind == {k \in Nat : v <= k * d}
<1>1. v \in behind
  BY Steps
<1>2. PICK k \in behind : \A n \in behind : k <= n
  <2>1. behind \subseteq Nat /\ behind # {}
    BY <1>1
  <2> HIDE DEF behind
  <2>2. QED
    BY <2>1, LeastNumber
<1>3. k \in Nat /\ v <= k * d /\ k <= v
  BY <1>1, <1>2
<1>4. k # 0
  <2>1. 0 * d = 0
    BY Steps
  <2>2. QED
    BY <1>3, <2>1
<1>5. k - 1 \in Nat /\ k - 1 \notin behind
  <2>1. k - 1 \in Nat /\ ~(k <= k - 1)
    BY <1>3, <1>4
  <2> HIDE DEF behind
  <2>2. QED
    BY <1>2, <2>1
<1>6. ~(v <= (k - 1) * d)
  BY <1>5
<1>7. (k - 1) * d \in Nat /\ (k - 1 + 1) * d = (k - 1) * d + d /\ k - 1 + 1 = k
  BY <1>3, <1>5, Steps
<1>8. (k - 1) * d < v /\ v <= (k - 1) * d + d
  BY <1>3, <1>6, <1>7
<1>9. k \in 1..v
  BY <1>3, <1>4
<1>10. QED
  BY <1>8, <1>9

\* The windows are numbered from 1, as the parts of a sequence are.
Starting(d, length) == {n \in 1..length : (n - 1) * d < length}

LEMMA WindowsNumbered ==
    ASSUME NEW d \in Nat, d >= 1, NEW length \in Nat
    PROVE  \E last \in Nat : Starting(d, length) = 1..last
<1> DEFINE past == {n \in Nat : length <= n * d}
<1>1. length \in past
  BY Steps
<1>2. PICK last \in past : \A n \in past : last <= n
  <2>1. past \subseteq Nat /\ past # {}
    BY <1>1
  <2> HIDE DEF past
  <2>2. QED
    BY <2>1, LeastNumber
<1>3. last \in Nat /\ last <= length /\ length <= last * d
  BY <1>1, <1>2
<1>4. ASSUME NEW n \in 1..last PROVE n \in Starting(d, length)
  <2>1. n - 1 \in Nat /\ ~(last <= n - 1) /\ n \in 1..length
    BY <1>3
  <2>2. n - 1 \notin past
    <3> HIDE DEF past
    <3>1. QED
      BY <1>2, <2>1
  <2>3. ~(length <= (n - 1) * d) /\ (n - 1) * d \in Nat
    BY <2>1, <2>2, Steps
  <2>4. (n - 1) * d < length
    BY <2>3
  <2>5. QED
    BY <2>1, <2>4 DEF Starting
<1>5. ASSUME NEW n \in 1..length, n > last PROVE n \notin Starting(d, length)
  <2> DEFINE good == {m \in Nat : length <= (last + m) * d}
             gap == n - 1 - last
  <2>1. gap \in Nat /\ last + gap = n - 1
    BY <1>3, <1>5
  <2>2. 0 \in good
    <3>1. last + 0 = last
      BY <1>3
    <3>2. QED
      BY <1>3, <3>1
  <2>3. ASSUME NEW m \in 1..gap, m - 1 \in good PROVE m \in good
    <3>1. m \in Nat /\ last + (m - 1) \in Nat /\ last + (m - 1) + 1 = last + m
      BY <1>3
    <3>2. length <= (last + (m - 1)) * d
      BY <2>3
    <3> DEFINE w == last + (m - 1)
    <3> HIDE DEF w
    <3>3. w \in Nat /\ w + 1 = last + m /\ length <= w * d
      BY <3>1, <3>2 DEF w
    <3>4. w * d \in Nat /\ (w + 1) * d = w * d + d
      BY <3>3, Steps
    <3>5. length <= (w + 1) * d
      BY <3>3, <3>4
    <3>6. QED
      BY <3>1, <3>3, <3>5
  <2> HIDE DEF good, gap
  <2>4. \A m \in 0..gap : m \in good
    BY <2>1, <2>2, <2>3, Along
  <2>5. gap \in good
    BY <2>1, <2>4
  <2>6. length <= (n - 1) * d
    BY <2>1, <2>5 DEF good
  <2>7. n - 1 \in Nat /\ (n - 1) * d \in Nat
    BY <1>3, <1>5, Steps
  <2>8. ~((n - 1) * d < length)
    BY <2>6, <2>7
  <2>9. QED
    BY <2>8 DEF Starting
<1>6. Starting(d, length) = 1..last
  <2>1. Starting(d, length) \subseteq 1..length
    BY DEF Starting
  <2>2. ASSUME NEW n \in Starting(d, length) PROVE n \in 1..last
    <3>1. n \in 1..length /\ ~(n > last)
      BY <1>5, <2>1
    <3>2. QED
      BY <1>3, <3>1
  <2>3. QED
    BY <1>4, <2>2
<1>7. QED
  BY <1>3, <1>6

\* The k-th window, before it is stripped.
CutFor(p, k) ==
    LET from == (k - 1) * (Size - Overlap)
    IN  SubSeq(p, from + 1, IF from + Size < Len(p) THEN from + Size ELSE Len(p))

LEMMA CutIs ==
    ASSUME NEW p \in Seq(Nat), NEW k \in Starting(Size - Overlap, Len(p)), NEW from,
           from = (k - 1) * (Size - Overlap)
    PROVE  /\ Occurs(CutFor(p, k), p, from) /\ from \in Nat
           /\ Len(CutFor(p, k)) = (IF from + Size < Len(p) THEN from + Size ELSE Len(p)) - from
<1> DEFINE hi == IF from + Size < Len(p) THEN from + Size ELSE Len(p)
<1>1. /\ Len(p) \in Nat /\ Size \in Nat /\ Overlap \in Nat /\ Size - Overlap \in Nat
      /\ Size - Overlap >= 1
  BY LenProperties, LoaderBounds
<1>2. k \in Nat /\ k - 1 \in Nat /\ from < Len(p)
  BY <1>1 DEF Starting
<1>3. from \in Nat
  <2> DEFINE d == Size - Overlap
             n == k - 1
  <2>1. d \in Nat /\ d >= 1 /\ n \in Nat /\ from = n * d
    BY <1>1, <1>2
  <2> HIDE DEF d, n
  <2>2. QED
    BY <2>1, Steps
<1>4. hi \in Nat /\ from + 1 \in Nat /\ 1 <= from + 1 /\ from + 1 <= hi + 1 /\ hi <= Len(p)
  BY <1>1, <1>2, <1>3
<1>5. CutFor(p, k) = SubSeq(p, from + 1, hi)
  BY DEF CutFor
<1> HIDE DEF hi
<1> DEFINE lo == from + 1
<1>6. Occurs(SubSeq(p, lo, hi), p, lo - 1) /\ Len(SubSeq(p, lo, hi)) = hi - lo + 1
  <2>1. lo \in Nat /\ 1 <= lo /\ lo <= hi + 1 /\ hi <= Len(p)
    BY <1>4
  <2> HIDE DEF lo
  <2>2. QED
    BY <1>4, <2>1, SubSeqOccurs
<1>7. lo - 1 = from /\ hi - lo + 1 = hi - from /\ CutFor(p, k) = SubSeq(p, lo, hi)
  BY <1>3, <1>4, <1>5
<1> HIDE DEF lo
<1>8. QED
  BY <1>3, <1>6, <1>7 DEF hi

LEMMA WindowsIs ==
    ASSUME NEW p \in Seq(Nat), Ascends(p)
    PROVE  /\ Windows(p) \in Texts /\ Fitting(Windows(p))
           /\ InkOf(Windows(p)) = Inked(p)
           /\ \A w \in WordsOf(p) : Len(w) <= Overlap + 1 => w \in WordsIn(Windows(p))
<1> DEFINE d == Size - Overlap
           K == Starting(d, Len(p))
           W == Windows(p)
<1>1. /\ Len(p) \in Nat /\ Size \in Nat /\ Overlap \in Nat /\ d \in Nat /\ d >= 1
      /\ d + Overlap = Size /\ d <= Size /\ DOMAIN p = 1..Len(p)
  BY LenProperties, LoaderBounds
<1>2. PICK last \in Nat : K = 1..last
  <2> HIDE DEF d
  <2>1. QED
    BY <1>1, WindowsNumbered
<1>3. DOMAIN W = K /\ \A k \in K : W[k] = Strip(CutFor(p, k))
  BY DEF Windows, Starting, CutFor
<1>4. ASSUME NEW k \in K
      PROVE  Stripping(W[k], CutFor(p, k)) /\ Fits(W[k]) /\ Inked(CutFor(p, k)) \subseteq Inked(p)
  <2> DEFINE from == (k - 1) * (Size - Overlap)
             cut == CutFor(p, k)
  <2>1. /\ Occurs(cut, p, from) /\ from \in Nat
        /\ Len(cut) = (IF from + Size < Len(p) THEN from + Size ELSE Len(p)) - from
    <3> HIDE DEF cut
    <3>1. k \in Starting(Size - Overlap, Len(p))
      OBVIOUS
    <3> DEFINE f == from
    <3>2. f = (k - 1) * (Size - Overlap)
      OBVIOUS
    <3> HIDE DEF from, f
    <3>3. Occurs(CutFor(p, k), p, f) /\ f \in Nat
          /\ Len(CutFor(p, k)) = (IF f + Size < Len(p) THEN f + Size ELSE Len(p)) - f
      BY <3>1, <3>2, CutIs
    <3>4. QED
      BY <3>3 DEF f, cut
  <2> HIDE DEF from, cut
  <2>2. cut \in Seq(Nat) /\ Len(cut) \in Nat /\ Len(cut) <= Size
    <3>1. cut \in Seq(Nat)
      BY <2>1 DEF Occurs
    <3>2. QED
      BY <1>1, <2>1, <3>1, LenProperties
  <2>3. Inked(cut) \subseteq Inked(p) /\ Ascends(cut)
    BY <2>1, OccursInk
  <2>4. Stripping(Strip(cut), cut)
    BY <2>2, StripIs
  <2>5. W[k] = Strip(cut)
    BY <1>3 DEF cut
  <2> HIDE DEF W, K
  <2>6. Stripping(W[k], cut)
    BY <2>4, <2>5
  <2>7. W[k] \in Seq(Nat) /\ Len(W[k]) <= Len(cut) /\ Ascends(W[k])
    BY <2>3, <2>6 DEF Stripping
  <2>8. Len(W[k]) <= Size
    BY <1>1, <2>2, <2>7, LenProperties
  <2>9. QED
    BY <2>3, <2>6, <2>7, <2>8 DEF Fits, cut
<1> HIDE DEF W
<1>5. W \in Texts
  <2>1. \A k \in K : W[k] \in Seq(Nat)
    BY <1>4 DEF Fits
  <2>2. W = [k \in 1..last |-> W[k]]
    <3>1. W = [k \in K |-> W[k]]
      BY <1>3 DEF W, Windows, Starting, CutFor
    <3> HIDE DEF K
    <3>2. QED
      BY <1>2, <3>1
  <2> HIDE DEF K
  <2>3. [k \in 1..last |-> W[k]] \in Seq(Seq(Nat))
    BY <1>2, <2>1
  <2>4. QED
    BY <2>2, <2>3 DEF Texts
<1>6. Fitting(W)
  <2> HIDE DEF K
  <2>1. QED
    BY <1>3, <1>4 DEF Fitting
\* The window of a place, and of all that is less than the overlap behind it.
<1>7. ASSUME NEW v \in 1..Len(p)
      PROVE  \E k \in K : \E from \in Nat :
                /\ Occurs(CutFor(p, k), p, from) /\ from < v
                /\ \A z \in v..Len(p) : z <= v + Overlap => z <= from + Len(CutFor(p, k))
  <2>1. v \in Nat /\ v >= 1 /\ v <= Len(p)
    BY <1>1
  <2>2. PICK k \in 1..v : (k - 1) * d < v /\ v <= (k - 1) * d + d
    <3> HIDE DEF d
    <3>1. QED
      BY <1>1, <2>1, WindowOf
  <2> DEFINE from == (k - 1) * d
  <2>3. from = (k - 1) * (Size - Overlap) /\ from < v /\ v <= from + d
    BY <2>2
  <2>4. from \in Nat
    <3> DEFINE n == k - 1
    <3>1. n \in Nat /\ from = n * d
      BY <2>1
    <3> HIDE DEF n, d
    <3>2. n * d \in Nat
      BY <1>1, <3>1, Steps
    <3>3. QED
      BY <3>1, <3>2
  <2>5. k \in K
    <3>1. k \in 1..Len(p)
      BY <1>1, <2>1
    <3>2. (k - 1) * d < Len(p)
      <4> HIDE DEF d
      <4>1. from \in Nat /\ from < v
        BY <2>3, <2>4
      <4> HIDE DEF from
      <4>2. from < Len(p)
        BY <1>1, <2>1, <4>1
      <4>3. QED
        BY <4>2 DEF from
    <3> HIDE DEF d
    <3>3. QED
      BY <3>1, <3>2 DEF Starting
  <2> HIDE DEF from
  <2>6. /\ Occurs(CutFor(p, k), p, from)
        /\ Len(CutFor(p, k)) = (IF from + Size < Len(p) THEN from + Size ELSE Len(p)) - from
    BY <2>3, <2>5, CutIs
  <2>7. ASSUME NEW z \in v..Len(p), z <= v + Overlap PROVE z <= from + Len(CutFor(p, k))
    BY <1>1, <2>1, <2>3, <2>4, <2>6, <2>7
  <2>8. QED
    BY <2>3, <2>4, <2>5, <2>6, <2>7
<1> HIDE DEF K, d
<1>8. InkOf(W) = Inked(p)
  <2>1. InkOf(W) \subseteq Inked(p)
    <3>1. \A k \in K : Inked(W[k]) \subseteq Inked(p)
      BY <1>4 DEF Stripping
    <3>2. QED
      BY <1>3, <3>1 DEF InkOf
  <2>2. ASSUME NEW u \in Inked(p) PROVE u \in InkOf(W)
    <3>1. PICK v \in 1..Len(p) : u = p[v] /\ u # 0
      BY <1>1 DEF Inked
    <3>2. PICK k \in K : \E from \in Nat :
                /\ Occurs(CutFor(p, k), p, from) /\ from < v
                /\ \A z \in v..Len(p) : z <= v + Overlap => z <= from + Len(CutFor(p, k))
      BY <1>7
    <3>3. PICK from \in Nat :
                /\ Occurs(CutFor(p, k), p, from) /\ from < v
                /\ \A z \in v..Len(p) : z <= v + Overlap => z <= from + Len(CutFor(p, k))
      BY <3>2
    <3> DEFINE cut == CutFor(p, k)
    <3>4. v \in v..Len(p) /\ v <= v + Overlap /\ v \in Nat
      BY <1>1
    <3>5. v <= from + Len(cut)
      BY <3>3, <3>4
    <3>6. Occurs(cut, p, from) /\ from < v
      BY <3>3
    <3> HIDE DEF cut
    <3>7. cut \in Seq(Nat) /\ \A j \in 1..Len(cut) : cut[j] = p[from + j]
      BY <3>6 DEF Occurs
    <3>8. Len(cut) \in Nat /\ DOMAIN cut = 1..Len(cut)
      BY <3>7, LenProperties
    <3>9. v - from \in 1..Len(cut) /\ from + (v - from) = v
      BY <3>4, <3>5, <3>6, <3>8
    <3>10. u \in Inked(cut)
      BY <3>1, <3>7, <3>8, <3>9 DEF Inked
    <3>11. u \in Inked(W[k])
      <4>1. Stripping(W[k], cut)
        BY <1>4 DEF cut
      <4>2. QED
        BY <3>10, <4>1 DEF Stripping
    <3>12. QED
      BY <1>3, <3>11 DEF InkOf
  <2>3. QED
    BY <2>1, <2>2
<1>9. ASSUME NEW w \in WordsOf(p), Len(w) <= Overlap + 1 PROVE w \in WordsIn(W)
  <2>1. PICK n \in Nat : WordAt(w, p, n)
    BY WordOccurs
  <2>2. Occurs(w, p, n) /\ 1 <= Len(w) /\ \A j \in 1..Len(w) : w[j] # 0
    BY <2>1 DEF WordAt
  <2>3. w \in Seq(Nat) /\ n + Len(w) <= Len(p)
    BY <2>2 DEF Occurs
  <2>4. Len(w) \in Nat
    BY <2>3, LenProperties
  <2> DEFINE v == n + 1
             z == n + Len(w)
  <2>5. v \in 1..Len(p) /\ z \in v..Len(p) /\ z <= v + Overlap
    BY <1>1, <1>9, <2>2, <2>3, <2>4
  <2> HIDE DEF v, z
  <2>6. PICK k \in K : \E from \in Nat :
              /\ Occurs(CutFor(p, k), p, from) /\ from < v
              /\ \A y \in v..Len(p) : y <= v + Overlap => y <= from + Len(CutFor(p, k))
    BY <1>7, <2>5
  <2>7. PICK from \in Nat :
              /\ Occurs(CutFor(p, k), p, from) /\ from < v
              /\ \A y \in v..Len(p) : y <= v + Overlap => y <= from + Len(CutFor(p, k))
    BY <2>6
  <2> DEFINE cut == CutFor(p, k)
  <2>8. Occurs(cut, p, from) /\ from < v /\ z <= from + Len(cut)
    BY <2>5, <2>7
  <2> HIDE DEF cut
  <2>9. from <= n /\ n + Len(w) <= from + Len(cut) /\ n - from \in Nat
    BY <2>8 DEF v, z
  <2>10. Occurs(w, cut, n - from)
    BY <2>2, <2>8, <2>9, OccursInside
  <2>11. cut \in Seq(Nat)
    BY <2>8 DEF Occurs
  <2>12. WordAt(w, cut, n - from)
    BY <2>2, <2>10 DEF WordAt
  <2>13. w \in WordsOf(cut)
    BY <2>9, <2>11, <2>12, WordOccurs
  <2>14. w \in WordsOf(W[k])
    <3>1. Stripping(W[k], cut)
      BY <1>4 DEF cut
    <3>2. QED
      BY <2>13, <3>1 DEF Stripping
  <2>15. QED
    BY <1>3, <2>14 DEF WordsIn
<1>10. QED
  BY <1>5, <1>6, <1>8, <1>9 DEF W

\* The sums of lengths, one by one.
Summing(f, given) ==
    /\ f \in [0..Len(given) -> Nat] /\ f[0] = 0
    /\ \A k \in 1..Len(given) : f[k] = f[k - 1] + given[k]

LEMMA SumsAre == ASSUME NEW given \in Seq(Nat) PROVE Summing(Sums(given), given)
<1> DEFINE L == Len(given)
           S == Nat
           start == 0
           step == [x \in (1..L) \X S |-> x[2] + given[x[1]]]
<1>1. DOMAIN given = 1..L /\ L \in Nat /\ \A k \in 1..L : given[k] \in Nat
  BY LenProperties
<1>2. start \in S
  OBVIOUS
<1>3. ASSUME NEW k \in 1..L, NEW e \in S
      PROVE  step[<<k, e>>] \in S /\ step[<<k, e>>] = e + given[k]
  <2>1. e + given[k] \in S
    BY <1>1
  <2>2. <<k, e>> \in (1..L) \X S /\ <<k, e>>[1] = k /\ <<k, e>>[2] = e
    OBVIOUS
  <2>3. step[<<k, e>>] = e + given[k]
    BY <2>2
  <2>4. QED
    BY <2>1, <2>3
<1> HIDE DEF step, S, L, start
<1>4. PICK f : Iteration(f, start, step, S, L)
  <2>1. ClosedUnder(step, S, L)
    BY <1>3 DEF ClosedUnder
  <2>2. QED
    BY <1>1, <1>2, <2>1, Iterated
<1>5. ASSUME NEW n \in 1..L PROVE f[n] = f[n - 1] + given[n]
  <2>1. n - 1 \in 0..L
    BY <1>1
  <2>2. f[n - 1] \in S
    BY <1>4, <2>1 DEF Iteration
  <2>3. QED
    BY <1>3, <1>4, <2>2 DEF Iteration
<1>6. f \in [0..L -> Nat] /\ f[0] = 0
  BY <1>4 DEF Iteration, S, start
<1>7. ASSUME NEW n \in 0..L PROVE f[n] = IF n = 0 THEN 0 ELSE f[n - 1] + given[n]
  BY <1>1, <1>5, <1>6
<1>8. f = [n \in 0..L |-> IF n = 0 THEN 0 ELSE f[n - 1] + given[n]]
  BY <1>6, <1>7
<1>9. Sums(given) = CHOOSE g : g = [n \in 0..L |-> IF n = 0 THEN 0 ELSE g[n - 1] + given[n]]
  BY DEF Sums, L
<1>10. Sums(given) = [n \in 0..L |-> IF n = 0 THEN 0 ELSE Sums(given)[n - 1] + given[n]]
  BY <1>8, <1>9
<1> DEFINE g == Sums(given)
<1>11. DOMAIN g = 0..L /\ \A n \in 0..L : g[n] = IF n = 0 THEN 0 ELSE g[n - 1] + given[n]
  <2>1. g = [n \in 0..L |-> IF n = 0 THEN 0 ELSE g[n - 1] + given[n]]
    BY <1>10
  <2> HIDE DEF g
  <2>2. QED
    BY <2>1
<1> HIDE DEF g
<1>12. \A n \in 0..L : g[n] \in Nat
  <2> DEFINE good == {n \in 0..L : g[n] \in Nat}
  <2>1. 0 \in good
    BY <1>1, <1>11
  <2>2. ASSUME NEW n \in 1..L, n - 1 \in good PROVE n \in good
    <3>1. g[n] = g[n - 1] + given[n] /\ g[n - 1] \in Nat /\ n \in 0..L
      BY <1>1, <1>11, <2>2
    <3>2. QED
      BY <1>1, <3>1
  <2> HIDE DEF good
  <2>3. \A n \in 0..L : n \in good
    BY <1>1, <2>1, <2>2, Along
  <2>4. QED
    BY <2>3 DEF good
<1>13. g = [n \in 0..L |-> g[n]]
  <2>1. g = [n \in 0..L |-> IF n = 0 THEN 0 ELSE g[n - 1] + given[n]]
    BY <1>10 DEF g
  <2>2. QED
    BY <1>11, <2>1
<1>14. g[0] = 0 /\ \A k \in 1..L : g[k] = g[k - 1] + given[k]
  <2>1. 0 \in 0..L /\ \A k \in 1..L : k \in 0..L /\ k # 0
    BY <1>1
  <2>2. \A n \in 0..L : g[n] = IF n = 0 THEN 0 ELSE g[n - 1] + given[n]
    BY <1>11
  <2>3. g[0] = 0
    BY <2>1, <2>2
  <2>4. ASSUME NEW k \in 1..L PROVE g[k] = g[k - 1] + given[k]
    BY <2>1, <2>2
  <2>5. QED
    BY <2>3, <2>4
<1>15. g \in [0..L -> Nat]
  BY <1>12, <1>13
<1>16. QED
  BY <1>14, <1>15 DEF Summing, g, L

LEMMA TotalGrows ==
    ASSUME NEW given \in Seq(Nat), NEW x \in Nat
    PROVE  Total(given) \in Nat /\ Total(Append(given, x)) = Total(given) + x
<1> DEFINE more == Append(given, x)
           f == Sums(given)
           g == Sums(more)
           L == Len(given)
<1>1. /\ more \in Seq(Nat) /\ Len(more) = L + 1 /\ L \in Nat
      /\ \A k \in 1..L : more[k] = given[k]
      /\ more[L + 1] = x
  BY AppendProperties, LenProperties
<1>2. Summing(f, given) /\ Summing(g, more)
  BY <1>1, SumsAre
<1> HIDE DEF f, g, more
<1>3. /\ f \in [0..L -> Nat] /\ f[0] = 0 /\ g[0] = 0
      /\ \A k \in 1..L : f[k] = f[k - 1] + given[k]
      /\ \A k \in 1..L + 1 : g[k] = g[k - 1] + more[k]
  BY <1>1, <1>2 DEF Summing
<1> HIDE DEF L
<1>4. \A n \in 0..L : g[n] = f[n]
  <2> DEFINE good == {n \in 0..L : g[n] = f[n]}
  <2>1. 0 \in good
    BY <1>1, <1>3
  <2>2. ASSUME NEW n \in 1..L, n - 1 \in good PROVE n \in good
    <3>1. g[n - 1] = f[n - 1] /\ n \in 1..L + 1 /\ n \in 0..L
      BY <1>1, <2>2
    <3>2. g[n] = g[n - 1] + more[n] /\ f[n] = f[n - 1] + given[n] /\ more[n] = given[n]
      BY <1>1, <1>3, <3>1
    <3>3. g[n] = f[n]
      BY <3>1, <3>2
    <3>4. QED
      BY <3>1, <3>3
  <2> HIDE DEF good
  <2>3. \A n \in 0..L : n \in good
    BY <1>1, <2>1, <2>2, Along
  <2>4. QED
    BY <2>3 DEF good
<1>5. g[L + 1] = f[L] + x /\ f[L] \in Nat
  <2>1. L + 1 \in 1..L + 1 /\ L + 1 - 1 = L /\ L \in 0..L
    BY <1>1
  <2>2. g[L + 1] = g[L] + more[L + 1] /\ g[L] = f[L] /\ f[L] \in Nat
    BY <1>3, <1>4, <2>1
  <2>3. QED
    BY <1>1, <2>2
<1>6. Total(given) = f[L] /\ Total(more) = g[L + 1]
  BY <1>1 DEF Total, f, g, L
<1>7. QED
  BY <1>5, <1>6 DEF more

LEMMA SumsRise ==
    ASSUME NEW given \in Seq(Nat), NEW m \in 0..Len(given), NEW n \in m..Len(given)
    PROVE  Sums(given)[m] \in Nat /\ Sums(given)[m] <= Sums(given)[n]
<1> DEFINE f == Sums(given)
           L == Len(given)
<1>1. L \in Nat /\ \A k \in 1..L : given[k] \in Nat
  BY LenProperties
<1>2. Summing(f, given)
  BY SumsAre
<1> HIDE DEF f
<1>3. /\ \A k \in 0..L : f[k] \in Nat
      /\ \A k \in 1..L : f[k] = f[k - 1] + given[k]
  BY <1>2 DEF Summing
<1>4. m \in 0..L /\ n \in m..L /\ m \in Nat /\ n - m \in Nat
  BY <1>1
<1> HIDE DEF L
<1> DEFINE good == {i \in 0..n - m : f[m] <= f[m + i]}
           gap == n - m
<1>5. 0 \in good
  <2>1. m + 0 = m /\ f[m] <= f[m]
    BY <1>3, <1>4
  <2>2. QED
    BY <1>4, <2>1
<1>6. ASSUME NEW i \in 1..gap, i - 1 \in good PROVE i \in good
  <2>1. /\ i \in 0..gap /\ m + i \in 1..L /\ m + (i - 1) \in 0..L
        /\ m + i - 1 = m + (i - 1) /\ f[m] <= f[m + (i - 1)]
    BY <1>1, <1>4, <1>6
  <2>2. f[m + i] = f[m + (i - 1)] + given[m + i]
    BY <1>3, <2>1
  <2>3. f[m] \in Nat /\ f[m + (i - 1)] \in Nat /\ given[m + i] \in Nat
    BY <1>1, <1>3, <1>4, <2>1
  <2>4. f[m] <= f[m + i]
    BY <2>1, <2>2, <2>3
  <2>5. QED
    BY <2>1, <2>4
<1> HIDE DEF good
<1>7. \A i \in 0..gap : i \in good
  <2>1. gap \in Nat
    BY <1>4
  <2> HIDE DEF gap
  <2>2. QED
    BY <1>5, <1>6, <2>1, Along
<1>8. gap \in good /\ m + gap = n
  BY <1>1, <1>4, <1>7
<1>9. f[m] <= f[n]
  BY <1>8 DEF good
<1>10. QED
  BY <1>3, <1>4, <1>9 DEF f

\* The texts of a list are in the order of the document.
InTextOrder(list) ==
    /\ \A c \in DOMAIN list : Ascends(list[c])
    /\ \A b, c \in DOMAIN list : b < c => InkBelow(list[b], list[c])

\* What the first n texts of a list hold.
InkTo(list, n) == UNION {Inked(list[c]) : c \in 1..n}

WordsTo(list, n) == UNION {WordsOf(list[c]) : c \in 1..n}

\* The first n pieces are what a list of texts holds.
Copied(list, n) ==
    /\ InTextOrder(list) /\ InkOf(list) = InkTo(pieces, n)
    /\ WordsTo(pieces, n) \subseteq WordsIn(list)

Short(words) == {w \in words : Len(w) <= Overlap + 1}

\* The paragraphs taken so far are in the chunks and in the one being packed.
Packed ==
    /\ Fitting(chunks) /\ Fits(current)
    /\ InkOf(chunks) \cup Inked(current) = InkTo(text, done)
    /\ Short(WordsTo(text, done)) \subseteq WordsIn(chunks) \cup WordsOf(current)
    /\ chunks # <<>> => InkTo(text, done) # {}

AllPacked ==
    /\ Fitting(chunks) /\ InkOf(chunks) = InkOf(pieces)
    /\ Short(WordsIn(pieces)) \subseteq WordsIn(chunks)
    /\ chunks # <<>> => InkOf(pieces) # {}

\* A separator of two blanks is longer by one than what the budget counts.
Lengths(list) == [k \in DOMAIN list |-> Len(list[k]) + 2]

WithinLimit ==
    /\ used \in Nat /\ (loading # "refused" => used <= MaxExtracted)
    /\ kind # "text" => Total(Lengths(text)) <= used + Len(text)

LoaderInv ==
    /\ pieces \in Texts /\ InTextOrder(pieces) /\ done \in Nat
    /\ text \in Texts /\ chunks \in Texts
    /\ WithinLimit
    /\ loading \in {"extracting", "scanned"} => chunks = <<>> /\ current = <<>>
    /\ loading = "extracting" => done <= Len(pieces) /\ Copied(text, done)
    /\ loading = "scanned" => done = 0
    /\ loading = "chunking" => done <= Len(text) /\ Copied(text, Len(pieces)) /\ Packed
    /\ loading = "chunked" => AllPacked

LEMMA FirstOf ==
    ASSUME NEW list \in Texts, NEW n \in Nat
    PROVE  /\ InkTo(list, 0) = {} /\ WordsTo(list, 0) = {}
           /\ InkTo(list, n + 1) = InkTo(list, n) \cup Inked(list[n + 1])
           /\ WordsTo(list, n + 1) = WordsTo(list, n) \cup WordsOf(list[n + 1])
           /\ InkTo(list, Len(list)) = InkOf(list) /\ WordsTo(list, Len(list)) = WordsIn(list)
<1>1. 1..0 = {} /\ 1..n + 1 = 1..n \cup {n + 1}
  OBVIOUS
<1>2. DOMAIN list = 1..Len(list)
  BY LenProperties DEF Texts
<1>3. InkTo(list, 0) = {} /\ WordsTo(list, 0) = {}
  BY <1>1 DEF InkTo, WordsTo
<1>4. InkTo(list, n + 1) = InkTo(list, n) \cup Inked(list[n + 1])
  <2>1. ASSUME NEW u \in InkTo(list, n + 1) PROVE u \in InkTo(list, n) \cup Inked(list[n + 1])
    <3>1. PICK c \in 1..n + 1 : u \in Inked(list[c])
      BY <2>1 DEF InkTo
    <3>2. CASE c \in 1..n
      BY <3>1, <3>2 DEF InkTo
    <3>3. CASE c = n + 1
      BY <3>1, <3>3
    <3>4. QED
      BY <1>1, <3>2, <3>3
  <2>2. InkTo(list, n) \subseteq InkTo(list, n + 1)
    BY <1>1 DEF InkTo
  <2>3. Inked(list[n + 1]) \subseteq InkTo(list, n + 1)
    BY <1>1 DEF InkTo
  <2>4. QED
    BY <2>1, <2>2, <2>3
<1>5. WordsTo(list, n + 1) = WordsTo(list, n) \cup WordsOf(list[n + 1])
  <2>1. ASSUME NEW u \in WordsTo(list, n + 1) PROVE u \in WordsTo(list, n) \cup WordsOf(list[n + 1])
    <3>1. PICK c \in 1..n + 1 : u \in WordsOf(list[c])
      BY <2>1 DEF WordsTo
    <3>2. CASE c \in 1..n
      BY <3>1, <3>2 DEF WordsTo
    <3>3. CASE c = n + 1
      BY <3>1, <3>3
    <3>4. QED
      BY <1>1, <3>2, <3>3
  <2>2. WordsTo(list, n) \subseteq WordsTo(list, n + 1)
    BY <1>1 DEF WordsTo
  <2>3. WordsOf(list[n + 1]) \subseteq WordsTo(list, n + 1)
    BY <1>1 DEF WordsTo
  <2>4. QED
    BY <2>1, <2>2, <2>3
<1>6. InkTo(list, Len(list)) = InkOf(list) /\ WordsTo(list, Len(list)) = WordsIn(list)
  BY <1>2 DEF InkTo, InkOf, WordsTo, WordsIn
<1>7. QED
  BY <1>3, <1>4, <1>5, <1>6

LEMMA LengthsGrow ==
    ASSUME NEW list \in Texts, NEW s \in Seq(Nat)
    PROVE  /\ Total(Lengths(list)) \in Nat /\ Len(s) \in Nat
           /\ Total(Lengths(Append(list, s))) = Total(Lengths(list)) + (Len(s) + 2)
<1> DEFINE old == Lengths(list)
           new == Lengths(Append(list, s))
           x == Len(s) + 2
           L == Len(list)
<1>1. /\ Append(list, s) \in Seq(Seq(Nat)) /\ Len(Append(list, s)) = L + 1 /\ L \in Nat
      /\ \A c \in 1..L : Append(list, s)[c] = list[c]
      /\ Append(list, s)[L + 1] = s
      /\ DOMAIN list = 1..L /\ \A c \in 1..L : list[c] \in Seq(Nat)
  BY AppendProperties, LenProperties DEF Texts
<1>2. Len(s) \in Nat /\ \A c \in 1..L : Len(list[c]) \in Nat
  BY <1>1, LenProperties
<1>3. x \in Nat /\ \A c \in 1..L : Len(list[c]) + 2 \in Nat
  BY <1>2
<1>4. old \in Seq(Nat) /\ Len(old) = L /\ \A c \in 1..L : old[c] = Len(list[c]) + 2
  <2>1. old = [c \in 1..L |-> Len(list[c]) + 2]
    BY <1>1 DEF Lengths
  <2>2. QED
    BY <1>1, <1>3, <2>1
<1>5. /\ new \in Seq(Nat) /\ Len(new) = L + 1 /\ new[L + 1] = x
      /\ \A c \in 1..L : new[c] = Len(list[c]) + 2
  <2> DEFINE more == Append(list, s)
  <2>1. DOMAIN more = 1..L + 1
    BY <1>1, LenProperties
  <2>2. new = [c \in 1..L + 1 |-> Len(more[c]) + 2]
    BY <2>1 DEF Lengths
  <2>m. /\ \A c \in 1..L : more[c] = list[c]
        /\ more[L + 1] = s
    BY <1>1
  <2> HIDE DEF more
  <2>3. \A c \in 1..L + 1 : Len(more[c]) + 2 \in Nat
    <3>1. SUFFICES ASSUME NEW c \in 1..L + 1 PROVE Len(more[c]) + 2 \in Nat
      OBVIOUS
    <3>2. CASE c = L + 1
      BY <1>2, <2>m, <3>2
    <3>3. CASE c \in 1..L
      BY <1>2, <2>m, <3>3
    <3>4. QED
      BY <1>1, <3>2, <3>3
  <2>4. new \in Seq(Nat) /\ Len(new) = L + 1
    BY <1>1, <2>2, <2>3
  <2>5. L + 1 \in 1..L + 1 /\ \A c \in 1..L : c \in 1..L + 1
    BY <1>1
  <2>6. new[L + 1] = x
    BY <2>2, <2>m, <2>5
  <2>7. \A c \in 1..L : new[c] = Len(list[c]) + 2
    BY <2>2, <2>m, <2>5
  <2>8. QED
    BY <2>4, <2>6, <2>7
<1> HIDE DEF old, new, x, L
<1>6. new = Append(old, x)
  <2>1. /\ Append(old, x) \in Seq(Nat) /\ Len(Append(old, x)) = L + 1
        /\ \A c \in 1..L : Append(old, x)[c] = old[c]
        /\ Append(old, x)[L + 1] = x
    BY <1>3, <1>4, AppendProperties
  <2> DEFINE more == Append(old, x)
  <2>2. \A c \in 1..L + 1 : new[c] = more[c]
    <3>1. SUFFICES ASSUME NEW c \in 1..L + 1 PROVE new[c] = more[c]
      OBVIOUS
    <3>2. CASE c = L + 1
      BY <1>5, <2>1, <3>2
    <3>3. CASE c \in 1..L
      BY <1>4, <1>5, <2>1, <3>3
    <3>4. c = L + 1 \/ c \in 1..L
      <4>1. L \in Nat
        BY <1>1
      <4>2. QED
        BY <3>1, <4>1
    <3> HIDE DEF more
    <3>5. QED
      BY <3>2, <3>3, <3>4
  <2> HIDE DEF more
  <2>3. more \in Seq(Nat) /\ Len(more) = L + 1
    BY <2>1 DEF more
  <2>4. new = more
    BY <1>5, <2>2, <2>3, SeqEqual
  <2>5. QED
    BY <2>4 DEF more
<1>7. Total(old) \in Nat /\ Total(Append(old, x)) = Total(old) + x
  BY <1>3, <1>4, TotalGrows
<1>8. QED
  BY <1>2, <1>6, <1>7 DEF old, new, x

\* One piece more, with or without the blanks around it.
LEMMA CopyMore ==
    ASSUME pieces \in Texts, InTextOrder(pieces), NEW list \in Texts,
           NEW n \in Nat, n < Len(pieces), Copied(list, n),
           NEW s, Stripping(s, pieces[n + 1])
    PROVE  /\ Append(list, s) \in Texts /\ Copied(Append(list, s), n + 1)
           /\ s = <<>> => Copied(list, n + 1)
<1> DEFINE L == Len(list)
           more == Append(list, s)
<1>0. Len(pieces) \in Nat /\ DOMAIN pieces = 1..Len(pieces) /\ L \in Nat /\ DOMAIN list = 1..L
  BY LenProperties DEF Texts
<1>1. n + 1 \in DOMAIN pieces
  BY <1>0
<1>2. /\ s \in Seq(Nat) /\ Inked(s) = Inked(pieces[n + 1]) /\ Ascends(s)
      /\ WordsOf(pieces[n + 1]) \subseteq WordsOf(s)
  <2>1. Ascends(pieces[n + 1])
    BY <1>1 DEF InTextOrder
  <2>2. QED
    BY <2>1 DEF Stripping
<1>3. /\ more \in Texts /\ InkOf(more) = InkOf(list) \cup Inked(s)
      /\ WordsIn(more) = WordsIn(list) \cup WordsOf(s)
  BY <1>2, ListGrows
<1>4. /\ InkTo(pieces, n + 1) = InkTo(pieces, n) \cup Inked(pieces[n + 1])
      /\ WordsTo(pieces, n + 1) = WordsTo(pieces, n) \cup WordsOf(pieces[n + 1])
  BY FirstOf
<1>5. /\ InTextOrder(list) /\ InkOf(list) = InkTo(pieces, n)
      /\ WordsTo(pieces, n) \subseteq WordsIn(list)
  BY DEF Copied
<1>6. InTextOrder(more)
  <2>1. /\ Len(more) = L + 1 /\ more \in Seq(Seq(Nat))
        /\ \A c \in 1..L : more[c] = list[c]
        /\ more[L + 1] = s
    BY <1>2, AppendProperties DEF Texts
  <2>2. DOMAIN more = 1..L + 1
    BY <2>1, LenProperties
  <2> HIDE DEF more
  <2>3. ASSUME NEW c \in DOMAIN more PROVE Ascends(more[c])
    <3>1. CASE c = L + 1
      BY <1>2, <2>1, <3>1
    <3>2. CASE c \in 1..L
      BY <1>0, <1>5, <2>1, <3>2 DEF InTextOrder
    <3>3. QED
      BY <1>0, <2>2, <3>1, <3>2
  <2>4. ASSUME NEW b \in DOMAIN more, NEW c \in DOMAIN more, b < c PROVE InkBelow(more[b], more[c])
    <3>1. CASE c \in 1..L
      <4>1. b \in 1..L
        BY <1>0, <2>2, <2>4, <3>1
      <4>2. QED
        BY <1>0, <1>5, <2>1, <2>4, <3>1, <4>1 DEF InTextOrder
    <3>2. CASE c = L + 1
      <4>1. b \in 1..L /\ more[b] = list[b] /\ more[c] = s
        BY <1>0, <2>1, <2>2, <2>4, <3>2
      <4>2. ASSUME NEW u \in Inked(list[b]), NEW v \in Inked(s) PROVE u < v
        <5>1. u \in InkTo(pieces, n)
          BY <1>0, <1>5, <4>1 DEF InkOf
        <5>2. PICK k \in 1..n : u \in Inked(pieces[k])
          BY <5>1 DEF InkTo
        <5>3. k \in DOMAIN pieces /\ k < n + 1
          BY <1>0
        <5>4. InkBelow(pieces[k], pieces[n + 1])
          BY <1>1, <5>3 DEF InTextOrder
        <5>5. QED
          BY <1>2, <5>2, <5>4 DEF InkBelow
      <4>3. QED
        BY <4>1, <4>2 DEF InkBelow
    <3>3. QED
      BY <1>0, <2>2, <3>1, <3>2
  <2>5. QED
    BY <2>3, <2>4 DEF InTextOrder
<1> HIDE DEF more, L
<1>7. Copied(more, n + 1)
  BY <1>2, <1>3, <1>4, <1>5, <1>6 DEF Copied
<1>8. ASSUME s = <<>> PROVE Copied(list, n + 1)
  <2>1. Inked(s) = {} /\ WordsOf(s) = {}
    BY <1>8 DEF Inked, WordsOf
  <2>2. QED
    BY <1>2, <1>4, <1>5, <2>1 DEF Copied
<1>9. QED
  BY <1>3, <1>7, <1>8 DEF more

LEMMA TakeStep == ASSUME LoaderInv, Take PROVE LoaderInv'
<1> DEFINE n == done
           piece == pieces[done + 1]
           s == Kept
<1>1. /\ pieces \in Texts /\ InTextOrder(pieces) /\ n \in Nat /\ text \in Texts /\ chunks \in Texts
      /\ loading = "extracting" /\ n < Len(pieces) /\ Copied(text, n)
      /\ chunks = <<>> /\ current = <<>>
      /\ used \in Nat /\ used <= MaxExtracted
      /\ kind # "text" => Total(Lengths(text)) <= used + Len(text)
      /\ pieces' = pieces /\ chunks' = chunks /\ current' = current /\ kind' = kind /\ done' = n + 1
      /\ used' = IF Dropped \/ kind = "text" THEN used ELSE used + Len(s) + 1
  BY DEF LoaderInv, WithinLimit, Take
<1>2. Len(pieces) \in Nat /\ DOMAIN pieces = 1..Len(pieces) /\ piece \in Seq(Nat)
      /\ Len(text) \in Nat /\ MaxExtracted \in Nat
  <2>1. Len(pieces) \in Nat /\ DOMAIN pieces = 1..Len(pieces) /\ Len(text) \in Nat
    BY <1>1, LenProperties DEF Texts
  <2>2. n + 1 \in 1..Len(pieces)
    BY <1>1, <2>1
  <2>3. piece \in Seq(Nat)
    BY <1>1, <2>1, <2>2, LenProperties DEF Texts
  <2>4. QED
    BY <2>1, <2>3, LoaderBounds
<1>3. Stripping(s, piece)
  <2>1. CASE Strips
    <3>1. s = Strip(piece)
      BY <2>1 DEF Kept
    <3> HIDE DEF s, piece
    <3>2. QED
      BY <1>2, <3>1, StripIs
  <2>2. CASE ~Strips
    <3>1. s = piece
      BY <2>2 DEF Kept
    <3> HIDE DEF s, piece
    <3>2. Len(piece) \in Nat
      BY <1>2, LenProperties
    <3>3. QED
      BY <1>2, <3>1, <3>2 DEF Stripping
  <2>3. QED
    BY <2>1, <2>2
<1>4. s \in Seq(Nat)
  BY <1>3 DEF Stripping
<1>5. Append(text, s) \in Texts /\ Copied(Append(text, s), n + 1) /\ (s = <<>> => Copied(text, n + 1))
  <2> HIDE DEF s, n
  <2>1. Stripping(s, pieces[n + 1])
    BY <1>3 DEF n
  <2>2. QED
    BY <1>1, <2>1, CopyMore
<1>6. /\ Total(Lengths(text)) \in Nat /\ Len(s) \in Nat
      /\ Total(Lengths(Append(text, s))) = Total(Lengths(text)) + (Len(s) + 2)
  <2> HIDE DEF s
  <2>1. QED
    BY <1>1, <1>4, LengthsGrow
<1>7. Len(Append(text, s)) = Len(text) + 1
  <2> HIDE DEF s
  <2>1. QED
    BY <1>1, <1>4, AppendProperties DEF Texts
<1>d. Dropped => s = <<>>
  BY DEF Dropped
<1> HIDE DEF s, piece
<1>8. used' \in Nat /\ used <= used'
  BY <1>1, <1>6
<1>9. CASE used' > MaxExtracted
  <2>1. loading' = "refused" /\ text' = text
    BY <1>9 DEF Take
  <2>2. kind # "text" => Total(Lengths(text)) <= used' + Len(text)
    BY <1>1, <1>2, <1>6, <1>8
  <2>3. WithinLimit'
    BY <1>1, <1>8, <2>1, <2>2 DEF WithinLimit
  <2>4. InTextOrder(pieces)' /\ done' \in Nat
    BY <1>1
  <2>5. QED
    BY <1>1, <2>1, <2>3, <2>4 DEF LoaderInv
<1>10. CASE ~(used' > MaxExtracted)
  <2>1. /\ loading' = "extracting" /\ used' <= MaxExtracted
        /\ text' = IF Dropped \/ (kind = "ocr" /\ s = <<>>) THEN text ELSE Append(text, s)
    BY <1>1, <1>2, <1>8, <1>10 DEF Take, s
  <2>2. text' \in Texts /\ Copied(text', n + 1)
    BY <1>1, <1>5, <1>d, <2>1
  <2>3. kind # "text" => Total(Lengths(text')) <= used' + Len(text')
    <3>1. CASE text' = text
      BY <1>1, <1>2, <1>6, <1>8, <3>1
    <3>2. CASE text' = Append(text, s) /\ ~Dropped
      <4>1. SUFFICES ASSUME kind # "text" PROVE Total(Lengths(text')) <= used' + Len(text')
        OBVIOUS
      <4>2. used' = used + Len(s) + 1 /\ Total(Lengths(text)) <= used + Len(text)
        BY <1>1, <3>2, <4>1
      <4>3. /\ Total(Lengths(text')) = Total(Lengths(text)) + (Len(s) + 2)
            /\ Len(text') = Len(text) + 1
        BY <1>6, <1>7, <3>2
      <4>4. used \in Nat /\ Len(text) \in Nat /\ Total(Lengths(text)) \in Nat /\ Len(s) \in Nat
        BY <1>1, <1>2, <1>6
      <4> DEFINE a == Total(Lengths(text))
                 l == Len(s)
                 t == Len(text)
      <4>5. a + (l + 2) <= used + l + 1 + (t + 1)
        <5>1. a \in Nat /\ l \in Nat /\ t \in Nat /\ used \in Nat /\ a <= used + t
          BY <4>2, <4>4
        <5> HIDE DEF a, l, t
        <5>2. QED
          BY ONLY <5>1
      <4>6. QED
        BY <4>2, <4>3, <4>5
    <3>3. QED
      BY <2>1, <3>1, <3>2
  <2>4. WithinLimit'
    <3>2. QED
      BY <1>1, <1>8, <2>1, <2>3 DEF WithinLimit, Lengths
  <2>5. InTextOrder(pieces)' /\ done' \in Nat /\ n + 1 <= Len(pieces)
    BY <1>1, <1>2
  <2>6. Copied(text, done)'
    BY <1>1, <2>2 DEF Copied
  <2>7. QED
    BY <1>1, <2>1, <2>2, <2>4, <2>5, <2>6 DEF LoaderInv
<1>11. QED
  BY <1>9, <1>10

LEMMA NothingYet ==
    /\ <<>> \in Texts /\ InTextOrder(<<>>) /\ InkOf(<<>>) = {} /\ WordsIn(<<>>) = {}
    /\ Fitting(<<>>) /\ Fits(<<>>) /\ Inked(<<>>) = {} /\ WordsOf(<<>>) = {}
    /\ Len(<<>>) = 0 /\ Total(Lengths(<<>>)) = 0
<1>1. <<>> \in Seq(Seq(Nat)) /\ <<>> \in Seq(Nat) /\ Len(<<>>) = 0 /\ DOMAIN <<>> = {}
  BY EmptySeq
<1>2. <<>> \in Texts /\ InTextOrder(<<>>) /\ InkOf(<<>>) = {} /\ WordsIn(<<>>) = {} /\ Fitting(<<>>)
  BY <1>1 DEF Texts, InTextOrder, InkOf, WordsIn, Fitting
<1>3. Ascends(<<>>) /\ Inked(<<>>) = {} /\ WordsOf(<<>>) = {}
  BY <1>1 DEF Ascends, Inked, WordsOf
<1>4. Fits(<<>>)
  BY <1>1, <1>3, LoaderBounds DEF Fits
<1>5. Total(Lengths(<<>>)) = 0
  <2>1. Lengths(<<>>) = <<>>
    BY <1>1 DEF Lengths
  <2>2. Summing(Sums(<<>>), <<>>)
    BY <1>1, SumsAre
  <2>3. Sums(<<>>)[0] = 0
    BY <2>2 DEF Summing
  <2>4. QED
    BY <1>1, <2>1, <2>3 DEF Total
<1>6. QED
  BY <1>1, <1>2, <1>3, <1>4, <1>5

LEMMA LoadFailsStep == ASSUME LoaderInv, LoadFails PROVE LoaderInv'
<1>1. /\ pieces' = pieces /\ done' = done /\ text' = text /\ chunks' = chunks /\ used' = used
      /\ kind' = kind /\ loading' = "refused"
  BY DEF LoadFails
<1>2. WithinLimit'
  BY <1>1 DEF LoaderInv, WithinLimit
<1>3. InTextOrder(pieces)'
  BY <1>1 DEF LoaderInv
<1>4. QED
  BY <1>1, <1>2, <1>3 DEF LoaderInv

LEMMA ExtractedStep == ASSUME LoaderInv, Extracted PROVE LoaderInv'
<1>1. /\ pieces' = pieces /\ done' = 0 /\ text' = text /\ chunks' = chunks /\ used' = used
      /\ kind' = kind /\ current' = current /\ loading' \in {"chunking", "scanned", "refused"}
      /\ loading = "extracting" /\ done = Len(pieces)
  BY DEF Extracted
<1>2. /\ pieces \in Texts /\ InTextOrder(pieces) /\ text \in Texts /\ chunks \in Texts
      /\ chunks = <<>> /\ current = <<>> /\ Copied(text, done)
  BY <1>1 DEF LoaderInv
<1>3. WithinLimit'
  BY <1>1 DEF LoaderInv, WithinLimit
<1>4. InTextOrder(pieces)'
  BY <1>1, <1>2
<1>5. ASSUME loading' = "chunking" PROVE (done <= Len(text) /\ Copied(text, Len(pieces)) /\ Packed)'
  <2>1. Copied(text, Len(pieces))'
    BY <1>1, <1>2 DEF Copied
  <2>2. done' <= Len(text')
    BY <1>1, <1>2, LenProperties DEF Texts
  <2>3. InkTo(text, 0) = {} /\ WordsTo(text, 0) = {}
    <3>1. 0 \in Nat
      OBVIOUS
    <3>2. QED
      BY <1>2, <3>1, FirstOf
  <2>4. chunks' = <<>> /\ current' = <<>>
    BY <1>1, <1>2
  <2>5. /\ Fitting(<<>>) /\ Fits(<<>>) /\ InkOf(<<>>) \cup Inked(<<>>) = InkTo(text, 0)
        /\ Short(WordsTo(text, 0)) \subseteq WordsIn(<<>>) \cup WordsOf(<<>>)
    BY <2>3, NothingYet DEF Short
  <2>6. Packed'
    BY <1>1, <2>4, <2>5 DEF Packed
  <2>7. QED
    BY <2>1, <2>2, <2>6
<1>6. QED
  BY <1>1, <1>2, <1>3, <1>4, <1>5 DEF LoaderInv

\* The pieces of a document are in the order of their characters.
LEMMA DocumentsOrdered ==
    ASSUME NEW doc \in Documents
    PROVE  doc \in Texts /\ InTextOrder(doc)
<1>1. PICK lengths \in BoundedSeq(0..MaxText, MaxPieces) :
         \E ink \in SUBSET (1..Total(lengths)) : doc = Laid(lengths, ink)
  BY DEF Documents
<1>2. PICK ink \in SUBSET (1..Total(lengths)) :
         doc = [k \in DOMAIN lengths |-> [j \in 1..lengths[k] |->
            LET position == Sums(lengths)[k - 1] + j
            IN  IF position \in ink THEN position ELSE 0]]
  BY <1>1 DEF Laid
<1> DEFINE L == Len(lengths)
           f == Sums(lengths)
<1>3. lengths \in Seq(Nat)
  <2>1. PICK m \in 0..MaxPieces : lengths \in [1..m -> 0..MaxText]
    BY DEF BoundedSeq, SeqOf
  <2>2. m \in Nat
    BY LoaderBounds
  <2>3. lengths \in [1..m -> Nat]
    BY <2>1
  <2>4. QED
    BY <2>2, <2>3
<1>4. L \in Nat /\ DOMAIN lengths = 1..L /\ \A k \in 1..L : lengths[k] \in Nat
  BY <1>3, LenProperties
<1>5. /\ \A k \in 1..L : f[k - 1] \in Nat /\ f[k] = f[k - 1] + lengths[k]
      /\ \A b, c \in 1..L : b < c => f[b] <= f[c - 1]
  <2>1. Summing(f, lengths)
    BY <1>3, SumsAre
  <2> HIDE DEF f
  <2>2. ASSUME NEW k \in 1..L PROVE f[k - 1] \in Nat /\ f[k] = f[k - 1] + lengths[k]
    <3>1. k - 1 \in 0..L
      BY <1>4
    <3>2. QED
      BY <2>1, <3>1 DEF Summing
  <2>3. ASSUME NEW b \in 1..L, NEW c \in 1..L, b < c PROVE f[b] <= f[c - 1]
    <3> DEFINE d == c - 1
    <3>1. b \in 0..Len(lengths) /\ d \in b..Len(lengths)
      BY <1>4, <2>3
    <3> HIDE DEF d
    <3>2. Sums(lengths)[b] <= Sums(lengths)[d]
      BY <1>3, <3>1, SumsRise
    <3>3. QED
      BY <3>2 DEF d, f
  <2>4. QED
    BY <2>2, <2>3
<1> HIDE DEF L, f
<1>6. doc = [k \in 1..L |-> [j \in 1..lengths[k] |->
                  IF f[k - 1] + j \in ink THEN f[k - 1] + j ELSE 0]]
  BY <1>2, <1>4 DEF f
<1>7. ASSUME NEW k \in 1..L
      PROVE  /\ doc[k] \in Seq(Nat) /\ DOMAIN doc[k] = 1..lengths[k]
             /\ \A j \in 1..lengths[k] : doc[k][j] # 0 => doc[k][j] = f[k - 1] + j
  <2> DEFINE m == lengths[k]
             e == f[k - 1]
             s == [j \in 1..m |-> IF e + j \in ink THEN e + j ELSE 0]
  <2>1. doc[k] = s
    BY <1>6
  <2>2. m \in Nat /\ e \in Nat
    BY <1>4, <1>5
  <2> HIDE DEF m, e
  <2>3. s \in Seq(Nat) /\ DOMAIN s = 1..m
    BY <2>2
  <2>4. \A j \in 1..m : s[j] # 0 => s[j] = e + j
    OBVIOUS
  <2> HIDE DEF s
  <2>5. QED
    BY <2>1, <2>3, <2>4 DEF m, e
<1>8. DOMAIN doc = 1..L
  BY <1>6
<1>9. doc \in Texts
  <2>1. doc = [k \in 1..L |-> doc[k]]
    BY <1>6
  <2>2. [k \in 1..L |-> doc[k]] \in Seq(Seq(Nat))
    BY <1>4, <1>7
  <2>3. QED
    BY <2>1, <2>2 DEF Texts
<1>10. ASSUME NEW k \in 1..L PROVE Ascends(doc[k])
  <2>1. ASSUME NEW i \in DOMAIN doc[k], NEW j \in DOMAIN doc[k], i < j,
               doc[k][i] # 0, doc[k][j] # 0
        PROVE  doc[k][i] < doc[k][j]
    <3>1. i \in 1..lengths[k] /\ j \in 1..lengths[k] /\ lengths[k] \in Nat /\ f[k - 1] \in Nat
      <4>1. DOMAIN doc[k] = 1..lengths[k]
        BY <1>7
      <4>2. QED
        BY <1>4, <1>5, <4>1
    <3>2. doc[k][i] = f[k - 1] + i /\ doc[k][j] = f[k - 1] + j
      BY <1>7, <2>1, <3>1
    <3>3. f[k - 1] + i < f[k - 1] + j
      BY <2>1, <3>1
    <3>4. QED
      BY <3>2, <3>3
  <2>2. QED
    BY <2>1 DEF Ascends
<1>11. ASSUME NEW b \in 1..L, NEW c \in 1..L, b < c PROVE InkBelow(doc[b], doc[c])
  <2>1. SUFFICES ASSUME NEW u \in Inked(doc[b]), NEW v \in Inked(doc[c]) PROVE u < v
    BY DEF InkBelow
  <2>2. PICK i \in 1..lengths[b] : u = f[b - 1] + i
    <3>1. PICK k \in DOMAIN doc[b] : u = doc[b][k] /\ u # 0
      BY <2>1 DEF Inked
    <3>2. DOMAIN doc[b] = 1..lengths[b]
      BY <1>7
    <3>3. k \in 1..lengths[b]
      BY <3>2
    <3>4. u = f[b - 1] + k
      BY <1>7, <3>1, <3>3
    <3>5. QED
      BY <3>3, <3>4
  <2>3. PICK j \in 1..lengths[c] : v = f[c - 1] + j
    <3>1. PICK k \in DOMAIN doc[c] : v = doc[c][k] /\ v # 0
      BY <2>1 DEF Inked
    <3>2. DOMAIN doc[c] = 1..lengths[c]
      BY <1>7
    <3>3. k \in 1..lengths[c]
      BY <3>2
    <3>4. v = f[c - 1] + k
      BY <1>7, <3>1, <3>3
    <3>5. QED
      BY <3>3, <3>4
  <2>4. /\ f[b] = f[b - 1] + lengths[b] /\ f[b - 1] \in Nat /\ f[c - 1] \in Nat
        /\ f[b] <= f[c - 1] /\ lengths[b] \in Nat /\ lengths[c] \in Nat
    BY <1>4, <1>5, <1>11
  <2> DEFINE before == f[b - 1]
             between == f[b]
             start == f[c - 1]
             m == lengths[b]
             e == lengths[c]
  <2>5. /\ i \in 1..m /\ u = before + i /\ j \in 1..e /\ v = start + j
        /\ between = before + m /\ before \in Nat /\ start \in Nat
        /\ between <= start /\ m \in Nat /\ e \in Nat
    BY <2>2, <2>3, <2>4
  <2> HIDE DEF before, between, start, m, e
  <2>6. QED
    BY ONLY <2>5
<1>12. InTextOrder(doc)
  BY <1>8, <1>10, <1>11 DEF InTextOrder
<1>13. QED
  BY <1>9, <1>12

LEMMA OcrStep == ASSUME LoaderInv, Ocr PROVE LoaderInv'
<1>1. /\ loading = "scanned" /\ done' = done /\ chunks' = chunks /\ current' = current
      /\ done = 0 /\ chunks = <<>> /\ current = <<>> /\ chunks \in Texts
  BY DEF Ocr, LoaderInv
<1>2. CASE loading' = "refused" /\ UNCHANGED <<kind, pieces, used, text>>
  <2>1. WithinLimit'
    BY <1>2 DEF LoaderInv, WithinLimit
  <2>2. InTextOrder(pieces)'
    BY <1>2 DEF LoaderInv
  <2>3. QED
    BY <1>1, <1>2, <2>1, <2>2 DEF LoaderInv
<1>3. CASE /\ loading' = "extracting" /\ kind' = "ocr" /\ used' = 0 /\ text' = <<>>
           /\ pieces' \in Documents
  <2> DEFINE found == pieces'
  <2>1. found \in Texts /\ InTextOrder(found)
    BY <1>3, DocumentsOrdered
  <2> HIDE DEF found
  <2>2. InkTo(found, 0) = {} /\ WordsTo(found, 0) = {}
    <3>1. 0 \in Nat
      OBVIOUS
    <3>2. QED
      BY <2>1, <3>1, FirstOf
  <2>3. pieces' = found
    BY DEF found
  <2>4. Copied(text, done)'
    BY <1>1, <1>3, <2>2, <2>3, NothingYet DEF Copied
  <2>5. WithinLimit'
    <3>1. used' \in Nat /\ used' <= MaxExtracted
      BY <1>3, LoaderBounds
    <3>2. Total(Lengths(text')) <= used' + Len(text')
      BY <1>3, NothingYet
    <3>3. QED
      BY <3>1, <3>2 DEF WithinLimit, Lengths
  <2>6. (done <= Len(pieces))' /\ done' \in Nat
    BY <1>1, <2>1, <2>3, LenProperties DEF Texts
  <2>7. QED
    BY <1>1, <1>3, <2>1, <2>3, <2>4, <2>5, <2>6, NothingYet DEF LoaderInv
<1>4. QED
  BY <1>2, <1>3 DEF Ocr

\* The paragraphs packed before the next one end before it begins.
LEMMA PackedBelow ==
    ASSUME text \in Texts, InTextOrder(text), NEW n \in Nat, n < Len(text),
           NEW s, Inked(s) \subseteq InkTo(text, n), NEW t, Inked(t) = Inked(text[n + 1])
    PROVE  InkBelow(s, t)
<1>0. Len(text) \in Nat /\ DOMAIN text = 1..Len(text)
  BY LenProperties DEF Texts
<1>1. SUFFICES ASSUME NEW u \in Inked(s), NEW v \in Inked(t) PROVE u < v
  BY DEF InkBelow
<1>2. u \in InkTo(text, n) /\ v \in Inked(text[n + 1])
  BY <1>1
<1>3. PICK k \in 1..n : u \in Inked(text[k])
  BY <1>2 DEF InkTo
<1>4. k \in DOMAIN text /\ n + 1 \in DOMAIN text /\ k < n + 1
  BY <1>0
<1>5. InkBelow(text[k], text[n + 1])
  BY <1>4 DEF InTextOrder
<1>6. QED
  BY <1>2, <1>3, <1>5 DEF InkBelow

\* A paragraph is appended to the chunk being packed.
LEMMA JoinParagraph ==
    ASSUME Fits(current), NEW s, s \in Seq(Nat), Ascends(s), InkBelow(current, s),
           ~(Len(current) + Len(s) + 2 > Size)
    PROVE  /\ Fits(current \o <<0, 0>> \o s)
           /\ Inked(current \o <<0, 0>> \o s) = Inked(current) \cup Inked(s)
           /\ WordsOf(current) \cup WordsOf(s) \subseteq WordsOf(current \o <<0, 0>> \o s)
<1> DEFINE gap == <<0, 0>>
           first == current \o gap
           both == first \o s
<1>1. current \in Seq(Nat) /\ Ascends(current) /\ Len(current) \in Nat /\ Len(s) \in Nat /\ Size \in Nat
  BY LenProperties, LoaderBounds DEF Fits
<1>2. gap \in Seq(Nat) /\ Len(gap) = 2 /\ DOMAIN gap = 1..2 /\ \A j \in 1..2 : gap[j] = 0
  OBVIOUS
<1> HIDE DEF gap
<1>3. Inked(gap) = {} /\ Ascends(gap)
  BY <1>2 DEF Inked, Ascends
<1>4. InkBelow(current, gap)
  BY <1>3 DEF InkBelow
<1>5. /\ first \in Seq(Nat) /\ Len(first) = Len(current) + Len(gap)
      /\ Occurs(current, first, 0) /\ Inked(first) = Inked(current) \cup Inked(gap)
      /\ Ascends(first)
  BY <1>1, <1>2, <1>3, <1>4, JoinedOccur, JoinedInk
<1> HIDE DEF first
<1>6. InkBelow(first, s)
  BY <1>3, <1>5 DEF InkBelow
<1>7. /\ both \in Seq(Nat) /\ Len(both) = Len(first) + Len(s)
      /\ Occurs(first, both, 0) /\ Occurs(s, both, Len(first))
      /\ Inked(both) = Inked(first) \cup Inked(s) /\ Ascends(both)
  BY <1>1, <1>5, <1>6, JoinedOccur, JoinedInk
<1> HIDE DEF both
<1>8. Len(both) <= Size
  BY <1>1, <1>2, <1>5, <1>7
<1>9. WordsOf(current) \subseteq WordsOf(first) /\ WordsOf(first) \subseteq WordsOf(both)
      /\ WordsOf(s) \subseteq WordsOf(both)
  BY <1>5, <1>7, WordsOfPart
<1>10. Fits(both)
  BY <1>7, <1>8 DEF Fits
<1>11. Inked(both) = Inked(current) \cup Inked(s)
  BY <1>3, <1>5, <1>7
<1>12. both = current \o <<0, 0>> \o s
  BY DEF both, first, gap
<1>13. QED
  BY <1>9, <1>10, <1>11, <1>12

LEMMA ParagraphStep == ASSUME LoaderInv, Paragraph PROVE LoaderInv'
<1> DEFINE n == done
           para == Strip(text[done + 1])
           ink == InkTo(text, n) \cup Inked(para)
           words == WordsTo(text, n) \cup WordsOf(para)
           Holding(list, s) ==
               /\ list \in Texts /\ Fitting(list) /\ Fits(s) /\ InkOf(list) \cup Inked(s) = ink
               /\ Short(words) \subseteq WordsIn(list) \cup WordsOf(s)
               /\ list # <<>> => ink # {}
<1>1. /\ loading = "chunking" /\ n < Len(text) /\ done' = n + 1 /\ kind' = kind /\ loading' = loading
      /\ pieces' = pieces /\ used' = used /\ text' = text
  BY DEF Paragraph
<1>2. /\ pieces \in Texts /\ InTextOrder(pieces) /\ n \in Nat /\ text \in Texts /\ chunks \in Texts
      /\ Copied(text, Len(pieces)) /\ InTextOrder(text)
  BY <1>1 DEF LoaderInv, Copied
<1>3. /\ Fitting(chunks) /\ Fits(current) /\ InkOf(chunks) \cup Inked(current) = InkTo(text, n)
      /\ Short(WordsTo(text, n)) \subseteq WordsIn(chunks) \cup WordsOf(current)
      /\ chunks # <<>> => InkTo(text, n) # {}
  BY <1>1 DEF LoaderInv, Packed
<1>4. /\ Len(text) \in Nat /\ DOMAIN text = 1..Len(text) /\ n + 1 \in DOMAIN text
      /\ text[n + 1] \in Seq(Nat)
  <2>1. Len(text) \in Nat /\ DOMAIN text = 1..Len(text)
    BY <1>2, LenProperties DEF Texts
  <2>2. n + 1 \in DOMAIN text
    BY <1>1, <1>2, <2>1
  <2>3. QED
    BY <1>2, <2>1, <2>2, LenProperties DEF Texts
<1>5. Stripping(para, text[n + 1]) /\ (para = <<>> <=> Inked(text[n + 1]) = {})
  BY <1>4, StripIs
<1> HIDE DEF para
<1>6. /\ para \in Seq(Nat) /\ Inked(para) = Inked(text[n + 1]) /\ Ascends(para)
      /\ WordsOf(text[n + 1]) \subseteq WordsOf(para)
  <2>1. Ascends(text[n + 1])
    BY <1>2, <1>4 DEF InTextOrder
  <2>2. QED
    BY <1>5, <2>1 DEF Stripping
<1>7. /\ InkTo(text, n + 1) = ink /\ WordsTo(text, n + 1) \subseteq words
  <2>1. /\ InkTo(text, n + 1) = InkTo(text, n) \cup Inked(text[n + 1])
        /\ WordsTo(text, n + 1) = WordsTo(text, n) \cup WordsOf(text[n + 1])
    BY <1>2, FirstOf
  <2>2. QED
    BY <1>6, <2>1
<1>8. ASSUME NEW w \in Short(words) PROVE w \in Short(WordsTo(text, n)) \/ w \in Short(WordsOf(para))
  BY <1>8 DEF Short
<1>9. Short(WordsOf(para)) \subseteq WordsOf(para)
  BY DEF Short
<1>10. para # <<>> => ink # {}
  BY <1>5, <1>6
<1>11. Holding(chunks', current')
  <2> HIDE DEF words, ink
  <2>1. CASE para = <<>>
    <3>1. chunks' = chunks /\ current' = current
      BY <2>1 DEF Paragraph, para
    <3>2. Inked(para) = {} /\ WordsOf(para) = {}
      BY <2>1, NothingYet
    <3>3. ink = InkTo(text, n) /\ words = WordsTo(text, n)
      BY <3>2 DEF ink, words
    <3>4. QED
      BY <1>2, <1>3, <3>1, <3>3
  <2>2. CASE para # <<>> /\ Len(para) > Size
    <3>1. chunks' = Flush \o Windows(para) /\ current' = <<>>
      BY <2>2 DEF Paragraph, para
    <3>2. /\ Flush \in Texts /\ Fitting(Flush)
          /\ InkOf(Flush) = InkOf(chunks) \cup Inked(current)
          /\ WordsIn(chunks) \cup WordsOf(current) \subseteq WordsIn(Flush)
      BY <1>2, <1>3, FlushIs
    <3>3. /\ Windows(para) \in Texts /\ Fitting(Windows(para))
          /\ InkOf(Windows(para)) = Inked(para)
          /\ \A w \in WordsOf(para) : Len(w) <= Overlap + 1 => w \in WordsIn(Windows(para))
      BY <1>6, WindowsIs
    <3>4. /\ chunks' \in Texts /\ Fitting(chunks') /\ InkOf(chunks') = InkOf(Flush) \cup InkOf(Windows(para))
          /\ WordsIn(chunks') = WordsIn(Flush) \cup WordsIn(Windows(para))
      BY <3>1, <3>2, <3>3, ListsJoin
    <3>5. Short(WordsOf(para)) \subseteq WordsIn(Windows(para))
      BY <3>3 DEF Short
    <3>6. InkOf(chunks') \cup Inked(current') = ink
      BY <1>3, <3>1, <3>2, <3>3, <3>4, NothingYet DEF ink
    <3>7. Short(words) \subseteq WordsIn(chunks') \cup WordsOf(current')
      BY <1>3, <1>8, <3>2, <3>4, <3>5
    <3>8. Fits(current')
      BY <3>1, NothingYet
    <3>9. QED
      BY <1>10, <2>2, <3>4, <3>6, <3>7, <3>8
  <2>3. CASE para # <<>> /\ ~(Len(para) > Size) /\ Len(current) + Len(para) + 2 > Size
    <3>1. chunks' = Flush /\ current' = para
      BY <2>3 DEF Paragraph, para
    <3>2. /\ Flush \in Texts /\ Fitting(Flush)
          /\ InkOf(Flush) = InkOf(chunks) \cup Inked(current)
          /\ WordsIn(chunks) \cup WordsOf(current) \subseteq WordsIn(Flush)
      BY <1>2, <1>3, FlushIs
    <3>3. Fits(para)
      <4>1. Len(para) \in Nat /\ Size \in Nat
        BY <1>6, LenProperties, LoaderBounds
      <4>2. QED
        BY <1>6, <2>3, <4>1 DEF Fits
    <3>4. InkOf(chunks') \cup Inked(current') = ink
      BY <1>3, <3>1, <3>2 DEF ink
    <3>5. Short(words) \subseteq WordsIn(chunks') \cup WordsOf(current')
      BY <1>3, <1>8, <1>9, <3>1, <3>2
    <3>6. QED
      BY <1>10, <2>3, <3>1, <3>2, <3>3, <3>4, <3>5
  <2>4. CASE para # <<>> /\ ~(Len(para) > Size) /\ ~(Len(current) + Len(para) + 2 > Size)
    <3>1. chunks' = chunks /\ current' = IF current = <<>> THEN para ELSE current \o <<0, 0>> \o para
      BY <2>4 DEF Paragraph, para
    <3>2. /\ Fits(current') /\ Inked(current') = Inked(current) \cup Inked(para)
          /\ WordsOf(current) \cup WordsOf(para) \subseteq WordsOf(current')
      <4>1. CASE current = <<>>
        <5>1. current' = para /\ Inked(current) = {} /\ WordsOf(current) = {}
          BY <3>1, <4>1, NothingYet
        <5>2. Fits(para)
          <6>1. Len(para) \in Nat /\ Size \in Nat
            BY <1>6, LenProperties, LoaderBounds
          <6>2. QED
            BY <1>6, <2>4, <6>1 DEF Fits
        <5>3. QED
          BY <5>1, <5>2
      <4>2. CASE current # <<>>
        <5>1. InkBelow(current, para)
          BY <1>1, <1>2, <1>3, <1>6, PackedBelow
        <5>2. /\ Fits(current \o <<0, 0>> \o para)
              /\ Inked(current \o <<0, 0>> \o para) = Inked(current) \cup Inked(para)
              /\ WordsOf(current) \cup WordsOf(para) \subseteq WordsOf(current \o <<0, 0>> \o para)
          BY <1>3, <1>6, <2>4, <5>1, JoinParagraph
        <5>3. current' = current \o <<0, 0>> \o para
          BY <3>1, <4>2
        <5>4. QED
          BY <5>2, <5>3
      <4>3. QED
        BY <4>1, <4>2
    <3>3. InkOf(chunks') \cup Inked(current') = ink
      BY <1>3, <3>1, <3>2 DEF ink
    <3>4. Short(words) \subseteq WordsIn(chunks') \cup WordsOf(current')
      BY <1>3, <1>8, <1>9, <3>1, <3>2
    <3>5. QED
      BY <1>2, <1>3, <1>10, <2>4, <3>1, <3>2, <3>3, <3>4
  <2>5. QED
    BY <2>1, <2>2, <2>3, <2>4
<1>12. Short(WordsTo(text, n + 1)) \subseteq Short(words)
  BY <1>7 DEF Short
<1> HIDE DEF ink, words
<1>13. Packed'
  <2>1. InkTo(text, done)' = ink /\ WordsTo(text, done)' = WordsTo(text, n + 1)
    BY <1>1, <1>7
  <2>2. QED
    BY <1>11, <1>12, <2>1 DEF Packed
<1>14. /\ chunks' \in Texts /\ (done <= Len(text))' /\ done' \in Nat /\ WithinLimit' /\ InTextOrder(pieces)'
       /\ Copied(text, Len(pieces))'
  <2>1. chunks' \in Texts
    BY <1>11
  <2>2. (done <= Len(text))' /\ done' \in Nat
    BY <1>1, <1>2, <1>4
  <2>3. WithinLimit'
    BY <1>1 DEF LoaderInv, WithinLimit
  <2>4. InTextOrder(pieces)' /\ Copied(text, Len(pieces))'
    BY <1>1, <1>2 DEF Copied
  <2>5. QED
    BY <2>1, <2>2, <2>3, <2>4
<1>15. QED
  BY <1>1, <1>2, <1>13, <1>14 DEF LoaderInv

LEMMA LastFlushStep == ASSUME LoaderInv, LastFlush PROVE LoaderInv'
<1>1. /\ loading = "chunking" /\ done = Len(text) /\ loading' = "chunked" /\ chunks' = Flush
      /\ pieces' = pieces /\ used' = used /\ text' = text /\ kind' = kind /\ done' = done
  BY DEF LastFlush
<1>2. /\ pieces \in Texts /\ InTextOrder(pieces) /\ done \in Nat /\ text \in Texts /\ chunks \in Texts
      /\ InkOf(text) = InkTo(pieces, Len(pieces)) /\ WordsTo(pieces, Len(pieces)) \subseteq WordsIn(text)
      /\ Packed
  BY <1>1 DEF LoaderInv, Copied
<1>3. /\ InkTo(pieces, Len(pieces)) = InkOf(pieces) /\ WordsTo(pieces, Len(pieces)) = WordsIn(pieces)
      /\ InkTo(text, Len(text)) = InkOf(text) /\ WordsTo(text, Len(text)) = WordsIn(text)
  BY <1>2, FirstOf
<1>4. /\ Fitting(chunks) /\ Fits(current)
      /\ InkOf(chunks) \cup Inked(current) = InkOf(pieces)
      /\ Short(WordsIn(text)) \subseteq WordsIn(chunks) \cup WordsOf(current)
      /\ chunks # <<>> => InkOf(pieces) # {}
  BY <1>1, <1>2, <1>3 DEF Packed
<1>5. /\ Flush \in Texts /\ Fitting(Flush)
      /\ InkOf(Flush) = InkOf(chunks) \cup Inked(current)
      /\ WordsIn(chunks) \cup WordsOf(current) \subseteq WordsIn(Flush)
      /\ Flush # <<>> => chunks # <<>> \/ Inked(current) # {}
  BY <1>2, <1>4, FlushIs
<1>6. Short(WordsIn(pieces)) \subseteq WordsIn(Flush)
  <2>1. Short(WordsIn(pieces)) \subseteq Short(WordsIn(text))
    BY <1>2, <1>3 DEF Short
  <2>2. QED
    BY <1>4, <1>5, <2>1
<1>7. Flush # <<>> => InkOf(pieces) # {}
  BY <1>4, <1>5
<1>8. AllPacked'
  BY <1>1, <1>4, <1>5, <1>6, <1>7 DEF AllPacked
<1>9. WithinLimit' /\ InTextOrder(pieces)'
  <2>1. WithinLimit'
    BY <1>1 DEF LoaderInv, WithinLimit
  <2>2. QED
    BY <1>1, <1>2, <2>1
<1>10. QED
  BY <1>1, <1>2, <1>5, <1>8, <1>9 DEF LoaderInv

LEMMA LoaderStart == LoaderInit \/ LoaderIdle => LoaderInv
<1>1. SUFFICES ASSUME LoaderInit \/ LoaderIdle PROVE LoaderInv
  OBVIOUS
<1>2. done = 0 /\ used = 0 /\ text = <<>> /\ chunks = <<>> /\ current = <<>>
  BY <1>1 DEF LoaderInit, LoaderIdle
<1>3. WithinLimit
  <2>1. 0 \in Nat /\ 0 <= MaxExtracted /\ 0 <= 0 + 0
    BY LoaderBounds
  <2>2. QED
    BY <1>2, <2>1, NothingYet DEF WithinLimit
<1>4. CASE LoaderIdle
  <2>1. loading = "idle" /\ pieces = <<>>
    BY <1>4 DEF LoaderIdle
  <2>2. QED
    BY <1>2, <1>3, <2>1, NothingYet DEF LoaderInv
<1>5. CASE LoaderInit
  <2>1. pieces \in Texts /\ InTextOrder(pieces) /\ loading = "extracting"
    BY <1>5, DocumentsOrdered DEF LoaderInit
  <2>2. Copied(text, done)
    <3>1. InkTo(pieces, 0) = {} /\ WordsTo(pieces, 0) = {}
      <4>1. 0 \in Nat
        OBVIOUS
      <4>2. QED
        BY <2>1, <4>1, FirstOf
    <3>2. QED
      BY <1>2, <3>1, NothingYet DEF Copied
  <2>3. done <= Len(pieces) /\ done \in Nat
    BY <1>2, <2>1, LenProperties DEF Texts
  <2>4. QED
    BY <1>2, <1>3, <2>1, <2>2, <2>3, NothingYet DEF LoaderInv
<1>6. QED
  BY <1>1, <1>4, <1>5

LEMMA LoaderStep == LoaderInv /\ [LoaderNext]_loaderVars => LoaderInv'
<1>1. ASSUME LoaderInv, UNCHANGED loaderVars PROVE LoaderInv'
  BY <1>1 DEF LoaderInv, WithinLimit, Copied, Packed, AllPacked, loaderVars
<1>2. QED
  BY <1>1, LoadFailsStep, TakeStep, ExtractedStep, OcrStep, ParagraphStep, LastFlushStep DEF LoaderNext

LEMMA LoaderMeans == LoaderInv => ChunksFaithful
<1>1. SUFFICES ASSUME LoaderInv PROVE ChunksFaithful
  OBVIOUS
<1>2. pieces \in Texts /\ chunks \in Texts /\ text \in Texts
  BY <1>1 DEF LoaderInv
<1>3. Ink = InkOf(pieces) /\ Words = WordsIn(pieces)
  BY DEF Ink, InkOf, Words, WordsIn
<1>4. ASSUME loading = "chunked"
      PROVE  /\ UNION {Inked(chunks[c]) : c \in DOMAIN chunks} = Ink
             /\ (chunks = <<>>) = (Ink = {})
             /\ \A c \in DOMAIN chunks :
                   /\ Len(chunks[c]) <= Size
                   /\ \A i, j \in DOMAIN chunks[c] :
                         i < j /\ chunks[c][i] # 0 /\ chunks[c][j] # 0 => chunks[c][i] < chunks[c][j]
             /\ \A w \in Words : Len(w) <= Overlap + 1 => \E c \in DOMAIN chunks : Within(w, chunks[c])
  <2>1. /\ Fitting(chunks) /\ InkOf(chunks) = Ink /\ Short(Words) \subseteq WordsIn(chunks)
        /\ chunks # <<>> => Ink # {}
    BY <1>1, <1>3, <1>4 DEF LoaderInv, AllPacked
  <2>2. UNION {Inked(chunks[c]) : c \in DOMAIN chunks} = Ink
    BY <2>1 DEF InkOf
  <2>3. chunks = <<>> => Ink = {}
    BY <2>1, NothingYet
  <2>4. ASSUME NEW c \in DOMAIN chunks
        PROVE  /\ Len(chunks[c]) <= Size
               /\ \A i, j \in DOMAIN chunks[c] :
                     i < j /\ chunks[c][i] # 0 /\ chunks[c][j] # 0 => chunks[c][i] < chunks[c][j]
    BY <2>1 DEF Fitting, Fits, Ascends
  <2>5. ASSUME NEW w \in Words, Len(w) <= Overlap + 1 PROVE \E c \in DOMAIN chunks : Within(w, chunks[c])
    <3>1. w \in WordsIn(chunks)
      BY <2>1, <2>5 DEF Short
    <3>2. PICK c \in DOMAIN chunks : w \in WordsOf(chunks[c])
      BY <3>1 DEF WordsIn
    <3>3. chunks[c] \in Seq(Nat)
      BY <2>1 DEF Fitting, Fits
    <3>4. Within(w, chunks[c])
      BY <3>2, <3>3, WordWithin
    <3>5. QED
      BY <3>4
  <2>6. (chunks = <<>>) = (Ink = {})
    BY <2>1, <2>3
  <2>7. QED
    BY <2>2, <2>4, <2>5, <2>6
<1>5. ASSUME kind # "text", loading \in {"chunking", "chunked"}
      PROVE  Total([k \in DOMAIN text |-> Len(text[k]) + 2]) <= MaxExtracted + Len(text)
  <2> DEFINE a == Total(Lengths(text))
             t == Len(text)
  <2>1. used \in Nat /\ used <= MaxExtracted /\ a <= used + t
    BY <1>1, <1>5 DEF LoaderInv, WithinLimit
  <2>2. t \in Nat /\ MaxExtracted \in Nat
    BY <1>2, LenProperties, LoaderBounds DEF Texts
  <2>3. a \in Nat
    <3>1. <<>> \in Seq(Nat)
      BY EmptySeq
    <3>2. QED
      BY <1>2, <3>1, LengthsGrow
  <2> HIDE DEF a, t
  <2>4. a <= MaxExtracted + t
    BY ONLY <2>1, <2>2, <2>3
  <2>5. QED
    BY <2>4 DEF a, t, Lengths
<1>6. QED
  BY <1>4, <1>5 DEF ChunksFaithful

\* Whatever a loader finds in a document, and wherever its blanks are, the chunks
\* that are embedded hold all of it and nothing else, each in the order of the
\* document and no longer than the size; a word up to the overlap is whole in one of
\* them; and no loader holds more than its limit (loader.py:252 and loader.py:15).
THEOREM ChunksAreFaithful == Spec => []ChunksFaithful
<1>1. Init => LoaderInv
  BY LoaderStart DEF Init, Begins
<1>2. LoaderInv /\ [Next]_vars => LoaderInv'
  BY LoaderStep DEF Next, vars
<1>3. LoaderInv => ChunksFaithful
  BY LoaderMeans
<1>4. QED
  BY <1>1, <1>2, <1>3, PTL DEF Spec
================================================================================
