------------------------------ MODULE ListsProofs ------------------------------
(***************************************************************************)
(* Proofs about Lists, for any filters, any number of mutations under way  *)
(* and any number of changes: a list on the screen catches up with every   *)
(* change that was reported, and users are listed to administrators only.  *)
(*                                                                         *)
(* What is shown now depends on entries that nobody shows: an entry that   *)
(* is fresh has the reported changes even while it is not observed, and a  *)
(* load that has read its table before a change is marked when the change  *)
(* is reported.                                                            *)
(***************************************************************************)
EXTENDS Lists, TLAPS

\* What holds of an entry e, observed or not, when the changes up to a have
\* been reported.
Good(e, observed, a) ==
    /\ e.fetch = "read" /\ ~e.overtaken => e.seen >= a
    /\ e.status = "success" /\ e.fetch = "idle" /\ ~e.overtaken /\ (observed \/ ~e.stale)
         => e.data >= a

Told ==
    /\ \A t \in Tables : acked[t] <= revision[t]
    /\ \A m \in Mutations :
         mutation[m].state = "applied" => mutation[m].at <= revision[mutation[m].table]

FilterFits ==
    /\ page = "/users" => filter \in UserFilters
    /\ page = "/salary-codes" => filter \in CodeFilters

Goods == \A k \in Keys : Good(cache[k], k \in Observed, acked[Table(k)])

LInv == TypeOK /\ Told /\ FilterFits /\ Goods

-----------------------------------------------------------------------------
(***************************************************************************)
(* Revisions, keys and entries.                                            *)
(***************************************************************************)
LEMMA RevisionsReach ==
    /\ Revisions \subseteq Nat /\ 0 \in Revisions
    /\ \A t \in Tables, n \in Nat : n <= MaxRevision[t] => n \in Revisions
<1> DEFINE S == {MaxRevision[t] : t \in Tables}
           a == MaxRevision["users"]
           b == MaxRevision["salary-codes"]
<1>1. a \in Nat /\ b \in Nat
  BY ListsAssumption DEF Tables
<1>2. S = {a, b}
  BY DEF Tables
<1>3. \E x \in S : \A y \in S : x >= y
  <2> HIDE DEF a, b
  <2>1. CASE a >= b
    BY <1>1, <1>2, <2>1
  <2>2. CASE b >= a
    BY <1>1, <1>2, <2>2
  <2> QED  BY <1>1, <2>1, <2>2
<1>4. Max(S) \in S /\ \A y \in S : Max(S) >= y
  <2> HIDE DEF S
  <2> QED  BY <1>3 DEF Max
<1>5. Max(S) \in Nat /\ Revisions = 0 .. Max(S)
  BY <1>1, <1>2, <1>4 DEF Revisions
<1> HIDE DEF S
<1>6. \A t \in Tables : MaxRevision[t] \in S /\ MaxRevision[t] \in Nat
  BY ListsAssumption DEF S
<1> QED  BY <1>4, <1>5, <1>6

LEMMA KeysAndTables ==
    /\ \A k \in Keys : Table(k) \in Tables
    /\ AllUsers \in Keys /\ AllCodes \in Keys
    /\ \A u, p, f, o : f \in Keys /\ p \in Pages => Observes(u, p, f, o) \subseteq Keys
    /\ UserFilters \subseteq Keys /\ CodeFilters \subseteq Keys
<1>1. /\ AllUsers \in Keys /\ AllCodes \in Keys /\ EmployeeUsers \in Keys /\ FiftyCodes \in Keys
      /\ UserFilters \subseteq Keys /\ CodeFilters \subseteq Keys
  BY DEF Keys, UserKeys, CodeKeys
<1>2. \A u, o : FormKeys(u, o) \subseteq Keys
  BY <1>1 DEF FormKeys
<1>3. ASSUME NEW u, NEW p, NEW f, NEW o, f \in Keys, p \in Pages
      PROVE  Observes(u, p, f, o) \subseteq Keys
  BY <1>1, <1>2, <1>3 DEF Observes, Pages
<1> QED  BY <1>1, <1>3 DEF Table, Tables

LEMMA EmptyGood ==
    ASSUME NEW o, NEW a
    PROVE  Empty \in Entries /\ Good(Empty, o, a)
BY RevisionsReach DEF Empty, Entries, Good

LEMMA FetchingGood ==
    ASSUME NEW e \in Entries, NEW o, NEW a
    PROVE  Fetching(e) \in Entries /\ Good(Fetching(e), o, a)
<1> DEFINE st == IF e.data = NoData THEN "pending" ELSE e.status
<1>1. st \in {"pending", "success", "error"}
  BY DEF Entries
<1>2. Fetching(e) =
        [data |-> e.data, status |-> st,
         stale |-> e.stale, fetch |-> "sent", seen |-> 0, retried |-> FALSE,
         overtaken |-> FALSE]
  <2>1. Fetching(e) = [e EXCEPT !.fetch = "sent", !.retried = FALSE, !.seen = 0,
                                !.overtaken = FALSE, !.status = st]
    BY DEF Fetching
  <2> HIDE DEF st
  <2> QED  BY <2>1 DEF Entries
<1> HIDE DEF st
<1>3. Fetching(e) \in Entries
  BY <1>1, <1>2, RevisionsReach DEF Entries
<1>4. Fetching(e).fetch = "sent"
  BY <1>2
<1> QED  BY <1>3, <1>4 DEF Good

LEMMA JoinedGood ==
    ASSUME NEW e \in Entries, NEW o, NEW a, Good(e, o, a)
    PROVE  Joined(e) \in Entries /\ Good(Joined(e), TRUE, a)
<1>1. CASE e.fetch = "idle" /\ e.stale
  BY <1>1, FetchingGood DEF Joined
<1>2. CASE ~(e.fetch = "idle" /\ e.stale)
  <2>1. Joined(e) = e
    BY <1>2 DEF Joined
  <2>2. Good(e, TRUE, a)
    BY <1>2 DEF Good
  <2> QED  BY <2>1, <2>2
<1> QED  BY <1>1, <1>2

LEMMA LessObserved ==
    ASSUME NEW e, NEW o, NEW p, NEW a, Good(e, o, a), p => o
    PROVE  Good(e, p, a)
BY DEF Good

\* A success tells of the change at: seen is as new, or the load is marked.
LEMMA InvalidatedGood ==
    ASSUME LInv, NEW k \in Keys, NEW at \in Revisions, NEW b \in Revisions,
           b = IF at > acked[Table(k)] THEN at ELSE acked[Table(k)]
    PROVE  /\ Invalidated(k, cache[k], at) \in Entries
           /\ Good(Invalidated(k, cache[k], at), k \in Observed, b)
<1> DEFINE e == cache[k]
           a == acked[Table(k)]
<1>1. /\ e \in Entries /\ Good(e, k \in Observed, a) /\ a \in Nat /\ at \in Nat /\ b \in Nat
  BY KeysAndTables, RevisionsReach DEF LInv, TypeOK, Goods
<1> HIDE DEF e
<1>2. CASE Waits(k, e)
  <2> DEFINE mark == e.overtaken \/ (e.fetch = "read" /\ e.seen < at)
             f == [e EXCEPT !.stale = TRUE, !.overtaken = mark]
  <2>1. mark \in BOOLEAN
    BY <1>1 DEF Entries
  <2>2. f = Invalidated(k, e, at)
    BY <1>2 DEF Invalidated
  <2>3. /\ f \in Entries /\ f.fetch = e.fetch /\ f.seen = e.seen /\ f.overtaken = mark
        /\ f.stale = TRUE
    <3> HIDE DEF mark
    <3> QED  BY <1>1, <2>1 DEF Entries
  <2> HIDE DEF f
  <2>4. f.fetch = "read" /\ ~f.overtaken => f.seen >= b
    <3>1. e.seen \in Nat
      BY <1>1, RevisionsReach DEF Entries
    <3>2. e.fetch = "read" /\ ~e.overtaken => e.seen >= a
      BY <1>1 DEF Good
    <3>3. (b = at \/ b = a) /\ f.fetch = e.fetch /\ f.seen = e.seen
      BY <2>3
    <3>4. f.fetch = "read" /\ ~f.overtaken => ~e.overtaken /\ ~(e.seen < at)
      BY <2>3
    <3> HIDE DEF a
    <3> QED  BY <1>1, <3>1, <3>2, <3>3, <3>4
  <2>5. ~(f.fetch = "idle" /\ k \in Observed)
    BY <1>2, <2>3 DEF Waits
  <2>6. Good(f, k \in Observed, b)
    BY <2>3, <2>4, <2>5 DEF Good
  <2> QED  BY <2>2, <2>3, <2>6 DEF e
<1>3. CASE ~Waits(k, e)
  <2> DEFINE f == [e EXCEPT !.stale = TRUE]
  <2>1. f \in Entries
    BY <1>1 DEF Entries
  <2>2. Invalidated(k, e, at) = Fetching(f)
    BY <1>3 DEF Invalidated
  <2> HIDE DEF f
  <2> QED  BY <2>1, <2>2, FetchingGood DEF e
<1> QED  BY <1>2, <1>3
-----------------------------------------------------------------------------
(***************************************************************************)
(* LInv, action by action.                                                 *)
(***************************************************************************)
\* The screen changes: what is observed then and was not before is joined.
LEMMA ViewInv ==
    ASSUME LInv, NEW u \in {"none", "admin", "employee"}, NEW p \in MayShow(u),
           NEW f \in Keys, NEW o \in BOOLEAN, NEW new, View(u, p, f, o, new),
           Observes(u, p, f, o) \subseteq Observed \cup new,
           p = "/users" => f \in UserFilters, p = "/salary-codes" => f \in CodeFilters
    PROVE  LInv'
<1>1. /\ user' = u /\ page' = p /\ filter' = f /\ dialog' = o
      /\ cache' = [k \in Keys |-> IF k \in new THEN Joined(cache[k]) ELSE cache[k]]
      /\ UNCHANGED <<mutation, revision, acked>>
  BY DEF View
<1>2. ASSUME NEW k \in Keys
      PROVE  cache'[k] \in Entries /\ Good(cache'[k], (k \in Observed)', acked[Table(k)])
  <2>1. cache[k] \in Entries /\ Good(cache[k], k \in Observed, acked[Table(k)])
    BY DEF LInv, TypeOK, Goods
  <2>2. (k \in Observed)' => k \in Observed \/ k \in new
    BY <1>1 DEF Observed
  <2>3. CASE k \in new
    <3>1. cache'[k] = Joined(cache[k])
      BY <1>1, <2>3
    <3>2. Joined(cache[k]) \in Entries /\ Good(Joined(cache[k]), TRUE, acked[Table(k)])
      BY <2>1, JoinedGood
    <3> QED  BY <3>1, <3>2, LessObserved
  <2>4. CASE k \notin new
    <3>1. cache'[k] = cache[k]
      BY <1>1, <2>4
    <3> QED  BY <2>1, <2>2, <2>4, <3>1, LessObserved
  <2> QED  BY <2>3, <2>4
<1>3. TypeOK'
  BY <1>1, <1>2 DEF LInv, TypeOK
<1>4. Told' /\ FilterFits'
  BY <1>1 DEF LInv, Told, FilterFits
<1>5. Goods'
  BY <1>1, <1>2 DEF Goods
<1> QED  BY <1>3, <1>4, <1>5 DEF LInv

LEMMA OpenInv ==
    ASSUME LInv, NEW u \in {"none", "admin", "employee"}, NEW p \in MayShow(u), Open(u, p)
    PROVE  LInv'
<1>1. FirstFilter(p) \in Keys
  BY KeysAndTables DEF FirstFilter
<1>2. /\ p = "/users" => FirstFilter(p) \in UserFilters
      /\ p = "/salary-codes" => FirstFilter(p) \in CodeFilters
  BY ListsAssumption DEF FirstFilter
<1> QED  BY <1>1, <1>2, ViewInv DEF Open

LEMMA ScreenInv ==
    ASSUME LInv,
           \/ \E p \in Pages : Navigate(p)
           \/ \E u \in {"admin", "employee"} : Login(u)
           \/ Leave
           \/ \E f \in Keys : SetFilter(f)
           \/ \E o \in BOOLEAN : SetDialog(o)
    PROVE  LInv'
<1>1. ASSUME NEW p \in Pages, Navigate(p) PROVE LInv'
  BY <1>1, OpenInv DEF Navigate, LInv, TypeOK
<1>2. ASSUME NEW u \in {"admin", "employee"}, Login(u) PROVE LInv'
  <2>1. "/" \in MayShow(u)
    BY DEF MayShow
  <2> QED  BY <1>2, <2>1, OpenInv DEF Login
<1>3. CASE Leave
  <2>1. "/login" \in MayShow("none")
    BY DEF MayShow
  <2> QED  BY <1>3, <2>1, OpenInv DEF Leave
<1>4. ASSUME NEW f \in Keys, SetFilter(f) PROVE LInv'
  <2>1. /\ View(user, page, f, dialog, {f})
        /\ \/ page = "/users" /\ f \in UserFilters
           \/ page = "/salary-codes" /\ f \in CodeFilters
    BY <1>4 DEF SetFilter
  <2>2. Observes(user, page, f, dialog) = {f}
    BY <2>1 DEF Observes
  <2>3. user \in {"none", "admin", "employee"} /\ page \in MayShow(user) /\ dialog \in BOOLEAN
    BY DEF LInv, TypeOK
  <2> QED  BY <2>1, <2>2, <2>3, ViewInv
<1>5. ASSUME NEW o \in BOOLEAN, SetDialog(o) PROVE LInv'
  <2>1. /\ View(user, page, filter, o, FormKeys(user, o) \ FormKeys(user, dialog))
        /\ page = "/employees"
    BY <1>5 DEF SetDialog
  <2>2. /\ Observes(user, page, filter, o) = FormKeys(user, o)
        /\ Observed = FormKeys(user, dialog)
    BY <2>1 DEF Observes, Observed
  <2>3. user \in {"none", "admin", "employee"} /\ page \in MayShow(user) /\ filter \in Keys
    BY DEF LInv, TypeOK
  <2> QED  BY <2>1, <2>2, <2>3, ViewInv
<1> QED  BY <1>1, <1>2, <1>3, <1>4, <1>5

\* One entry changes.
LEMMA SetInv ==
    ASSUME LInv, NEW k \in Keys, NEW e \in Entries, Set(k, e),
           Good(e, k \in Observed, acked[Table(k)])
    PROVE  LInv'
<1>1. /\ cache' = [cache EXCEPT ![k] = e]
      /\ UNCHANGED <<user, page, filter, dialog, mutation, revision, acked>>
  BY DEF Set, screen
<1>2. \A j \in Keys : (j \in Observed)' <=> j \in Observed
  BY <1>1 DEF Observed
<1>3. cache' \in [Keys -> Entries] /\ cache'[k] = e /\ \A j \in Keys \ {k} : cache'[j] = cache[j]
  BY <1>1 DEF LInv, TypeOK
<1>4. TypeOK' /\ Told' /\ FilterFits'
  BY <1>1, <1>3 DEF LInv, TypeOK, Told, FilterFits
<1>5. ASSUME NEW j \in Keys PROVE Good(cache'[j], (j \in Observed)', acked'[Table(j)])
  <2>1. CASE j = k
    BY <1>1, <1>2, <1>3, <2>1, LessObserved
  <2>2. CASE j # k
    <3>1. Good(cache[j], j \in Observed, acked[Table(j)])
      BY DEF LInv, Goods
    <3> QED  BY <1>1, <1>2, <1>3, <2>2, <3>1, LessObserved
  <2> QED  BY <2>1, <2>2
<1> QED  BY <1>4, <1>5 DEF LInv, Goods

LEMMA EntryInv ==
    ASSUME LInv, NEW k \in Keys, Settles(k) \/ Ages(k) \/ Collected(k)
    PROVE  LInv'
<1> DEFINE e == cache[k]
           o == k \in Observed
           a == acked[Table(k)]
<1>1. /\ e \in Entries /\ Good(e, o, a) /\ a \in Nat
      /\ revision[Table(k)] \in Revisions /\ a <= revision[Table(k)]
  BY KeysAndTables, RevisionsReach DEF LInv, TypeOK, Goods, Told
<1> HIDE DEF e, o, a
<1>2. CASE Reads(k)
  <2> DEFINE r == revision[Table(k)]
             f == [e EXCEPT !.fetch = "read", !.seen = r]
  <2>1. Set(k, f)
    BY <1>2 DEF Reads, e
  <2>2. f \in Entries /\ f.fetch = "read" /\ f.seen = r
    <3> HIDE DEF r
    <3> QED  BY <1>1 DEF Entries, r
  <2>3. Good(f, o, a)
    <3>1. r \in Nat /\ r >= a
      BY <1>1, RevisionsReach
    <3> HIDE DEF f
    <3> QED  BY <2>2, <3>1 DEF Good
  <2> HIDE DEF f
  <2> QED  BY <2>1, <2>2, <2>3, SetInv DEF o, a
<1>3. CASE Loaded(k)
  <2> DEFINE f == [e EXCEPT !.data = e.seen, !.status = "success", !.stale = FALSE,
                            !.fetch = "idle", !.seen = 0, !.retried = FALSE]
  <2>1. Set(k, f) /\ e.fetch = "read"
    BY <1>3 DEF Loaded, e
  <2>2. f \in Entries /\ f.fetch = "idle" /\ f.data = e.seen /\ f.overtaken = e.overtaken
    BY <1>1, RevisionsReach DEF Entries
  <2> HIDE DEF f
  <2>3. Good(f, o, a)
    BY <1>1, <2>1, <2>2 DEF Good
  <2> QED  BY <2>1, <2>2, <2>3, SetInv DEF o, a
<1>4. CASE Retries(k)
  <2> DEFINE f == [e EXCEPT !.fetch = "sent", !.retried = TRUE, !.seen = 0, !.overtaken = FALSE]
  <2>1. Set(k, f)
    BY <1>4 DEF Retries, e
  <2>2. f \in Entries /\ f.fetch = "sent"
    BY <1>1, RevisionsReach DEF Entries
  <2> HIDE DEF f
  <2>3. Good(f, o, a)
    BY <2>2 DEF Good
  <2> QED  BY <2>1, <2>2, <2>3, SetInv DEF o, a
<1>5. CASE LoadFails(k)
  <2> DEFINE f == [e EXCEPT !.status = "error", !.stale = TRUE, !.fetch = "idle",
                            !.seen = 0, !.retried = FALSE, !.overtaken = FALSE]
  <2>1. Set(k, f)
    BY <1>5 DEF LoadFails, e
  <2>2. f \in Entries /\ f.fetch = "idle" /\ f.status = "error"
    BY <1>1, RevisionsReach DEF Entries
  <2> HIDE DEF f
  <2>3. Good(f, o, a)
    BY <2>2 DEF Good
  <2> QED  BY <2>1, <2>2, <2>3, SetInv DEF o, a
<1>6. CASE Ages(k)
  <2> DEFINE f == [e EXCEPT !.stale = TRUE]
  <2>1. Set(k, f)
    BY <1>6 DEF Ages, e
  <2>2. /\ f \in Entries /\ f.fetch = e.fetch /\ f.status = e.status /\ f.data = e.data
        /\ f.stale = TRUE /\ f.overtaken = e.overtaken /\ f.seen = e.seen
    BY <1>1 DEF Entries
  <2> HIDE DEF f
  <2>3. Good(f, o, a)
    BY <1>1, <2>2 DEF Good
  <2> QED  BY <2>1, <2>2, <2>3, SetInv DEF o, a
<1>7. CASE Collected(k)
  BY <1>7, EmptyGood, SetInv DEF Collected
<1> QED  BY <1>2, <1>3, <1>4, <1>5, <1>6, <1>7 DEF Settles

LEMMA TryAgainInv ==
    ASSUME LInv, TryAgain
    PROVE  LInv'
<1>1. filter \in Keys /\ cache[filter] \in Entries
  BY DEF LInv, TypeOK
<1>2. Set(filter, Fetching(cache[filter]))
  BY <1>1 DEF TryAgain, Set
<1> QED  BY <1>1, <1>2, FetchingGood, SetInv
\* The server's tables and the mutations, and what a success invalidates.
LEMMA MutationsInv ==
    ASSUME LInv, NEW m \in Mutations, Mutates(m) \/ Applies(m) \/ Fails(m)
    PROVE  LInv'
<1>1. UNCHANGED <<user, page, filter, dialog, cache, acked>>
  BY DEF Mutates, Applies, Fails, screen
<1>2. /\ revision' \in [Tables -> Revisions]
      /\ \A t \in Tables : revision[t] <= revision'[t]
  <2>1. CASE UNCHANGED revision
    <3>1. revision \in [Tables -> Revisions] /\ \A t \in Tables : revision[t] \in Nat
      BY RevisionsReach DEF LInv, TypeOK
    <3>2. \A t \in Tables : revision[t] <= revision[t]
      BY <3>1
    <3> QED  BY <2>1, <3>1, <3>2
  <2>2. ASSUME NEW t \in Tables, Changes(t)
        PROVE  /\ revision' \in [Tables -> Revisions]
               /\ \A u \in Tables : revision[u] <= revision'[u]
    <3>1. /\ revision[t] \in Nat /\ MaxRevision[t] \in Nat
          /\ \A u \in Tables : revision[u] \in Nat
      BY RevisionsReach, ListsAssumption DEF LInv, TypeOK
    <3>2. revision[t] + 1 \in Revisions
      BY <2>2, <3>1, RevisionsReach DEF Changes
    <3> QED  BY <2>2, <3>1, <3>2 DEF Changes, LInv, TypeOK
  <2>3. mutation[m].table \in Tables
    BY DEF LInv, TypeOK
  <2> QED  BY <2>1, <2>2, <2>3 DEF Mutates, Applies, Fails
<1>3. PICK n \in [state : {"idle", "sent", "applied"}, table : Tables, at : Revisions] :
        /\ mutation' = [mutation EXCEPT ![m] = n]
        /\ n.state = "applied" => n.at <= revision'[n.table]
  <2>1. CASE Mutates(m)
    <3>1. Table(filter) \in Tables
      BY KeysAndTables DEF LInv, TypeOK
    <3>2. Started(Table(filter)) \in [state : {"idle", "sent", "applied"}, table : Tables,
                                      at : Revisions]
      BY <3>1, RevisionsReach DEF Started
    <3>3. Started(Table(filter)).state = "sent"
      BY DEF Started
    <3> QED  BY <2>1, <3>2, <3>3 DEF Mutates
  <2>2. CASE Applies(m)
    <3> DEFINE t == mutation[m].table
               r == revision[t] + 1
    <3>1. t \in Tables /\ Changes(t) /\ mutation' = [mutation EXCEPT ![m] = Applied(t, r)]
      BY <2>2 DEF Applies, LInv, TypeOK
    <3>2. revision'[t] = r /\ r \in Revisions /\ r \in Nat
      BY <1>2, <3>1, RevisionsReach DEF Changes, LInv, TypeOK
    <3>3. Applied(t, r) \in [state : {"idle", "sent", "applied"}, table : Tables,
                             at : Revisions]
      BY <3>1, <3>2 DEF Applied
    <3>4. Applied(t, r).at = r /\ Applied(t, r).table = t
      BY DEF Applied
    <3>5. PICK n \in [state : {"idle", "sent", "applied"}, table : Tables, at : Revisions] :
            n = Applied(t, r)
      BY <3>3
    <3>6. n.at = r /\ n.table = t /\ revision'[t] = r /\ r <= r
      BY <3>2, <3>4, <3>5
    <3>7. n.at <= revision'[n.table]
      BY <3>6
    <3> HIDE DEF r, t
    <3> QED  BY <3>1, <3>5, <3>7
  <2>3. CASE Fails(m)
    <3>1. Idle \in [state : {"idle", "sent", "applied"}, table : Tables, at : Revisions]
      BY RevisionsReach DEF Idle, Tables
    <3>2. Idle.state = "idle"
      BY DEF Idle
    <3> QED  BY <2>3, <3>1, <3>2 DEF Fails
  <2> QED  BY <2>1, <2>2, <2>3
<1>4. TypeOK'
  BY <1>1, <1>2, <1>3 DEF LInv, TypeOK
<1>5. Told'
  <2>1. \A t \in Tables : acked[t] \in Nat /\ revision[t] \in Nat /\ revision'[t] \in Nat
    BY <1>2, RevisionsReach DEF LInv, TypeOK
  <2>2. \A t \in Tables : acked'[t] <= revision'[t]
    BY <1>1, <1>2, <2>1 DEF LInv, Told
  <2>3. ASSUME NEW j \in Mutations, mutation'[j].state = "applied"
        PROVE  mutation'[j].at <= revision'[mutation'[j].table]
    <3>1. CASE j = m
      BY <1>3, <2>3, <3>1 DEF LInv, TypeOK
    <3>2. CASE j # m
      <4>1. mutation'[j] = mutation[j] /\ mutation[j].table \in Tables
            /\ mutation[j].at \in Nat
        BY <1>3, <3>2, RevisionsReach DEF LInv, TypeOK
      <4>2. mutation[j].at <= revision[mutation[j].table]
        BY <2>3, <4>1 DEF LInv, Told
      <4> QED  BY <1>2, <2>1, <4>1, <4>2
    <3> QED  BY <3>1, <3>2
  <2> QED  BY <2>2, <2>3 DEF Told
<1>6. FilterFits' /\ Goods'
  BY <1>1 DEF LInv, FilterFits, Goods, Observed
<1> QED  BY <1>4, <1>5, <1>6 DEF LInv

LEMMA SomebodyElseInv ==
    ASSUME LInv, NEW t \in Tables, SomebodyElse(t)
    PROVE  LInv'
<1>1. /\ UNCHANGED <<user, page, filter, dialog, cache, mutation, acked>>
      /\ revision' = [revision EXCEPT ![t] = @ + 1] /\ revision[t] < MaxRevision[t]
  BY DEF SomebodyElse, Changes, screen
<1>2. /\ MaxRevision[t] \in Nat
      /\ \A u \in Tables : revision[u] \in Nat /\ acked[u] \in Nat
  BY RevisionsReach, ListsAssumption DEF LInv, TypeOK
<1>3. revision[t] + 1 \in Revisions
  BY <1>1, <1>2, RevisionsReach
<1>4. /\ revision' \in [Tables -> Revisions]
      /\ \A u \in Tables : revision[u] <= revision'[u] /\ revision'[u] \in Nat
  BY <1>1, <1>2, <1>3 DEF LInv, TypeOK
<1>5. TypeOK'
  BY <1>1, <1>4 DEF LInv, TypeOK
<1>6. Told'
  <2>1. \A m \in Mutations : mutation[m].table \in Tables /\ mutation[m].at \in Nat
    BY RevisionsReach DEF LInv, TypeOK
  <2> QED  BY <1>1, <1>2, <1>4, <2>1 DEF LInv, Told
<1>7. FilterFits' /\ Goods'
  BY <1>1 DEF LInv, FilterFits, Goods, Observed
<1> QED  BY <1>5, <1>6, <1>7 DEF LInv

LEMMA SucceedsInv ==
    ASSUME LInv, NEW m \in Mutations, Succeeds(m)
    PROVE  LInv'
<1> DEFINE t == mutation[m].table
           at == mutation[m].at
           b == IF at > acked[t] THEN at ELSE acked[t]
<1>1. /\ t \in Tables /\ at \in Revisions /\ at <= revision[t]
      /\ acked[t] \in Revisions /\ acked[t] <= revision[t]
  BY DEF Succeeds, LInv, TypeOK, Told
<1>2. /\ acked' = [acked EXCEPT ![t] = b]
      /\ cache' = [k \in Keys |->
                      IF Table(k) = t THEN Invalidated(k, cache[k], at) ELSE cache[k]]
      /\ mutation' = [mutation EXCEPT ![m] = Idle]
      /\ UNCHANGED <<user, page, filter, dialog, revision>>
  BY DEF Succeeds, screen
<1>3. b \in Revisions /\ b <= revision[t]
  BY <1>1
<1>4. acked'[t] = b /\ \A u \in Tables \ {t} : acked'[u] = acked[u]
  BY <1>1, <1>2 DEF LInv, TypeOK
<1>5. ASSUME NEW k \in Keys
      PROVE  cache'[k] \in Entries /\ Good(cache'[k], (k \in Observed)', acked'[Table(k)])
  <2>1. (k \in Observed)' <=> k \in Observed
    BY <1>2 DEF Observed
  <2>2. Table(k) \in Tables
    BY KeysAndTables
  <2>3. CASE Table(k) = t
    <3>1. cache'[k] = Invalidated(k, cache[k], at)
      BY <1>2, <2>3
    <3>2. PICK r \in Revisions : r = at
      BY <1>1
    <3>3. PICK c \in Revisions : c = b
      BY <1>3
    <3>4. c = IF r > acked[Table(k)] THEN r ELSE acked[Table(k)]
      BY <2>3, <3>2, <3>3
    <3> HIDE DEF b, at, t
    <3>5. /\ Invalidated(k, cache[k], r) \in Entries
          /\ Good(Invalidated(k, cache[k], r), k \in Observed, c)
      BY <3>4, InvalidatedGood
    <3> QED  BY <1>4, <2>1, <2>3, <3>1, <3>2, <3>3, <3>5, LessObserved
  <2>4. CASE Table(k) # t
    <3>1. cache'[k] = cache[k]
      BY <1>2, <2>4
    <3>2. cache[k] \in Entries /\ Good(cache[k], k \in Observed, acked[Table(k)])
      BY DEF LInv, TypeOK, Goods
    <3> QED  BY <1>4, <2>1, <2>2, <2>4, <3>1, <3>2, LessObserved
  <2> QED  BY <2>3, <2>4
<1>6. Idle \in [state : {"idle", "sent", "applied"}, table : Tables, at : Revisions]
      /\ Idle.state = "idle"
  BY RevisionsReach DEF Idle, Tables
<1> HIDE DEF b, at, t
<1>7. TypeOK'
  <2>1. acked' \in [Tables -> Revisions]
    BY <1>1, <1>2, <1>3 DEF LInv, TypeOK
  <2>2. cache' \in [Keys -> Entries]
    BY <1>2, <1>5
  <2>3. mutation' \in [Mutations -> [state : {"idle", "sent", "applied"},
                                     table : Tables, at : Revisions]]
    BY <1>2, <1>6 DEF LInv, TypeOK
  <2> QED  BY <1>2, <2>1, <2>2, <2>3 DEF LInv, TypeOK
<1>8. Told'
  <2>1. \A u \in Tables : acked'[u] <= revision'[u]
    BY <1>2, <1>3, <1>4 DEF LInv, Told
  <2>2. \A j \in Mutations : mutation'[j].state = "applied" => mutation'[j] = mutation[j]
    BY <1>2, <1>6 DEF LInv, TypeOK
  <2> QED  BY <1>2, <2>1, <2>2 DEF LInv, Told
<1>9. FilterFits'
  BY <1>2 DEF LInv, FilterFits
<1> QED  BY <1>5, <1>7, <1>8, <1>9 DEF LInv, Goods

-----------------------------------------------------------------------------
LEMMA LInvInit ==
    ASSUME Init
    PROVE  LInv
<1>1. TypeOK
  BY EmptyGood, KeysAndTables, RevisionsReach DEF Init, TypeOK, MayShow, Idle, Tables
<1>2. Told
  BY RevisionsReach DEF Init, Told, Idle
<1>3. FilterFits
  BY DEF Init, FilterFits
<1>4. Goods
  BY EmptyGood DEF Init, Goods
<1> QED  BY <1>1, <1>2, <1>3, <1>4 DEF LInv

LEMMA LInvNext ==
    ASSUME LInv, [Next]_vars
    PROVE  LInv'
<1>1. CASE UNCHANGED vars
  BY <1>1 DEF vars, screen, LInv, TypeOK, Told, FilterFits, Goods, Observed
<1>2. CASE Next
  BY <1>2, ScreenInv, EntryInv, TryAgainInv, MutationsInv, SomebodyElseInv, SucceedsInv
  DEF Next
<1> QED  BY <1>1, <1>2

(***************************************************************************)
(* The invariant of the cache: what is fresh, or observed with nothing     *)
(* loading, has every change that was reported.                            *)
(***************************************************************************)
THEOREM CacheInvariance == Spec => []LInv
<1>1. Init => LInv
  BY LInvInit
<1>2. LInv /\ [Next]_vars => LInv'
  BY LInvNext
<1> QED  BY <1>1, <1>2, PTL DEF Spec

(***************************************************************************)
(* Every variable stays in its set.                                        *)
(***************************************************************************)
THEOREM ListsTypeCorrect == Spec => []TypeOK
<1>1. LInv => TypeOK
  BY DEF LInv
<1> QED  BY <1>1, CacheInvariance, PTL

(***************************************************************************)
(* A list on the screen catches up with every change that was reported,    *)
(* however loads, mutations, pages and sessions interleave.                *)
(***************************************************************************)
THEOREM ListsAreCurrent == Spec => []ListsCatchUp
<1>1. ASSUME LInv PROVE ListsCatchUp
  <2> SUFFICES ASSUME NEW k \in Keys, InTable(k), cache[k].fetch = "idle", ~cache[k].overtaken
               PROVE  cache[k].data >= acked[Table(k)]
    BY DEF ListsCatchUp
  <2>1. k \in Shows /\ cache[k].status = "success"
    BY DEF InTable
  <2>2. page \in Pages
    BY <1>1 DEF LInv, TypeOK, MayShow, Pages
  <2>3. k \in Observed
    BY <2>1, <2>2
    DEF Shows, DashboardShows, FormShows, FormKeys, Observed, Observes, Pages
  <2> QED  BY <1>1, <2>1, <2>3 DEF LInv, Goods, Good
<1> QED  BY <1>1, CacheInvariance, PTL

(***************************************************************************)
(* The lists of users that an administrator has left in the cache are not  *)
(* shown to the next user of the tab.                                      *)
(***************************************************************************)
THEOREM OnlyAdminsSeeUsers == Spec => []UsersListedToAdmins
<1>1. ASSUME LInv, Shows \cap UserKeys # {} PROVE user = "admin"
  <2>1. page \in MayShow(user) /\ FilterFits
    BY <1>1 DEF LInv, TypeOK
  <2>2. page = "/salary-codes" => filter \notin UserKeys
    BY <2>1, ListsAssumption DEF FilterFits, CodeKeys
  <2>3. FiftyCodes \notin UserKeys
    BY ListsAssumption DEF CodeKeys
  <2> QED
    BY <1>1, <2>1, <2>2, <2>3 DEF Shows, DashboardShows, FormShows, MayShow
<1> QED  BY <1>1, CacheInvariance, PTL DEF UsersListedToAdmins

=============================================================================
