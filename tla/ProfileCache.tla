---------------------------- MODULE ProfileCache ----------------------------
(***************************************************************************)
(* Vendor profiles: rows of the database, read through a cache.            *)
(*                                                                         *)
(* profile_for gets the cache entry, queries the database on a miss and    *)
(* sets the entry, in three steps that edits may come between.  The API    *)
(* and discovery commit an edit and then invalidate; the admin's change    *)
(* and delete forms run in one transaction of Django's, so they invalidate *)
(* first and commit afterwards.                                            *)
(*                                                                         *)
(* A row is found by its name whatever its case, and written by its exact  *)
(* name.  Names carry no surrounding blanks; vendors pinned in code never  *)
(* reach the cache or the table and are left out.                          *)
(***************************************************************************)
EXTENDS Naturals

CONSTANTS
  Names,       \* vendor names, as spelled
  Fold,        \* name -> its cache key: the name in lower case
  Rank,        \* name -> its place in the collation order
  Specs,       \* profile contents
  Readers,     \* threads that call profile_for
  Writers,     \* requests that edit profiles
  MaxEdits,    \* bound: edits begun
  None         \* no row, no cache entry, no edit

Keys == {Fold[n] : n \in Names}

(* The cache entry that says the vendor has no profile (_MISS).            *)
Miss == "__miss__"

(* An edit: see the variable below.                                        *)
EditType ==
  [drop: SUBSET Names, put: (Names \X Specs) \cup {None},
   free: SUBSET Names, keys: SUBSET Keys, inside: BOOLEAN,
   pc: {"begun", "written", "committed"}]

ASSUME ProfileAssumption ==
  /\ \A n, m \in Names : Rank[n] \in Nat /\ (Rank[n] = Rank[m] => n = m)
  /\ MaxEdits \in Nat
  /\ {None, Miss} \cap Specs = {} /\ None # Miss
  /\ None \notin Names \cup (Names \X Specs) \cup EditType

VARIABLES
  rows,        \* name -> contents of its row, or None
  cache,       \* key -> contents, Miss, or None for no entry
  reader,      \* reader -> [pc, key, got]
  edit,        \* writer -> the edit it is making, or None: it deletes the
               \* rows `drop' and then writes `put', if that is not None,
               \* where the names `free' must have no row; it still has to
               \* invalidate `keys', `inside' its transaction or after it
  edits,       \* number of edits begun
  \* History: never read by the program.
  overtaken,   \* readers whose vendor was edited since they queried
  excused      \* keys with an entry that a named window may have left stale

vars == <<rows, cache, reader, edit, edits, overtaken, excused>>

Idle == [pc |-> "idle", key |-> None, got |-> None]

(* The table may have been filled before.                                  *)
Init ==
  /\ rows \in [Names -> Specs \cup {None}]
  /\ cache = [k \in Keys |-> None]
  /\ reader = [r \in Readers |-> Idle]
  /\ edit = [w \in Writers |-> None]
  /\ edits = 0
  /\ overtaken = {}
  /\ excused = {}

----------------------------------------------------------------------------
(* The profile in effect: of the rows whose name matches, the first.       *)
Current(k) ==
  LET found == {n \in Names : Fold[n] = k /\ rows[n] # None}
  IN IF found = {} THEN Miss
     ELSE rows[CHOOSE n \in found : \A m \in found : Rank[n] <= Rank[m]]

Stale(k) == cache[k] \notin {None, Current(k)}

(* cache.get: an entry is the answer, a miss asks the database.            *)
Hit(r, k) ==
  /\ reader[r] = Idle
  /\ cache[k] # None
  /\ UNCHANGED vars

Lookup(r, k) ==
  /\ reader[r] = Idle
  /\ cache[k] = None
  /\ reader' = [reader EXCEPT ![r] = [pc |-> "query", key |-> k, got |-> None]]
  /\ UNCHANGED <<rows, cache, edit, edits, overtaken, excused>>

(* Fault variant: the vendor's key is cached, not its profile.             *)
QueryKey(r) ==
  /\ reader[r].pc = "query"
  /\ reader' = [reader EXCEPT ![r].pc = "fill",
                              ![r].got = reader[r].key]
  /\ UNCHANGED <<rows, cache, edit, edits, overtaken, excused>>

Query(r) ==
  /\ reader[r].pc = "query"
  /\ reader' = [reader EXCEPT ![r].pc = "fill",
                              ![r].got = Current(reader[r].key)]
  /\ UNCHANGED <<rows, cache, edit, edits, overtaken, excused>>

(* cache.set, whatever has happened to the row since the query.            *)
Fill(r) ==
  LET k == reader[r].key IN
  /\ reader[r].pc = "fill"
  /\ cache' = [cache EXCEPT ![k] = reader[r].got]
  /\ reader' = [reader EXCEPT ![r] = Idle]
  /\ excused' = IF r \in overtaken THEN excused \cup {k} ELSE excused \ {k}
  /\ overtaken' = overtaken \ {r}
  /\ UNCHANGED <<rows, edit, edits>>

(* Any call of the cache or the database may raise; nothing is caught.     *)
LookupFails(r) ==
  /\ reader[r] # Idle
  /\ reader' = [reader EXCEPT ![r] = Idle]
  /\ overtaken' = overtaken \ {r}
  /\ UNCHANGED <<rows, cache, edit, edits, excused>>

(* Fault variant: only a miss expires, a profile is cached for ever.       *)
ExpireMiss(k) ==
  /\ cache[k] = Miss
  /\ cache' = [cache EXCEPT ![k] = None]
  /\ excused' = excused \ {k}
  /\ UNCHANGED <<rows, reader, edit, edits, overtaken>>

(* PROFILE_CACHE_SECONDS have passed.                                      *)
Expire(k) ==
  /\ cache[k] # None
  /\ cache' = [cache EXCEPT ![k] = None]
  /\ excused' = excused \ {k}
  /\ UNCHANGED <<rows, reader, edit, edits, overtaken>>

----------------------------------------------------------------------------
Begins(w) ==
  /\ edit[w] = None
  /\ edits < MaxEdits
  /\ edits' = edits + 1
  /\ UNCHANGED <<rows, cache, reader, overtaken, excused>>

AfterCommit(drop, put, keys) ==
  [drop |-> drop, put |-> put, free |-> {}, keys |-> keys,
   inside |-> FALSE, pc |-> "begun"]

InTransaction(drop, put, free, key) ==
  [drop |-> drop, put |-> put, free |-> free, keys |-> {key},
   inside |-> TRUE, pc |-> "begun"]

(* Fault variant: the row is saved and the cache is not told.              *)
SaveOnly(w, n, s) ==
  /\ Begins(w)
  /\ edit' = [edit EXCEPT ![w] = AfterCommit({}, <<n, s>>, {})]

(* VendorProfileRepository.save, for the API's PUT and for discovery.      *)
Save(w, n, s) ==
  /\ Begins(w)
  /\ edit' = [edit EXCEPT ![w] = AfterCommit({}, <<n, s>>, {Fold[n]})]

(* VendorProfileRepository.delete: the rows of every spelling.             *)
Delete(w, k) ==
  /\ Begins(w)
  /\ edit' = [edit EXCEPT ![w] =
       AfterCommit({n \in Names : Fold[n] = k}, None, {k})]

(* The change form: the row of n gets contents s and may be renamed to m,  *)
(* a name no other row has; the key of m is invalidated, that of n is not. *)
AdminSave(w, n, m, s) ==
  /\ rows[n] # None
  /\ m = n \/ rows[m] = None
  /\ Begins(w)
  /\ edit' = [edit EXCEPT ![w] =
       InTransaction({n} \ {m}, <<m, s>>, {m} \ {n}, Fold[m])]

(* The add form.                                                           *)
AdminAdd(w, n, s) ==
  /\ rows[n] = None
  /\ Begins(w)
  /\ edit' = [edit EXCEPT ![w] = InTransaction({}, <<n, s>>, {n}, Fold[n])]

AdminDelete(w, n) ==
  /\ rows[n] # None
  /\ Begins(w)
  /\ edit' = [edit EXCEPT ![w] = InTransaction({n}, None, {}, Fold[n])]

(* The "delete selected" action commits the deletion, and then invalidates *)
(* vendor by vendor.                                                       *)
AdminDeleteSelected(w, chosen) ==
  /\ chosen # {}
  /\ \A n \in chosen : rows[n] # None
  /\ Begins(w)
  /\ edit' = [edit EXCEPT ![w] =
       AfterCommit(chosen, None, {Fold[n] : n \in chosen})]

----------------------------------------------------------------------------
Touches(e) == e.drop \cup (IF e.put = None THEN {} ELSE {e.put[1]})

(* A row written in a transaction is locked until the transaction ends.    *)
Unlocked(w) ==
  \A x \in Writers \ {w} :
    edit[x] # None /\ edit[x].pc = "written"
      => Touches(edit[x]) \cap Touches(edit[w]) = {}

(* The statement of a form that invalidates before it commits.             *)
Write(w) ==
  /\ edit[w] # None
  /\ edit[w].inside /\ edit[w].pc = "begun"
  /\ Unlocked(w)
  /\ \A n \in edit[w].free : rows[n] = None
  /\ edit' = [edit EXCEPT ![w].pc = "written"]
  /\ UNCHANGED <<rows, cache, reader, edits, overtaken, excused>>

Written(e) ==
  [n \in Names |-> IF e.put # None /\ e.put[1] = n THEN e.put[2]
                   ELSE IF n \in e.drop THEN None ELSE rows[n]]

(* Readers that have queried one of the keys and not cached it yet.        *)
Filling(keys) == {r \in Readers : reader[r].pc = "fill" /\ reader[r].key \in keys}

Commit(w) ==
  LET touched == {Fold[n] : n \in Touches(edit[w])} IN
  /\ edit[w] # None
  /\ IF edit[w].inside THEN edit[w].pc = "written" /\ edit[w].keys = {}
     ELSE edit[w].pc = "begun" /\ Unlocked(w)
  /\ rows' = Written(edit[w])
  /\ edit' = [edit EXCEPT ![w] =
       IF edit[w].keys = {} THEN None ELSE [@ EXCEPT !.pc = "committed"]]
  /\ overtaken' = overtaken \cup Filling(touched)
  /\ excused' = (excused \cup (IF edit[w].inside THEN touched ELSE {}))
                  \cap {k \in Keys : cache[k] # None}
  /\ UNCHANGED <<cache, reader, edits>>

Invalidate(w, k) ==
  /\ edit[w] # None
  /\ k \in edit[w].keys
  /\ edit[w].pc = IF edit[w].inside THEN "written" ELSE "committed"
  /\ cache' = [cache EXCEPT ![k] = None]
  /\ edit' = [edit EXCEPT ![w] =
       IF ~edit[w].inside /\ edit[w].keys = {k} THEN None
       ELSE [edit[w] EXCEPT !.keys = edit[w].keys \ {k}]]
  /\ excused' = excused \ {k}
  /\ UNCHANGED <<rows, reader, edits, overtaken>>

(* The cache or the database raises: a transaction still open is rolled    *)
(* back, and the keys of a committed edit are never invalidated.           *)
EditFails(w) ==
  /\ edit[w] # None
  /\ edit' = [edit EXCEPT ![w] = None]
  /\ excused' = IF edit[w].pc = "committed"
                THEN excused \cup edit[w].keys ELSE excused
  /\ UNCHANGED <<rows, cache, reader, edits, overtaken>>

----------------------------------------------------------------------------
ProfileFor(r) ==
  \/ \E k \in Keys : Hit(r, k) \/ Lookup(r, k)
  \/ Query(r) \/ Fill(r) \/ LookupFails(r)

Edits(w) ==
  \/ \E n \in Names, s \in Specs : Save(w, n, s) \/ AdminAdd(w, n, s)
  \/ \E n, m \in Names, s \in Specs : AdminSave(w, n, m, s)
  \/ \E k \in Keys : Delete(w, k)
  \/ \E n \in Names : AdminDelete(w, n)
  \/ \E chosen \in SUBSET Names : AdminDeleteSelected(w, chosen)

Finishes(w) ==
  Write(w) \/ Commit(w) \/ EditFails(w) \/ \E k \in Keys : Invalidate(w, k)

Next ==
  \/ \E r \in Readers : ProfileFor(r)
  \/ \E w \in Writers : Edits(w) \/ Finishes(w)
  \/ \E k \in Keys : Expire(k)

Spec == Init /\ [][Next]_vars

(* The cache times an entry out whatever anybody else does.                *)
Fairness == \A k \in Keys : WF_vars(Expire(k))

FairSpec == Spec /\ Fairness

----------------------------------------------------------------------------
TypeOK ==
  /\ rows \in [Names -> Specs \cup {None}]
  /\ cache \in [Keys -> Specs \cup {Miss, None}]
  /\ reader \in [Readers -> [pc: {"idle", "query", "fill"},
                             key: Keys \cup {None},
                             got: Specs \cup {Miss, None}]]
  /\ edit \in [Writers -> EditType \cup {None}]
  /\ edits \in 0..MaxEdits
  /\ overtaken \subseteq Readers
  /\ excused \subseteq Keys

(* The edit of w is committed and its invalidation of k still to come.     *)
Pending(w, k) ==
  edit[w] # None /\ edit[w].pc = "committed" /\ k \in edit[w].keys

(***************************************************************************)
(* The cached lookup serves an edited profile only after something that    *)
(* can be named has happened: an edit is committed and has not invalidated *)
(* yet; the entry was filled by a reader that had queried before a commit; *)
(* a form committed an edit of the key while it had an entry; or an        *)
(* invalidation failed.  The excuses are given for these events, whether   *)
(* or not they leave a wrong entry.  Without one of them since the entry   *)
(* was last dropped, profile_for answers what the table says, whichever    *)
(* edits of the other spellings and the other vendors are under way.       *)
(***************************************************************************)
StaleOnlyInAWindow ==
  \A k \in Keys :
    Stale(k) => k \in excused \/ \E w \in Writers : Pending(w, k)

(***************************************************************************)
(* "The cached lookup cannot keep serving the old profile": when the       *)
(* admin's add or change form has committed, no entry is left that         *)
(* differs from the table under the name that was saved.                   *)
(***************************************************************************)
AdminEditIsServed ==
  [][\A w \in Writers :
       edit[w] # None /\ edit[w].inside /\ edit[w].put # None /\ Commit(w)
         => \A k \in Keys : k = Fold[edit[w].put[1]] => ~Stale(k)']_vars

(***************************************************************************)
(* "A short TTL": once the edits are over every entry is, from some moment *)
(* on, absent or what the table says, whichever windows were hit and even  *)
(* if a reader stalls for ever between its query and its fill.             *)
(***************************************************************************)
EditsTakeEffect == <>[](\A k \in Keys : ~Stale(k))

============================================================================
