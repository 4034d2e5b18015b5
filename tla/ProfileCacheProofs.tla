------------------------- MODULE ProfileCacheProofs -------------------------
(***************************************************************************)
(* The cache of profiles, for any number of vendors, spellings, readers    *)
(* and writers: an entry that differs from the table is explained by one   *)
(* of the windows that StaleOnlyInAWindow names.                           *)
(*                                                                         *)
(* The invariant adds to it that a reader past its lookup has a key, that  *)
(* an edit which invalidates after its commit is going to invalidate the   *)
(* key of every row it touches, and that what a reader is about to cache   *)
(* is what the table says unless a commit has overtaken it.                *)
(***************************************************************************)
EXTENDS ProfileCache, WellFoundedInduction, TLAPS

ReadersHaveKeys == \A r \in Readers : reader[r].pc # "idle" => reader[r].key \in Keys

KeysCoverTouched ==
  \A w \in Writers :
    edit[w] # None /\ ~edit[w].inside /\ edit[w].pc = "begun"
      => \A n \in Touches(edit[w]) : Fold[n] \in edit[w].keys

FillsAreFresh ==
  \A r \in Readers :
    reader[r].pc = "fill" /\ r \notin overtaken
      => reader[r].got = Current(reader[r].key)

IInv ==
  /\ TypeOK
  /\ ReadersHaveKeys
  /\ KeysCoverTouched
  /\ FillsAreFresh
  /\ StaleOnlyInAWindow

----------------------------------------------------------------------------
(***************************************************************************)
(* Every set of naturals that is not empty has a least element.            *)
(***************************************************************************)
LEMMA LeastNatural ==
  ASSUME NEW T \in SUBSET Nat, T # {}
  PROVE  \E m \in T : \A n \in T : m <= n
<1>1. IsWellFoundedOn(OpToRel(<, Nat), Nat)
  BY NatLessThanWellFounded
<1>2. PICK m \in T : \A n \in T : ~(<<n, m>> \in OpToRel(<, Nat))
  BY <1>1, WFMin
<1>3. \A n \in T : ~(n < m)
  BY <1>2 DEF OpToRel
<1> QED
  BY <1>3

(***************************************************************************)
(* Of the rows found for a key one comes first in the collation order.     *)
(***************************************************************************)
LEMMA FirstOfFound ==
  ASSUME NEW found \in SUBSET Names, found # {}
  PROVE  LET c == CHOOSE n \in found : \A m \in found : Rank[n] <= Rank[m]
         IN  c \in found /\ \A m \in found : Rank[c] <= Rank[m]
<1> DEFINE ranks == {Rank[n] : n \in found}
<1>1. ranks \in SUBSET Nat /\ ranks # {}
  BY ProfileAssumption
<1>2. PICK r \in ranks : \A q \in ranks : r <= q
  BY <1>1, LeastNatural
<1>3. PICK n \in found : Rank[n] = r
  OBVIOUS
<1>4. \A m \in found : Rank[n] <= Rank[m]
  BY <1>2, <1>3
<1> QED
  BY <1>4

(***************************************************************************)
(* What profile_for finds in the table is a profile or the miss marker.    *)
(***************************************************************************)
LEMMA CurrentType ==
  ASSUME TypeOK, NEW k
  PROVE  Current(k) \in Specs \cup {Miss} /\ Current(k) # None
<1> DEFINE found == {n \in Names : Fold[n] = k /\ rows[n] # None}
           c == CHOOSE n \in found : \A m \in found : Rank[n] <= Rank[m]
<1>1. CASE found = {}
  BY <1>1, ProfileAssumption DEF Current
<1>2. CASE found # {}
  <2>1. c \in found
    BY <1>2, FirstOfFound
  <2>2. rows[c] \in Specs /\ rows[c] # None
    BY <2>1 DEF TypeOK
  <2>3. Current(k) = rows[c]
    BY <1>2 DEF Current
  <2> QED
    BY <2>2, <2>3
<1> QED
  BY <1>1, <1>2

(***************************************************************************)
(* It depends on the rows of the key's spellings only.                     *)
(***************************************************************************)
LEMMA CurrentUnchanged ==
  ASSUME NEW k, \A n \in Names : Fold[n] = k => rows'[n] = rows[n]
  PROVE  Current(k)' = Current(k)
<1> DEFINE found == {n \in Names : Fold[n] = k /\ rows[n] # None}
           now == {n \in Names : Fold[n] = k /\ rows'[n] # None}
           First(S) == CHOOSE n \in S : \A m \in S : Rank[n] <= Rank[m]
<1>1. now = found
  OBVIOUS
<1>2. Current(k)' = IF now = {} THEN Miss ELSE rows'[First(now)]
  BY DEF Current
<1>3. Current(k) = IF found = {} THEN Miss ELSE rows[First(found)]
  BY DEF Current
<1>4. found # {} => First(found) \in found
  BY FirstOfFound
<1>5. found # {} => rows'[First(found)] = rows[First(found)]
  BY <1>4
<1> HIDE DEF found, now, First
<1> QED
  BY <1>1, <1>2, <1>3, <1>5

(***************************************************************************)
(* Steps that leave the table alone.  Their effect on an entry: it is as   *)
(* it was, it is dropped, or it is filled with what the table says or      *)
(* under an excuse.                                                        *)
(***************************************************************************)
LEMMA StaleStep ==
  ASSUME IInv, rows' = rows,
         \A k \in Keys :
           \/ cache'[k] = None
           \/ cache'[k] = Current(k)
           \/ k \in excused'
           \/ /\ cache'[k] = cache[k]
              /\ k \in excused => k \in excused'
              /\ \A w \in Writers :
                   edit[w] # None /\ edit[w].pc = "committed" /\ k \in edit[w].keys
                     => edit'[w] # None /\ edit'[w].pc = "committed" /\ k \in edit'[w].keys
  PROVE  StaleOnlyInAWindow'
<1>1. \A k : Current(k)' = Current(k)
  BY CurrentUnchanged
<1> QED
  BY <1>1 DEF IInv, StaleOnlyInAWindow, Stale, Pending

(***************************************************************************)
(* Nor do they make what a reader has queried older.                       *)
(***************************************************************************)
LEMMA FreshStep ==
  ASSUME IInv, rows' = rows,
         \A r \in Readers :
           \/ reader'[r] = reader[r] /\ (r \in overtaken => r \in overtaken')
           \/ reader'[r].pc # "fill"
           \/ reader'[r].got = Current(reader'[r].key)
  PROVE  FillsAreFresh'
<1>1. \A k : Current(k)' = Current(k)
  BY CurrentUnchanged
<1> QED
  BY <1>1 DEF IInv, FillsAreFresh

(***************************************************************************)
(* The three calls of profile_for, its failures, and the timeout.          *)
(***************************************************************************)
LEMMA ReaderStep ==
  ASSUME IInv, NEW r \in Readers, ProfileFor(r)
  PROVE  IInv'
<1>1. ASSUME NEW k \in Keys, Hit(r, k) PROVE IInv'
  <2>1. /\ rows' = rows /\ cache' = cache /\ reader' = reader /\ edit' = edit
        /\ edits' = edits /\ overtaken' = overtaken /\ excused' = excused
    BY <1>1 DEF Hit, vars
  <2>2. StaleOnlyInAWindow' /\ FillsAreFresh'
    BY <2>1, StaleStep, FreshStep
  <2> QED
    BY <2>1, <2>2 DEF IInv, TypeOK, ReadersHaveKeys, KeysCoverTouched
<1>2. ASSUME NEW k \in Keys, Lookup(r, k) PROVE IInv'
  <2>1. /\ rows' = rows /\ cache' = cache /\ edit' = edit
        /\ edits' = edits /\ overtaken' = overtaken /\ excused' = excused
        /\ reader' = [reader EXCEPT ![r] = [pc |-> "query", key |-> k, got |-> None]]
    BY <1>2 DEF Lookup
  <2>2. TypeOK' /\ ReadersHaveKeys'
    BY <2>1 DEF IInv, TypeOK, ReadersHaveKeys
  <2>3. StaleOnlyInAWindow'
    BY <2>1, StaleStep
  <2>4. reader'[r].pc # "fill" /\ \A x \in Readers \ {r} : reader'[x] = reader[x]
    BY <2>1 DEF IInv, TypeOK
  <2>5. FillsAreFresh'
    BY <2>1, <2>4, FreshStep
  <2> QED
    BY <2>1, <2>2, <2>3, <2>5 DEF IInv, KeysCoverTouched
<1>3. CASE Query(r)
  <2>1. /\ rows' = rows /\ cache' = cache /\ edit' = edit
        /\ edits' = edits /\ overtaken' = overtaken /\ excused' = excused
        /\ reader[r].pc = "query"
        /\ reader' = [reader EXCEPT ![r].pc = "fill",
                                    ![r].got = Current(reader[r].key)]
    BY <1>3 DEF Query
  <2>2. Current(reader[r].key) \in Specs \cup {Miss, None}
    BY CurrentType DEF IInv
  <2>3. TypeOK' /\ ReadersHaveKeys'
    <3>1. reader' \in [Readers -> [pc: {"idle", "query", "fill"}, key: Keys \cup {None},
                                   got: Specs \cup {Miss, None}]]
      <4>1. reader \in [Readers -> [pc: {"idle", "query", "fill"}, key: Keys \cup {None},
                                    got: Specs \cup {Miss, None}]]
        BY DEF IInv, TypeOK
      <4> DEFINE now == [reader[r] EXCEPT !.pc = "fill", !.got = Current(reader[r].key)]
      <4>2. now \in [pc: {"idle", "query", "fill"}, key: Keys \cup {None},
                     got: Specs \cup {Miss, None}]
        BY <2>2, <4>1
      <4>3. reader' = [reader EXCEPT ![r] = now]
        BY <2>1
      <4> HIDE DEF now
      <4> QED
        BY <4>1, <4>2, <4>3
    <3>2. ReadersHaveKeys'
      BY <2>1 DEF IInv, TypeOK, ReadersHaveKeys
    <3> QED
      BY <2>1, <3>1, <3>2 DEF IInv, TypeOK
  <2>4. StaleOnlyInAWindow'
    BY <2>1, StaleStep
  <2>5. /\ reader'[r].got = Current(reader'[r].key)
        /\ \A x \in Readers \ {r} : reader'[x] = reader[x]
    BY <2>1 DEF IInv, TypeOK
  <2>6. FillsAreFresh'
    BY <2>1, <2>5, FreshStep
  <2> QED
    BY <2>1, <2>3, <2>4, <2>6 DEF IInv, KeysCoverTouched
<1>4. CASE Fill(r)
  <2> DEFINE k == reader[r].key
  <2>1. /\ rows' = rows /\ edit' = edit /\ edits' = edits /\ reader[r].pc = "fill"
        /\ cache' = [cache EXCEPT ![k] = reader[r].got]
        /\ reader' = [reader EXCEPT ![r] = Idle]
        /\ excused' = IF r \in overtaken THEN excused \cup {k} ELSE excused \ {k}
        /\ overtaken' = overtaken \ {r}
    BY <1>4 DEF Fill
  <2>2. k \in Keys
    BY <2>1 DEF IInv, ReadersHaveKeys
  <2>3. TypeOK' /\ ReadersHaveKeys'
    BY <2>1, <2>2 DEF IInv, TypeOK, ReadersHaveKeys, Idle
  <2>4. StaleOnlyInAWindow'
    <3>1. /\ cache'[k] = reader[r].got
          /\ \A x \in Keys \ {k} : cache'[x] = cache[x] /\ (x \in excused => x \in excused')
      BY <2>1, <2>2 DEF IInv, TypeOK
    <3>2. r \notin overtaken => cache'[k] = Current(k)
      BY <2>1, <3>1 DEF IInv, FillsAreFresh
    <3> QED
      BY <2>1, <3>1, <3>2, StaleStep
  <2>5. reader'[r].pc # "fill" /\ \A x \in Readers \ {r} : reader'[x] = reader[x]
    BY <2>1 DEF IInv, TypeOK, Idle
  <2>6. FillsAreFresh'
    BY <2>1, <2>5, FreshStep
  <2> QED
    BY <2>1, <2>3, <2>4, <2>6 DEF IInv, KeysCoverTouched
<1>5. CASE LookupFails(r)
  <2>1. /\ rows' = rows /\ cache' = cache /\ edit' = edit
        /\ edits' = edits /\ excused' = excused
        /\ overtaken' = overtaken \ {r}
        /\ reader' = [reader EXCEPT ![r] = Idle]
    BY <1>5 DEF LookupFails
  <2>2. TypeOK' /\ ReadersHaveKeys'
    BY <2>1 DEF IInv, TypeOK, ReadersHaveKeys, Idle
  <2>3. StaleOnlyInAWindow'
    BY <2>1, StaleStep
  <2>4. reader'[r].pc # "fill" /\ \A x \in Readers \ {r} : reader'[x] = reader[x]
    BY <2>1 DEF IInv, TypeOK, Idle
  <2>5. FillsAreFresh'
    BY <2>1, <2>4, FreshStep
  <2> QED
    BY <2>1, <2>2, <2>3, <2>5 DEF IInv, KeysCoverTouched
<1> QED
  BY <1>1, <1>2, <1>3, <1>4, <1>5 DEF ProfileFor

LEMMA ExpireStep ==
  ASSUME IInv, NEW k \in Keys, Expire(k)
  PROVE  IInv'
<1>1. /\ rows' = rows /\ edit' = edit /\ edits' = edits /\ reader' = reader
      /\ cache' = [cache EXCEPT ![k] = None] /\ excused' = excused \ {k}
      /\ overtaken' = overtaken
  BY DEF Expire
<1>2. TypeOK' /\ ReadersHaveKeys' /\ KeysCoverTouched'
  BY <1>1 DEF IInv, TypeOK, ReadersHaveKeys, KeysCoverTouched
<1>3. /\ cache'[k] = None
      /\ \A x \in Keys \ {k} : cache'[x] = cache[x] /\ (x \in excused => x \in excused')
  BY <1>1 DEF IInv, TypeOK
<1>4. StaleOnlyInAWindow' /\ FillsAreFresh'
  BY <1>1, <1>3, StaleStep, FreshStep
<1> QED
  BY <1>2, <1>4 DEF IInv

(***************************************************************************)
(* A writer begins an edit.                                                *)
(***************************************************************************)
LEMMA BeginStep ==
  ASSUME IInv, NEW w \in Writers, Begins(w), NEW e \in EditType,
         edit' = [edit EXCEPT ![w] = e], e.pc = "begun",
         ~e.inside => \A n \in Touches(e) : Fold[n] \in e.keys
  PROVE  IInv'
<1>1. /\ rows' = rows /\ cache' = cache /\ reader' = reader
      /\ overtaken' = overtaken /\ excused' = excused
      /\ edit[w] = None /\ edits' = edits + 1 /\ edits < MaxEdits
  BY DEF Begins
<1>2. TypeOK'
  BY <1>1, ProfileAssumption DEF IInv, TypeOK
<1>3. ReadersHaveKeys'
  BY <1>1 DEF IInv, ReadersHaveKeys
<1>4. edit'[w] = e /\ \A x \in Writers \ {w} : edit'[x] = edit[x]
  BY DEF IInv, TypeOK
<1>5. KeysCoverTouched'
  BY <1>4 DEF IInv, KeysCoverTouched
<1>6. StaleOnlyInAWindow' /\ FillsAreFresh'
  BY <1>1, <1>4, StaleStep, FreshStep
<1> QED
  BY <1>2, <1>3, <1>5, <1>6 DEF IInv

LEMMA EditsStep ==
  ASSUME IInv, NEW w \in Writers, Edits(w)
  PROVE  IInv'
<1>1. ASSUME NEW n \in Names, NEW s \in Specs, Save(w, n, s) PROVE IInv'
  <2> DEFINE e == AfterCommit({}, <<n, s>>, {Fold[n]})
  <2>1. e \in EditType /\ e.pc = "begun" /\ e.keys = {Fold[n]} /\ Touches(e) = {n}
    BY ProfileAssumption DEF AfterCommit, EditType, Keys, Touches
  <2> HIDE DEF e
  <2> QED
    BY <1>1, <2>1, BeginStep DEF Save, e
<1>2. ASSUME NEW n \in Names, NEW s \in Specs, AdminAdd(w, n, s) PROVE IInv'
  <2> DEFINE e == InTransaction({}, <<n, s>>, {n}, Fold[n])
  <2>1. e \in EditType /\ e.pc = "begun" /\ e.inside
    BY DEF InTransaction, EditType, Keys
  <2> HIDE DEF e
  <2> QED
    BY <1>2, <2>1, BeginStep DEF AdminAdd, e
<1>3. ASSUME NEW n \in Names, NEW m \in Names, NEW s \in Specs, AdminSave(w, n, m, s)
      PROVE  IInv'
  <2> DEFINE e == InTransaction({n} \ {m}, <<m, s>>, {m} \ {n}, Fold[m])
  <2>1. e \in EditType /\ e.pc = "begun" /\ e.inside
    BY DEF InTransaction, EditType, Keys
  <2> HIDE DEF e
  <2> QED
    BY <1>3, <2>1, BeginStep DEF AdminSave, e
<1>4. ASSUME NEW k \in Keys, Delete(w, k) PROVE IInv'
  <2> DEFINE e == AfterCommit({n \in Names : Fold[n] = k}, None, {k})
  <2>1. e \in EditType /\ e.pc = "begun" /\ \A n \in Touches(e) : Fold[n] \in e.keys
    BY DEF AfterCommit, EditType, Touches
  <2> HIDE DEF e
  <2> QED
    BY <1>4, <2>1, BeginStep DEF Delete, e
<1>5. ASSUME NEW n \in Names, AdminDelete(w, n) PROVE IInv'
  <2> DEFINE e == InTransaction({n}, None, {}, Fold[n])
  <2>1. e \in EditType /\ e.pc = "begun" /\ e.inside
    BY DEF InTransaction, EditType, Keys
  <2> HIDE DEF e
  <2> QED
    BY <1>5, <2>1, BeginStep DEF AdminDelete, e
<1>6. ASSUME NEW chosen \in SUBSET Names, AdminDeleteSelected(w, chosen) PROVE IInv'
  <2> DEFINE e == AfterCommit(chosen, None, {Fold[n] : n \in chosen})
  <2>1. e \in EditType /\ e.pc = "begun" /\ \A n \in Touches(e) : Fold[n] \in e.keys
    BY DEF AfterCommit, EditType, Keys, Touches
  <2> HIDE DEF e
  <2> QED
    BY <1>6, <2>1, BeginStep DEF AdminDeleteSelected, e
<1> QED
  BY <1>1, <1>2, <1>3, <1>4, <1>5, <1>6 DEF Edits

(***************************************************************************)
(* The COMMIT is the only step that changes the table.  An edit that       *)
(* invalidates afterwards opens the window of every key it touches; one    *)
(* that has invalidated already is excused for them.                       *)
(***************************************************************************)
LEMMA CommitStep ==
  ASSUME IInv, NEW w \in Writers, Commit(w)
  PROVE  IInv'
<1> DEFINE e == edit[w]
<1>1. /\ e # None /\ e \in EditType
      /\ cache' = cache /\ reader' = reader /\ edits' = edits
      /\ rows' = Written(e)
      /\ edit' = [edit EXCEPT ![w] = IF e.keys = {} THEN None
                                     ELSE [e EXCEPT !.pc = "committed"]]
      /\ overtaken' = overtaken \cup Filling({Fold[n] : n \in Touches(e)})
      /\ excused' = (excused \cup (IF e.inside THEN {Fold[n] : n \in Touches(e)} ELSE {}))
                      \cap {k \in Keys : cache[k] # None}
      /\ e.pc # "committed"
      /\ ~e.inside => e.pc = "begun"
      /\ e.inside => e.keys = {}
  BY DEF Commit, IInv, TypeOK
<1>2. /\ e.drop \subseteq Names /\ e.keys \subseteq Keys
      /\ e.put # None => e.put \in Names \X Specs
      /\ Touches(e) \subseteq Names
  BY <1>1 DEF EditType, Touches
<1>3. ~e.inside => \A n \in Touches(e) : Fold[n] \in e.keys
  BY <1>1 DEF IInv, KeysCoverTouched
<1>4. edit[w] = e
  OBVIOUS
<1> HIDE DEF e
<1>5. /\ rows' \in [Names -> Specs \cup {None}]
      /\ \A n \in Names \ Touches(e) : rows'[n] = rows[n]
  BY <1>1, <1>2 DEF Written, Touches, IInv, TypeOK
<1>6. /\ edit'[w] = IF e.keys = {} THEN None ELSE [e EXCEPT !.pc = "committed"]
      /\ \A x \in Writers \ {w} : edit'[x] = edit[x]
      /\ edit' \in [Writers -> EditType \cup {None}]
  <2>1. [e EXCEPT !.pc = "committed"] \in EditType
    BY <1>1 DEF EditType
  <2> QED
    BY <1>1, <2>1 DEF IInv, TypeOK
<1>7. e.keys # {} => /\ edit'[w] # None
                     /\ edit'[w].pc = "committed" /\ edit'[w].keys = e.keys
  <2>1. /\ [e EXCEPT !.pc = "committed"] \in EditType
        /\ [e EXCEPT !.pc = "committed"].pc = "committed"
        /\ [e EXCEPT !.pc = "committed"].keys = e.keys
    BY <1>1 DEF EditType
  <2> QED
    BY <1>6, <2>1, ProfileAssumption
<1>8. TypeOK'
  BY <1>1, <1>5, <1>6 DEF IInv, TypeOK, Filling
<1>9. ReadersHaveKeys'
  BY <1>1 DEF IInv, ReadersHaveKeys
<1>10. KeysCoverTouched'
  BY <1>6, <1>7 DEF IInv, KeysCoverTouched
<1>11. StaleOnlyInAWindow'
  <2> SUFFICES ASSUME NEW k \in Keys, cache[k] # None, cache[k] # Current(k)',
                      k \notin excused'
               PROVE  \E x \in Writers :
                        edit'[x] # None /\ edit'[x].pc = "committed" /\ k \in edit'[x].keys
    BY <1>1 DEF StaleOnlyInAWindow, Stale, Pending
  <2>1. /\ k \notin excused
        /\ e.inside => \A n \in Touches(e) : Fold[n] # k
    BY <1>1
  <2>2. CASE \E n \in Touches(e) : Fold[n] = k
    <3>1. k \in e.keys
      BY <1>3, <2>1, <2>2
    <3> QED
      BY <1>7, <3>1
  <2>3. CASE \A n \in Touches(e) : Fold[n] # k
    <3>1. Current(k)' = Current(k)
      BY <1>5, <2>3, CurrentUnchanged
    <3>2. PICK x \in Writers :
            edit[x] # None /\ edit[x].pc = "committed" /\ k \in edit[x].keys
      BY <2>1, <3>1 DEF IInv, StaleOnlyInAWindow, Stale, Pending
    <3>3. x # w
      BY <1>1, <1>4, <3>2
    <3> QED
      BY <1>6, <3>2, <3>3
  <2> QED
    BY <2>2, <2>3
<1>12. FillsAreFresh'
  <2> SUFFICES ASSUME NEW r \in Readers, reader[r].pc = "fill", r \notin overtaken'
               PROVE  reader[r].got = Current(reader[r].key)'
    BY <1>1 DEF FillsAreFresh
  <2>1. PICK k : k = reader[r].key
    OBVIOUS
  <2>2. r \notin overtaken /\ \A n \in Touches(e) : Fold[n] # k
    BY <1>1, <2>1 DEF Filling
  <2>3. reader[r].got = Current(k)
    BY <2>1, <2>2 DEF IInv, FillsAreFresh
  <2>4. \A n \in Names : Fold[n] = k => rows'[n] = rows[n]
    BY <1>5, <2>2
  <2>5. Current(k)' = Current(k)
    BY <2>4, CurrentUnchanged
  <2>6. reader'[r].key = k
    BY <1>1, <2>1
  <2> QED
    BY <2>3, <2>5, <2>6
<1> QED
  BY <1>8, <1>9, <1>10, <1>11, <1>12 DEF IInv

(***************************************************************************)
(* The other steps of an edit leave the table alone.                       *)
(***************************************************************************)
LEMMA FinishStep ==
  ASSUME IInv, NEW w \in Writers, Finishes(w)
  PROVE  IInv'
<1> DEFINE e == edit[w]
<1>1. CASE Write(w)
  <2>1. /\ e # None /\ e \in EditType /\ e.inside /\ e.pc = "begun"
        /\ edit' = [edit EXCEPT ![w].pc = "written"]
        /\ rows' = rows /\ cache' = cache /\ reader' = reader /\ edits' = edits
        /\ overtaken' = overtaken /\ excused' = excused
    BY <1>1 DEF Write, IInv, TypeOK
  <2>2. /\ edit'[w] \in EditType /\ edit'[w].pc = "written"
        /\ \A x \in Writers \ {w} : edit'[x] = edit[x]
        /\ edit' \in [Writers -> EditType \cup {None}]
    BY <2>1 DEF IInv, TypeOK, EditType
  <2>3. TypeOK' /\ ReadersHaveKeys'
    BY <2>1, <2>2 DEF IInv, TypeOK, ReadersHaveKeys
  <2>4. KeysCoverTouched'
    BY <2>2 DEF IInv, KeysCoverTouched
  <2>5. StaleOnlyInAWindow' /\ FillsAreFresh'
    BY <2>1, <2>2, StaleStep, FreshStep
  <2> QED
    BY <2>3, <2>4, <2>5 DEF IInv
<1>2. CASE EditFails(w)
  <2>1. /\ e # None /\ e \in EditType
        /\ edit' = [edit EXCEPT ![w] = None]
        /\ rows' = rows /\ cache' = cache /\ reader' = reader /\ edits' = edits
        /\ overtaken' = overtaken
        /\ excused' = IF e.pc = "committed" THEN excused \cup e.keys ELSE excused
    BY <1>2 DEF EditFails, IInv, TypeOK
  <2>2. /\ edit'[w] = None
        /\ \A x \in Writers \ {w} : edit'[x] = edit[x]
    BY <2>1 DEF IInv, TypeOK
  <2>3. TypeOK' /\ ReadersHaveKeys'
    BY <2>1 DEF IInv, TypeOK, EditType, ReadersHaveKeys
  <2>4. KeysCoverTouched'
    BY <2>2 DEF IInv, KeysCoverTouched
  <2>5. StaleOnlyInAWindow' /\ FillsAreFresh'
    BY <2>1, <2>2, StaleStep, FreshStep
  <2> QED
    BY <2>3, <2>4, <2>5 DEF IInv
<1>3. ASSUME NEW k \in Keys, Invalidate(w, k) PROVE IInv'
  <2>1. /\ e # None /\ e \in EditType /\ e.pc # "begun"
        /\ cache' = [cache EXCEPT ![k] = None] /\ excused' = excused \ {k}
        /\ edit' = [edit EXCEPT ![w] = IF ~e.inside /\ e.keys = {k} THEN None
                                       ELSE [e EXCEPT !.keys = e.keys \ {k}]]
        /\ rows' = rows /\ reader' = reader /\ edits' = edits
        /\ overtaken' = overtaken
    <3>1. e # None /\ e \in EditType /\ e.pc # "begun"
      BY <1>3 DEF Invalidate, IInv, TypeOK
    <3>2. edit' = [edit EXCEPT ![w] = IF ~e.inside /\ e.keys = {k} THEN None
                                     ELSE [e EXCEPT !.keys = e.keys \ {k}]]
      BY <1>3 DEF Invalidate
    <3> QED
      BY <1>3, <3>1, <3>2 DEF Invalidate
  <2>2. /\ [e EXCEPT !.keys = e.keys \ {k}] \in EditType
        /\ [e EXCEPT !.keys = e.keys \ {k}].pc = e.pc
        /\ [e EXCEPT !.keys = e.keys \ {k}].keys = e.keys \ {k}
        /\ [e EXCEPT !.keys = e.keys \ {k}] # None
    BY <2>1, ProfileAssumption DEF EditType
  <2>3. /\ edit'[w] = IF ~e.inside /\ e.keys = {k} THEN None
                      ELSE [e EXCEPT !.keys = e.keys \ {k}]
        /\ \A x \in Writers \ {w} : edit'[x] = edit[x]
        /\ edit' \in [Writers -> EditType \cup {None}]
    BY <2>1, <2>2 DEF IInv, TypeOK
  <2>4. /\ cache'[k] = None
        /\ \A x \in Keys \ {k} : cache'[x] = cache[x] /\ (x \in excused => x \in excused')
    BY <2>1 DEF IInv, TypeOK
  <2>5. TypeOK' /\ ReadersHaveKeys'
    BY <2>1, <2>3 DEF IInv, TypeOK, ReadersHaveKeys
  <2>6. KeysCoverTouched'
    BY <2>1, <2>2, <2>3 DEF IInv, KeysCoverTouched
  <2>7. ASSUME NEW x \in Keys, x # k, NEW v \in Writers,
               edit[v] # None, edit[v].pc = "committed", x \in edit[v].keys
        PROVE  edit'[v] # None /\ edit'[v].pc = "committed" /\ x \in edit'[v].keys
    BY <2>2, <2>3, <2>7
  <2>8. StaleOnlyInAWindow' /\ FillsAreFresh'
    BY <2>1, <2>4, <2>7, StaleStep, FreshStep
  <2> QED
    BY <2>5, <2>6, <2>8 DEF IInv
<1> QED
  BY <1>1, <1>2, <1>3, CommitStep DEF Finishes

(***************************************************************************)
(* The invariant, for any sets of names, readers and writers.              *)
(***************************************************************************)
THEOREM ProfileCacheInvariant == Spec => []IInv
<1>1. Init => IInv
  BY ProfileAssumption DEF Init, IInv, TypeOK, ReadersHaveKeys, KeysCoverTouched,
     FillsAreFresh, StaleOnlyInAWindow, Stale, Idle
<1>2. IInv /\ UNCHANGED vars => IInv'
  <2> SUFFICES ASSUME IInv, UNCHANGED vars PROVE IInv'
    OBVIOUS
  <2>1. UNCHANGED <<rows, cache, reader, edit, edits, overtaken, excused>>
    BY DEF vars
  <2>2. StaleOnlyInAWindow' /\ FillsAreFresh'
    BY <2>1, StaleStep, FreshStep
  <2> QED
    BY <2>1, <2>2 DEF IInv, TypeOK, ReadersHaveKeys, KeysCoverTouched
<1>3. IInv /\ [Next]_vars => IInv'
  BY <1>2, ReaderStep, ExpireStep, EditsStep, FinishStep DEF Next
<1> QED
  BY <1>1, <1>3, PTL DEF Spec

(***************************************************************************)
(* The model's types are kept; what a reader caches is a profile of the    *)
(* table or the miss marker.                                               *)
(***************************************************************************)
THEOREM ProfileCacheTypeCorrect == Spec => []TypeOK
<1>1. IInv => TypeOK
  BY DEF IInv
<1> QED
  BY <1>1, ProfileCacheInvariant, PTL

(***************************************************************************)
(* profile_for answers something else than the table only in one of the    *)
(* named windows.                                                          *)
(***************************************************************************)
THEOREM StaleIsExplained == Spec => []StaleOnlyInAWindow
<1>1. IInv => StaleOnlyInAWindow
  BY DEF IInv
<1> QED
  BY <1>1, ProfileCacheInvariant, PTL
============================================================================
