--------------------------- MODULE FileLockProofs ---------------------------
(***************************************************************************)
(* Proofs about module FileLock, for all constants: the inductive          *)
(* invariant IInv, and what follows from it.                               *)
(***************************************************************************)
EXTENDS FileLockInv, FiniteSetTheorems, WellFoundedInduction, TLAPS

----------------------------------------------------------------------------
(* Lemmas about the table.                                                 *)

\* First returns the least index, so it returns an index of the set.
LEMMA FirstIn ==
  ASSUME NEW S \in SUBSET Idx, S # {}
  PROVE  First(S) \in S
<1>1. S \subseteq Nat
  BY NLockAssumption DEF Idx
<1>2. \E x \in S : \A y \in S : ~ (<<y, x>> \in OpToRel(<, Nat))
  <2> DEFINE R == OpToRel(<, Nat)
  <2>1. IsWellFoundedOn(R, Nat)
    BY NatLessThanWellFounded
  <2> HIDE DEF R
  <2>2. \E x \in S : \A y \in S : ~ (<<y, x>> \in R)
    BY <1>1, <2>1, WFMin
  <2> QED
    BY <2>2 DEF R
<1>3. \E x \in S : \A y \in S : ~ (y < x)
  BY <1>1, <1>2, Zenon DEF OpToRel
<1>4. \E x \in S : \A y \in S : x <= y
  BY <1>1, <1>3
<1> QED
  BY <1>4 DEF First

\* The slot inc_lock takes: an entry of the object, or a blank one while the
\* object has none.
LEMMA SlotTaken ==
  ASSUME NEW F, NEW v, NEW k, NEW acc, CanInc(F, v, k, acc)
  PROVE  LET i == First(Slots(F, v, k)) IN
         /\ i \in Idx
         /\ \/ F[i].fs = v /\ F[i].key = k
            \/ F[i].fs = NoVol /\ \A j \in Idx : ~(F[j].fs = v /\ F[j].key = k)
         /\ acc # 0 => F[i].ctr = 0
<1> DEFINE S == Slots(F, v, k)
<1>1. S \in SUBSET Idx /\ S # {}
  BY DEF CanInc, Slots, Lookup, Blanks
<1>2. First(S) \in S
  BY <1>1, FirstIn
<1> QED
  BY <1>1, <1>2 DEF CanInc, Slots, Lookup, Blanks

\* The users of an entry are finitely many.
LEMMA UsersFinite ==
  ASSUME NEW V, NEW O, NEW i
  PROVE  /\ IsFiniteSet(UsersIn(V, O, i))
         /\ Cardinality(UsersIn(V, O, i)) \in Nat
<1>1. UsersIn(V, O, i) \in SUBSET Handle
  BY DEF UsersIn
<1> QED
  BY <1>1, HandleAssumption, FS_Subset, FS_CardinalityType

\* One more user of an entry that some handle does not use yet.
LEMMA OneMore ==
  ASSUME NEW V, NEW O, NEW i, NEW h \in Handle, h \notin UsersIn(V, O, i)
  PROVE  Cardinality(UsersIn(V, O, i) \cup {h}) = Cardinality(UsersIn(V, O, i)) + 1
<1> QED
  BY UsersFinite, FS_AddElement

----------------------------------------------------------------------------
(* Mounting.                                                               *)

\* The new mount id is larger than every id an object carries: mounting or
\* unmounting v leaves exactly the objects of the other volumes usable.
LEMMA RemountValid ==
  ASSUME NEW V \in [Vol -> Volume], NEW n \in Nat, NEW O \in [Handle -> ObjectId],
         IdsBelow(V, n, O), NEW v \in Vol,
         NEW r \in BOOLEAN, NEW t \in BOOLEAN, NEW id \in Nat,
         t => id = n + 1,
         NEW h \in Handle
  PROVE  LET W == [V EXCEPT ![v] = [reg |-> r, fs_type |-> t, id |-> id]] IN
         ValidIn(W, O, h) <=> ValidIn(V, O, h) /\ O[h].fs # v
<1> DEFINE W == [V EXCEPT ![v] = [reg |-> r, fs_type |-> t, id |-> id]]
<1>1. O[h].id <= n /\ O[h].id \in Nat /\ O[h].fs \in Vol \cup {NoVol}
  BY DEF IdsBelow, ObjectId
<1>2. W[v] = [reg |-> r, fs_type |-> t, id |-> id]
  BY DEF Volume
<1>3. \A u \in Vol : u # v => W[u] = V[u]
  BY DEF Volume
<1>4. CASE O[h].fs = v
  BY <1>1, <1>2, <1>4 DEF ValidIn
<1>5. CASE O[h].fs # v
  BY <1>1, <1>3, <1>5 DEF ValidIn
<1> QED
  BY <1>4, <1>5

\* Clearing v's entries while v is mounted anew or unmounted keeps LockInv.
LEMMA Remount ==
  ASSUME NEW F, NEW V, NEW n, NEW O, NEW T, LockInv(F, V, n, O, T),
         NEW v \in Vol, NEW r \in BOOLEAN, NEW t \in BOOLEAN, t => r
  PROVE  LET m == IF t THEN n + 1 ELSE n
             W == [V EXCEPT ![v] = [reg |-> r, fs_type |-> t,
                                    id |-> IF t THEN n + 1 ELSE V[v].id]]
         IN  LockInv(clear_lock(F, v), W, m, O, T)
<1> DEFINE m == IF t THEN n + 1 ELSE n
           id == IF t THEN n + 1 ELSE V[v].id
           W == [V EXCEPT ![v] = [reg |-> r, fs_type |-> t, id |-> id]]
           G == clear_lock(F, v)
<1>1. TypeInv(F, V, n, O, T) /\ IdsBelow(V, n, O)
  BY DEF LockInv
<1>2. /\ F \in [Idx -> LockEntry] /\ V \in [Vol -> Volume] /\ n \in Nat
      /\ O \in [Handle -> ObjectId]
  BY <1>1 DEF TypeInv
<1>3. id \in Nat /\ m \in Nat /\ n <= m
  BY <1>2 DEF Volume
<1>4. Blank \in LockEntry
  BY DEF Blank, LockEntry, Key, RootKey
<1>5. G \in [Idx -> LockEntry]
  BY <1>2, <1>4 DEF clear_lock
<1>6. W \in [Vol -> Volume]
  BY <1>2, <1>3 DEF Volume
<1>7. /\ W[v] = [reg |-> r, fs_type |-> t, id |-> id]
      /\ \A u \in Vol : u # v => W[u] = V[u]
  BY <1>2
<1>8. \A h \in Handle : ValidIn(W, O, h) <=> ValidIn(V, O, h) /\ O[h].fs # v
  <2> SUFFICES ASSUME NEW h \in Handle
               PROVE  ValidIn(W, O, h) <=> ValidIn(V, O, h) /\ O[h].fs # v
    OBVIOUS
  <2> HIDE DEF id
  <2> QED
    BY <1>1, <1>2, <1>3, RemountValid DEF id
<1> HIDE DEF id, W, m
<1>9. TypeInv(G, W, m, O, T)
  BY <1>1, <1>3, <1>5, <1>6 DEF TypeInv
<1>10. IdsBelow(W, m, O)
  <2>1. W[v].id <= m
    BY <1>1, <1>2, <1>7 DEF IdsBelow, id, m
  <2>2. \A u \in Vol : u # v => W[u].id <= m
    BY <1>1, <1>2, <1>3, <1>7 DEF IdsBelow, Volume
  <2>3. \A h \in Handle : O[h].id <= m
    BY <1>1, <1>2, <1>3 DEF IdsBelow, ObjectId
  <2> QED
    BY <2>1, <2>2, <2>3 DEF IdsBelow
<1>11. \A i \in Idx : G[i] = IF F[i].fs = v THEN Blank ELSE F[i]
  BY DEF clear_lock
<1>12. Blank.fs = NoVol /\ Blank.ctr = 0 /\ NoVol \notin Vol
  BY VolAssumption DEF Blank
<1> HIDE DEF G
<1>13. MountInv(G, W)
  <2>1. \A u \in Vol : W[u].fs_type => W[u].reg
    BY <1>7 DEF LockInv, MountInv
  <2>2. ASSUME NEW i \in Idx, G[i].fs # NoVol
        PROVE  W[G[i].fs].fs_type
    BY <1>2, <1>7, <1>11, <1>12, <2>2 DEF LockInv, MountInv, LockEntry
  <2> QED
    BY <2>1, <2>2 DEF MountInv
<1>14. TableInv(G)
  BY <1>11, <1>12 DEF LockInv, TableInv
<1>15. OwnInv(G, W, O)
  <2> SUFFICES ASSUME NEW h \in Handle, ValidIn(W, O, h), O[h].lockid # 0
               PROVE  G[O[h].lockid - 1] = F[O[h].lockid - 1]
    BY <1>8 DEF LockInv, OwnInv
  <2>1. O[h].lockid - 1 \in Idx
    BY <1>2, NLockAssumption DEF ObjectId, Idx
  <2>2. F[O[h].lockid - 1].fs = O[h].fs /\ O[h].fs # v
    BY <1>8 DEF LockInv, OwnInv
  <2> QED
    BY <1>11, <2>1, <2>2
<1>16. CountInv(G, W, O)
  <2> SUFFICES ASSUME NEW i \in Idx
               PROVE  IF G[i].ctr = WMode
                        THEN \A h, k \in UsersIn(W, O, i) : h = k
                        ELSE /\ G[i].ctr < WMode
                             /\ Cardinality(UsersIn(W, O, i)) <= G[i].ctr
    BY DEF CountInv
  <2>1. \A h \in UsersIn(V, O, i) : F[i].fs = O[h].fs
    <3> SUFFICES ASSUME NEW h \in Handle, ValidIn(V, O, h), O[h].lockid = i + 1
                 PROVE  F[i].fs = O[h].fs
      BY DEF UsersIn
    <3>1. O[h].lockid # 0 /\ O[h].lockid - 1 = i
      BY NLockAssumption DEF Idx
    <3> QED
      BY <3>1 DEF LockInv, OwnInv
  <2>2. CASE F[i].fs = v
    <3>1. UsersIn(W, O, i) = {}
      BY <1>8, <2>1, <2>2 DEF UsersIn
    <3> QED
      BY <3>1, <1>11, <1>12, <2>2, FS_EmptySet, WModeAssumption
  <2>3. CASE F[i].fs # v
    <3>1. UsersIn(W, O, i) = UsersIn(V, O, i)
      BY <1>8, <2>1, <2>3 DEF UsersIn
    <3> QED
      BY <3>1, <1>11, <2>3 DEF LockInv, CountInv
  <2> QED
    BY <2>2, <2>3
<1>17. ExistInv(G, T)
  BY <1>11, <1>12 DEF LockInv, ExistInv
<1>18. WriteInv(G)
  BY <1>11, <1>12, WModeAssumption DEF LockInv, WriteInv
<1> QED
  BY <1>9, <1>10, <1>13, <1>14, <1>15, <1>16, <1>17, <1>18 DEF LockInv, G, W, m, id

\* Without mounted volume v the table has no entry of v to clear.
LEMMA NothingToClear ==
  ASSUME NEW F, NEW V, NEW n, NEW O, NEW T, LockInv(F, V, n, O, T),
         NEW v \in Vol, ~V[v].fs_type
  PROVE  clear_lock(F, v) = F
<1>1. F \in [Idx -> LockEntry]
  BY DEF LockInv, TypeInv
<1>2. \A i \in Idx : F[i].fs # v
  BY VolAssumption DEF LockInv, MountInv
<1> QED
  BY <1>1, <1>2 DEF clear_lock

----------------------------------------------------------------------------
(* Objects that come and go.                                               *)

\* A handle is overwritten without its entry being released: the count that
\* the entry keeps still covers its users.
LEMMA Drop ==
  ASSUME NEW F, NEW V, NEW n, NEW O, NEW T, LockInv(F, V, n, O, T),
         NEW h \in Handle
  PROVE  LET P == [O EXCEPT ![h] = Closed] IN
         /\ LockInv(F, V, n, P, T)
         /\ ~ValidIn(V, P, h)
         /\ \A x : [P EXCEPT ![h] = x] = [O EXCEPT ![h] = x]
<1> DEFINE P == [O EXCEPT ![h] = Closed]
<1>1. O \in [Handle -> ObjectId] /\ V \in [Vol -> Volume] /\ F \in [Idx -> LockEntry]
      /\ n \in Nat
  BY DEF LockInv, TypeInv
<1>2. Closed \in ObjectId /\ Closed.fs = NoVol /\ Closed.id = 0
  BY NLockAssumption DEF Closed, ObjectId, Key, RootKey
<1>3. /\ P \in [Handle -> ObjectId]
      /\ P[h] = Closed
      /\ \A k \in Handle : k # h => P[k] = O[k]
  BY <1>1, <1>2
<1>4. \A x : [P EXCEPT ![h] = x] = [O EXCEPT ![h] = x]
  BY <1>1
<1> HIDE DEF P
<1>5. /\ ~ValidIn(V, P, h)
      /\ \A k \in Handle : k # h => (ValidIn(V, P, k) <=> ValidIn(V, O, k))
  BY <1>2, <1>3 DEF ValidIn
<1>6. \A i : UsersIn(V, P, i) \subseteq UsersIn(V, O, i)
  BY <1>3, <1>5 DEF UsersIn
<1>7. CountInv(F, V, P)
  <2> SUFFICES ASSUME NEW i \in Idx
               PROVE  IF F[i].ctr = WMode
                        THEN \A a, b \in UsersIn(V, P, i) : a = b
                        ELSE /\ F[i].ctr < WMode
                             /\ Cardinality(UsersIn(V, P, i)) <= F[i].ctr
    BY DEF CountInv
  <2>1. CASE F[i].ctr = WMode
    BY <1>6, <2>1 DEF LockInv, CountInv
  <2>2. CASE F[i].ctr # WMode
    <3>1. F[i].ctr < WMode /\ Cardinality(UsersIn(V, O, i)) <= F[i].ctr
      BY <2>2 DEF LockInv, CountInv
    <3>2. Cardinality(UsersIn(V, P, i)) <= Cardinality(UsersIn(V, O, i))
      BY <1>6, UsersFinite, FS_Subset
    <3>3. /\ Cardinality(UsersIn(V, O, i)) \in Nat
          /\ Cardinality(UsersIn(V, P, i)) \in Nat
      BY UsersFinite
    <3>4. F[i].ctr \in Nat
      BY <1>1 DEF LockEntry
    <3> QED
      BY <2>2, <3>1, <3>2, <3>3, <3>4
  <2> QED
    BY <2>1, <2>2
<1>8. TypeInv(F, V, n, P, T)
  BY <1>3 DEF LockInv, TypeInv
<1>9. IdsBelow(V, n, P)
  BY <1>1, <1>2, <1>3 DEF LockInv, IdsBelow
<1>10. OwnInv(F, V, P)
  BY <1>3, <1>5 DEF LockInv, OwnInv
<1> QED
  BY <1>4, <1>5, <1>7, <1>8, <1>9, <1>10 DEF LockInv, P

\* A handle that is not usable or that holds no entry may be closed, or opened
\* on a root directory, without a change to the table.
LEMMA Unlocked ==
  ASSUME NEW F, NEW V, NEW n, NEW O, NEW T, LockInv(F, V, n, O, T),
         NEW h \in Handle, ~ValidIn(V, O, h) \/ O[h].lockid = 0,
         NEW x \in ObjectId, x.id <= n, x.lockid = 0, x.key = RootKey, ~x.write
  PROVE  LockInv(F, V, n, [O EXCEPT ![h] = x], T)
<1> DEFINE P == [O EXCEPT ![h] = x]
<1>1. O \in [Handle -> ObjectId] /\ V \in [Vol -> Volume]
  BY DEF LockInv, TypeInv
<1>2. /\ P \in [Handle -> ObjectId]
      /\ P[h] = x
      /\ \A k \in Handle : k # h => P[k] = O[k]
  BY <1>1
<1> HIDE DEF P
<1>3. \A k \in Handle : k # h => (ValidIn(V, P, k) <=> ValidIn(V, O, k))
  BY <1>2 DEF ValidIn
<1>4. \A i \in Idx : UsersIn(V, P, i) = UsersIn(V, O, i)
  <2> SUFFICES ASSUME NEW i \in Idx, NEW k \in Handle
               PROVE  k \in UsersIn(V, P, i) <=> k \in UsersIn(V, O, i)
    BY DEF UsersIn
  <2>1. i + 1 # 0
    BY NLockAssumption DEF Idx
  <2>2. CASE k = h
    BY <1>2, <2>1, <2>2 DEF UsersIn
  <2>3. CASE k # h
    BY <1>2, <1>3, <2>3 DEF UsersIn
  <2> QED
    BY <2>2, <2>3
<1>5. TypeInv(F, V, n, P, T)
  BY <1>2 DEF LockInv, TypeInv
<1>6. IdsBelow(V, n, P)
  BY <1>2 DEF LockInv, IdsBelow
<1>7. OwnInv(F, V, P)
  BY <1>2, <1>3 DEF LockInv, OwnInv
<1>8. CountInv(F, V, P)
  BY <1>4 DEF LockInv, CountInv
<1> QED
  BY <1>5, <1>6, <1>7, <1>8 DEF LockInv, P

\* What f_open and f_opendir have established when they call inc_lock: only a
\* file is opened for writing, it exists, and no reader joins a writer.
MayLock(F, V, T, v, k, acc) ==
  /\ v \in Vol /\ V[v].fs_type
  /\ k \in Key /\ k # RootKey
  /\ acc \in {0, 1}
  /\ CanInc(F, v, k, acc)
  /\ acc # 0 => k.ofs # 0
  /\ acc = 0 => F[First(Slots(F, v, k))].ctr # WMode
  /\ ReadBound(F, v, k, acc)
  /\ \A e \in Entry : k = FileKey(e) => T[v][e] # NoObj

\* inc_lock alone: G is the table F with the counter of entry i raised.
Locked(F, V, O, T, v, k, acc, i, G) ==
  /\ G \in [Idx -> LockEntry]
  /\ i \in Idx
  /\ G[i] = [fs |-> v, key |-> k,
             ctr |-> IF acc # 0 THEN WMode ELSE F[i].ctr + 1]
  /\ \A j \in Idx : j # i => G[j] = F[j]
  /\ acc # 0 => UsersIn(V, O, i) = {}
  /\ acc = 0 => /\ Cardinality(UsersIn(V, O, i)) <= F[i].ctr
                /\ F[i].ctr + 1 < WMode
  /\ F[i].ctr \in Nat
  /\ MountInv(G, V)
  /\ TableInv(G)
  /\ ExistInv(G, T)
  /\ \A a \in Handle :
       ValidIn(V, O, a) /\ O[a].lockid = i + 1 => F[i].fs = v /\ F[i].key = k

\* inc_lock leaves a well-formed table.
LEMMA IncTable ==
  ASSUME NEW F, NEW V, NEW n, NEW O, NEW T, LockInv(F, V, n, O, T),
         NEW v, NEW k, NEW acc, MayLock(F, V, T, v, k, acc)
  PROVE  Locked(F, V, O, T, v, k, acc, First(Slots(F, v, k)),
                inc_lock(F, v, k, acc))
<1> DEFINE i == First(Slots(F, v, k))
           G == inc_lock(F, v, k, acc)
<1>0. /\ v \in Vol /\ V[v].fs_type /\ k \in Key /\ k # RootKey
      /\ acc \in {0, 1} /\ CanInc(F, v, k, acc)
      /\ acc = 0 => F[i].ctr # WMode /\ F[i].ctr + 1 # WMode
      /\ \A e \in Entry : k = FileKey(e) => T[v][e] # NoObj
  BY DEF MayLock, ReadBound
<1>1. F \in [Idx -> LockEntry]
  BY DEF LockInv, TypeInv
<1>2. /\ i \in Idx
      /\ \/ F[i].fs = v /\ F[i].key = k
         \/ F[i].fs = NoVol /\ \A j \in Idx : ~(F[j].fs = v /\ F[j].key = k)
      /\ acc # 0 => F[i].ctr = 0
  BY <1>0, SlotTaken
<1>3. G = [F EXCEPT ![i] = [fs |-> v, key |-> k,
                            ctr |-> IF acc # 0 THEN WMode ELSE F[i].ctr + 1]]
  BY DEF inc_lock
<1> HIDE DEF i, G
<1>4. /\ G[i] = [fs |-> v, key |-> k,
                 ctr |-> IF acc # 0 THEN WMode ELSE F[i].ctr + 1]
      /\ \A j \in Idx : j # i => G[j] = F[j]
  BY <1>1, <1>2, <1>3
<1>5. F[i].ctr \in Nat
  BY <1>1, <1>2 DEF LockEntry
<1>15. acc = 0 => F[i].ctr + 1 < WMode
  <2>1. F[i].ctr # WMode => F[i].ctr < WMode
    BY <1>2 DEF LockInv, CountInv
  <2> QED
    BY <1>0, <1>5, <2>1, WModeAssumption
<1>6. G[i] \in LockEntry
  BY <1>0, <1>4, <1>5, <1>15, WModeAssumption DEF LockEntry
<1>7. G \in [Idx -> LockEntry]
  BY <1>1, <1>2, <1>3, <1>4, <1>6
<1>8. v # NoVol /\ WMode # 0
  BY <1>0, VolAssumption, WModeAssumption
<1>9. MountInv(G, V)
  BY <1>0, <1>2, <1>4 DEF LockInv, MountInv
<1>10. TableInv(G)
  <2>1. \A a \in Idx : G[a].fs = NoVol => G[a].ctr = 0
    BY <1>0, <1>2, <1>4, <1>8 DEF LockInv, TableInv
  <2>2. \A a \in Idx : G[a].fs # NoVol => G[a].key # RootKey
    BY <1>0, <1>2, <1>4, <1>8 DEF LockInv, TableInv
  <2>3. \A a \in Idx : a # i => ~(G[a].fs = v /\ G[a].key = k)
    BY <1>0, <1>2, <1>4, <1>8 DEF LockInv, TableInv
  <2>4. \A a, b \in Idx :
          G[a].fs # NoVol /\ G[a].fs = G[b].fs /\ G[a].key = G[b].key => a = b
    BY <1>2, <1>4, <2>3 DEF LockInv, TableInv
  <2> QED
    BY <2>1, <2>2, <2>4 DEF TableInv
<1>11. ExistInv(G, T)
  BY <1>0, <1>2, <1>4 DEF LockInv, ExistInv
<1>12. F[i].ctr # WMode => Cardinality(UsersIn(V, O, i)) <= F[i].ctr
  BY <1>2 DEF LockInv, CountInv
<1>13. acc # 0 => UsersIn(V, O, i) = {}
  <2>1. acc # 0 => Cardinality(UsersIn(V, O, i)) = 0
    BY <1>2, <1>8, <1>12, UsersFinite
  <2> QED
    BY <2>1, UsersFinite, FS_EmptySet
<1>14. ASSUME NEW a \in Handle, ValidIn(V, O, a), O[a].lockid = i + 1
       PROVE  F[i].fs = v /\ F[i].key = k
  <2>1. i + 1 # 0 /\ (i + 1) - 1 = i
    BY <1>2, NLockAssumption DEF Idx
  <2>2. F[i].fs # NoVol
    BY <1>14, <2>1 DEF LockInv, OwnInv, ValidIn
  <2> QED
    BY <1>2, <2>2
<1> QED
  BY <1>0, <1>2, <1>4, <1>5, <1>7, <1>9, <1>10, <1>11, <1>12, <1>13, <1>14, <1>15
  DEF Locked, i, G

\* f_open or f_opendir that succeeds: an entry and its new user.
LEMMA Acquire ==
  ASSUME NEW F, NEW V, NEW n, NEW O, NEW T, LockInv(F, V, n, O, T),
         NEW v, NEW k, NEW acc, MayLock(F, V, T, v, k, acc),
         NEW h \in Handle, ~ValidIn(V, O, h)
  PROVE  LockInv(inc_lock(F, v, k, acc), V, n,
                 [O EXCEPT ![h] = [fs |-> v, id |-> V[v].id, key |-> k,
                                   lockid |-> First(Slots(F, v, k)) + 1,
                                   write |-> acc # 0]], T)
<1> DEFINE i == First(Slots(F, v, k))
           G == inc_lock(F, v, k, acc)
           x == [fs |-> v, id |-> V[v].id, key |-> k, lockid |-> i + 1,
                 write |-> acc # 0]
           P == [O EXCEPT ![h] = x]
<1>1. /\ F \in [Idx -> LockEntry] /\ V \in [Vol -> Volume]
      /\ O \in [Handle -> ObjectId] /\ n \in Nat
  BY DEF LockInv, TypeInv
<1>0. /\ v \in Vol /\ V[v].fs_type /\ k \in Key /\ acc \in {0, 1}
      /\ acc # 0 => k.ofs # 0
      /\ acc = 0 => F[i].ctr # WMode
  BY DEF MayLock
<1>2. /\ G \in [Idx -> LockEntry]
      /\ i \in Idx
      /\ G[i] = [fs |-> v, key |-> k,
                 ctr |-> IF acc # 0 THEN WMode ELSE F[i].ctr + 1]
      /\ \A j \in Idx : j # i => G[j] = F[j]
      /\ acc # 0 => UsersIn(V, O, i) = {}
      /\ acc = 0 => /\ Cardinality(UsersIn(V, O, i)) <= F[i].ctr
                    /\ F[i].ctr + 1 < WMode
      /\ F[i].ctr \in Nat
      /\ MountInv(G, V) /\ TableInv(G) /\ ExistInv(G, T)
      /\ \A a \in Handle :
           ValidIn(V, O, a) /\ O[a].lockid = i + 1 => F[i].fs = v /\ F[i].key = k
  BY IncTable DEF Locked
<1> HIDE DEF i, G
<1>3. i \in Nat /\ i + 1 \in 0 .. NLock /\ i + 1 # 0 /\ (i + 1) - 1 = i
  BY <1>2, NLockAssumption DEF Idx
<1>4. x \in ObjectId
  BY <1>0, <1>1, <1>3 DEF ObjectId, Volume
<1>5. /\ P \in [Handle -> ObjectId]
      /\ P[h] = x
      /\ \A a \in Handle : a # h => P[a] = O[a]
  BY <1>1, <1>4
<1> HIDE DEF P
<1>6. /\ ValidIn(V, P, h)
      /\ \A a \in Handle : a # h => (ValidIn(V, P, a) <=> ValidIn(V, O, a))
  BY <1>0, <1>5, VolAssumption DEF ValidIn
<1>7. TypeInv(G, V, n, P, T)
  BY <1>2, <1>5 DEF LockInv, TypeInv
<1>8. IdsBelow(V, n, P)
  BY <1>0, <1>5 DEF LockInv, IdsBelow
<1>9. h \notin UsersIn(V, O, i)
  BY DEF UsersIn
<1>10. UsersIn(V, P, i) = UsersIn(V, O, i) \cup {h}
  BY <1>5, <1>6 DEF UsersIn
<1>11. ASSUME NEW j \in Idx, j # i
       PROVE  UsersIn(V, P, j) = UsersIn(V, O, j)
  <2>1. i + 1 # j + 1
    BY <1>2, <1>11, NLockAssumption DEF Idx
  <2> QED
    BY <1>5, <1>6, <2>1 DEF UsersIn
<1>12. acc = 0 => /\ Cardinality(UsersIn(V, P, i)) <= G[i].ctr
                  /\ G[i].ctr < WMode
  <2>1. Cardinality(UsersIn(V, O, i) \cup {h}) = Cardinality(UsersIn(V, O, i)) + 1
    BY <1>9, OneMore
  <2> QED
    BY <1>2, <1>10, <2>1, UsersFinite, WModeAssumption
<1>13. CountInv(G, V, P)
  <2> SUFFICES ASSUME NEW j \in Idx
               PROVE  IF G[j].ctr = WMode
                        THEN \A a, b \in UsersIn(V, P, j) : a = b
                        ELSE /\ G[j].ctr < WMode
                             /\ Cardinality(UsersIn(V, P, j)) <= G[j].ctr
    BY DEF CountInv
  <2>1. CASE j # i
    BY <1>2, <1>11, <2>1 DEF LockInv, CountInv
  <2>2. CASE j = i /\ acc # 0
    <3>1. UsersIn(V, P, i) = {h}
      BY <1>2, <1>10, <2>2
    <3> QED
      BY <1>2, <2>2, <3>1
  <2>3. CASE j = i /\ acc = 0
    BY <1>2, <1>12, <2>3, WModeAssumption
  <2> QED
    BY <2>1, <2>2, <2>3
<1>14. WriteInv(G)
  BY <1>0, <1>2, <1>12, WModeAssumption DEF LockInv, WriteInv
<1>15. OwnInv(G, V, P)
  <2> SUFFICES ASSUME NEW a \in Handle, ValidIn(V, P, a)
               PROVE  IF P[a].lockid = 0 THEN P[a].key = RootKey /\ ~P[a].write
                      ELSE LET s == G[P[a].lockid - 1] IN
                           /\ s.fs = P[a].fs
                           /\ s.key = P[a].key
                           /\ P[a].write => s.ctr = WMode
    BY DEF OwnInv
  <2>1. CASE a = h
    <3>1. acc = 0 => ~P[a].write
      <4>1. P[a] = x
        BY <1>5, <2>1
      <4>2. x.write = (acc # 0)
        BY Zenon DEF x
      <4> QED
        BY <4>1, <4>2, Zenon
    <3>2. P[a].fs = v /\ P[a].key = k /\ P[a].lockid = i + 1
      BY <1>5, <2>1
    <3> QED
      BY <1>2, <1>3, <3>1, <3>2
  <2>2. CASE a # h /\ O[a].lockid = i + 1
    <3>1. /\ ValidIn(V, O, a) /\ P[a] = O[a] /\ a \in UsersIn(V, O, i)
      BY <1>5, <1>6, <2>2 DEF UsersIn
    <3>2. acc = 0
      BY <1>2, <3>1
    <3>3. F[i].fs = O[a].fs /\ F[i].key = O[a].key /\ ~O[a].write
      BY <1>0, <1>3, <2>2, <3>1, <3>2 DEF LockInv, OwnInv
    <3> QED
      BY <1>2, <1>3, <2>2, <3>1, <3>3
  <2>3. CASE a # h /\ O[a].lockid # i + 1
    <3>1. ValidIn(V, O, a) /\ P[a] = O[a]
      BY <1>5, <1>6, <2>3
    <3>2. O[a].lockid # 0 => O[a].lockid - 1 \in Idx /\ O[a].lockid - 1 # i
      BY <1>1, <1>3, <2>3, NLockAssumption DEF ObjectId, Idx
    <3>3. O[a].lockid # 0 => G[O[a].lockid - 1] = F[O[a].lockid - 1]
      BY <1>2, <3>2
    <3> QED
      BY <3>1, <3>3 DEF LockInv, OwnInv
  <2> QED
    BY <2>1, <2>2, <2>3
<1> QED
  BY <1>2, <1>7, <1>8, <1>13, <1>14, <1>15 DEF LockInv, G, P, i

\* f_open that fails after inc_lock: the entry stays, in write mode, unused.
LEMMA Leak ==
  ASSUME NEW F, NEW V, NEW n, NEW O, NEW T, LockInv(F, V, n, O, T),
         NEW v, NEW k, MayLock(F, V, T, v, k, 1)
  PROVE  LockInv(inc_lock(F, v, k, 1), V, n, O, T)
<1> DEFINE G == inc_lock(F, v, k, 1)
           i == First(Slots(F, v, k))
<1>1. /\ G \in [Idx -> LockEntry]
      /\ i \in Idx
      /\ G[i] = [fs |-> v, key |-> k, ctr |-> WMode]
      /\ \A j \in Idx : j # i => G[j] = F[j]
      /\ UsersIn(V, O, i) = {}
      /\ MountInv(G, V) /\ TableInv(G) /\ ExistInv(G, T)
  BY IncTable DEF Locked
<1> HIDE DEF G, i
<1>2. CountInv(G, V, O)
  BY <1>1 DEF LockInv, CountInv
<1>3. WriteInv(G)
  BY <1>1 DEF LockInv, WriteInv, MayLock
<1>4. OwnInv(G, V, O)
  <2> SUFFICES ASSUME NEW a \in Handle, ValidIn(V, O, a), O[a].lockid # 0
               PROVE  G[O[a].lockid - 1] = F[O[a].lockid - 1]
    BY DEF LockInv, OwnInv
  <2>1. O[a].lockid \in 0 .. NLock
    BY DEF LockInv, TypeInv, ObjectId
  <2>2. O[a].lockid - 1 \in Idx /\ (O[a].lockid - 1) + 1 = O[a].lockid
    BY <2>1, NLockAssumption DEF Idx
  <2>3. O[a].lockid - 1 # i
    BY <1>1, <2>2 DEF UsersIn
  <2> QED
    BY <1>1, <2>2, <2>3
<1>5. TypeInv(G, V, n, O, T)
  BY <1>1 DEF LockInv, TypeInv
<1> QED
  BY <1>1, <1>2, <1>3, <1>4, <1>5 DEF LockInv, G

\* f_close: the entry counts one user less, or is blank without users.
LEMMA Release ==
  ASSUME NEW F, NEW V, NEW n, NEW O, NEW T, LockInv(F, V, n, O, T),
         NEW h \in Handle, ValidIn(V, O, h), O[h].lockid # 0
  PROVE  LockInv(dec_lock(F, O[h].lockid), V, n, [O EXCEPT ![h] = Closed], T)
<1> DEFINE i == O[h].lockid - 1
           m == IF F[i].ctr = WMode \/ F[i].ctr = 0 THEN 0 ELSE F[i].ctr - 1
           G == dec_lock(F, O[h].lockid)
           P == [O EXCEPT ![h] = Closed]
<1>1. /\ F \in [Idx -> LockEntry] /\ O \in [Handle -> ObjectId]
      /\ O[h].lockid \in 0 .. NLock
  BY DEF LockInv, TypeInv, ObjectId
<1>2. i \in Idx /\ i + 1 = O[h].lockid /\ F[i].ctr \in Nat
  BY <1>1, NLockAssumption DEF Idx, LockEntry
<1>3. Blank \in LockEntry /\ Blank.fs = NoVol /\ Blank.ctr = 0
  BY DEF Blank, LockEntry, Key, RootKey
<1>4. Closed \in ObjectId /\ Closed.fs = NoVol /\ Closed.id = 0
  BY NLockAssumption DEF Closed, ObjectId, Key, RootKey
<1>5. G = [F EXCEPT ![i] = IF m = 0 THEN Blank ELSE [F[i] EXCEPT !.ctr = m]]
  BY DEF dec_lock
<1>6. /\ P \in [Handle -> ObjectId] /\ P[h] = Closed
      /\ \A a \in Handle : a # h => P[a] = O[a]
  BY <1>1, <1>4
<1>7. m \in Nat
  BY <1>2
<1>8. F[i] = [fs |-> F[i].fs, key |-> F[i].key, ctr |-> F[i].ctr]
      /\ F[i].fs \in Vol \cup {NoVol} /\ F[i].key \in Key
  BY <1>1, <1>2 DEF LockEntry
<1> HIDE DEF i, m, G, P
<1>9. /\ G[i] = IF m = 0 THEN Blank ELSE [F[i] EXCEPT !.ctr = m]
      /\ \A j \in Idx : j # i => G[j] = F[j]
  BY <1>1, <1>2, <1>5
<1>10. m # 0 => G[i] = [fs |-> F[i].fs, key |-> F[i].key, ctr |-> m]
  BY <1>8, <1>9
<1>11. G \in [Idx -> LockEntry]
  <2>1. G[i] \in LockEntry
    BY <1>3, <1>7, <1>8, <1>9, <1>10 DEF LockEntry
  <2> QED
    BY <1>1, <1>2, <1>5, <1>9, <2>1
<1>12. /\ ~ValidIn(V, P, h)
       /\ \A a \in Handle : a # h => (ValidIn(V, P, a) <=> ValidIn(V, O, a))
  BY <1>4, <1>6 DEF ValidIn
<1>13. h \in UsersIn(V, O, i) /\ UsersIn(V, P, i) = UsersIn(V, O, i) \ {h}
  BY <1>2, <1>6, <1>12 DEF UsersIn
<1>14. ASSUME NEW j \in Idx, j # i
       PROVE  UsersIn(V, P, j) = UsersIn(V, O, j)
  <2>1. O[h].lockid # j + 1
    BY <1>2, <1>14, NLockAssumption DEF Idx
  <2> QED
    BY <1>6, <1>12, <2>1 DEF UsersIn
<1>15. m < WMode /\ Cardinality(UsersIn(V, P, i)) <= m
  <2>1. CASE F[i].ctr = WMode
    <3>1. UsersIn(V, P, i) = {}
      BY <1>2, <1>13, <2>1 DEF LockInv, CountInv
    <3> QED
      BY <2>1, <3>1, FS_EmptySet, WModeAssumption DEF m
  <2>2. CASE F[i].ctr # WMode
    <3>1. Cardinality(UsersIn(V, O, i)) <= F[i].ctr /\ F[i].ctr < WMode
      BY <1>2, <2>2 DEF LockInv, CountInv
    <3>2. Cardinality(UsersIn(V, P, i)) = Cardinality(UsersIn(V, O, i)) - 1
      BY <1>13, UsersFinite, FS_RemoveElement
    <3>3. /\ Cardinality(UsersIn(V, P, i)) \in Nat
          /\ Cardinality(UsersIn(V, O, i)) \in Nat
      BY UsersFinite
    <3> QED
      BY <1>2, <2>2, <3>1, <3>2, <3>3, WModeAssumption DEF m
  <2> QED
    BY <2>1, <2>2
<1>16. m = 0 => Cardinality(UsersIn(V, P, i)) = 0
  BY <1>15, UsersFinite
<1>17. m = 0 => UsersIn(V, P, i) = {}
  BY <1>16, UsersFinite, FS_EmptySet
<1>18. MountInv(G, V)
  BY <1>3, <1>9, <1>10 DEF LockInv, MountInv
<1>19. TableInv(G)
  <2>1. \A a \in Idx : G[a].fs = NoVol => G[a].ctr = 0
    <3>1. F[i].fs # NoVol
      BY <1>2 DEF LockInv, OwnInv, ValidIn, i
    <3> QED
      BY <1>3, <1>9, <1>10, <3>1 DEF LockInv, TableInv
  <2>2. \A a \in Idx : G[a].fs # NoVol => G[a].fs = F[a].fs /\ G[a].key = F[a].key
    BY <1>3, <1>9, <1>10
  <2> QED
    BY <2>1, <2>2 DEF LockInv, TableInv
<1>20. ExistInv(G, T)
  BY <1>3, <1>9, <1>10, VolAssumption DEF LockInv, ExistInv
<1>21. WriteInv(G)
  BY <1>3, <1>7, <1>9, <1>10, <1>15, WModeAssumption DEF LockInv, WriteInv
<1>22. CountInv(G, V, P)
  <2>1. G[i].ctr = m
    BY <1>3, <1>9, <1>10
  <2> QED
    <3> SUFFICES ASSUME NEW j \in Idx
                 PROVE  IF G[j].ctr = WMode
                          THEN \A a, b \in UsersIn(V, P, j) : a = b
                          ELSE /\ G[j].ctr < WMode
                               /\ Cardinality(UsersIn(V, P, j)) <= G[j].ctr
      BY DEF CountInv
    <3>1. CASE j = i
      BY <1>7, <1>15, <2>1, <3>1, WModeAssumption
    <3>2. CASE j # i
      BY <1>9, <1>14, <3>2 DEF LockInv, CountInv
    <3> QED
      BY <3>1, <3>2
<1>23. OwnInv(G, V, P)
  <2> SUFFICES ASSUME NEW a \in Handle, a # h, ValidIn(V, O, a), O[a].lockid # 0
               PROVE  LET s == G[O[a].lockid - 1] IN
                      /\ s.fs = O[a].fs
                      /\ s.key = O[a].key
                      /\ O[a].write => s.ctr = WMode
    BY <1>6, <1>12 DEF LockInv, OwnInv
  <2>1. /\ F[O[a].lockid - 1].fs = O[a].fs
        /\ F[O[a].lockid - 1].key = O[a].key
        /\ O[a].write => F[O[a].lockid - 1].ctr = WMode
    BY DEF LockInv, OwnInv
  <2>2. O[a].lockid - 1 \in Idx /\ (O[a].lockid - 1) + 1 = O[a].lockid
    BY <1>1, NLockAssumption DEF Idx, ObjectId
  <2>3. CASE O[a].lockid - 1 # i
    BY <1>9, <2>1, <2>2, <2>3
  <2>4. CASE O[a].lockid - 1 = i
    <3>1. a \in UsersIn(V, P, i)
      BY <1>6, <1>12, <2>2, <2>4 DEF UsersIn
    <3>2. m # 0
      BY <1>17, <3>1
    <3>3. F[i].ctr # WMode
      BY <3>2 DEF m
    <3> QED
      BY <1>10, <2>1, <2>4, <3>2, <3>3
  <2> QED
    BY <2>3, <2>4
<1>24. TypeInv(G, V, n, P, T)
  BY <1>6, <1>11 DEF LockInv, TypeInv
<1>25. IdsBelow(V, n, P)
  BY <1>4, <1>6 DEF LockInv, IdsBelow, TypeInv
<1> QED
  BY <1>18, <1>19, <1>20, <1>21, <1>22, <1>23, <1>24, <1>25 DEF LockInv, G, P

----------------------------------------------------------------------------
(* The calls.                                                              *)

\* Only an entry that is not locked may leave the directory tree.
LEMMA TreeChange ==
  ASSUME NEW F, NEW V, NEW n, NEW O, NEW T, LockInv(F, V, n, O, T),
         NEW U \in [Vol -> [Entry -> {NoObj, IsFile} \cup Cluster]],
         \A v \in Vol, e \in Entry :
           U[v][e] = NoObj => T[v][e] = NoObj \/ Lookup(F, v, FileKey(e)) = {}
  PROVE  LockInv(F, V, n, O, U)
<1>1. TypeInv(F, V, n, O, U)
  BY DEF LockInv, TypeInv
<1>2. ExistInv(F, U)
  BY DEF LockInv, ExistInv, Lookup
<1> QED
  BY <1>1, <1>2 DEF LockInv

\* find_volume that succeeds: the volume is mounted, by this call or before,
\* and the same objects are usable.
LEMMA FoundInv ==
  ASSUME LockInv(Files, vol, Fsid, obj, tree), NEW v \in Vol, Found(v)
  PROVE  /\ LockInv(FoundFiles(v), FoundVol(v), FoundFsid(v), obj, tree)
         /\ FoundVol(v)[v].fs_type
         /\ \A h \in Handle : Valid(h) <=> ValidIn(FoundVol(v), obj, h)
<1>1. /\ vol \in [Vol -> Volume] /\ Fsid \in Nat /\ obj \in [Handle -> ObjectId]
      /\ IdsBelow(vol, Fsid, obj)
  BY DEF LockInv, TypeInv
<1>2. \A h \in Handle : Valid(h) <=> ValidIn(vol, obj, h)
  BY DEF Valid, ValidIn
<1>3. CASE vol[v].fs_type
  <2>1. FoundFiles(v) = Files /\ FoundVol(v) = vol /\ FoundFsid(v) = Fsid
    BY <1>3 DEF FoundFiles, FoundVol, FoundFsid
  <2> QED
    BY <1>2, <1>3, <2>1
<1>4. CASE ~vol[v].fs_type
  <2>1. /\ FoundFiles(v) = clear_lock(Files, v)
        /\ FoundVol(v) = [vol EXCEPT ![v] = [reg |-> TRUE, fs_type |-> TRUE, id |-> Fsid + 1]]
        /\ FoundFsid(v) = Fsid + 1
    BY <1>4 DEF FoundFiles, FoundVol, FoundFsid, Mounted
  <2>2. LockInv(FoundFiles(v), FoundVol(v), FoundFsid(v), obj, tree)
    <3>1. TRUE \in BOOLEAN
      OBVIOUS
    <3>2. LockInv(clear_lock(Files, v),
                  [vol EXCEPT ![v] = [reg |-> TRUE, fs_type |-> TRUE,
                                      id |-> IF TRUE THEN Fsid + 1 ELSE vol[v].id]],
                  IF TRUE THEN Fsid + 1 ELSE Fsid, obj, tree)
      BY <3>1, Remount, Zenon
    <3> QED
      BY <2>1, <3>2, Zenon
  <2>3. FoundVol(v)[v].fs_type
    BY <1>1, <2>1
  <2>4. \A h \in Handle : ValidIn(FoundVol(v), obj, h) <=> ValidIn(vol, obj, h)
    <3> SUFFICES ASSUME NEW h \in Handle
                 PROVE  ValidIn(FoundVol(v), obj, h) <=> ValidIn(vol, obj, h)
      OBVIOUS
    <3>1. CASE obj[h].fs = v
      <4>1. obj[h].id <= Fsid /\ obj[h].id \in Nat
        BY <1>1 DEF IdsBelow, ObjectId
      <4>2. ~ValidIn(vol, obj, h)
        BY <1>4, <3>1 DEF ValidIn
      <4>3. ~ValidIn(FoundVol(v), obj, h)
        BY <1>1, <2>1, <3>1, <4>1 DEF ValidIn
      <4> QED
        BY <4>2, <4>3
    <3>2. CASE obj[h].fs # v
      BY <1>1, <2>1, <3>2 DEF ValidIn, ObjectId
    <3> QED
      BY <3>1, <3>2
  <2> QED
    BY <1>2, <2>2, <2>3, <2>4
<1> QED
  BY <1>3, <1>4

\* chk_lock and enq_lock promise what inc_lock needs, and the file that f_open
\* found or created exists.
LEMMA OpenChecked ==
  ASSUME NEW F, NEW V, NEW n, NEW O, LockInv(F, V, n, O, tree),
         NEW v \in Vol, V[v].fs_type, NEW e \in Entry, NEW mode \in Mode,
         OpenCheck(F, v, e, mode) = "FR_OK",
         CanInc(F, v, FileKey(e), Access(mode)) =>
           ReadBound(F, v, FileKey(e), Access(mode))
  PROVE  MayLock(F, V, [tree EXCEPT ![v][e] = IsFile], v, FileKey(e), Access(mode))
<1> DEFINE k == FileKey(e)
           acc == Access(mode)
           L == Lookup(F, v, k)
           i == First(Slots(F, v, k))
<1>1. acc \in {0, 1} /\ acc # 2
  BY DEF Access
<1>2. k \in Key /\ k # RootKey /\ k.ofs # 0
  BY EntryAssumption DEF FileKey, Key, RootKey
<1>3. tree[v][e] = NoObj => L = {}
  BY VolAssumption DEF LockInv, ExistInv, Lookup
<1>4. ASSUME L = {}
      PROVE  CanInc(F, v, k, acc) /\ (acc = 0 => F[i].ctr # WMode)
  <2>1. Slots(F, v, k) = Blanks(F)
    BY <1>4 DEF Slots
  <2>2. Blanks(F) # {}
    BY <1>1, <1>4 DEF OpenCheck, chk_lock, enq_lock
  <2>3. i \in Blanks(F)
    BY <2>1, <2>2, FirstIn DEF Blanks
  <2>4. F[i].ctr = 0
    BY <2>3 DEF Blanks, LockInv, TableInv
  <2> QED
    BY <2>1, <2>2, <2>4, WModeAssumption DEF CanInc
<1>5. ASSUME L # {}
      PROVE  CanInc(F, v, k, acc) /\ (acc = 0 => F[i].ctr # WMode)
  <2>1. Slots(F, v, k) = L
    BY <1>5 DEF Slots
  <2>2. acc = 0 /\ F[i].ctr # WMode
    BY <1>1, <1>3, <1>5, <2>1 DEF OpenCheck, chk_lock
  <2> QED
    BY <1>5, <2>1, <2>2 DEF CanInc
<1>6. CanInc(F, v, k, acc) /\ (acc = 0 => F[i].ctr # WMode)
  BY <1>4, <1>5
<1>7. \A x \in Entry : k = FileKey(x) => [tree EXCEPT ![v][e] = IsFile][v][x] # NoObj
  <2>1. tree \in [Vol -> [Entry -> {NoObj, IsFile} \cup Cluster]]
    BY DEF LockInv, TypeInv
  <2>2. [tree EXCEPT ![v][e] = IsFile][v][e] = IsFile
    BY <2>1
  <2> QED
    BY <2>2 DEF FileKey, NoObj, IsFile
<1> QED
  BY <1>1, <1>2, <1>6, <1>7 DEF MayLock

\* f_open keeps the invariant, whether it succeeds, fails, or leaks its entry.
LEMMA OpenInv ==
  ASSUME IInv, NEW h \in Handle, NEW v \in Vol, NEW e \in Entry, NEW mode \in Mode,
         NEW b \in BOOLEAN, f_open(h, v, e, mode, b)
  PROVE  IInv'
<1> DEFINE F == FoundFiles(v)
           V == FoundVol(v)
           n == FoundFsid(v)
           k == FileKey(e)
           acc == Access(mode)
           chk == OpenCheck(F, v, e, mode)
           inc == chk = "FR_OK" /\ CanInc(F, v, k, acc)
           i == First(Slots(F, v, k))
           D == [obj EXCEPT ![h] = Closed]
           x == [fs |-> v, id |-> V[v].id, key |-> k, lockid |-> i + 1,
                 write |-> acc # 0]
<1>1. /\ Found(v)
      /\ inc => ReadBound(F, v, k, acc)
      /\ b => inc /\ mode = "append"
      /\ Files' = IF inc THEN inc_lock(F, v, k, acc) ELSE F
      /\ vol' = V /\ Fsid' = n
      /\ obj' = [obj EXCEPT ![h] = IF inc /\ ~b THEN x ELSE Closed]
      /\ tree' = IF chk = "FR_OK" THEN [tree EXCEPT ![v][e] = IsFile] ELSE tree
      /\ res' = IF b THEN "FR_DISK_ERR"
                ELSE IF inc THEN "FR_OK"
                ELSE IF chk = "FR_OK" THEN "FR_INT_ERR" ELSE chk
  BY DEF f_open, Opened
<1>2. /\ LockInv(F, V, n, D, tree) /\ V[v].fs_type
      /\ ~ValidIn(V, D, h)
      /\ \A y : [D EXCEPT ![h] = y] = [obj EXCEPT ![h] = y]
  <2>1. LockInv(F, V, n, obj, tree) /\ V[v].fs_type
    BY <1>1, FoundInv DEF IInv
  <2> HIDE DEF F, V, n
  <2> QED
    BY <2>1, Drop, Zenon
<1>3. chk = "FR_OK" => MayLock(F, V, [tree EXCEPT ![v][e] = IsFile], v, k, acc)
  BY <1>1, <1>2, OpenChecked
<1>4. chk \in Result \ {"FR_INT_ERR"}
  BY DEF OpenCheck, chk_lock, Result
<1>5. LockInv(F, V, n, D, tree')
  <2>1. CASE chk = "FR_OK"
    <3>1. tree' = [tree EXCEPT ![v][e] = IsFile]
      BY <1>1, <2>1
    <3>2. tree \in [Vol -> [Entry -> {NoObj, IsFile} \cup Cluster]]
      BY <1>2 DEF LockInv, TypeInv
    <3>3. tree' \in [Vol -> [Entry -> {NoObj, IsFile} \cup Cluster]]
      BY <3>1, <3>2
    <3>4. \A u \in Vol, y \in Entry : tree'[u][y] = NoObj => tree[u][y] = NoObj
      BY <3>1, <3>2 DEF NoObj, IsFile
    <3> QED
      BY <1>2, <3>3, <3>4, TreeChange
  <2>2. CASE chk # "FR_OK"
    BY <1>1, <1>2, <2>2
  <2> QED
    BY <2>1, <2>2
<1>6. chk = "FR_OK" => inc /\ MayLock(F, V, tree', v, k, acc)
  BY <1>1, <1>3 DEF MayLock
<1> HIDE DEF F, V, n, k, acc, chk, inc, i, x, D
<1>7. LockInv(Files', vol', Fsid', obj', tree')
  <2>1. CASE chk # "FR_OK"
    <3>1. Files' = F /\ obj' = [obj EXCEPT ![h] = Closed]
      BY <1>1, <2>1 DEF inc
    <3> QED
      BY <1>1, <1>5, <3>1 DEF D
  <2>2. CASE chk = "FR_OK" /\ ~b
    <3>1. Files' = inc_lock(F, v, k, acc) /\ obj' = [obj EXCEPT ![h] = x]
      BY <1>1, <1>6, <2>2
    <3>2. LockInv(inc_lock(F, v, k, acc), V, n, [D EXCEPT ![h] = x], tree')
      BY <1>2, <1>5, <1>6, <2>2, Acquire DEF x, i
    <3>3. [D EXCEPT ![h] = x] = [obj EXCEPT ![h] = x]
      BY <1>2
    <3> QED
      BY <1>1, <3>1, <3>2, <3>3
  <2>3. CASE chk = "FR_OK" /\ b
    <3>1. Files' = inc_lock(F, v, k, 1) /\ obj' = [obj EXCEPT ![h] = Closed]
      BY <1>1, <1>6, <2>3 DEF acc, Access
    <3>2. MayLock(F, V, tree', v, k, 1)
      BY <1>1, <1>6, <2>3 DEF acc, Access
    <3>3. LockInv(inc_lock(F, v, k, 1), V, n, D, tree')
      BY <1>5, <3>2, Leak
    <3> QED
      BY <1>1, <3>1, <3>3 DEF D
  <2> QED
    BY <2>1, <2>2, <2>3
<1>8. res' \in Result \ {"FR_INT_ERR"}
  BY <1>1, <1>4, <1>6 DEF Result
<1> QED
  BY <1>7, <1>8 DEF IInv

\* A closed handle, as the calls leave it that fail.
LEMMA ClosedFacts ==
  /\ Closed \in ObjectId /\ Closed.id = 0 /\ Closed.lockid = 0
  /\ Closed.key = RootKey /\ ~Closed.write
<1> QED
  BY NLockAssumption DEF Closed, ObjectId, Key, RootKey

\* f_opendir keeps the invariant: a directory is only read.
LEMMA OpendirInv ==
  ASSUME IInv, NEW h \in Handle, NEW v \in Vol, NEW c \in Cluster \cup {0},
         f_opendir(h, v, c)
  PROVE  IInv'
<1> DEFINE F == FoundFiles(v)
           V == FoundVol(v)
           n == FoundFsid(v)
           k == DirKey(c)
           i == First(Slots(F, v, k))
           D == [obj EXCEPT ![h] = Closed]
           root == [fs |-> v, id |-> V[v].id, key |-> k, lockid |-> 0,
                    write |-> FALSE]
           sub == [fs |-> v, id |-> V[v].id, key |-> k, lockid |-> i + 1,
                   write |-> FALSE]
           inc == c # 0 /\ CanInc(F, v, k, 0)
<1>1. /\ Found(v)
      /\ inc => ReadBound(F, v, k, 0)
      /\ Files' = IF inc THEN inc_lock(F, v, k, 0) ELSE F
      /\ vol' = V /\ Fsid' = n
      /\ obj' = [obj EXCEPT ![h] = IF c = 0 THEN root ELSE IF inc THEN sub ELSE Closed]
      /\ tree' = tree
      /\ res' \in Result \ {"FR_INT_ERR"}
  BY DEF f_opendir, Opened, Result
<1>2. /\ LockInv(F, V, n, D, tree) /\ V[v].fs_type
      /\ ~ValidIn(V, D, h)
      /\ \A y : [D EXCEPT ![h] = y] = [obj EXCEPT ![h] = y]
  <2>1. LockInv(F, V, n, obj, tree) /\ V[v].fs_type
    BY <1>1, FoundInv DEF IInv
  <2> HIDE DEF F, V, n
  <2> QED
    BY <2>1, Drop, Zenon
<1>3. /\ V \in [Vol -> Volume] /\ n \in Nat /\ V[v].id \in Nat /\ V[v].id <= n
  BY <1>2 DEF LockInv, TypeInv, IdsBelow, Volume
<1>4. k \in Key /\ (c = 0 => k = RootKey) /\ (c # 0 => k # RootKey)
  BY DEF DirKey, Key, RootKey
<1>5. inc => MayLock(F, V, tree, v, k, 0)
  <2> SUFFICES ASSUME inc
               PROVE  MayLock(F, V, tree, v, k, 0)
    OBVIOUS
  <2>1. \A e \in Entry : k # FileKey(e)
    BY DEF DirKey, FileKey
  <2>2. /\ i \in Idx
        /\ (F[i].fs = v /\ F[i].key = k) \/ F[i].fs = NoVol
    BY SlotTaken
  <2>3. F[i].ctr # WMode
    BY <1>2, <2>2, WModeAssumption DEF LockInv, TableInv, WriteInv, DirKey
  <2> QED
    BY <1>1, <1>2, <1>4, <2>1, <2>3 DEF MayLock
<1> HIDE DEF F, V, n, k, i, inc, D
<1>6. LockInv(Files', vol', Fsid', obj', tree')
  <2>1. CASE c = 0
    <3>1. root \in ObjectId
      BY <1>3, <1>4, NLockAssumption DEF ObjectId
    <3>2. Files' = F /\ obj' = [obj EXCEPT ![h] = root]
      BY <1>1, <2>1 DEF inc
    <3>3. ~root.write
      OBVIOUS
    <3>4. root.id <= n /\ root.lockid = 0 /\ root.key = RootKey
      BY <1>3, <1>4, <2>1
    <3> HIDE DEF root
    <3>5. LockInv(F, V, n, [D EXCEPT ![h] = root], tree)
      BY <1>2, <3>1, <3>3, <3>4, Unlocked
    <3> QED
      BY <1>1, <1>2, <3>2, <3>5
  <2>2. CASE c # 0 /\ inc
    <3>1. Files' = inc_lock(F, v, k, 0) /\ obj' = [obj EXCEPT ![h] = sub]
      BY <1>1, <2>2
    <3>2. LockInv(inc_lock(F, v, k, 0), V, n,
                  [D EXCEPT ![h] = [fs |-> v, id |-> V[v].id, key |-> k,
                                    lockid |-> First(Slots(F, v, k)) + 1,
                                    write |-> 0 # 0]], tree)
      BY <1>2, <1>5, <2>2, Acquire
    <3>3. (0 # 0) = FALSE
      OBVIOUS
    <3>4. LockInv(inc_lock(F, v, k, 0), V, n, [D EXCEPT ![h] = sub], tree)
      BY <3>2, <3>3, Zenon DEF i
    <3>5. [D EXCEPT ![h] = sub] = [obj EXCEPT ![h] = sub]
      BY <1>2
    <3> QED
      BY <1>1, <3>1, <3>4, <3>5
  <2>3. CASE c # 0 /\ ~inc
    <3>1. Files' = F /\ obj' = [obj EXCEPT ![h] = Closed]
      BY <1>1, <2>3
    <3> QED
      BY <1>1, <1>2, <3>1 DEF D
  <2> QED
    BY <2>1, <2>2, <2>3
<1> QED
  BY <1>1, <1>6 DEF IInv

\* The calls that fail before inc_lock leave a closed handle.
LEMMA OpenFailsInv ==
  ASSUME IInv, NEW h \in Handle, NEW v \in Vol,
         open_disk_error(h, v) \/ open_no_volume(h, v)
  PROVE  IInv'
<1>1. CASE open_disk_error(h, v)
  <2>1. /\ Found(v)
        /\ Files' = FoundFiles(v) /\ vol' = FoundVol(v) /\ Fsid' = FoundFsid(v)
        /\ obj' = [obj EXCEPT ![h] = Closed] /\ tree' = tree
        /\ res' \in Result \ {"FR_INT_ERR"}
    BY <1>1 DEF open_disk_error, Result
  <2>2. LockInv(FoundFiles(v), FoundVol(v), FoundFsid(v), obj, tree)
    BY <2>1, FoundInv DEF IInv
  <2>3. LockInv(FoundFiles(v), FoundVol(v), FoundFsid(v), [obj EXCEPT ![h] = Closed], tree)
    BY <2>2, Drop, Zenon
  <2> QED
    BY <2>1, <2>3 DEF IInv
<1>2. CASE open_no_volume(h, v)
  <2>1. /\ UNCHANGED <<Files, vol, Fsid, tree>>
        /\ obj' = [obj EXCEPT ![h] = Closed]
        /\ res' \in Result \ {"FR_INT_ERR"}
    BY <1>2 DEF open_no_volume, find_volume_fails, Result
  <2>2. LockInv(Files, vol, Fsid, [obj EXCEPT ![h] = Closed], tree)
    BY Drop, Zenon DEF IInv
  <2> QED
    BY <2>1, <2>2 DEF IInv
<1> QED
  BY <1>1, <1>2

\* f_close and f_closedir keep the invariant.
LEMMA CloseInv ==
  ASSUME IInv, NEW h \in Handle, f_close(h)
  PROVE  IInv'
<1>1. /\ ValidIn(vol, obj, h)
      /\ LockInv(Files, vol, Fsid, obj, tree)
      /\ Files' = IF obj[h].lockid = 0 THEN Files ELSE dec_lock(Files, obj[h].lockid)
      /\ obj' = [obj EXCEPT ![h] = Closed]
      /\ UNCHANGED <<vol, Fsid, tree>>
      /\ res' \in Result \ {"FR_INT_ERR"}
  BY DEF IInv, f_close, Valid, ValidIn, Result
<1>2. 0 <= Fsid
  BY <1>1 DEF LockInv, TypeInv
<1>3. CASE obj[h].lockid = 0
  <2>1. LockInv(Files, vol, Fsid, [obj EXCEPT ![h] = Closed], tree)
    BY <1>1, <1>2, <1>3, ClosedFacts, Unlocked
  <2> QED
    BY <1>1, <1>3, <2>1 DEF IInv
<1>4. CASE obj[h].lockid # 0
  <2>1. LockInv(dec_lock(Files, obj[h].lockid), vol, Fsid, [obj EXCEPT ![h] = Closed], tree)
    BY <1>1, <1>4, Release
  <2> QED
    BY <1>1, <1>4, <2>1 DEF IInv
<1> QED
  BY <1>3, <1>4

\* The path functions: after find_volume, an entry disappears from the tree
\* only if chk_lock found no lock on it.
LEMMA EnterInv ==
  ASSUME IInv, NEW v \in Vol, Enter(v), res' \in Result \ {"FR_INT_ERR"},
         tree' \in [Vol -> [Entry -> {NoObj, IsFile} \cup Cluster]],
         \A u \in Vol, e \in Entry :
           tree'[u][e] = NoObj =>
             tree[u][e] = NoObj \/ Lookup(FoundFiles(v), u, FileKey(e)) = {}
  PROVE  IInv'
<1>1. LockInv(FoundFiles(v), FoundVol(v), FoundFsid(v), obj, tree)
  BY FoundInv DEF IInv, Enter
<1>2. LockInv(FoundFiles(v), FoundVol(v), FoundFsid(v), obj, tree')
  BY <1>1, TreeChange
<1> QED
  BY <1>2 DEF IInv, Enter

\* The guard that f_unlink and f_rename share.
LEMMA NotLocked ==
  ASSUME NEW F, NEW v, NEW k, chk_lock(F, v, k, 2) = "FR_OK"
  PROVE  Lookup(F, v, k) = {}
<1> QED
  BY DEF chk_lock

\* f_unlink keeps the invariant.
LEMMA UnlinkInv ==
  ASSUME IInv, NEW v \in Vol, NEW e \in Entry, NEW b \in BOOLEAN, f_unlink(v, e, b)
  PROVE  IInv'
<1> DEFINE F == FoundFiles(v)
           ok == tree[v][e] # NoObj /\ chk_lock(F, v, FileKey(e), 2) = "FR_OK"
<1>1. /\ Enter(v)
      /\ tree' = IF ok THEN [tree EXCEPT ![v][e] = NoObj] ELSE tree
  BY DEF f_unlink
<1>2. res' \in Result \ {"FR_INT_ERR"}
  BY DEF f_unlink, chk_lock, Result
<1>3. tree \in [Vol -> [Entry -> {NoObj, IsFile} \cup Cluster]]
  BY DEF IInv, LockInv, TypeInv
<1>4. ok => Lookup(F, v, FileKey(e)) = {}
  BY NotLocked
<1> HIDE DEF ok
<1>5. tree' \in [Vol -> [Entry -> {NoObj, IsFile} \cup Cluster]]
  BY <1>1, <1>3
<1>6. \A u \in Vol, y \in Entry :
        tree'[u][y] = NoObj => tree[u][y] = NoObj \/ Lookup(F, u, FileKey(y)) = {}
  BY <1>1, <1>3, <1>4
<1> QED
  BY <1>1, <1>2, <1>5, <1>6, EnterInv

\* f_rename keeps the invariant.
LEMMA RenameInv ==
  ASSUME IInv, NEW v \in Vol, NEW e \in Entry, NEW new \in Entry,
         NEW b \in BOOLEAN, f_rename(v, e, new, b)
  PROVE  IInv'
<1> DEFINE F == FoundFiles(v)
           lock == chk_lock(F, v, FileKey(e), 2)
           ok == /\ tree[v][e] # NoObj /\ lock = "FR_OK"
                 /\ tree[v][new] = NoObj
           N == [tree EXCEPT ![v][new] = tree[v][e],
                             ![v][e] = IF b THEN tree[v][e] ELSE NoObj]
<1>1. /\ Enter(v) /\ e # new
      /\ tree' = IF ok THEN N ELSE tree
  BY DEF f_rename
<1>2. res' \in Result \ {"FR_INT_ERR"}
  BY DEF f_rename, chk_lock, Result
<1>3. tree \in [Vol -> [Entry -> {NoObj, IsFile} \cup Cluster]]
  BY DEF IInv, LockInv, TypeInv
<1>4. ok => Lookup(F, v, FileKey(e)) = {} /\ tree[v][e] # NoObj
  BY NotLocked
<1>5. N \in [Vol -> [Entry -> {NoObj, IsFile} \cup Cluster]]
  BY <1>3
<1>6. \A u \in Vol, y \in Entry :
        N[u][y] = IF u # v THEN tree[u][y]
                  ELSE IF y = e THEN (IF b THEN tree[v][e] ELSE NoObj)
                  ELSE IF y = new THEN tree[v][e] ELSE tree[u][y]
  BY <1>1, <1>3
<1> HIDE DEF ok, N
<1>7. tree' \in [Vol -> [Entry -> {NoObj, IsFile} \cup Cluster]]
  BY <1>1, <1>3, <1>5
<1>8. \A u \in Vol, y \in Entry :
        tree'[u][y] = NoObj => tree[u][y] = NoObj \/ Lookup(F, u, FileKey(y)) = {}
  BY <1>1, <1>4, <1>6
<1> QED
  BY <1>1, <1>2, <1>7, <1>8, EnterInv

\* The other path functions take no entry away.
LEMMA PathInv ==
  ASSUME IInv, NEW v \in Vol,
         \/ \E e \in Entry, c \in Cluster : f_mkdir(v, e, c)
         \/ path_disk_error(v)
         \/ path_no_volume(v)
  PROVE  IInv'
<1>1. tree \in [Vol -> [Entry -> {NoObj, IsFile} \cup Cluster]]
  BY DEF IInv, LockInv, TypeInv
<1>2. ASSUME NEW e \in Entry, NEW c \in Cluster, f_mkdir(v, e, c)
      PROVE  IInv'
  <2>1. /\ Enter(v) /\ res' \in Result \ {"FR_INT_ERR"}
        /\ tree' = IF tree[v][e] = NoObj THEN [tree EXCEPT ![v][e] = c] ELSE tree
    BY <1>2 DEF f_mkdir, Result
  <2>2. c # NoObj
    BY ClusterAssumption DEF NoObj
  <2>3. tree' \in [Vol -> [Entry -> {NoObj, IsFile} \cup Cluster]]
    BY <1>1, <2>1
  <2>4. \A u \in Vol, y \in Entry : tree'[u][y] = NoObj => tree[u][y] = NoObj
    BY <1>1, <2>1, <2>2
  <2> QED
    BY <2>1, <2>3, <2>4, EnterInv
<1>3. CASE path_disk_error(v)
  <2>1. Enter(v) /\ tree' = tree /\ res' \in Result \ {"FR_INT_ERR"}
    BY <1>3 DEF path_disk_error, Result
  <2> QED
    BY <1>1, <2>1, EnterInv
<1>4. CASE path_no_volume(v)
  <2>1. UNCHANGED <<Files, vol, Fsid, obj, tree>> /\ res' \in Result \ {"FR_INT_ERR"}
    BY <1>4 DEF path_no_volume, find_volume_fails, Result
  <2> QED
    BY <2>1 DEF IInv
<1> QED
  BY <1>2, <1>3, <1>4

\* f_mount clears the locks of its volume and no others.
LEMMA MountStepInv ==
  ASSUME IInv, NEW v \in Vol, NEW reg \in BOOLEAN, NEW now \in BOOLEAN,
         f_mount(v, reg, now)
  PROVE  IInv'
<1> DEFINE C == clear_lock(Files, v)
           F == IF vol[v].reg THEN C ELSE Files
<1>1. LockInv(Files, vol, Fsid, obj, tree) /\ vol \in [Vol -> Volume]
  BY DEF IInv, LockInv, TypeInv
<1>2. F = C
  <2>1. ~vol[v].reg => ~vol[v].fs_type
    BY <1>1 DEF LockInv, MountInv
  <2> QED
    BY <1>1, <2>1, NothingToClear
<1>3. clear_lock(C, v) = C
  BY DEF clear_lock, Blank
<1>4. /\ now => reg
      /\ Files' = IF now THEN clear_lock(F, v) ELSE F
      /\ Fsid' = IF now THEN Fsid + 1 ELSE Fsid
      /\ vol' = [vol EXCEPT ![v] = [reg |-> reg, fs_type |-> now,
                                    id |-> IF now THEN Fsid + 1 ELSE vol[v].id]]
      /\ UNCHANGED <<obj, tree>>
      /\ res' \in Result \ {"FR_INT_ERR"}
  BY <1>1 DEF f_mount, Result
<1>5. Files' = C
  BY <1>2, <1>3, <1>4
<1>6. LockInv(Files', vol', Fsid', obj, tree)
  <2>1. LockInv(C, [vol EXCEPT ![v] = [reg |-> reg, fs_type |-> now,
                                       id |-> IF now THEN Fsid + 1 ELSE vol[v].id]],
                IF now THEN Fsid + 1 ELSE Fsid, obj, tree)
    BY <1>1, <1>4, Remount, Zenon
  <2> QED
    BY <1>4, <1>5, <2>1, Zenon
<1> QED
  BY <1>4, <1>6 DEF IInv

----------------------------------------------------------------------------
(* The theorems.                                                           *)

\* The invariant holds before the first call.
LEMMA InitInv ==
  ASSUME Init
  PROVE  IInv
<1>1. /\ Blank \in LockEntry /\ Blank.fs = NoVol /\ Blank.ctr = 0
      /\ Closed.fs = NoVol
  BY DEF Blank, Closed, LockEntry, Key, RootKey
<1>2. TypeInv(Files, vol, Fsid, obj, tree)
  <2>1. tree \in [Vol -> [Entry -> {NoObj, IsFile} \cup Cluster]]
    BY DEF Init
  <2> QED
    BY <1>1, <2>1, ClosedFacts DEF Init, TypeInv, Volume
<1>3. IdsBelow(vol, Fsid, obj)
  BY ClosedFacts DEF Init, IdsBelow
<1>4. MountInv(Files, vol) /\ TableInv(Files)
  BY <1>1 DEF Init, MountInv, TableInv
<1>5. \A h \in Handle : ~ValidIn(vol, obj, h)
  BY <1>1 DEF Init, ValidIn
<1>6. OwnInv(Files, vol, obj)
  BY <1>5 DEF OwnInv
<1>7. CountInv(Files, vol, obj)
  <2>1. \A i \in Idx : UsersIn(vol, obj, i) = {} /\ Files[i].ctr = 0
    BY <1>1, <1>5 DEF UsersIn, Init
  <2> QED
    BY <2>1, FS_EmptySet, WModeAssumption DEF CountInv
<1>8. WriteInv(Files)
  BY <1>1, WModeAssumption DEF Init, WriteInv
<1>9. ExistInv(Files, tree)
  BY <1>1, VolAssumption DEF Init, ExistInv
<1>10. res \in Result \ {"FR_INT_ERR"}
  BY DEF Init, Result
<1> QED
  BY <1>2, <1>3, <1>4, <1>6, <1>7, <1>8, <1>9, <1>10 DEF IInv, LockInv

\* No call breaks the invariant.
LEMMA NextInv ==
  ASSUME IInv, [Next]_vars
  PROVE  IInv'
<1>1. CASE OpenStep
  BY <1>1, OpenInv, OpendirInv, OpenFailsInv DEF OpenStep
<1>2. CASE CloseStep
  <2>1. ASSUME NEW h \in Handle, f_close(h)
        PROVE  IInv'
    BY <2>1, CloseInv
  <2>2. ASSUME NEW h \in Handle, f_close_sync_error(h) \/ call_invalid(h)
        PROVE  IInv'
    BY <2>2 DEF f_close_sync_error, call_invalid, IInv, Result
  <2> QED
    BY <1>2, <2>1, <2>2 DEF CloseStep
<1>3. CASE TreeStep
  BY <1>3, UnlinkInv, RenameInv, PathInv DEF TreeStep
<1>4. CASE MountStep
  BY <1>4, MountStepInv DEF MountStep
<1>5. CASE UNCHANGED vars
  BY <1>5 DEF vars, IInv
<1> QED
  BY <1>1, <1>2, <1>3, <1>4, <1>5 DEF Next

\* The semaphore table, the mount ids, the objects and the directory tree fit
\* together in every reachable state, with any number of drives, entries and
\* handles and any _FS_LOCK.
THEOREM Inductive == Spec => []IInv
<1> QED
  BY InitInv, NextInv, PTL DEF Spec

\* The module's type invariant.
THEOREM TypeCorrect == Spec => []TypeOK
<1>1. IInv => TypeOK
  BY DEF IInv, LockInv, TypeInv, TypeOK
<1> QED
  BY <1>1, Inductive, PTL

\* validate is ValidIn at the current volumes.
LEMMA ValidNow ==
  ASSUME NEW h \in Handle
  PROVE  Valid(h) <=> ValidIn(vol, obj, h)
<1> QED
  BY DEF Valid, ValidIn

\* A usable object owns its entry of Files[].
LEMMA Own ==
  ASSUME IInv, NEW h \in Handle, Valid(h), obj[h].lockid # 0
  PROVE  LET s == Files[obj[h].lockid - 1] IN
         /\ s.fs = obj[h].fs
         /\ s.key = obj[h].key
         /\ obj[h].write => s.ctr = WMode
         /\ obj[h].lockid - 1 \in Idx
         /\ h \in UsersIn(vol, obj, obj[h].lockid - 1)
<1>1. obj[h].lockid \in 0 .. NLock
  BY DEF IInv, LockInv, TypeInv, ObjectId
<1>2. obj[h].lockid - 1 \in Idx /\ (obj[h].lockid - 1) + 1 = obj[h].lockid
  BY <1>1, NLockAssumption DEF Idx
<1> QED
  BY <1>2, ValidNow DEF IInv, LockInv, OwnInv, UsersIn

\* Closing a usable object releases its own lock and not another's.
THEOREM LocksAreOwn == Spec => []LockidIsOwn
<1>1. IInv => LockidIsOwn
  BY Own DEF LockidIsOwn
<1> QED
  BY <1>1, Inductive, PTL

\* A writer's entry has one user, and an object has one entry.
LEMMA ExclusiveInv == IInv => ExclusiveWriter
<1>1. ASSUME IInv, NEW h \in Handle, NEW k \in Handle, Valid(h), Valid(k),
             obj[h].fs = obj[k].fs, obj[h].key = obj[k].key, obj[h].write
      PROVE  h = k
  <2> DEFINE i == obj[h].lockid - 1
             j == obj[k].lockid - 1
  <2>1. obj[h].lockid # 0
    BY <1>1, ValidNow DEF IInv, LockInv, OwnInv
  <2>2. /\ Files[i].fs = obj[h].fs /\ Files[i].key = obj[h].key
        /\ Files[i].ctr = WMode /\ i \in Idx /\ h \in UsersIn(vol, obj, i)
    BY <1>1, <2>1, Own
  <2>3. obj[h].fs # NoVol
    BY <1>1 DEF Valid
  <2>4. obj[k].lockid # 0
    BY <1>1, <2>2, <2>3, ValidNow DEF IInv, LockInv, OwnInv, TableInv
  <2>5. /\ Files[j].fs = obj[k].fs /\ Files[j].key = obj[k].key
        /\ j \in Idx /\ k \in UsersIn(vol, obj, j)
    BY <1>1, <2>4, Own
  <2> HIDE DEF i, j
  <2>6. i = j
    BY <1>1, <2>2, <2>3, <2>5 DEF IInv, LockInv, TableInv
  <2> QED
    BY <1>1, <2>2, <2>5, <2>6 DEF IInv, LockInv, CountInv
<1> QED
  BY <1>1 DEF ExclusiveWriter

\* A file open for writing is open once: FR_LOCKED keeps the sharing policy.
THEOREM WritersAreExclusive == Spec => []ExclusiveWriter
<1> QED
  BY ExclusiveInv, Inductive, PTL

\* No close deletes an entry that another usable object relies on.
THEOREM CountersCover == Spec => []CounterCovers
<1>1. ASSUME IInv, NEW i \in Idx
      PROVE  IF Files[i].ctr = WMode THEN \A h, k \in OpenAt(i) : h = k
             ELSE Cardinality(OpenAt(i)) <= Files[i].ctr
  <2>1. OpenAt(i) = UsersIn(vol, obj, i)
    BY ValidNow DEF OpenAt, UsersIn
  <2>2. Cardinality(UsersIn(vol, obj, i)) \in Nat
    BY UsersFinite
  <2> QED
    BY <1>1, <2>1, <2>2 DEF IInv, LockInv, CountInv
<1>2. IInv => CounterCovers
  BY <1>1 DEF CounterCovers
<1> QED
  BY <1>2, Inductive, PTL

\* chk_lock and enq_lock keep their promise: f_open never fails in inc_lock.
THEOREM InternalErrorImpossible == Spec => []NoInternalError
<1>1. IInv => NoInternalError
  BY DEF IInv, NoInternalError
<1> QED
  BY <1>1, Inductive, PTL

\* f_unlink and f_rename take no file away from under a usable object.
THEOREM FilesStay == Spec => OpenFileKeepsEntry
<1>1. ASSUME IInv, IInv', [Next]_vars, NEW v \in Vol, NEW e \in Entry,
             tree[v][e] = IsFile, tree'[v][e] # IsFile,
             NEW h \in Handle, Valid(h)', obj'[h].fs = v, obj'[h].key = FileKey(e)
      PROVE  FALSE
  <2>1. tree \in [Vol -> [Entry -> {NoObj, IsFile} \cup Cluster]]
    BY <1>1 DEF IInv, LockInv, TypeInv
  <2>2. Lookup(Files', v, FileKey(e)) = {}
    <3>1. ASSUME NEW u \in Vol, NEW y \in Entry, NEW b \in BOOLEAN, f_unlink(u, y, b)
          PROVE  Lookup(Files', v, FileKey(e)) = {}
      <4>1. u = v /\ y = e
        BY <1>1, <2>1, <3>1 DEF f_unlink
      <4>2. chk_lock(FoundFiles(v), v, FileKey(e), 2) = "FR_OK"
        BY <1>1, <3>1, <4>1 DEF f_unlink
      <4> QED
        BY <3>1, <4>1, <4>2, NotLocked DEF f_unlink, Enter
    <3>2. ASSUME NEW u \in Vol, NEW y \in Entry, NEW new \in Entry,
                 NEW b \in BOOLEAN, f_rename(u, y, new, b)
          PROVE  Lookup(Files', v, FileKey(e)) = {}
      <4> DEFINE lock == chk_lock(FoundFiles(u), u, FileKey(y), 2)
      <4>1. /\ lock = "FR_OK" /\ tree[u][new] = NoObj /\ y # new
            /\ tree' = [tree EXCEPT ![u][new] = tree[u][y],
                                    ![u][y] = IF b THEN tree[u][y] ELSE NoObj]
        BY <1>1, <3>2 DEF f_rename
      <4>2. u = v /\ y = e
        BY <1>1, <2>1, <4>1 DEF NoObj, IsFile
      <4> QED
        BY <3>2, <4>1, <4>2, NotLocked DEF f_rename, Enter
    <3>3. ASSUME NEW u \in Vol, NEW y \in Entry, NEW c \in Cluster, f_mkdir(u, y, c)
          PROVE  FALSE
      BY <1>1, <2>1, <3>3 DEF f_mkdir, NoObj, IsFile
    <3>4. CASE OpenStep
      <4>1. tree' = tree \/ \E u \in Vol, y \in Entry : tree' = [tree EXCEPT ![u][y] = IsFile]
        <5>1. ASSUME NEW g \in Handle, NEW u \in Vol, NEW y \in Entry, NEW mode \in Mode,
                     NEW b \in BOOLEAN, f_open(g, u, y, mode, b)
              PROVE  tree' = tree \/ tree' = [tree EXCEPT ![u][y] = IsFile]
          <6> DEFINE ok == OpenCheck(FoundFiles(u), u, y, mode) = "FR_OK"
          <6>1. tree' = IF ok THEN [tree EXCEPT ![u][y] = IsFile] ELSE tree
            BY <5>1 DEF f_open
          <6> HIDE DEF ok
          <6> QED
            BY <6>1
        <5>2. \A g \in Handle, u \in Vol, c \in Cluster \cup {0} :
                f_opendir(g, u, c) => tree' = tree
          BY DEF f_opendir
        <5>3. \A g \in Handle, u \in Vol :
                open_disk_error(g, u) \/ open_no_volume(g, u) => tree' = tree
          BY DEF open_disk_error, open_no_volume, find_volume_fails
        <5> QED
          BY <3>4, <5>1, <5>2, <5>3 DEF OpenStep
      <4> QED
        BY <1>1, <2>1, <4>1
    <3>5. (CloseStep \/ MountStep) => tree' = tree
      BY DEF CloseStep, f_close, f_close_sync_error, call_invalid, MountStep, f_mount
    <3>6. \A u \in Vol : path_no_volume(u) \/ path_disk_error(u) => tree' = tree
      BY DEF path_no_volume, path_disk_error, find_volume_fails
    <3> QED
      BY <1>1, <3>1, <3>2, <3>3, <3>4, <3>5, <3>6 DEF Next, TreeStep, vars
  <2>3. FileKey(e) # RootKey
    BY EntryAssumption DEF FileKey, RootKey
  <2>4. ValidIn(vol, obj, h)'
    BY <1>1 DEF Valid, ValidIn
  <2>5. obj'[h].lockid \in 0 .. NLock
    BY <1>1 DEF IInv, LockInv, TypeInv, ObjectId
  <2>6. obj'[h].lockid # 0
    BY <1>1, <2>3, <2>4 DEF IInv, LockInv, OwnInv
  <2>7. obj'[h].lockid - 1 \in Lookup(Files', v, FileKey(e))
    <3>1. obj'[h].lockid - 1 \in Idx
      BY <2>5, <2>6, NLockAssumption DEF Idx
    <3> QED
      BY <1>1, <2>4, <2>6, <3>1 DEF IInv, LockInv, OwnInv, Lookup
  <2> QED
    BY <2>2, <2>7
<1>2. ASSUME IInv, IInv', [Next]_vars
      PROVE  [\A v \in Vol, e \in Entry :
                tree[v][e] = IsFile /\ tree'[v][e] # IsFile =>
                  \A h \in Handle :
                    ~(Valid(h)' /\ obj'[h].fs = v /\ obj'[h].key = FileKey(e))]_vars
  BY <1>1, <1>2
<1> QED
  BY <1>2, Inductive, PTL DEF Spec, OpenFileKeepsEntry

----------------------------------------------------------------------------
(* FileLock implements SharingPolicy.                                      *)

\* A usable object holds a grant; the handle of another holds none.
LEMMA GrantTypes ==
  ASSUME TypeInv(Files, vol, Fsid, obj, tree), NEW h \in Handle
  PROVE  /\ Valid(h) => Grant(h) \in Sharing!Grant
         /\ Grant(h) # NoGrant
<1>1. obj[h] \in ObjectId
  BY DEF TypeInv
<1>2. Grant(h) # NoGrant
  <2>1. "none" \notin DOMAIN Grant(h)
    BY DEF Grant
  <2>2. "none" \in DOMAIN NoGrant
    BY DEF NoGrant
  <2> QED
    BY <2>1, <2>2
<1> QED
  BY <1>1, <1>2 DEF Grant, Valid, ObjectId, Sharing!Grant

\* Granted changes with Valid and the handle's fs, key and write only.
LEMMA SameGrants ==
  ASSUME \A h \in Handle : Valid(h)' <=> Valid(h),
         \A h \in Handle : Valid(h) => Grant(h)' = Grant(h)
  PROVE  Granted' = Granted
<1> QED
  BY DEF Granted

\* One handle changes: an Acquire of the sharing policy if it is usable then, a
\* Release if it was usable before, else a stutter.
LEMMA AcquireRefined ==
  ASSUME IInv, IInv', NEW g \in Handle,
         \A h \in Handle : h # g => (Valid(h)' <=> Valid(h)) /\ obj'[h] = obj[h]
  PROVE  [Sharing!Next]_Granted
<1>0. ExclusiveWriter'
  BY ExclusiveInv, PTL
<1>1. \A h \in Handle : h # g => Grant(h)' = Grant(h)
  BY DEF Grant
<1>2. CASE ~Valid(g)'
  <2>1. CASE ~Valid(g)
    BY <1>1, <1>2, <2>1, SameGrants
  <2>2. CASE Valid(g)
    <3>1. Granted' = [Granted EXCEPT ![g] = NoGrant]
      BY <1>1, <1>2 DEF Granted
    <3>2. Granted[g] # NoGrant
      BY <2>2, GrantTypes DEF Granted, IInv, LockInv
    <3> QED
      BY <3>1, <3>2 DEF Sharing!Next, Sharing!Release, Sharing!Holds
  <2> QED
    BY <2>1, <2>2
<1>3. CASE Valid(g)'
  <2>1. Grant(g)' \in Sharing!Grant /\ \A h \in Handle : Grant(h) # NoGrant
    <3>1. TypeInv(Files, vol, Fsid, obj, tree) /\ TypeInv(Files, vol, Fsid, obj, tree)'
      BY DEF IInv, LockInv
    <3>2. \A h \in Handle : Grant(h) # NoGrant
      BY <3>1, GrantTypes
    <3>3. obj'[g] \in ObjectId /\ obj'[g].fs # NoVol
      BY <1>3, <3>1 DEF TypeInv, Valid
    <3> QED
      BY <3>2, <3>3 DEF Grant, ObjectId, Sharing!Grant
  <2>2. ASSUME NEW k \in Handle \ {g}, Granted[k] # NoGrant,
               Granted[k].vol = Grant(g)'.vol, Granted[k].key = Grant(g)'.key
        PROVE  ~Grant(g)'.write /\ ~Granted[k].write
    <3>1. Valid(k) /\ Granted[k] = Grant(k)
      BY <2>2 DEF Granted
    <3>2. k # g /\ Valid(k)' /\ obj'[k] = obj[k]
      BY <3>1
    <3>3. obj'[k].fs = obj'[g].fs /\ obj'[k].key = obj'[g].key
      BY <2>2, <3>1, <3>2 DEF Grant
    <3>4. ~obj'[g].write /\ ~obj'[k].write
      BY <1>0, <1>3, <3>2, <3>3 DEF ExclusiveWriter
    <3> QED
      BY <3>1, <3>2, <3>4 DEF Grant
  <2>3. Granted' = [Granted EXCEPT ![g] = Grant(g)']
    BY <1>1, <1>3 DEF Granted
  <2>4. Sharing!Acquire(g, Grant(g)')
    BY <2>2, <2>3 DEF Sharing!Acquire, Sharing!Holds, Sharing!SameObject
  <2>5. g \in DOMAIN Granted
    BY DEF Granted
  <2>6. Granted'[g] = Grant(g)'
    BY <2>3, <2>5
  <2> QED
    BY <2>1, <2>4, <2>6 DEF Sharing!Next
<1> QED
  BY <1>2, <1>3

\* The calls that open or fail to open change the grant of their handle only.
LEMMA OpenRefined ==
  ASSUME IInv, IInv', OpenStep
  PROVE  [Sharing!Next]_Granted
<1>1. /\ obj \in [Handle -> ObjectId]
  BY DEF IInv, LockInv, TypeInv
<1>2. ASSUME NEW g \in Handle, NEW v \in Vol, Found(v),
             vol' = FoundVol(v), NEW x, obj' = [obj EXCEPT ![g] = x]
      PROVE  [Sharing!Next]_Granted
  <2>1. \A h \in Handle : Valid(h) <=> ValidIn(FoundVol(v), obj, h)
    BY <1>2, FoundInv DEF IInv
  <2>2. \A h \in Handle : h # g => obj'[h] = obj[h]
    BY <1>1, <1>2
  <2>3. \A h \in Handle : h # g => (Valid(h)' <=> Valid(h))
    BY <1>2, <2>1, <2>2 DEF Valid, ValidIn
  <2> QED
    BY <1>2, <2>2, <2>3, AcquireRefined
<1>3. ASSUME NEW g \in Handle, NEW v \in Vol, NEW e \in Entry, NEW mode \in Mode,
             NEW b \in BOOLEAN, f_open(g, v, e, mode, b)
      PROVE  [Sharing!Next]_Granted
  <2>1. Found(v) /\ vol' = FoundVol(v) /\ \E x : obj' = [obj EXCEPT ![g] = x]
    BY <1>3 DEF f_open
  <2> QED
    BY <1>2, <2>1
<1>4. ASSUME NEW g \in Handle, NEW v \in Vol, NEW c \in Cluster \cup {0}, f_opendir(g, v, c)
      PROVE  [Sharing!Next]_Granted
  <2>1. Found(v) /\ vol' = FoundVol(v) /\ \E x : obj' = [obj EXCEPT ![g] = x]
    BY <1>4 DEF f_opendir
  <2> QED
    BY <1>2, <2>1
<1>5. ASSUME NEW g \in Handle, NEW v \in Vol, open_disk_error(g, v)
      PROVE  [Sharing!Next]_Granted
  BY <1>2, <1>5 DEF open_disk_error
<1>6. ASSUME NEW g \in Handle, NEW v \in Vol, open_no_volume(g, v)
      PROVE  [Sharing!Next]_Granted
  <2>1. vol' = vol /\ obj' = [obj EXCEPT ![g] = Closed]
    BY <1>6 DEF open_no_volume, find_volume_fails
  <2>2. \A h \in Handle : h # g => obj'[h] = obj[h]
    BY <1>1, <2>1
  <2>3. \A h \in Handle : h # g => (Valid(h)' <=> Valid(h))
    BY <2>1, <2>2 DEF Valid
  <2> QED
    BY <2>1, <2>2, <2>3, AcquireRefined
<1> QED
  BY <1>3, <1>4, <1>5, <1>6 DEF OpenStep

\* f_close is a Release; a call that fails on the object changes no grant.
LEMMA CloseRefined ==
  ASSUME IInv, CloseStep
  PROVE  [Sharing!Next]_Granted
<1>1. TypeInv(Files, vol, Fsid, obj, tree) /\ obj \in [Handle -> ObjectId]
  BY DEF IInv, LockInv, TypeInv
<1>2. ASSUME NEW g \in Handle, f_close(g)
      PROVE  [Sharing!Next]_Granted
  <2>1. Valid(g) /\ vol' = vol /\ obj' = [obj EXCEPT ![g] = Closed]
    BY <1>2 DEF f_close
  <2>2. ~Valid(g)'
    BY <1>1, <2>1 DEF Valid, Closed
  <2>3. \A h \in Handle : h # g => obj'[h] = obj[h]
    BY <1>1, <2>1
  <2>4. \A h \in Handle : h # g => (Valid(h)' <=> Valid(h)) /\ Grant(h)' = Grant(h)
    BY <2>1, <2>3 DEF Valid, Grant
  <2>5. Granted' = [Granted EXCEPT ![g] = NoGrant]
    BY <2>2, <2>4 DEF Granted
  <2>6. Granted[g] # NoGrant
    BY <1>1, <2>1, GrantTypes DEF Granted
  <2> QED
    BY <2>5, <2>6 DEF Sharing!Next, Sharing!Release, Sharing!Holds
<1>3. ASSUME NEW g \in Handle, f_close_sync_error(g) \/ call_invalid(g)
      PROVE  [Sharing!Next]_Granted
  <2>1. vol' = vol /\ obj' = obj
    BY <1>3 DEF f_close_sync_error, call_invalid
  <2> QED
    BY <2>1 DEF Granted, Valid, Grant
<1> QED
  BY <1>2, <1>3 DEF CloseStep

\* The path functions and a mount on demand change no grant.
LEMMA TreeRefined ==
  ASSUME IInv, TreeStep
  PROVE  [Sharing!Next]_Granted
<1>1. ASSUME NEW v \in Vol, Enter(v)
      PROVE  Granted' = Granted
  <2>1. \A h \in Handle : Valid(h) <=> ValidIn(FoundVol(v), obj, h)
    BY <1>1, FoundInv DEF IInv, Enter
  <2>2. \A h \in Handle : Valid(h)' <=> Valid(h)
    BY <1>1, <2>1 DEF Enter, Valid, ValidIn
  <2>3. \A h \in Handle : Grant(h)' = Grant(h)
    BY <1>1 DEF Enter, Grant
  <2> QED
    BY <2>2, <2>3, SameGrants
<1>2. ASSUME NEW v \in Vol, path_no_volume(v)
      PROVE  Granted' = Granted
  <2>1. vol' = vol /\ obj' = obj
    BY <1>2 DEF path_no_volume, find_volume_fails
  <2> QED
    BY <2>1 DEF Granted, Valid, Grant
<1>3. \/ \E v \in Vol : Enter(v)
      \/ \E v \in Vol : path_no_volume(v)
  <2>1. \A v \in Vol, e \in Entry, b \in BOOLEAN : f_unlink(v, e, b) => Enter(v)
    BY DEF f_unlink
  <2>2. \A v \in Vol, e \in Entry, c \in Cluster : f_mkdir(v, e, c) => Enter(v)
    BY DEF f_mkdir
  <2>3. \A v \in Vol, e \in Entry, new \in Entry, b \in BOOLEAN :
          f_rename(v, e, new, b) => Enter(v)
    BY DEF f_rename
  <2>4. \A v \in Vol : path_disk_error(v) => Enter(v)
    BY DEF path_disk_error
  <2> QED
    BY <2>1, <2>2, <2>3, <2>4 DEF TreeStep
<1> QED
  BY <1>1, <1>2, <1>3

\* f_mount revokes the grants of its volume.
LEMMA MountRefined ==
  ASSUME IInv, MountStep
  PROVE  [Sharing!Next]_Granted
<1>1. PICK v \in Vol, reg \in BOOLEAN, now \in BOOLEAN : f_mount(v, reg, now)
  BY DEF MountStep
<1>2. /\ vol \in [Vol -> Volume] /\ Fsid \in Nat /\ obj \in [Handle -> ObjectId]
      /\ IdsBelow(vol, Fsid, obj) /\ TypeInv(Files, vol, Fsid, obj, tree)
  BY DEF IInv, LockInv, TypeInv
<1> DEFINE id == IF now THEN Fsid + 1 ELSE vol[v].id
<1>3. /\ vol' = [vol EXCEPT ![v] = [reg |-> reg, fs_type |-> now, id |-> id]]
      /\ obj' = obj
      /\ id \in Nat /\ (now => id = Fsid + 1)
  BY <1>1, <1>2 DEF f_mount, Volume
<1> HIDE DEF id
<1>4. ASSUME NEW h \in Handle
      PROVE  Valid(h)' <=> Valid(h) /\ obj[h].fs # v
  <2>1. ValidIn([vol EXCEPT ![v] = [reg |-> reg, fs_type |-> now, id |-> id]], obj, h)
          <=> ValidIn(vol, obj, h) /\ obj[h].fs # v
    BY <1>2, <1>3, RemountValid
  <2> QED
    BY <1>3, <2>1 DEF Valid, ValidIn
<1>5. ASSUME NEW h \in Handle
      PROVE  /\ Grant(h)' = Grant(h) /\ Grant(h).vol = obj[h].fs
             /\ Grant(h) # NoGrant
  BY <1>2, <1>3, GrantTypes DEF Grant
<1>6. Granted' = [h \in Handle |->
                    IF Granted[h] # NoGrant /\ Granted[h].vol = v
                      THEN NoGrant ELSE Granted[h]]
  BY <1>4, <1>5 DEF Granted
<1> QED
  BY <1>6 DEF Sharing!Next, Sharing!Revoke, Sharing!Holds

\* Files[], the mount ids and validate implement the sharing policy: any
\* number of readers or one writer of an object, until a mount revokes them.
THEOREM SharingImplemented == Spec => SharingRefined
<1>1. Init => Sharing!Init
  BY DEF Init, Sharing!Init, Granted, Valid, Closed
<1>2. ASSUME IInv, IInv', [Next]_vars
      PROVE  [Sharing!Next]_Granted
  <2>1. CASE UNCHANGED vars
    BY <2>1 DEF vars, Granted, Valid, Grant
  <2> QED
    BY <1>2, <2>1, OpenRefined, CloseRefined, TreeRefined, MountRefined DEF Next
<1> QED
  BY <1>1, <1>2, Inductive, PTL DEF Spec, SharingRefined, Sharing!Spec
=============================================================================
