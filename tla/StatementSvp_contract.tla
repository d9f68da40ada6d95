----------------------- MODULE StatementSvp_contract -------------------------
(***************************************************************************)
(* What level Statement(2) promises an application that leaves autocommit  *)
(* off and makes one call at a time (Managed): the session it sees is the  *)
(* one of TransactionContract.  For any number of statement handles,       *)
(* writes and savepoints, and a connection that may break at any command.  *)
(***************************************************************************)
EXTENDS ManagedUse, StatementSvp_proofs, FiniteSetTheorems

-----------------------------------------------------------------------------
(* The savepoints of the application among those on the stack.             *)

\* The ranks of the application's savepoints number them without a gap.
LEMMA OwnPlacesFinite ==
    ASSUME NEW b, b.svps \in Seq(Frame)
    PROVE  /\ OwnPlaces(b) \subseteq 1 .. Len(b.svps) /\ IsFiniteSet(OwnPlaces(b))
           /\ Cardinality(OwnPlaces(b)) \in Nat
           /\ \A i \in Nat : /\ IsFiniteSet({j \in OwnPlaces(b) : j <= i})
                             /\ UpTo(b, i) \in 0 .. Cardinality(OwnPlaces(b))
  <1>1. OwnPlaces(b) \subseteq 1 .. Len(b.svps)
    BY DEF OwnPlaces
  <1>2. IsFiniteSet(1 .. Len(b.svps))
    BY FS_Interval
  <1>3. IsFiniteSet(OwnPlaces(b)) /\ Cardinality(OwnPlaces(b)) \in Nat
    BY <1>1, <1>2, FS_Subset, FS_CardinalityType
  <1>4. ASSUME NEW i \in Nat
        PROVE  /\ IsFiniteSet({j \in OwnPlaces(b) : j <= i})
               /\ UpTo(b, i) \in 0 .. Cardinality(OwnPlaces(b))
    <2> DEFINE low == {j \in OwnPlaces(b) : j <= i}
    <2>1. low \in SUBSET OwnPlaces(b)
      OBVIOUS
    <2>2. IsFiniteSet(low) /\ Cardinality(low) <= Cardinality(OwnPlaces(b))
      BY <2>1, <1>3, FS_Subset
    <2>3. Cardinality(low) \in Nat
      BY <2>2, FS_CardinalityType
    <2> QED BY <2>2, <2>3, <1>3 DEF UpTo
  <1> QED BY <1>1, <1>3, <1>4

\* Ranks grow along the stack.
LEMMA RankGrows ==
    ASSUME NEW b, b.svps \in Seq(Frame), NEW i \in Nat, NEW j \in OwnPlaces(b), i < j
    PROVE  UpTo(b, i) < UpTo(b, j)
  <1> DEFINE low == {k \in OwnPlaces(b) : k <= i}
             high == {k \in OwnPlaces(b) : k <= j}
  <1>1. OwnPlaces(b) \subseteq Nat /\ j \in Nat
    BY OwnPlacesFinite
  <1>2. IsFiniteSet(high) /\ IsFiniteSet(low)
    BY <1>1, OwnPlacesFinite
  <1>3. low \in SUBSET high /\ low # high
    <2>1. j \in high /\ j \notin low
      BY <1>1
    <2>2. \A k \in low : k \in high
      BY <1>1
    <2> QED BY <2>1, <2>2
  <1>4. Cardinality(low) <= Cardinality(high) /\ Cardinality(low) # Cardinality(high)
    BY <1>2, <1>3, FS_Subset
  <1>5. Cardinality(low) \in Nat /\ Cardinality(high) \in Nat
    BY <1>2, FS_CardinalityType
  <1> QED BY <1>4, <1>5 DEF UpTo

\* A rank is a number of one savepoint, and ranks have the order of the stack.
LEMMA RankOrders ==
    ASSUME NEW b, b.svps \in Seq(Frame), NEW i \in OwnPlaces(b), NEW j \in OwnPlaces(b)
    PROVE  /\ UpTo(b, i) \in 1 .. Cardinality(OwnPlaces(b))
           /\ i <= j <=> UpTo(b, i) <= UpTo(b, j)
           /\ i = j <=> UpTo(b, i) = UpTo(b, j)
  <1>1. i \in Nat \ {0} /\ j \in Nat \ {0}
    BY OwnPlacesFinite
  <1>2. /\ UpTo(b, i) \in Nat /\ UpTo(b, j) \in Nat /\ UpTo(b, 0) \in Nat
        /\ UpTo(b, i) <= Cardinality(OwnPlaces(b)) /\ Cardinality(OwnPlaces(b)) \in Nat
    <2>1. /\ Cardinality(OwnPlaces(b)) \in Nat
          /\ \A m \in Nat : UpTo(b, m) \in 0 .. Cardinality(OwnPlaces(b))
      BY OwnPlacesFinite
    <2>2. i \in Nat /\ j \in Nat /\ 0 \in Nat
      BY <1>1
    <2> QED BY <2>1, <2>2
  <1>3. UpTo(b, 0) < UpTo(b, i)
    BY <1>1, RankGrows
  <1>4. i < j => UpTo(b, i) < UpTo(b, j)
    BY <1>1, RankGrows
  <1>5. j < i => UpTo(b, j) < UpTo(b, i)
    BY <1>1, RankGrows
  <1> QED BY <1>1, <1>2, <1>3, <1>4, <1>5

\* Every rank belongs to a savepoint.
LEMMA RankReached ==
    ASSUME NEW b, b.svps \in Seq(Frame), NEW k \in 1 .. Cardinality(OwnPlaces(b))
    PROVE  \E i \in OwnPlaces(b) : UpTo(b, i) = k
  <1> DEFINE S == OwnPlaces(b)
             n == Cardinality(S)
             f == [i \in S |-> UpTo(b, i)]
  <1>1. IsFiniteSet(S) /\ n \in Nat
    BY OwnPlacesFinite
  <1>2. \A i \in S : UpTo(b, i) \in 1 .. n
    BY RankOrders
  <1>3. \A i, j \in S : UpTo(b, i) = UpTo(b, j) => i = j
    BY RankOrders
  <1>4. f \in Injection(S, 1 .. n)
    BY <1>2, <1>3 DEF Injection, IsInjective
  <1>5. IsFiniteSet(1 .. n) /\ Cardinality(1 .. n) = n
    BY <1>1, FS_Interval
  <1>6. f \in Surjection(S, 1 .. n)
    BY <1>1, <1>4, <1>5, FS_Injection
  <1> QED BY <1>6 DEF Surjection

\* The savepoints of the application, each at its rank.
LEMMA UserSvpsAt ==
    ASSUME NEW b, b.svps \in Seq(Frame)
    PROVE  /\ UserSvps(b) \in Seq(Frame)
           /\ Len(UserSvps(b)) = Cardinality(OwnPlaces(b))
           /\ DOMAIN UserSvps(b) = 1 .. Cardinality(OwnPlaces(b))
           /\ \A i \in OwnPlaces(b) : /\ UpTo(b, i) \in DOMAIN UserSvps(b)
                                      /\ UserSvps(b)[UpTo(b, i)] = b.svps[i]
           /\ \A k \in DOMAIN UserSvps(b) :
                 \E i \in OwnPlaces(b) : UpTo(b, i) = k /\ UserSvps(b)[k] = b.svps[i]
  <1> DEFINE n == Cardinality(OwnPlaces(b))
             at(k) == CHOOSE i \in OwnPlaces(b) : UpTo(b, i) = k
  <1>1. n \in Nat /\ OwnPlaces(b) \subseteq 1 .. Len(b.svps)
    BY OwnPlacesFinite
  <1>2. \A k \in 1 .. n : at(k) \in OwnPlaces(b) /\ UpTo(b, at(k)) = k
    BY RankReached
  <1>3. UserSvps(b) = [k \in 1 .. n |-> b.svps[at(k)]]
    BY DEF UserSvps
  <1>4. \A i \in OwnPlaces(b) : UpTo(b, i) \in 1 .. n /\ at(UpTo(b, i)) = i
    BY <1>2, RankOrders
  <1> HIDE DEF n, at
  <1>5. \A k \in 1 .. n : b.svps[at(k)] \in Frame
    BY <1>1, <1>2
  <1>6. DOMAIN UserSvps(b) = 1 .. n
    BY <1>3
  <1>7. UserSvps(b) \in Seq(Frame) /\ Len(UserSvps(b)) = n
    BY <1>1, <1>3, <1>5
  <1>8. \A k \in 1 .. n : UserSvps(b)[k] = b.svps[at(k)]
    BY <1>3
  <1> QED BY <1>2, <1>4, <1>6, <1>7, <1>8 DEF n

\* Savepoints of the driver do not show.
LEMMA SameUserSvps ==
    ASSUME NEW x, NEW y, x.svps \in Seq(Frame), y.svps \in Seq(Frame),
           OwnPlaces(x) = OwnPlaces(y), \A i \in OwnPlaces(x) : x.svps[i] = y.svps[i]
    PROVE  UserSvps(x) = UserSvps(y)
  <1>1. \A i : UpTo(x, i) = UpTo(y, i)
    BY DEF UpTo
  <1>2. /\ Len(UserSvps(x)) = Len(UserSvps(y))
        /\ UserSvps(x) \in Seq(Frame) /\ UserSvps(y) \in Seq(Frame)
    BY UserSvpsAt
  <1>3. ASSUME NEW k \in DOMAIN UserSvps(x)
        PROVE  UserSvps(x)[k] = UserSvps(y)[k]
    <2>1. PICK i \in OwnPlaces(x) : UpTo(x, i) = k /\ UserSvps(x)[k] = x.svps[i]
      BY UserSvpsAt
    <2> QED BY <1>1, <2>1, UserSvpsAt
  <1> QED BY <1>2, <1>3

\* The driver's SAVEPOINT leaves the application's savepoints as they are,
LEMMA OwnSavepointHidden ==
    ASSUME NEW x, NEW y, x.svps \in Seq(Frame), NEW f \in Frame, f.name = Internal,
           y.svps = Append(x.svps, f)
    PROVE  UserSvps(y) = UserSvps(x)
  <1>1. /\ y.svps \in Seq(Frame) /\ Len(y.svps) = Len(x.svps) + 1
        /\ \A i \in DOMAIN x.svps : y.svps[i] = x.svps[i]
        /\ y.svps[Len(x.svps) + 1] = f
        /\ DOMAIN x.svps = 1 .. Len(x.svps) /\ DOMAIN y.svps = 1 .. (Len(x.svps) + 1)
        /\ Len(x.svps) \in Nat
    OBVIOUS
  <1>2. OwnPlaces(x) = OwnPlaces(y)
    BY <1>1 DEF OwnPlaces
  <1>3. \A i \in OwnPlaces(x) : x.svps[i] = y.svps[i]
    BY <1>1 DEF OwnPlaces
  <1> QED BY <1>1, <1>2, <1>3, SameUserSvps

\* and so does releasing the driver's savepoint on top.
LEMMA OwnSavepointDropped ==
    ASSUME NEW x, NEW y, x.svps \in Seq(Frame), TopOwn(x),
           y.svps = SubSeq(x.svps, 1, Len(x.svps) - 1)
    PROVE  y.svps \in Seq(Frame) /\ UserSvps(y) = UserSvps(x)
  <1>0. Len(x.svps) \in Nat \ {0} /\ DOMAIN x.svps = 1 .. Len(x.svps)
    BY DEF TopOwn
  <1>1. /\ y.svps \in Seq(Frame) /\ Len(y.svps) = Len(x.svps) - 1
        /\ DOMAIN y.svps = 1 .. (Len(x.svps) - 1)
        /\ \A i \in DOMAIN y.svps : y.svps[i] = x.svps[i]
    BY <1>0
  <1>2. OwnPlaces(x) = OwnPlaces(y)
    BY <1>0, <1>1 DEF OwnPlaces, TopOwn
  <1>3. \A i \in OwnPlaces(x) : x.svps[i] = y.svps[i]
    BY <1>1, <1>2 DEF OwnPlaces
  <1> QED BY <1>1, <1>2, <1>3, SameUserSvps

\* A savepoint of the application is the newest of its own.
LEMMA UserSavepointAdded ==
    ASSUME NEW x, NEW y, x.svps \in Seq(Frame), NEW f \in Frame, f.name # Internal,
           y.svps = Append(x.svps, f)
    PROVE  UserSvps(y) = Append(UserSvps(x), f)
  <1> DEFINE m == Len(x.svps) + 1
             n == Cardinality(OwnPlaces(x))
  <1>1. /\ y.svps \in Seq(Frame) /\ Len(y.svps) = Len(x.svps) + 1
        /\ \A i \in DOMAIN x.svps : y.svps[i] = x.svps[i]
        /\ y.svps[m] = f
        /\ DOMAIN x.svps = 1 .. Len(x.svps) /\ DOMAIN y.svps = 1 .. m
        /\ Len(x.svps) \in Nat
    OBVIOUS
  <1>2. OwnPlaces(y) = OwnPlaces(x) \cup {m} /\ m \notin OwnPlaces(x)
    BY <1>1 DEF OwnPlaces
  <1>3. IsFiniteSet(OwnPlaces(x)) /\ n \in Nat
    BY OwnPlacesFinite
  <1>4. Cardinality(OwnPlaces(y)) = n + 1
    BY <1>2, <1>3, FS_AddElement
  <1>5. ASSUME NEW i \in OwnPlaces(x) PROVE UpTo(y, i) = UpTo(x, i)
    <2>1. i \in 1 .. Len(x.svps)
      BY OwnPlacesFinite
    <2>2. {j \in OwnPlaces(y) : j <= i} = {j \in OwnPlaces(x) : j <= i}
      BY <1>1, <1>2, <2>1
    <2> QED BY <2>2 DEF UpTo
  <1>6. UpTo(y, m) = n + 1
    <2>1. OwnPlaces(y) \subseteq 1 .. m
      BY <1>1, OwnPlacesFinite
    <2>2. {j \in OwnPlaces(y) : j <= m} = OwnPlaces(y)
      BY <1>1, <2>1
    <2> QED BY <1>4, <2>2 DEF UpTo
  <1>7. /\ UserSvps(x) \in Seq(Frame) /\ Len(UserSvps(x)) = n
        /\ UserSvps(y) \in Seq(Frame) /\ Len(UserSvps(y)) = n + 1
    BY <1>1, <1>4, UserSvpsAt
  <1>8. \A k \in 1 .. n : UserSvps(y)[k] = UserSvps(x)[k]
    <2> TAKE k \in 1 .. n
    <2>1. PICK i \in OwnPlaces(x) : UpTo(x, i) = k /\ UserSvps(x)[k] = x.svps[i]
      <3>1. k \in DOMAIN UserSvps(x)
        BY UserSvpsAt
      <3> QED BY <3>1, UserSvpsAt
    <2>2. UserSvps(y)[UpTo(y, i)] = y.svps[i]
      BY <1>1, <1>2, UserSvpsAt
    <2>3. i \in DOMAIN x.svps
      BY DEF OwnPlaces
    <2> QED BY <1>1, <1>5, <2>1, <2>2, <2>3
  <1>9. UserSvps(y)[n + 1] = f
    <2>1. m \in OwnPlaces(y)
      BY <1>2
    <2>2. UserSvps(y)[UpTo(y, m)] = y.svps[m]
      BY <1>1, <2>1, UserSvpsAt
    <2> QED BY <1>1, <1>6, <2>2
  <1> HIDE DEF n
  <1> QED BY <1>3, <1>7, <1>8, <1>9

\* What is left of the savepoints up to a place.
LEMMA UserSvpsCut ==
    ASSUME NEW x, NEW y, x.svps \in Seq(Frame), NEW m \in 0 .. Len(x.svps),
           y.svps = SubSeq(x.svps, 1, m)
    PROVE  /\ UpTo(x, m) \in 0 .. Len(UserSvps(x))
           /\ UserSvps(y) = SubSeq(UserSvps(x), 1, UpTo(x, m))
  <1> DEFINE r == UpTo(x, m)
  <1>0. m \in Nat /\ m <= Len(x.svps) /\ DOMAIN x.svps = 1 .. Len(x.svps) /\ Len(x.svps) \in Nat
    OBVIOUS
  <1>1. /\ y.svps \in Seq(Frame) /\ Len(y.svps) = m /\ DOMAIN y.svps = 1 .. m
        /\ \A i \in 1 .. m : y.svps[i] = x.svps[i]
    BY <1>0
  <1>2. OwnPlaces(y) = {i \in OwnPlaces(x) : i <= m}
    BY <1>0, <1>1 DEF OwnPlaces
  <1>3. Cardinality(OwnPlaces(y)) = r
    BY <1>2 DEF UpTo
  <1>4. r \in 0 .. Cardinality(OwnPlaces(x)) /\ Cardinality(OwnPlaces(x)) \in Nat
    BY <1>0, OwnPlacesFinite
  <1>5. ASSUME NEW i \in OwnPlaces(y) PROVE UpTo(y, i) = UpTo(x, i)
    <2>1. i \in 1 .. m
      BY <1>1, OwnPlacesFinite
    <2>2. {j \in OwnPlaces(y) : j <= i} = {j \in OwnPlaces(x) : j <= i}
      <3>1. OwnPlaces(x) \subseteq Nat
        BY OwnPlacesFinite
      <3> QED BY <1>0, <1>2, <2>1, <3>1
    <2> QED BY <2>2 DEF UpTo
  <1>6. /\ UserSvps(x) \in Seq(Frame) /\ Len(UserSvps(x)) = Cardinality(OwnPlaces(x))
        /\ UserSvps(y) \in Seq(Frame) /\ Len(UserSvps(y)) = r
    BY <1>1, <1>3, UserSvpsAt
  <1>7. \A k \in 1 .. r : UserSvps(y)[k] = UserSvps(x)[k]
    <2> TAKE k \in 1 .. r
    <2>1. PICK i \in OwnPlaces(y) : UpTo(y, i) = k /\ UserSvps(y)[k] = y.svps[i]
      <3>1. k \in DOMAIN UserSvps(y)
        BY <1>1, <1>3, UserSvpsAt
      <3> QED BY <1>1, <3>1, UserSvpsAt
    <2>2. i \in OwnPlaces(x) /\ i \in 1 .. m
      <3>1. OwnPlaces(y) \subseteq 1 .. Len(y.svps)
        BY <1>1, OwnPlacesFinite
      <3> QED BY <1>1, <1>2, <3>1
    <2>3. UserSvps(x)[UpTo(x, i)] = x.svps[i]
      BY <2>2, UserSvpsAt
    <2> QED BY <1>1, <1>5, <2>1, <2>2, <2>3
  <1> HIDE DEF r
  <1>8. r \in 0 .. Len(UserSvps(x))
    BY <1>4, <1>6
  <1>9. SubSeq(UserSvps(x), 1, r) \in Seq(Frame) /\ Len(SubSeq(UserSvps(x), 1, r)) = r
        /\ \A k \in 1 .. r : SubSeq(UserSvps(x), 1, r)[k] = UserSvps(x)[k]
    <2>1. \A u \in Seq(Frame) : \A q \in 0 .. Len(u) :
             /\ SubSeq(u, 1, q) \in Seq(Frame) /\ Len(SubSeq(u, 1, q)) = q
             /\ \A k \in 1 .. q : SubSeq(u, 1, q)[k] = u[k]
      OBVIOUS
    <2> QED BY <1>6, <1>8, <2>1
  <1>10. UserSvps(y) = SubSeq(UserSvps(x), 1, r)
    BY <1>6, <1>7, <1>8, <1>9
  <1> QED BY <1>8, <1>10 DEF r

\* The newest savepoint of a name of the application's is the newest of that name
\* among the application's own.
LEMMA NewestOfOwn ==
    ASSUME NEW x \in Session, NEW n, n # Internal
    PROVE  /\ \A i : IsNewest(x, n, i) =>
                      /\ i \in OwnPlaces(x) /\ UpTo(x, i) \in Places(Seen(x), n)
                      /\ IsNewest(Seen(x), n, UpTo(x, i))
           /\ Places(x, n) = {} => Places(Seen(x), n) = {}
  <1>0. Seen(x).svps = UserSvps(x) /\ x.svps \in Seq(Frame)
    BY DEF Seen, Session
  <1>1. \A k \in Places(Seen(x), n) : \E i \in Places(x, n) : i \in OwnPlaces(x) /\ UpTo(x, i) = k
    <2> TAKE k \in Places(Seen(x), n)
    <2>1. k \in DOMAIN UserSvps(x) /\ UserSvps(x)[k].name = n
      BY <1>0 DEF Places
    <2>2. PICK i \in OwnPlaces(x) : UpTo(x, i) = k /\ UserSvps(x)[k] = x.svps[i]
      BY <1>0, <2>1, UserSvpsAt
    <2>3. i \in Places(x, n)
      BY <2>1, <2>2 DEF OwnPlaces, Places
    <2> QED BY <2>2, <2>3
  <1>2. \A i \in Places(x, n) : i \in OwnPlaces(x) /\ UpTo(x, i) \in Places(Seen(x), n)
    <2> TAKE i \in Places(x, n)
    <2>1. i \in OwnPlaces(x) /\ x.svps[i].name = n
      BY DEF Places, OwnPlaces
    <2> QED BY <1>0, <2>1, UserSvpsAt DEF Places
  <1>3. ASSUME NEW i, IsNewest(x, n, i)
        PROVE  IsNewest(Seen(x), n, UpTo(x, i))
    <2>1. i \in Places(x, n) /\ \A j \in Places(x, n) : j <= i
      BY <1>3 DEF IsNewest
    <2>2. \A k \in Places(Seen(x), n) : k <= UpTo(x, i)
      <3> TAKE k \in Places(Seen(x), n)
      <3>1. PICK j \in Places(x, n) : j \in OwnPlaces(x) /\ UpTo(x, j) = k
        BY <1>1
      <3> QED BY <1>2, <2>1, <1>0, <3>1, RankOrders
    <2> QED BY <1>2, <2>1, <2>2 DEF IsNewest
  <1>4. \A i : IsNewest(x, n, i) => i \in Places(x, n)
    BY DEF IsNewest
  <1> QED BY <1>1, <1>2, <1>3, <1>4

-----------------------------------------------------------------------------
(* What the application sees of a session, command by command.             *)

\* Two sessions with the same fields are the same.
LEMMA SameSession ==
    ASSUME NEW x \in Session, NEW y \in Session,
           x.st = y.st, x.work = y.work, x.svps = y.svps, x.durable = y.durable
    PROVE  x = y
  BY DEF Session

\* The application's savepoints depend on the stack alone.
LEMMA UserSvpsOf ==
    ASSUME NEW x, NEW y, x.svps = y.svps
    PROVE  UserSvps(x) = UserSvps(y)
  BY DEF UserSvps, OwnPlaces, UpTo

\* The application sees everything of a session but the driver's savepoints.
LEMMA SeenFields ==
    ASSUME NEW x \in Session
    PROVE  /\ Seen(x) \in Session /\ Seen(x).st = x.st /\ Seen(x).work = x.work
           /\ Seen(x).svps = UserSvps(x) /\ Seen(x).durable = x.durable
  <1>1. UserSvps(x) \in Seq(Frame)
    BY UserSvpsAt DEF Session
  <1> QED BY <1>1 DEF Seen, Session

\* Without savepoints it sees the session itself.
LEMMA NoSavepoints ==
    ASSUME NEW x \in Session, x.svps = << >>
    PROVE  UserSvps(x) = << >> /\ Seen(x) = x
  <1>1. UserSvps(x) = << >>
    <2>1. OwnPlaces(x) = {}
      BY DEF OwnPlaces
    <2>2. Len(UserSvps(x)) = 0 /\ UserSvps(x) \in Seq(Frame)
      BY <2>1, UserSvpsAt, FS_EmptySet DEF Session
    <2> QED BY <2>2
  <1> QED BY <1>1, SeenFields, SameSession

\* A new session, and a lost one.
LEMMA FreshFields ==
    ASSUME NEW d \in SUBSET Writes
    PROVE  /\ FreshSession(d) \in Session /\ FreshSession(d).st = "I"
           /\ FreshSession(d).work = << >> /\ FreshSession(d).svps = << >>
           /\ FreshSession(d).durable = d
           /\ UserSvps(FreshSession(d)) = << >> /\ Seen(FreshSession(d)) = FreshSession(d)
           /\ \A x : x.durable = d =>
                 /\ Gone(x) \in Session /\ Gone(x).st = "X" /\ Gone(x).work = << >>
                 /\ Gone(x).svps = << >> /\ Gone(x).durable = d /\ Seen(Gone(x)) = Gone(x)
                 /\ Gone(x) = Gone(FreshSession(d))
  <1>1. /\ FreshSession(d) \in Session /\ FreshSession(d).st = "I"
        /\ FreshSession(d).work = << >> /\ FreshSession(d).svps = << >>
        /\ FreshSession(d).durable = d
    BY DEF FreshSession, Session
  <1>2. ASSUME NEW x, x.durable = d
        PROVE  /\ Gone(x) \in Session /\ Gone(x).st = "X" /\ Gone(x).work = << >>
               /\ Gone(x).svps = << >> /\ Gone(x).durable = d
               /\ Gone(x) = Gone(FreshSession(d))
    <2>1. Gone(x) = [FreshSession(d) EXCEPT !.st = "X"] /\ Gone(x) = Gone(FreshSession(d))
      BY <1>1, <1>2 DEF Gone
    <2> QED BY <1>1, <2>1 DEF Session
  <1> QED BY <1>1, <1>2, NoSavepoints

\* The status of a session, seen.
LEMMA SeenStatus ==
    ASSUME NEW x \in Session, NEW st \in {"I", "T", "E", "X"}
    PROVE  /\ [x EXCEPT !.st = st] \in Session
           /\ Seen([x EXCEPT !.st = st]) = [Seen(x) EXCEPT !.st = st]
  <1> DEFINE y == [x EXCEPT !.st = st]
  <1>1. y \in Session /\ y.st = st /\ y.work = x.work /\ y.svps = x.svps /\ y.durable = x.durable
    BY DEF Session
  <1>2. UserSvps(y) = UserSvps(x)
    BY <1>1, UserSvpsOf
  <1>3. [Seen(x) EXCEPT !.st = st] = Seen(y)
    BY <1>1, <1>2 DEF Seen, Session
  <1> QED BY <1>1, <1>3

\* A failure, seen.
LEMMA SeenFailed ==
    ASSUME NEW x \in Session
    PROVE  /\ Failed(Seen(x)).be = Seen(Failed(x).be) /\ Failed(x).be \in Session
           /\ Failed(Seen(x)).tag = "ERROR" /\ Failed(x).tag = "ERROR"
  <1>1. Seen(x).st = x.st
    BY SeenFields
  <1>2. PICK st \in {"I", "T", "E", "X"} : st = IF x.st = "I" THEN "I" ELSE "E"
    OBVIOUS
  <1>3. Failed(x) = Answer([x EXCEPT !.st = st], "ERROR")
        /\ Failed(Seen(x)) = Answer([Seen(x) EXCEPT !.st = st], "ERROR")
    BY <1>1, <1>2 DEF Failed
  <1>4. /\ Failed(x).be = [x EXCEPT !.st = st] /\ Failed(Seen(x)).be = [Seen(x) EXCEPT !.st = st]
        /\ Failed(Seen(x)).tag = "ERROR" /\ Failed(x).tag = "ERROR"
    BY <1>3, AnswerFields
  <1>5. /\ [x EXCEPT !.st = st] \in Session
        /\ Seen([x EXCEPT !.st = st]) = [Seen(x) EXCEPT !.st = st]
    BY SeenStatus
  <1> QED BY <1>4, <1>5

\* COMMIT, seen.
LEMMA SeenCommit ==
    ASSUME NEW x \in Session, NEW o \in OnCommit(x)
    PROVE  \E p \in OnCommit(Seen(x)) : p.tag = o.tag /\ p.be = Seen(o.be)
  <1> DEFINE d == x.durable \cup {x.work[i] : i \in DOMAIN x.work}
  <1>1. /\ Seen(x).st = x.st /\ Seen(x).work = x.work /\ Seen(x).durable = x.durable
    BY SeenFields
  <1>2. d \in SUBSET Writes /\ x.durable \in SUBSET Writes
    BY DEF Session
  <1>3. Seen(FreshSession(d)) = FreshSession(d)
        /\ Seen(FreshSession(x.durable)) = FreshSession(x.durable)
    BY <1>2, FreshFields
  <1>4. CASE x.st = "I"
    <2>1. o = Answer(x, "COMMIT") /\ Answer(Seen(x), "COMMIT") \in OnCommit(Seen(x))
      BY <1>1, <1>4 DEF OnCommit
    <2> QED BY <2>1, AnswerFields
  <1>5. CASE x.st # "I"
    <2>1. OnCommit(Seen(x)) = OnCommit(x)
      BY <1>1, <1>5 DEF OnCommit
    <2>2. o.be = FreshSession(x.durable) \/ o.be = FreshSession(d)
      BY <1>5, AnswerFields DEF OnCommit
    <2> QED BY <1>3, <2>1, <2>2
  <1> QED BY <1>4, <1>5

\* A SAVEPOINT of the application, seen.
LEMMA SeenSavepoint ==
    ASSUME NEW x \in Session, NEW n \in SvpNames \ {Internal}, NEW o \in OnSavepoint(x, n)
    PROVE  \E p \in OnSavepoint(Seen(x), n) : p.tag = o.tag /\ p.be = Seen(o.be)
  <1> DEFINE f == [name |-> n, mark |-> Len(x.work)]
             y == [x EXCEPT !.svps = Append(x.svps, f)]
             z == [Seen(x) EXCEPT !.svps = Append(UserSvps(x), f)]
  <1>1. f \in Frame /\ f.name # Internal
    BY DEF Session, Frame
  <1>2. Seen(x) \in Session /\ Seen(x).work = x.work /\ Seen(x).svps = UserSvps(x)
        /\ Seen(x).durable = x.durable /\ Seen(x).st = x.st
    BY SeenFields
  <1> HIDE DEF f
  <1>3. y \in Session /\ y.svps = Append(x.svps, f) /\ y.work = x.work
        /\ y.durable = x.durable /\ y.st = x.st
    <2>1. Append(x.svps, f) \in Seq(Frame)
      BY <1>1 DEF Session
    <2> QED BY <2>1 DEF Session
  <1>4. UserSvps(y) = Append(UserSvps(x), f)
    BY <1>1, <1>3, UserSavepointAdded DEF Session
  <1>5. z \in Session /\ z.svps = Append(UserSvps(x), f) /\ z.work = x.work
        /\ z.durable = x.durable /\ z.st = x.st
    <2>1. UserSvps(x) \in Seq(Frame)
      BY <1>2 DEF Session
    <2>2. Append(UserSvps(x), f) \in Seq(Frame)
      BY <1>1, <2>1
    <2> QED BY <1>2, <2>2 DEF Session
  <1>z. z = [Seen(x) EXCEPT !.svps = Append(UserSvps(x), f)]
        /\ y = [x EXCEPT !.svps = Append(x.svps, f)]
    OBVIOUS
  <1> HIDE DEF y, z
  <1>6. z = Seen(y)
    <2>1. Seen(y) \in Session /\ Seen(y).svps = UserSvps(y) /\ Seen(y).work = y.work
          /\ Seen(y).durable = y.durable /\ Seen(y).st = y.st
      BY <1>3, SeenFields
    <2> QED BY ZenonT(40), <1>3, <1>4, <1>5, <2>1, SameSession
  <1>7. o = Answer(y, "SAVEPOINT") /\ Answer(z, "SAVEPOINT") \in OnSavepoint(Seen(x), n)
    BY <1>2, <1>z DEF OnSavepoint, f
  <1> QED BY <1>6, <1>7, AnswerFields

\* A RELEASE of the application, seen: the driver's savepoints above go with
\* it.
LEMMA SeenRelease ==
    ASSUME NEW x \in Session, NEW n, n # Internal, NEW o \in OnRelease(x, n)
    PROVE  \E p \in OnRelease(Seen(x), n) : p.tag = o.tag /\ p.be = Seen(o.be)
  <1>1. PICK i \in Places(x, n) :
            IsNewest(x, n, i) /\ o = Answer([x EXCEPT !.svps = SubSeq(x.svps, 1, i - 1)], "RELEASE")
    BY DEF OnRelease
  <1> DEFINE r == UpTo(x, i)
             y == [x EXCEPT !.svps = SubSeq(x.svps, 1, i - 1)]
             z == [Seen(x) EXCEPT !.svps = SubSeq(Seen(x).svps, 1, r - 1)]
  <1>2. IsNewest(Seen(x), n, r) /\ i \in OwnPlaces(x) /\ r \in Places(Seen(x), n)
    BY <1>1, NewestOfOwn
  <1>3. Answer(z, "RELEASE") \in OnRelease(Seen(x), n)
    BY <1>2 DEF OnRelease
  <1>4. i \in 1 .. Len(x.svps) /\ x.svps \in Seq(Frame)
    BY <1>1 DEF Places, Session
  <1>5. y \in Session /\ y.svps = SubSeq(x.svps, 1, i - 1) /\ y.work = x.work
        /\ y.durable = x.durable /\ y.st = x.st
    <2>1. SubSeq(x.svps, 1, i - 1) \in Seq(Frame)
      BY <1>4
    <2> QED BY <2>1 DEF Session
  <1>6. UpTo(x, i - 1) = r - 1
    <2> DEFINE low == {j \in OwnPlaces(x) : j <= i - 1}
               high == {j \in OwnPlaces(x) : j <= i}
    <2>1. OwnPlaces(x) \subseteq Nat /\ i \in Nat
      BY <1>4, OwnPlacesFinite
    <2>2. low = high \ {i} /\ i \in high
      BY <1>2, <2>1
    <2>3. IsFiniteSet(high)
      BY <1>4, <2>1, OwnPlacesFinite
    <2>4. Cardinality(low) = Cardinality(high) - 1
      BY ZenonT(40), <2>2, <2>3, FS_RemoveElement
    <2> QED BY <2>4 DEF UpTo
  <1>7. UserSvps(y) = SubSeq(UserSvps(x), 1, r - 1)
    <2>1. i - 1 \in 0 .. Len(x.svps)
      BY <1>4
    <2> QED BY <1>4, <1>5, <1>6, <2>1, UserSvpsCut
  <1>8. z = Seen(y)
    <2>1. Seen(x) \in Session /\ Seen(x).work = x.work /\ Seen(x).svps = UserSvps(x)
          /\ Seen(x).durable = x.durable /\ Seen(x).st = x.st
      BY SeenFields
    <2>2. Seen(y) \in Session /\ Seen(y).svps = UserSvps(y) /\ Seen(y).work = y.work
          /\ Seen(y).durable = y.durable /\ Seen(y).st = y.st
      BY <1>5, SeenFields
    <2>3. z.svps = Seen(y).svps /\ z.work = x.work /\ z.durable = x.durable /\ z.st = x.st
      BY <1>7, <2>1, <2>2 DEF Session
    <2>4. z \in Session
      BY <1>7, <2>1, <2>2 DEF Session
    <2> QED BY ZenonT(40), <1>5, <2>2, <2>3, <2>4, SameSession
  <1> QED BY <1>1, <1>3, <1>8, AnswerFields

\* A ROLLBACK TO of the application, seen.
LEMMA SeenRollbackTo ==
    ASSUME NEW x, WellFormed(x), NEW n, n # Internal, NEW o \in OnRollbackTo(x, n)
    PROVE  \E p \in OnRollbackTo(Seen(x), n) : p.tag = o.tag /\ p.be = Seen(o.be)
  <1>0. x \in Session
    BY DEF WellFormed
  <1>1. PICK i \in Places(x, n) :
            /\ IsNewest(x, n, i)
            /\ o = Answer([x EXCEPT !.st = "T", !.svps = SubSeq(x.svps, 1, i),
                                    !.work = SubSeq(x.work, 1, x.svps[i].mark)], "ROLLBACK")
    BY DEF OnRollbackTo
  <1> DEFINE r == UpTo(x, i)
             y == [x EXCEPT !.st = "T", !.svps = SubSeq(x.svps, 1, i),
                            !.work = SubSeq(x.work, 1, x.svps[i].mark)]
             z == [Seen(x) EXCEPT !.st = "T", !.svps = SubSeq(Seen(x).svps, 1, r),
                                  !.work = SubSeq(Seen(x).work, 1, Seen(x).svps[r].mark)]
  <1>2. IsNewest(Seen(x), n, r) /\ i \in OwnPlaces(x) /\ r \in Places(Seen(x), n)
    BY <1>0, <1>1, NewestOfOwn
  <1>3. Answer(z, "ROLLBACK") \in OnRollbackTo(Seen(x), n)
    BY <1>2 DEF OnRollbackTo
  <1>4. i \in 1 .. Len(x.svps) /\ x.svps \in Seq(Frame)
    BY <1>0, <1>1 DEF Places, Session
  <1>5. /\ y \in Session /\ y.svps = SubSeq(x.svps, 1, i) /\ y.st = "T"
        /\ y.work = SubSeq(x.work, 1, x.svps[i].mark) /\ y.durable = x.durable
    <2>1. o.be = y /\ WellFormed(o.be)
      BY <1>1, RollbackToWellFormed, AnswerFields
    <2> QED BY <1>0, <2>1 DEF WellFormed, Session
  <1>6. UserSvps(y) = SubSeq(UserSvps(x), 1, r)
    <2>1. i \in 0 .. Len(x.svps)
      BY <1>4
    <2> QED BY <1>4, <1>5, <2>1, UserSvpsCut
  <1>7. UserSvps(x)[r] = x.svps[i]
    BY <1>2, <1>4, UserSvpsAt
  <1>8. z = Seen(y)
    <2>1. Seen(x) \in Session /\ Seen(x).work = x.work /\ Seen(x).svps = UserSvps(x)
          /\ Seen(x).durable = x.durable /\ Seen(x).st = x.st
      BY <1>0, SeenFields
    <2>2. Seen(y) \in Session /\ Seen(y).svps = UserSvps(y) /\ Seen(y).work = y.work
          /\ Seen(y).durable = y.durable /\ Seen(y).st = y.st
      BY <1>5, SeenFields
    <2>3. /\ z.svps = Seen(y).svps /\ z.work = Seen(y).work /\ z.durable = x.durable /\ z.st = "T"
      BY <1>5, <1>6, <1>7, <2>1, <2>2 DEF Session
    <2>4. z \in Session
      BY <1>5, <1>6, <1>7, <2>1, <2>2, <2>3 DEF Session
    <2> QED BY ZenonT(40), <1>5, <2>2, <2>3, <2>4, SameSession
  <1> QED BY <1>1, <1>3, <1>8, AnswerFields

\* A write, seen.
LEMMA SeenWrite ==
    ASSUME NEW x \in Session, NEW w \in Writes, NEW o \in OnWrite(x, w)
    PROVE  \E p \in OnWrite(Seen(x), w) : p.tag = o.tag /\ p.be = Seen(o.be)
  <1>1. Seen(x) \in Session /\ Seen(x).work = x.work /\ Seen(x).svps = UserSvps(x)
        /\ Seen(x).durable = x.durable /\ Seen(x).st = x.st
    BY SeenFields
  <1>2. CASE o = Failed(x)
    BY <1>2, SeenFailed DEF OnWrite
  <1>3. CASE x.st = "I" /\ o = Answer([x EXCEPT !.durable = x.durable \cup {w}], "WRITE")
    <2> DEFINE y == [x EXCEPT !.durable = x.durable \cup {w}]
               z == [Seen(x) EXCEPT !.durable = x.durable \cup {w}]
    <2>1. Answer(z, "WRITE") \in OnWrite(Seen(x), w)
      BY <1>1, <1>3 DEF OnWrite
    <2>2. y.svps = x.svps
      BY DEF Session
    <2>3. UserSvps(y) = UserSvps(x)
      BY <2>2, UserSvpsOf
    <2>4. z = Seen(y)
      BY <1>1, <2>2, <2>3 DEF Seen, Session
    <2> QED BY <1>3, <2>1, <2>4, AnswerFields
  <1>4. CASE x.st # "I" /\ o = Answer([x EXCEPT !.work = Append(x.work, w)], "WRITE")
    <2> DEFINE y == [x EXCEPT !.work = Append(x.work, w)]
               z == [Seen(x) EXCEPT !.work = Append(x.work, w)]
    <2>1. Answer(z, "WRITE") \in OnWrite(Seen(x), w)
      BY <1>1, <1>4 DEF OnWrite
    <2>2. y.svps = x.svps
      BY DEF Session
    <2>3. UserSvps(y) = UserSvps(x)
      BY <2>2, UserSvpsOf
    <2>4. z = Seen(y)
      BY <1>1, <2>2, <2>3 DEF Seen, Session
    <2> QED BY <1>4, <2>1, <2>4, AnswerFields
  <1> QED BY <1>2, <1>3, <1>4 DEF OnWrite

\* What a command of the application does to the session is what it does to the
\* application's view of it.
LEMMA SeenOutcome ==
    ASSUME NEW x, WellFormed(x), NEW cmd \in Command, cmd.sp # Internal,
           NEW o \in Outcomes(x, cmd)
    PROVE  \E p \in Outcomes(Seen(x), cmd) : p.tag = o.tag /\ p.be = Seen(o.be)
  <1>0. x \in Session /\ Seen(x) \in Session /\ Seen(x).st = x.st
    BY SeenFields DEF WellFormed
  <1>1. CASE cmd.c = "COMMIT"
    BY <1>0, <1>1, SeenCommit DEF Outcomes
  <1>2. CASE cmd.c = "ROLLBACK"
    <2>1. o = Answer(FreshSession(x.durable), "ROLLBACK") /\ Outcomes(Seen(x), cmd) = {o}
      BY <1>0, <1>2, SeenFields DEF Outcomes, OnRollback
    <2>2. o.be = FreshSession(x.durable)
      BY <2>1, AnswerFields
    <2>3. Seen(o.be) = o.be
      BY <1>0, <2>2, FreshFields DEF Session
    <2> QED BY <2>1, <2>3
  <1>f. ASSUME o = Failed(x), Failed(Seen(x)) \in Outcomes(Seen(x), cmd)
        PROVE  \E p \in Outcomes(Seen(x), cmd) : p.tag = o.tag /\ p.be = Seen(o.be)
    BY <1>0, <1>f, SeenFailed
  <1>s. ASSUME NEW tag, o = Answer(x, tag), Answer(Seen(x), tag) \in Outcomes(Seen(x), cmd)
        PROVE  \E p \in Outcomes(Seen(x), cmd) : p.tag = o.tag /\ p.be = Seen(o.be)
    BY <1>s, AnswerFields
  <1>3. CASE cmd.c = "ROLLBACK TO" /\ x.st # "I"
    <2>0. /\ Outcomes(x, cmd) = OrFailed(x, OnRollbackTo(x, cmd.sp))
          /\ Outcomes(Seen(x), cmd) = OrFailed(Seen(x), OnRollbackTo(Seen(x), cmd.sp))
      BY <1>0, <1>3 DEF Outcomes
    <2>1. CASE o \in OnRollbackTo(x, cmd.sp)
      <3>1. \E p \in OnRollbackTo(Seen(x), cmd.sp) : p.tag = o.tag /\ p.be = Seen(o.be)
        BY <2>1, SeenRollbackTo
      <3> QED BY <2>0, <3>1 DEF OrFailed
    <2>2. CASE OnRollbackTo(x, cmd.sp) = {} /\ o = Failed(x)
      <3>1. OnRollbackTo(Seen(x), cmd.sp) = {}
        <4>1. \A p \in OnRollbackTo(x, cmd.sp) : FALSE
          BY <2>2
        <4>2. \A i \in Places(x, cmd.sp) : ~IsNewest(x, cmd.sp, i)
          BY <4>1 DEF OnRollbackTo
        <4>3. Places(x, cmd.sp) = {}
          BY <1>0, <4>2, NewestExists
        <4>4. Places(Seen(x), cmd.sp) = {}
          BY <1>0, <4>3, NewestOfOwn
        <4> QED BY <4>4 DEF OnRollbackTo
      <3>2. Failed(Seen(x)) \in Outcomes(Seen(x), cmd)
        BY <2>0, <3>1 DEF OrFailed
      <3> QED BY <1>f, <2>2, <3>2
    <2> QED BY <2>0, <2>1, <2>2 DEF OrFailed
  <1>4. CASE cmd.c = "RELEASE" /\ x.st = "T"
    <2>0. /\ Outcomes(x, cmd) = OrFailed(x, OnRelease(x, cmd.sp))
          /\ Outcomes(Seen(x), cmd) = OrFailed(Seen(x), OnRelease(Seen(x), cmd.sp))
      BY <1>0, <1>4 DEF Outcomes
    <2>1. CASE o \in OnRelease(x, cmd.sp)
      <3>1. \E p \in OnRelease(Seen(x), cmd.sp) : p.tag = o.tag /\ p.be = Seen(o.be)
        BY <1>0, <2>1, SeenRelease
      <3> QED BY <2>0, <3>1 DEF OrFailed
    <2>2. CASE OnRelease(x, cmd.sp) = {} /\ o = Failed(x)
      <3>1. OnRelease(Seen(x), cmd.sp) = {}
        <4>1. \A p \in OnRelease(x, cmd.sp) : FALSE
          BY <2>2
        <4>2. \A i \in Places(x, cmd.sp) : ~IsNewest(x, cmd.sp, i)
          BY <4>1 DEF OnRelease
        <4>3. Places(x, cmd.sp) = {}
          BY <1>0, <4>2, NewestExists
        <4>4. Places(Seen(x), cmd.sp) = {}
          BY <1>0, <4>3, NewestOfOwn
        <4> QED BY <4>4 DEF OnRelease
      <3>2. Failed(Seen(x)) \in Outcomes(Seen(x), cmd)
        BY <2>0, <3>1 DEF OrFailed
      <3> QED BY <1>f, <2>2, <3>2
    <2> QED BY <2>0, <2>1, <2>2 DEF OrFailed
  <1>5. CASE cmd.c = "BEGIN" /\ x.st # "E"
    <2>1. o = Answer([x EXCEPT !.st = "T"], "BEGIN")
          /\ Outcomes(Seen(x), cmd) = {Answer([Seen(x) EXCEPT !.st = "T"], "BEGIN")}
      BY <1>0, <1>5 DEF Outcomes, OnBegin
    <2>2. Seen([x EXCEPT !.st = "T"]) = [Seen(x) EXCEPT !.st = "T"]
      BY <1>0, SeenStatus
    <2> QED BY <2>1, <2>2, AnswerFields
  <1>6. CASE cmd.c = "SAVEPOINT" /\ x.st = "T"
    <2>1. cmd.sp \in SvpNames \ {Internal}
      BY <1>6 DEF Command
    <2>2. Outcomes(x, cmd) = OnSavepoint(x, cmd.sp)
          /\ Outcomes(Seen(x), cmd) = OnSavepoint(Seen(x), cmd.sp)
      BY <1>0, <1>6 DEF Outcomes
    <2> QED BY <1>0, <2>1, <2>2, SeenSavepoint
  <1>7. CASE cmd.c = "WRITE" /\ x.st # "E"
    <2>1. cmd.w \in Writes
      BY <1>7 DEF Command
    <2>2. Outcomes(x, cmd) = OnWrite(x, cmd.w) /\ Outcomes(Seen(x), cmd) = OnWrite(Seen(x), cmd.w)
      BY <1>0, <1>7 DEF Outcomes
    <2> QED BY <1>0, <2>1, <2>2, SeenWrite
  <1>8. CASE cmd.c = "READ" /\ x.st # "E"
    <2>1. /\ o = Failed(x) \/ o = Answer(x, "READ")
          /\ Outcomes(Seen(x), cmd) = {Failed(Seen(x)), Answer(Seen(x), "READ")}
      BY <1>0, <1>8 DEF Outcomes, OnRead
    <2> QED BY <1>f, <1>s, <2>1
  <1>9. CASE cmd.c = "CLOSE" /\ x.st = "T"
    <2>1. o = Answer(x, "CLOSE") /\ Outcomes(Seen(x), cmd) = {Answer(Seen(x), "CLOSE")}
      BY <1>0, <1>9 DEF Outcomes, OnClose
    <2> QED BY <1>s, <2>1
  <1>10. CASE cmd.c = "VACUUM" /\ x.st # "E"
    <2>1. Outcomes(x, cmd) = OnVacuum(x) /\ Outcomes(Seen(x), cmd) = OnVacuum(Seen(x))
      BY <1>0, <1>10 DEF Outcomes
    <2>2. /\ o = Failed(x) \/ (x.st = "I" /\ o = Answer(x, "VACUUM"))
          /\ Failed(Seen(x)) \in Outcomes(Seen(x), cmd)
          /\ x.st = "I" => Answer(Seen(x), "VACUUM") \in Outcomes(Seen(x), cmd)
      BY <1>0, <2>1 DEF OnVacuum
    <2> QED BY <1>f, <1>s, <2>2
  <1>11. CASE ~ \/ cmd.c = "COMMIT" \/ cmd.c = "ROLLBACK"
                \/ cmd.c = "ROLLBACK TO" /\ x.st # "I"
                \/ cmd.c = "RELEASE" /\ x.st = "T"
                \/ cmd.c = "BEGIN" /\ x.st # "E"
                \/ cmd.c = "SAVEPOINT" /\ x.st = "T"
                \/ cmd.c = "WRITE" /\ x.st # "E"
                \/ cmd.c = "READ" /\ x.st # "E"
                \/ cmd.c = "CLOSE" /\ x.st = "T"
                \/ cmd.c = "VACUUM" /\ x.st # "E"
    <2>1. o = Failed(x) /\ Outcomes(Seen(x), cmd) = {Failed(Seen(x))}
      BY <1>0, <1>11 DEF Outcomes
    <2> QED BY <1>f, <2>1
  <1> QED BY <1>1, <1>2, <1>3, <1>4, <1>5, <1>6, <1>7, <1>8, <1>9, <1>10, <1>11

\* The application's commands mean to the contract what they mean to the server.
LEMMA SameOutcomes ==
    ASSUME NEW x, NEW cmd
    PROVE  Contract!Outcomes(x, cmd) = Outcomes(x, cmd)
  <1>1. \A y, n : Contract!IsNewest(y, n, 0) = IsNewest(y, n, 0) /\ Contract!Places(y, n) = Places(y, n)
    BY DEF Contract!IsNewest, Contract!Places, IsNewest, Places
  <1> QED
  BY DEF Contract!Outcomes, Outcomes, Contract!OnCommit, OnCommit, Contract!OnRollback, OnRollback,
         Contract!OnRollbackTo, OnRollbackTo, Contract!OnBegin, OnBegin, Contract!OnSavepoint,
         OnSavepoint, Contract!OnRelease, OnRelease, Contract!OnWrite, OnWrite, Contract!OnRead,
         OnRead, Contract!OnVacuum, OnVacuum, Contract!OnClose, OnClose, Contract!OrFailed, OrFailed,
         Contract!Failed, Failed, Contract!Answer, Answer, Contract!FreshSession, FreshSession,
         Contract!IsNewest, IsNewest, Contract!Places, Places

-----------------------------------------------------------------------------
(* What the flags of the connection become.                                *)

Statuses == {"I", "T", "E", "X"}

\* What CC_on_abort leaves of the flags of the connection when a transaction
\* ends,
LEMMA TransEndFields ==
    ASSUME NEW c \in Conn
    PROVE  LET d == OnTransEnd(c)
           IN  /\ d \in Conn /\ d.autocommit = c.autocommit /\ d.up = c.up /\ ~d.inTrans
               /\ d.inError = (IF c.inTrans THEN FALSE ELSE c.inError)
               /\ ~d.accessed /\ ~d.rbpoint /\ ~d.svp /\ d.op = "none" /\ d.optIn /\ d.optPrev
               /\ d.cursors = {}
  <1> DEFINE l == LeaveTrans(c)
             i == SvpInit(l)
             e == StartStmt(i)
             d == [e EXCEPT !.cursors = {}]
  <1>1. /\ l \in Conn /\ l.autocommit = c.autocommit /\ l.up = c.up /\ ~l.inTrans
        /\ l.inError = (IF c.inTrans THEN FALSE ELSE c.inError)
    BY ZenonT(40) DEF LeaveTrans, Conn
  <1> HIDE DEF l
  <1>2. /\ i \in Conn /\ i.autocommit = l.autocommit /\ i.up = l.up /\ i.inTrans = l.inTrans
        /\ i.inError = l.inError /\ ~i.svp /\ i.op = "none" /\ i.optIn /\ i.optPrev
    BY <1>1 DEF SvpInit, Conn
  <1> HIDE DEF i
  <1>3. /\ e \in Conn /\ e.autocommit = i.autocommit /\ e.up = i.up /\ e.inTrans = i.inTrans
        /\ e.inError = i.inError /\ e.svp = i.svp /\ e.op = i.op /\ e.optIn = i.optIn
        /\ e.optPrev = i.optPrev /\ ~e.accessed /\ ~e.rbpoint
    BY <1>2 DEF StartStmt, Conn
  <1> HIDE DEF e
  <1>4. /\ d \in Conn /\ d.autocommit = e.autocommit /\ d.up = e.up /\ d.inTrans = e.inTrans
        /\ d.inError = e.inError /\ d.svp = e.svp /\ d.op = e.op /\ d.optIn = e.optIn
        /\ d.optPrev = e.optPrev /\ d.accessed = e.accessed /\ d.rbpoint = e.rbpoint
        /\ d.cursors = {}
    BY <1>3 DEF Conn
  <1>5. d = OnTransEnd(c)
    BY DEF OnTransEnd, e, i, l
  <1> HIDE DEF d
  <1> QED BY ZenonT(40), <1>1, <1>2, <1>3, <1>4, <1>5

\* and when the connection is dead.
LEMMA DeadFields ==
    ASSUME NEW c \in Conn
    PROVE  LET d == OnDead(c)
           IN  /\ d \in Conn /\ d.autocommit = c.autocommit /\ ~d.up /\ ~d.inTrans
               /\ d.inError = (IF c.inTrans THEN FALSE ELSE c.inError)
               /\ ~d.accessed /\ ~d.rbpoint /\ ~d.svp /\ d.op = "none" /\ d.optIn /\ d.optPrev
               /\ d.cursors = {}
  <1> DEFINE e == OnTransEnd(c)
             d == [e EXCEPT !.up = FALSE]
  <1>1. /\ e \in Conn /\ e.autocommit = c.autocommit /\ ~e.inTrans
        /\ e.inError = (IF c.inTrans THEN FALSE ELSE c.inError)
        /\ ~e.accessed /\ ~e.rbpoint /\ ~e.svp /\ e.op = "none" /\ e.optIn /\ e.optPrev
        /\ e.cursors = {}
    BY TransEndFields
  <1>2. d = OnDead(c)
    BY DEF OnDead
  <1> HIDE DEF e
  <1>3. /\ d \in Conn /\ d.autocommit = e.autocommit /\ ~d.up /\ d.inTrans = e.inTrans
        /\ d.inError = e.inError /\ d.svp = e.svp /\ d.op = e.op /\ d.optIn = e.optIn
        /\ d.optPrev = e.optPrev /\ d.accessed = e.accessed /\ d.rbpoint = e.rbpoint
        /\ d.cursors = e.cursors
    BY <1>1 DEF Conn
  <1> HIDE DEF d
  <1> QED BY <1>1, <1>2, <1>3

\* The same flags, but for those that say whether there is a transaction.
LEMMA StatusInTrans ==
    ASSUME NEW c \in Conn, NEW st \in {"T", "E"}, c.up
    PROVE  LET d == UpdateTransactionStatus(c, st)
           IN  /\ d \in Conn /\ d.inTrans /\ (d.inError <=> st = "E")
               /\ d.autocommit = c.autocommit /\ d.up = c.up /\ d.accessed = c.accessed
               /\ d.rbpoint = c.rbpoint /\ d.svp = c.svp /\ d.op = c.op /\ d.optIn = c.optIn
               /\ d.optPrev = c.optPrev /\ d.cursors = c.cursors
  BY DEF UpdateTransactionStatus, Conn

\* The copied status says that the transaction is over.
LEMMA StatusOver ==
    ASSUME NEW c \in Conn, c.up, c.inTrans
    PROVE  UpdateTransactionStatus(c, "I") = OnTransEnd(c)
  BY DEF UpdateTransactionStatus

\* What is known already is not news.
LEMMA StatusSettled ==
    ASSUME NEW c \in Conn, NEW x, x.st \in Statuses, Ground(c, x), Settled(c, x)
    PROVE  UpdateTransactionStatus(c, x.st) = c
  <1>1. CASE x.st = "X"
    BY <1>1 DEF UpdateTransactionStatus, Ground
  <1>2. CASE x.st = "I"
    BY <1>2 DEF UpdateTransactionStatus, Settled, Live
  <1>3. CASE x.st \in {"T", "E"}
    <2> DEFINE d == UpdateTransactionStatus(c, x.st)
    <2>1. c.up /\ c.inTrans /\ (c.inError <=> x.st = "E") /\ c.inError \in BOOLEAN
          /\ c.inTrans \in BOOLEAN
      BY <1>3 DEF Ground, Settled, Live, Conn
    <2>2. /\ d = IF x.st = "T" THEN [c EXCEPT !.inTrans = TRUE, !.inError = FALSE]
                               ELSE [c EXCEPT !.inTrans = TRUE, !.inError = TRUE]
      BY <1>3, <2>1 DEF UpdateTransactionStatus
    <2>3. c.inTrans = TRUE /\ c.inError = (x.st = "E")
      BY <2>1
    <2>4. /\ x.st = "T" => [c EXCEPT !.inTrans = TRUE, !.inError = FALSE] = c
          /\ x.st = "E" => [c EXCEPT !.inTrans = TRUE, !.inError = TRUE] = c
      BY <2>3 DEF Conn
    <2> QED BY <1>3, <2>2, <2>4
  <1> QED BY <1>1, <1>2, <1>3 DEF Statuses

\* What the command tags do to the flags (CC_send_query_append).
LEMMA TagFields ==
    ASSUME NEW c \in Conn, NEW tag
    PROVE  LET d == HandleTag(c, tag)
           IN  /\ d \in Conn /\ d.autocommit = c.autocommit /\ d.up = c.up
               /\ d.accessed = c.accessed /\ d.cursors = c.cursors
               /\ tag = "BEGIN" => /\ d.inTrans /\ d.inError = c.inError /\ d.rbpoint = c.rbpoint
                                   /\ d.svp = c.svp /\ d.op = c.op /\ d.optIn = c.optIn
                                   /\ d.optPrev = c.optPrev
               /\ tag # "BEGIN" => d.inTrans = c.inTrans
               /\ tag = "SAVEPOINT" => /\ d.inError = c.inError /\ d.optIn = c.optIn
                                       /\ d.optPrev = c.optPrev /\ d.op = "none"
                                       /\ (d.svp <=> c.op = "savepoint")
                                       /\ (d.rbpoint <=> c.op = "savepoint" \/ c.rbpoint)
               /\ tag # "SAVEPOINT" => d.op = c.op /\ d.rbpoint = c.rbpoint
               /\ tag = "ROLLBACK" => d.inError /\ ~d.svp /\ ~d.optPrev /\ d.optIn
               /\ tag # "ROLLBACK" => /\ d.inError = c.inError /\ d.optIn = c.optIn
                                      /\ d.optPrev = c.optPrev
               /\ tag = "RELEASE" => ~d.svp
               /\ tag \in {"WRITE", "READ", "COMMIT"} => d = c
  <1>1. CASE tag = "BEGIN"
    BY <1>1 DEF HandleTag, Conn
  <1>2. CASE tag = "SAVEPOINT" /\ c.op = "savepoint"
    BY <1>2 DEF HandleTag, Conn
  <1>3. CASE tag = "SAVEPOINT" /\ c.op # "savepoint"
    BY <1>3 DEF HandleTag, Conn
  <1>4. CASE tag = "ROLLBACK"
    BY <1>4 DEF HandleTag, Conn
  <1>5. CASE tag = "RELEASE"
    BY <1>5 DEF HandleTag, Conn
  <1>6. CASE tag \notin {"BEGIN", "SAVEPOINT", "ROLLBACK", "RELEASE"}
    BY <1>6 DEF HandleTag
  <1> QED BY <1>1, <1>2, <1>3, <1>4, <1>5, <1>6

\* What an error does to them (handle_pgres_error).
LEMMA ErrorFields ==
    ASSUME NEW c \in Conn, c.inTrans
    PROVE  LET d == HandleError(c)
           IN  /\ d \in Conn /\ d.inTrans /\ d.inError
               /\ d.autocommit = c.autocommit /\ d.up = c.up /\ d.accessed = c.accessed
               /\ d.rbpoint = c.rbpoint /\ d.svp = c.svp /\ d.op = c.op /\ d.optIn = c.optIn
               /\ d.optPrev = c.optPrev /\ d.cursors = c.cursors
  BY DEF HandleError, Conn

-----------------------------------------------------------------------------
(* What the command of a call does to the session.                         *)

\* ROLLBACK TO leads back into a sound transaction.
LEMMA RollbackToFields ==
    ASSUME NEW x \in Session, NEW n, NEW o \in OnRollbackTo(x, n)
    PROVE  o.be.st = "T" /\ o.tag = "ROLLBACK" /\ o.be.durable = x.durable
  <1>1. PICK v, u : o = Answer([x EXCEPT !.st = "T", !.svps = v, !.work = u], "ROLLBACK")
    BY DEF OnRollbackTo
  <1>2. o.be = [x EXCEPT !.st = "T", !.svps = v, !.work = u] /\ o.tag = "ROLLBACK"
    BY <1>1, AnswerFields
  <1> QED BY <1>2 DEF Session

\* A command that is not COMMIT and that runs in a transaction makes nothing durable.
LEMMA DurableKept ==
    ASSUME NEW x \in Session, NEW cmd, NEW o \in Outcomes(x, cmd),
           cmd.c # "COMMIT", cmd.c = "WRITE" => x.st # "I"
    PROVE  o.be.durable = x.durable
  <1>1. Failed(x).be.durable = x.durable
    BY DEF Failed, Answer, Session
  <1>2. CASE o \in OnRollback(x)
    BY <1>2 DEF OnRollback, Answer, FreshSession
  <1>3. CASE o \in OnRollbackTo(x, cmd.sp)
    BY <1>3, RollbackToFields
  <1>4. CASE o \in OnBegin(x)
    BY <1>4 DEF OnBegin, Answer, Session
  <1>5. CASE o \in OnSavepoint(x, cmd.sp)
    BY <1>5 DEF OnSavepoint, Answer, Session
  <1>6. CASE o \in OnRelease(x, cmd.sp)
    BY <1>6 DEF OnRelease, Answer, Session
  <1>7. CASE o \in OnWrite(x, cmd.w) /\ x.st # "I"
    BY <1>1, <1>7 DEF OnWrite, Answer, Session
  <1>8. CASE o \in OnRead(x) \cup OnVacuum(x) \cup OnClose(x)
    BY <1>1, <1>8 DEF OnRead, OnVacuum, OnClose, Answer
  <1>9. CASE o = Failed(x)
    BY <1>1, <1>9
  <1> QED BY <1>2, <1>3, <1>4, <1>5, <1>6, <1>7, <1>8, <1>9 DEF Outcomes, OrFailed

\* An error changes the status only.
LEMMA FailedFields ==
    ASSUME NEW x \in Session, Live(x)
    PROVE  LET y == Failed(x).be
           IN  /\ y \in Session /\ y.st = "E" /\ y.work = x.work /\ y.svps = x.svps
               /\ y.durable = x.durable /\ UserSvps(y) = UserSvps(x) /\ Failed(x).tag = "ERROR"
  <1>1. Failed(x) = Answer([x EXCEPT !.st = "E"], "ERROR")
    BY DEF Failed, Live
  <1>2. Failed(x).be = [x EXCEPT !.st = "E"] /\ Failed(x).tag = "ERROR"
    BY <1>1, AnswerFields
  <1>3. LET y == Failed(x).be IN /\ y \in Session /\ y.st = "E" /\ y.work = x.work
                                 /\ y.svps = x.svps /\ y.durable = x.durable
    BY <1>2 DEF Session
  <1> QED BY <1>2, <1>3, UserSvpsOf

\* In a transaction, for each kind of call.
LEMMA CommandOutcome ==
    ASSUME NEW x, WellFormed(x), Live(x), NEW k, Shape(k), k.kind # "local",
           NEW o \in Outcomes(x, k.cmd)
    PROVE  /\ k.kind \in {"commit", "rollback"} =>
                 /\ o.be.st = "I" /\ o.be.work = << >> /\ o.be.svps = << >>
                 /\ o.tag \in {"COMMIT", "ROLLBACK", "ERROR"}
                 /\ k.kind = "rollback" => o.tag # "ERROR"
           /\ k.kind \notin {"commit", "rollback"} =>
                 \/ o = Failed(x) /\ (k.kind = "begin" => x.st = "E")
                 \/ /\ k.kind = "read" /\ x.st = "T" /\ o.be = x /\ o.tag = "READ"
                 \/ /\ k.kind = "write" /\ x.st = "T" /\ o.tag = "WRITE"
                    /\ o.be.st = "T" /\ o.be.svps = x.svps /\ o.be.durable = x.durable
                    /\ o.be.work = Append(x.work, k.cmd.w)
                 \/ /\ k.kind = "begin" /\ x.st = "T" /\ o.tag = "BEGIN" /\ o.be = x
                 \/ /\ k.kind \in {"savepoint", "release"} /\ x.st = "T" /\ o.be.st = "T"
                    /\ o.tag = IF k.kind = "savepoint" THEN "SAVEPOINT" ELSE "RELEASE"
                    /\ o.be.work = x.work
                 \/ /\ k.kind = "rollbackto" /\ o.be.st = "T" /\ o.tag = "ROLLBACK"
  <1>0. x \in Session
    BY DEF WellFormed
  <1>1. CASE k.kind = "commit"
    <2>1. k.cmd.c = "COMMIT"
      BY <1>1 DEF Shape, Cmd
    <2>2. o \in OnCommit(x)
      BY <2>1 DEF Outcomes
    <2>3. PICK d : o.be = FreshSession(d) /\ o.tag \in {"COMMIT", "ROLLBACK", "ERROR"}
      BY <2>2 DEF OnCommit, Answer, Live
    <2> QED BY <1>1, <2>3 DEF FreshSession
  <1>2. CASE k.kind = "rollback"
    <2>1. k.cmd.c = "ROLLBACK"
      BY <1>2 DEF Shape, Cmd
    <2>2. o \in OnRollback(x)
      BY <2>1 DEF Outcomes
    <2>3. o.be = FreshSession(x.durable) /\ o.tag = "ROLLBACK"
      BY <2>2 DEF OnRollback, Answer
    <2> QED BY <1>2, <2>3 DEF FreshSession
  <1>3. CASE k.kind = "read"
    <2>1. k.cmd.c = "READ"
      BY <1>3 DEF Shape, Cmd
    <2>2. o = Failed(x) \/ (x.st = "T" /\ o = Answer(x, "READ"))
      BY <2>1 DEF Outcomes, OnRead, Live
    <2> QED BY <1>3, <2>2, AnswerFields
  <1>4. CASE k.kind = "write"
    <2>1. k.cmd.c = "WRITE"
      BY <1>4 DEF Shape, WriteCmd
    <2>2. o = Failed(x) \/ (x.st = "T" /\ o = Answer([x EXCEPT !.work = Append(x.work, k.cmd.w)], "WRITE"))
      BY <2>1 DEF Outcomes, OnWrite, Live
    <2>3. CASE x.st = "T" /\ o = Answer([x EXCEPT !.work = Append(x.work, k.cmd.w)], "WRITE")
      <3>1. o.be = [x EXCEPT !.work = Append(x.work, k.cmd.w)] /\ o.tag = "WRITE"
        BY <2>3, AnswerFields
      <3>2. o.be.st = "T" /\ o.be.svps = x.svps /\ o.be.durable = x.durable
            /\ o.be.work = Append(x.work, k.cmd.w)
        BY <1>0, <2>3, <3>1 DEF Session
      <3> QED BY <1>4, <2>3, <3>1, <3>2
    <2> QED BY <1>4, <2>2, <2>3
  <1>5. CASE k.kind = "begin"
    <2>1. k.cmd.c = "BEGIN"
      BY <1>5 DEF Shape, Cmd
    <2>2. (x.st = "E" /\ o = Failed(x)) \/ (x.st = "T" /\ o = Answer([x EXCEPT !.st = "T"], "BEGIN"))
      BY <2>1 DEF Outcomes, OnBegin, Live
    <2>3. x.st = "T" => [x EXCEPT !.st = "T"] = x
      BY <1>0 DEF Session
    <2> QED BY <1>5, <2>2, <2>3, AnswerFields
  <1>6. CASE k.kind = "savepoint"
    <2>1. k.cmd.c = "SAVEPOINT"
      BY <1>6 DEF Shape, SvpCmd
    <2>2. o = Failed(x) \/ (x.st = "T" /\ o \in OnSavepoint(x, k.cmd.sp))
      BY <2>1 DEF Outcomes, Live
    <2>3. CASE x.st = "T" /\ o \in OnSavepoint(x, k.cmd.sp)
      <3>1. o.be.st = "T" /\ o.tag = "SAVEPOINT" /\ o.be.work = x.work
        BY <1>0, <2>3 DEF OnSavepoint, Answer, Session
      <3> QED BY <1>6, <2>3, <3>1
    <2> QED BY <1>6, <2>2, <2>3
  <1>7. CASE k.kind = "release"
    <2>1. k.cmd.c = "RELEASE"
      BY <1>7 DEF Shape, SvpCmd
    <2>2. o = Failed(x) \/ (x.st = "T" /\ o \in OnRelease(x, k.cmd.sp))
      BY <2>1 DEF Outcomes, Live, OrFailed
    <2>3. CASE x.st = "T" /\ o \in OnRelease(x, k.cmd.sp)
      <3>1. o.be.st = "T" /\ o.tag = "RELEASE" /\ o.be.work = x.work
        BY <1>0, <2>3 DEF OnRelease, Answer, Session
      <3> QED BY <1>7, <2>3, <3>1
    <2> QED BY <1>7, <2>2, <2>3
  <1>8. CASE k.kind = "rollbackto"
    <2>1. k.cmd.c = "ROLLBACK TO"
      <3>1. k.cmd = SvpCmd("ROLLBACK TO", k.cmd.sp)
        BY <1>8 DEF Shape
      <3>2. SvpCmd("ROLLBACK TO", k.cmd.sp).c = "ROLLBACK TO"
        BY DEF SvpCmd
      <3> QED BY <3>1, <3>2, Zenon
    <2>2. o = Failed(x) \/ o \in OnRollbackTo(x, k.cmd.sp)
      BY <2>1 DEF Outcomes, Live, OrFailed
    <2>3. CASE o \in OnRollbackTo(x, k.cmd.sp)
      <3>1. o.be.st = "T" /\ o.tag = "ROLLBACK"
        BY <1>0, <2>3, RollbackToFields
      <3> QED BY <1>8, <3>1
    <2> QED BY <1>8, <2>2, <2>3
  <1> QED
    BY <1>1, <1>2, <1>3, <1>4, <1>5, <1>6, <1>7, <1>8 DEF Shape, ManagedKinds

-----------------------------------------------------------------------------
(* The effect of a command on the session its call began with.             *)

\* The internal savepoint has a name.
LEMMA NamesApart == NoSvp # Internal /\ Internal \in SvpNames
  BY SessionAssumption, CoreAssumption

\* A command of the application does not name the internal savepoint.
LEMMA ShapeNames ==
    ASSUME NEW k, Shape(k)
    PROVE  k.cmd.sp # Internal
  <1>1. CASE k.kind \in {"savepoint", "release", "rollbackto"}
    BY <1>1 DEF Shape
  <1>2. CASE k.kind \in {"read", "local", "begin", "commit", "rollback"}
    <2>1. PICK name : k.cmd = Cmd(name)
      BY <1>2 DEF Shape
    <2> QED BY <2>1, NamesApart DEF Cmd
  <1>3. CASE k.kind = "write"
    BY <1>3, NamesApart DEF Shape, WriteCmd
  <1> QED BY <1>1, <1>2, <1>3 DEF Shape, ManagedKinds

\* The application sees what it asked for.
LEMMA EffectOf ==
    ASSUME NEW k \in CallRec, Shape(k), NEW x, WellFormed(x), Clean(k.before, x),
           NEW o \in Outcomes(x, k.cmd)
    PROVE  /\ o.tag # "ERROR" => OkEffect(k.before, k.cmd, o.be)
           /\ o.tag = "ERROR" => ErrEffect(k.before, k.cmd, o.be)
  <1> DEFINE b == k.before
  <1>1. b \in Session /\ k.cmd \in Command /\ x \in Session /\ k.cmd.sp # Internal
    BY ShapeNames DEF CallRec, WellFormed
  <1>2. /\ Seen(b) \in Session /\ Seen(b).st = b.st /\ Seen(b).work = b.work
        /\ Seen(b).svps = UserSvps(b) /\ Seen(b).durable = b.durable
    BY <1>1, SeenFields
  <1>3. /\ Seen(x) \in Session /\ Seen(x).st = x.st /\ Seen(x).work = x.work
        /\ Seen(x).svps = UserSvps(x) /\ Seen(x).durable = x.durable
    BY <1>1, SeenFields
  <1>4. /\ x.work = b.work /\ x.durable = b.durable /\ UserSvps(x) = UserSvps(b)
        /\ x.st = IF b.st = "I" THEN "T" ELSE b.st
    BY DEF Clean, Unchanged
  <1> HIDE DEF b
  <1>5. Seen(x) = BegunBy(Seen(b))
    <2>1. CASE b.st = "I"
      <3>1. BegunBy(Seen(b)) = [Seen(b) EXCEPT !.st = "T"]
        BY <1>2, <2>1 DEF BegunBy
      <3>2. /\ BegunBy(Seen(b)) \in Session /\ BegunBy(Seen(b)).st = "T"
            /\ BegunBy(Seen(b)).work = b.work /\ BegunBy(Seen(b)).svps = UserSvps(b)
            /\ BegunBy(Seen(b)).durable = b.durable
        BY <1>2, <3>1 DEF Session
      <3> QED BY <1>3, <1>4, <2>1, <3>2, SameSession
    <2>2. CASE b.st # "I"
      <3>1. BegunBy(Seen(b)) = Seen(b)
        BY <1>2, <2>2 DEF BegunBy
      <3> QED BY <1>2, <1>3, <1>4, <2>2, <3>1, SameSession
    <2> QED BY <2>1, <2>2
  <1>6. PICK p \in Outcomes(BegunBy(Seen(b)), k.cmd) : p.tag = o.tag /\ p.be = Seen(o.be)
    BY <1>1, <1>5, SeenOutcome
  <1> QED BY <1>6 DEF OkEffect, ErrEffect, b

\* Calls that asked for the same.
LEMMA SameAsked ==
    ASSUME NEW k, NEW K, K.kind = k.kind, K.cmd = k.cmd, K.before = k.before
    PROVE  \A c, x :
             /\ Dead(K, c, x) <=> Dead(k, c, x)
             /\ Sent(K, c, x) <=> Sent(k, c, x)
             /\ Guarded(K, c, x) <=> Guarded(k, c, x)
             /\ Bare(K, c, x) <=> Bare(k, c, x)
             /\ Undoable(K, c, x) <=> Undoable(k, c, x)
             /\ FailState(K, c, x) <=> FailState(k, c, x)
             /\ DoneState(K, c, x) <=> DoneState(k, c, x)
             /\ FailEffect(K, x) <=> FailEffect(k, x)
             /\ DoneEffect(K, x) <=> DoneEffect(k, x)
             /\ Protecting(K, c, x) <=> Protecting(k, c, x)
             /\ Begins(K, c, x) <=> Begins(k, c, x)
             /\ Undone(K, c, x) <=> Undone(k, c, x)
             /\ GaveUp(K, c, x) <=> GaveUp(k, c, x)
             /\ SvpWire(K, << >>, c, x) <=> SvpWire(k, << >>, c, x)
  BY DEF Dead, Sent, Guarded, Bare, Undoable, FailState, DoneState, FailEffect, DoneEffect,
         Protecting, Begins, Undone, GaveUp, SvpWire

\* The shape of a call is what it asked for.
LEMMA ShapeKept ==
    ASSUME NEW k, NEW K, K.kind = k.kind, K.cmd = k.cmd, K.before = k.before, K.prot = k.prot,
           Shape(k)
    PROVE  Shape(K)
  BY DEF Shape

\* The connection breaks: nothing is left but what was made durable.
LEMMA Breaks ==
    ASSUME NEW c \in Conn, NEW x, NEW last, Ground(c, x), c.inError => c.inTrans,
           NEW k \in CallRec, last.durable \in SUBSET Writes,
           \/ last.durable = k.before.durable
           \/ /\ k.cmd.c = "COMMIT"
              /\ last.durable = k.before.durable \cup {k.before.work[i] : i \in DOMAIN k.before.work}
    PROVE  /\ Ground(OnDead(c), Gone(last)) /\ Calm(OnDead(c), Gone(last))
           /\ Dead(k, OnDead(c), Gone(last))
  <1> DEFINE d == OnDead(c)
             y == Gone(last)
  <1>1. /\ d \in Conn /\ d.autocommit = c.autocommit /\ ~d.up /\ ~d.inTrans /\ ~d.inError
        /\ ~d.accessed /\ ~d.rbpoint /\ ~d.svp /\ d.op = "none" /\ d.optIn /\ d.optPrev
        /\ d.cursors = {}
    BY DeadFields
  <1>2. /\ y \in Session /\ y.st = "X" /\ y.work = << >> /\ y.svps = << >>
        /\ y = Gone(FreshSession(last.durable))
    <2> DEFINE e == last.durable
    <2>1. e \in SUBSET Writes
      OBVIOUS
    <2> HIDE DEF e
    <2>2. \A z : z.durable = e =>
                 /\ Gone(z) \in Session /\ Gone(z).st = "X" /\ Gone(z).work = << >>
                 /\ Gone(z).svps = << >> /\ Gone(z) = Gone(FreshSession(e))
      BY <2>1, FreshFields
    <2> QED BY <2>2 DEF e
  <1>3. LostEffect(k.before, k.cmd, y)
    BY <1>2 DEF LostEffect
  <1> HIDE DEF d, y
  <1>4. Ground(d, y) /\ Calm(d, y) /\ Settled(d, y)
    BY <1>1, <1>2 DEF Ground, Calm, Settled, Untouched, KnowsWork, Live
  <1> QED BY <1>2, <1>3, <1>4 DEF Dead, d, y

\* The server's answer to the command of the call.
LEMMA MainReply ==
    ASSUME NEW c \in Conn, NEW x, WellFormed(x), NEW k \in CallRec, Shape(k), Ground(c, x),
           Sent(k, c, x), NEW o \in Outcomes(x, k.cmd)
    PROVE  /\ o.tag = "ERROR" =>
                /\ Ground(HandleError(c), o.be)
                /\ FailState(k, UpdateTransactionStatus(HandleError(c), o.be.st), o.be)
           /\ o.tag # "ERROR" /\ k.prot = "simple" =>
                /\ Ground(HandleTag(c, o.tag), o.be)
                /\ DoneState(k, UpdateTransactionStatus(HandleTag(c, o.tag), o.be.st), o.be)
           /\ o.tag # "ERROR" /\ k.prot = "ext" => Ground(c, o.be) /\ DoneState(k, c, o.be)
           /\ k.kind \in {"commit", "rollback"} =>
                /\ o.be.st = "I"
                /\ o.tag = "ERROR" => ErrEffect(k.before, k.cmd, o.be) /\ HandleError(c).inTrans
                /\ o.tag # "ERROR" => /\ OkEffect(k.before, k.cmd, o.be)
                                      /\ HandleTag(c, o.tag).inTrans
  <1> DEFINE y == o.be
             h == HandleError(c)
             g == HandleTag(c, o.tag)
  <1>0. /\ c.inTrans /\ (c.inError <=> x.st = "E") /\ c.op = "none" /\ KnowsWork(c, x)
        /\ Clean(k.before, x) /\ Live(x) /\ k.kind # "local" /\ k.before \in Session
        /\ x.st \in {"T", "E"} /\ c.up
    BY DEF Sent, Clean, Live, Shape, CallRec, Session, Ground
  <1>1. /\ x \in Session /\ y \in Session
    <2>1. k.cmd \in Command
      BY DEF CallRec
    <2> QED BY <2>1, OutcomeWellFormed DEF WellFormed
  <1>2. /\ o.tag # "ERROR" => OkEffect(k.before, k.cmd, y)
        /\ o.tag = "ERROR" => ErrEffect(k.before, k.cmd, y)
    BY <1>0, EffectOf
  <1>3. /\ h \in Conn /\ h.inTrans /\ h.inError
        /\ h.autocommit = c.autocommit /\ h.up = c.up /\ h.accessed = c.accessed
        /\ h.rbpoint = c.rbpoint /\ h.svp = c.svp /\ h.op = c.op /\ h.optIn = c.optIn
        /\ h.optPrev = c.optPrev /\ h.cursors = c.cursors
    BY <1>0, ErrorFields
  <1>t. /\ g \in Conn /\ g.autocommit = c.autocommit /\ g.up = c.up
        /\ g.accessed = c.accessed /\ g.cursors = c.cursors /\ g.inTrans
        /\ g.op = "none" /\ (o.tag # "ROLLBACK" => g.inError = c.inError)
        /\ o.tag \in {"READ", "WRITE"} => g = c
        /\ o.tag \in {"READ", "WRITE", "BEGIN"} => g.optIn = c.optIn /\ g.svp = c.svp
        /\ o.tag \in {"SAVEPOINT", "RELEASE", "ROLLBACK"} => ~g.svp
        /\ o.tag = "ROLLBACK" => ~g.optPrev
        /\ o.tag \in {"SAVEPOINT", "RELEASE"} => g.optPrev = c.optPrev
    <2>1. /\ g \in Conn /\ g.autocommit = c.autocommit /\ g.up = c.up
          /\ g.accessed = c.accessed /\ g.cursors = c.cursors
      BY TagFields
    <2>2. g.inTrans /\ (o.tag # "ROLLBACK" => g.inError = c.inError)
      BY <1>0, TagFields
    <2>3. g.op = "none"
      BY <1>0, TagFields
    <2>4. o.tag \in {"READ", "WRITE"} => g = c
      BY TagFields
    <2>5. o.tag = "BEGIN" => g.optIn = c.optIn /\ g.svp = c.svp
      BY TagFields
    <2>6. o.tag \in {"SAVEPOINT", "RELEASE", "ROLLBACK"} => ~g.svp
      BY <1>0, TagFields
    <2>7. /\ o.tag = "ROLLBACK" => ~g.optPrev
          /\ o.tag \in {"SAVEPOINT", "RELEASE"} => g.optPrev = c.optPrev
      BY TagFields
    <2> HIDE DEF g
    <2> QED BY <2>1, <2>2, <2>3, <2>4, <2>5, <2>6, <2>7
  <1>4. CASE k.kind \in {"commit", "rollback"}
    <2>1. /\ y.st = "I" /\ y.work = << >> /\ y.svps = << >>
          /\ o.tag \in {"COMMIT", "ROLLBACK", "ERROR"}
      BY <1>0, <1>4, CommandOutcome
    <2>2. k.prot = "simple" /\ ~IsData(k.kind)
      BY <1>4 DEF Shape, IsData, CallRec
    <2>3. ASSUME NEW d \in Conn, d.inTrans, d.up, ~d.autocommit, d.cursors = {}
          PROVE  LET u == UpdateTransactionStatus(d, y.st)
                 IN  Ground(d, y) /\ Settled(u, y) /\ ~u.accessed /\ KnowsWork(u, y)
      <3> DEFINE u == OnTransEnd(d)
      <3>1. u = UpdateTransactionStatus(d, y.st)
        BY <2>1, <2>3, StatusOver
      <3>2. /\ ~u.inTrans /\ ~u.inError
            /\ ~u.accessed /\ ~u.rbpoint /\ ~u.svp /\ u.op = "none" /\ u.optIn /\ u.optPrev
        BY <2>3, TransEndFields
      <3> HIDE DEF u
      <3>3. Ground(d, y) /\ Settled(u, y) /\ ~u.accessed /\ KnowsWork(u, y)
        BY <2>1, <2>3, <3>2 DEF Ground, Settled, KnowsWork, Live
      <3> QED BY <3>1, <3>3
    <2>4. CASE o.tag = "ERROR"
      <3>1. ~h.autocommit /\ h.cursors = {} /\ h.up
        BY <1>0, <1>3 DEF Ground
      <3>2. FailEffect(k, y)
        BY <1>2, <2>2, <2>4 DEF FailEffect
      <3> QED BY <1>2, <1>3, <2>1, <2>2, <2>3, <2>4, <3>1, <3>2 DEF FailState
    <2>5. CASE o.tag # "ERROR"
      <3>1. /\ g \in Conn /\ g.inTrans /\ g.up /\ ~g.autocommit /\ g.cursors = {}
        BY <1>0, <2>1, <2>5, TagFields DEF Ground
      <3>2. DoneEffect(k, y)
        BY <1>2, <2>5 DEF DoneEffect
      <3> QED BY <1>2, <2>1, <2>2, <2>3, <2>5, <3>1, <3>2 DEF DoneState
    <2> QED BY <2>4, <2>5
  <1>5. CASE /\ k.kind \notin {"commit", "rollback"} /\ o = Failed(x)
             /\ k.kind = "begin" => x.st = "E"
    <2>1. /\ y.st = "E" /\ y.work = x.work /\ y.svps = x.svps
          /\ y.durable = x.durable /\ UserSvps(y) = UserSvps(x) /\ o.tag = "ERROR"
      BY <1>0, <1>1, <1>5, FailedFields
    <2> DEFINE u == UpdateTransactionStatus(h, "E")
    <2>2. /\ u.inTrans /\ u.inError /\ u.autocommit = c.autocommit /\ u.up = c.up
          /\ u.accessed = c.accessed /\ u.rbpoint = c.rbpoint /\ u.svp = c.svp /\ u.op = c.op
          /\ u.optIn = c.optIn /\ u.optPrev = c.optPrev
      BY ZenonT(40), <1>0, <1>3, StatusInTrans
    <2> HIDE DEF u, h, g, y
    <2>3. Ground(h, y)
      BY <1>0, <1>3, <2>1 DEF Ground, Live, TopOwn
    <2>4. Settled(u, y) /\ KnowsWork(u, y)
      BY <1>0, <2>1, <2>2 DEF Settled, KnowsWork, Live
    <2>5. Unchanged(k.before, y) /\ y.durable = k.before.durable
      BY <1>0, <2>1 DEF Clean, Unchanged
    <2>6. CASE k.kind \in Guards /\ x.st = "T"
      <3>1. IsData(k.kind)
        BY <1>5, <2>6 DEF Guards, IsData
      <3>2. Guarded(k, c, x) \/ Bare(k, c, x)
        BY <2>6 DEF Sent
      <3>3. Guarded(k, u, y) \/ Bare(k, u, y)
        BY <2>1, <2>2, <3>2 DEF Guarded, Bare, Armed, TopNow, TopOwn
      <3>4. Undoable(k, u, y)
        BY <2>1, <2>4, <2>5, <3>1, <3>3 DEF Undoable
      <3> QED BY <1>5, <2>1, <2>3, <3>4 DEF FailState, u, h, y
    <2>7. CASE ~(k.kind \in Guards /\ x.st = "T")
      <3>1. ~u.accessed
        BY <2>2, <2>7 DEF Sent, Untouched
      <3>2. CASE IsData(k.kind)
        <4>1. k.kind \in Guards /\ x.st = "E"
          BY <1>0, <2>7, <3>2 DEF IsData, Guards
        <4>2. Same(k.before, y)
          BY <1>0, <2>1, <2>5, <4>1 DEF Same, Clean
        <4> QED BY <1>5, <2>1, <2>3, <2>4, <3>1, <3>2, <4>2 DEF FailState, FailEffect, u, h, y
      <3>3. CASE ~IsData(k.kind)
        <4>1. FailEffect(k, y)
          BY <1>2, <2>1, <3>3 DEF FailEffect, y
        <4> QED BY <1>5, <2>1, <2>3, <2>4, <3>1, <4>1 DEF FailState, u, h, y
      <3> QED BY <3>2, <3>3
    <2> QED BY <2>6, <2>7
  <1>6. ASSUME k.kind \notin {"commit", "rollback"}, o.tag # "ERROR", y.st = "T",
               Ground(g, y), g.op = "none", g.inTrans,
               y.work # << >> => IF g.accessed THEN ~g.optIn ELSE ~g.optPrev,
               k.prot = "ext" => g = c /\ ~g.inError
        PROVE  /\ k.prot = "simple" => Ground(g, y) /\ DoneState(k, UpdateTransactionStatus(g, y.st), y)
               /\ k.prot = "ext" => Ground(c, y) /\ DoneState(k, c, y)
    <2>0. g \in Conn /\ g.up
      BY <1>0, TagFields
    <2> DEFINE u == UpdateTransactionStatus(g, "T")
    <2>1. /\ u.inTrans /\ ~u.inError /\ u.accessed = g.accessed /\ u.svp = g.svp /\ u.op = g.op
          /\ u.optIn = g.optIn /\ u.optPrev = g.optPrev
      BY <2>0, StatusInTrans
    <2>2. DoneEffect(k, y)
      BY <1>2, <1>6 DEF DoneEffect
    <2> HIDE DEF u, g
    <2>3. DoneState(k, u, y)
      BY <1>6, <2>1, <2>2 DEF DoneState, Settled, Live
    <2>4. k.prot = "ext" => DoneState(k, c, y)
      BY <1>6, <2>2 DEF DoneState, Settled, Live
    <2> QED BY <1>6, <2>3, <2>4 DEF u
  <1>7. CASE /\ k.kind \in {"read", "write", "begin"} /\ x.st = "T" /\ y.st = "T"
             /\ y.svps = x.svps /\ o.tag \in {"READ", "WRITE", "BEGIN"}
             /\ o.tag = "BEGIN" => k.kind = "begin"
    <2>1. Guarded(k, c, x) \/ Bare(k, c, x)
      BY <1>7 DEF Sent, Guards
    <2>2. c.accessed /\ ~c.optIn
      BY <2>1 DEF Guarded, Bare, Armed
    <2>3. /\ g.autocommit = c.autocommit /\ g.up = c.up /\ g.accessed = c.accessed
          /\ g.cursors = c.cursors /\ g.inTrans /\ g.inError = c.inError /\ g.svp = c.svp
          /\ g.op = c.op /\ g.optIn = c.optIn
          /\ k.prot = "ext" => g = c
      <3>1. k.prot = "ext" => k.kind # "begin"
        BY DEF Shape
      <3> HIDE DEF g
      <3> QED BY <1>0, <1>7, <1>t, <3>1
    <2> HIDE DEF g
    <2>4. Ground(g, y)
      BY <1>0, <1>7, <2>3 DEF Ground, Live, TopOwn
    <2>5. k.prot = "ext" => g = c /\ ~g.inError
      BY <1>0, <1>7, <2>3
    <2>6. /\ k.prot = "simple" => Ground(g, y) /\ DoneState(k, UpdateTransactionStatus(g, y.st), y)
          /\ k.prot = "ext" => Ground(c, y) /\ DoneState(k, c, y)
      <3> HIDE DEF y
      <3> QED BY <1>0, <1>6, <1>7, <1>t, <2>2, <2>3, <2>4, <2>5
    <2> QED BY <1>7, <2>6 DEF g
  <1>8. CASE /\ k.kind \in {"savepoint", "release", "rollbackto"} /\ y.st = "T"
             /\ o.tag \in {"SAVEPOINT", "RELEASE", "ROLLBACK"}
             /\ o.tag # "ROLLBACK" => y.work = x.work
    <2>1. ~c.accessed /\ k.prot = "simple"
      BY <1>8 DEF Sent, Guards, Untouched, Shape, CallRec
    <2>2. /\ g.autocommit = c.autocommit /\ g.up = c.up /\ g.accessed = c.accessed
          /\ g.cursors = c.cursors /\ g.inTrans /\ ~g.svp /\ g.op = "none"
          /\ o.tag = "ROLLBACK" => ~g.optPrev
          /\ o.tag # "ROLLBACK" => g.optPrev = c.optPrev
      <3> HIDE DEF g
      <3> QED BY <1>0, <1>8, <1>t
    <2> HIDE DEF g
    <2>3. Ground(g, y)
      BY <1>0, <1>8, <2>2 DEF Ground, Live
    <2>4. y.work # << >> => ~g.optPrev
      BY <1>0, <1>8, <2>2 DEF KnowsWork
    <2>5. /\ k.prot = "simple" => Ground(g, y) /\ DoneState(k, UpdateTransactionStatus(g, y.st), y)
          /\ k.prot = "ext" => Ground(c, y) /\ DoneState(k, c, y)
      <3> HIDE DEF y
      <3> QED BY <1>6, <1>8, <2>1, <2>2, <2>3, <2>4
    <2> QED BY <1>8, <2>1, <2>5 DEF g
  <1>9. k.kind \notin {"commit", "rollback"} =>
           \/ o = Failed(x) /\ (k.kind = "begin" => x.st = "E")
           \/ /\ k.kind \in {"read", "write", "begin"} /\ x.st = "T" /\ y.st = "T"
              /\ y.svps = x.svps /\ o.tag \in {"READ", "WRITE", "BEGIN"}
              /\ o.tag = "BEGIN" => k.kind = "begin"
           \/ /\ k.kind \in {"savepoint", "release", "rollbackto"} /\ y.st = "T"
              /\ o.tag \in {"SAVEPOINT", "RELEASE", "ROLLBACK"}
              /\ o.tag # "ROLLBACK" => y.work = x.work
    BY <1>0, CommandOutcome
  <1> QED BY <1>4, <1>5, <1>7, <1>8, <1>9

-----------------------------------------------------------------------------
(* Steps of one call.                                                      *)

\* What a call that runs may rely on: it is the only one.
LEMMA Alone ==
    ASSUME TypeInv, SerialInv, NEW s \in Threads, calls[s].pc # PcIdle
    PROVE  /\ Shape(calls[s]) /\ Stage(calls[s], wire[s], conn, be)
           /\ (s = Dbc) <=> (calls[s].pc = "endtran")
           /\ \A u \in Threads \ {s} : calls[u].pc = PcIdle /\ wire[u] = << >>
           /\ StatusCopied(s) = UpdateTransactionStatus(conn, be.st)
           /\ Ground(conn, be) /\ conn \in Conn /\ WellFormed(be) /\ be.st \in Statuses
           /\ calls[s] \in CallRec
  <1>1. \A u \in Threads \ {s} : calls[u].pc = PcIdle
    BY DEF SerialInv
  <1>2. \A u \in Threads \ {s} : wire[u] = << >>
    BY <1>1 DEF SerialInv, Mid
  <1>3. Mid(s, calls[s], wire[s], conn, be)
    BY DEF SerialInv
  <1>4. be.st \in Statuses
    BY DEF TypeInv, TypeOK, Session, Statuses
  <1> QED BY <1>1, <1>2, <1>3, <1>4 DEF Mid, StatusCopied, SerialInv, TypeInv, TypeOK, WellFormed

\* A step of one call.
LEMMA OneStep ==
    ASSUME TypeInv, SerialInv, NEW s \in Threads,
           \A u \in Threads \ {s} : calls[u].pc = PcIdle /\ wire[u] = << >>,
           \A u \in Threads \ {s} : calls'[u] = calls[u] /\ wire'[u] = wire[u],
           Ground(conn', be'), Mid(s, calls'[s], wire'[s], conn', be'),
           calls'[s].pc = PcIdle => Calm(conn', be')
    PROVE  SerialInv'
  <1>2. \A u \in Threads : Mid(u, calls'[u], wire'[u], conn', be')
    <2>1. \A u \in Threads \ {s} : Mid(u, calls'[u], wire'[u], conn', be')
      BY DEF Mid
    <2> QED BY <2>1
  <1>3. \A t, u \in Threads : calls'[t].pc # PcIdle /\ calls'[u].pc # PcIdle => t = u
    OBVIOUS
  <1>4. (\A t \in Threads : calls'[t].pc = PcIdle) => Calm(conn', be')
    OBVIOUS
  <1> QED BY <1>2, <1>3, <1>4 DEF SerialInv, AtRest

\* What a call asked for, and under which circumstances.
Asks(K, k) == K.kind = k.kind /\ K.cmd = k.cmd /\ K.before = k.before /\ K.prot = k.prot

\* What GoTo does with the calls.
LEMMA Goes ==
    ASSUME TypeOK, NEW s \in Threads, NEW pc, GoTo(s, pc)
    PROVE  /\ LET K == calls'[s]
              IN  /\ K.pc = pc /\ Asks(K, calls[s]) /\ K.err = calls[s].err
                  /\ K.fail = calls[s].fail
           /\ \A u \in Threads \ {s} : calls'[u] = calls[u]
  BY DEF GoTo, TypeOK, CallRec, Asks

\* What Send does with calls and wire.
LEMMA Sends ==
    ASSUME TypeOK, NEW s \in Threads, NEW pc, NEW cmds, Send(s, pc, cmds)
    PROVE  /\ LET K == calls'[s]
              IN  K.pc = pc /\ Asks(K, calls[s]) /\ K.err = calls[s].err /\ ~K.fail
           /\ wire'[s] = cmds
           /\ \A u \in Threads \ {s} : calls'[u] = calls[u] /\ wire'[u] = wire[u]
  BY DEF Send, TypeOK, CallRec, Asks

\* A call that did not ask for anything else stays what it is.
LEMMA MidOf ==
    ASSUME NEW s \in Stmts, NEW k, Shape(k), NEW K, NEW W, NEW c, NEW x,
           Asks(K, k), K.pc # PcIdle, K.pc # "endtran", Stage(K, W, c, x)
    PROVE  Mid(s, K, W, c, x)
  <1>1. s # Dbc
    BY CoreAssumption
  <1> QED BY <1>1, ShapeKept DEF Mid, Asks

\* Call: a statement is executed, at rest.
LEMMA StepCall ==
    ASSUME TypeInv, SerialInv, Managed, NEW s \in Stmts, Call(s)
    PROVE  SerialInv'
  <1> USE DEF PcIdle
  <1>1. s \in Threads /\ AtRest /\ conn.up
    BY DEF Call, MayCall, Threads, Managed
  <1>2. \A u \in Threads : calls[u].pc = PcIdle /\ wire[u] = << >>
    BY <1>1 DEF AtRest, SerialInv, Mid
  <1>3. Ground(conn, be) /\ Calm(conn, be) /\ be \in Session /\ be.st # "X"
    BY <1>1 DEF SerialInv, TypeInv, TypeOK, Ground
  <1>4. PICK o \in Ops : \E cmd \in BodyOf(o.kind) :
           /\ \E e \in (IF o.kind = "local" THEN BOOLEAN ELSE {FALSE}) :
              calls' = [calls EXCEPT ![s] =
                 [Idle EXCEPT !.pc = IF o.kind = "local" THEN "discard" ELSE "exec",
                              !.kind = o.kind, !.prot = o.prot, !.cmd = cmd,
                              !.err = e, !.before = be]]
    BY DEF Call
  <1>5. PICK cmd \in BodyOf(o.kind) : \E e \in (IF o.kind = "local" THEN BOOLEAN ELSE {FALSE}) :
              calls' = [calls EXCEPT ![s] =
                 [Idle EXCEPT !.pc = IF o.kind = "local" THEN "discard" ELSE "exec",
                              !.kind = o.kind, !.prot = o.prot, !.cmd = cmd,
                              !.err = e, !.before = be]]
    BY <1>4
  <1>6. PICK e \in (IF o.kind = "local" THEN BOOLEAN ELSE {FALSE}) :
              calls' = [calls EXCEPT ![s] =
                 [Idle EXCEPT !.pc = IF o.kind = "local" THEN "discard" ELSE "exec",
                              !.kind = o.kind, !.prot = o.prot, !.cmd = cmd,
                              !.err = e, !.before = be]]
    BY <1>5
  <1> DEFINE K == [Idle EXCEPT !.pc = IF o.kind = "local" THEN "discard" ELSE "exec",
                              !.kind = o.kind, !.prot = o.prot, !.cmd = cmd,
                              !.err = e, !.before = be]
  <1>7. /\ K.pc = (IF o.kind = "local" THEN "discard" ELSE "exec")
        /\ K.kind = o.kind /\ K.prot = o.prot /\ K.cmd = cmd /\ K.err = e /\ K.before = be
    BY DEF Idle
  <1>8. conn' = conn /\ be' = be /\ wire' = wire
    BY DEF Call
  <1>9. calls'[s] = K /\ \A u \in Threads \ {s} : calls'[u] = calls[u]
    BY <1>1, <1>6 DEF TypeInv, TypeOK
  <1>10. o.kind \in ManagedKinds /\ (o.prot = "ext" => o.kind \in {"write", "read"})
    BY DEF Managed
  <1>k. /\ o.kind = "write" => cmd.w \in Writes /\ cmd = WriteCmd(cmd.w)
        /\ o.kind \in {"read", "local"} => cmd = Cmd("READ")
        /\ o.kind = "begin" => cmd = Cmd("BEGIN")
        /\ o.kind = "commit" => cmd = Cmd("COMMIT")
        /\ o.kind = "rollback" => cmd = Cmd("ROLLBACK")
        /\ o.kind = "savepoint" => \E n \in SvpNames \ {Internal} : cmd = SvpCmd("SAVEPOINT", n)
        /\ o.kind = "release" => \E n \in SvpNames \ {Internal} : cmd = SvpCmd("RELEASE", n)
        /\ o.kind = "rollbackto" => \E n \in SvpNames \ {Internal} : cmd = SvpCmd("ROLLBACK TO", n)
    <2>1. o.kind = "write" => \E w \in Writes : cmd = WriteCmd(w)
      BY <1>5 DEF BodyOf
    <2>2. o.kind \in {"read", "local"} => cmd = Cmd("READ")
      BY <1>5 DEF BodyOf
    <2>3. /\ o.kind = "begin" => cmd = Cmd("BEGIN")
          /\ o.kind = "commit" => cmd = Cmd("COMMIT")
          /\ o.kind = "rollback" => cmd = Cmd("ROLLBACK")
      BY <1>5 DEF BodyOf
    <2>4. /\ o.kind = "savepoint" => \E n \in SvpNames \ {Internal} : cmd = SvpCmd("SAVEPOINT", n)
      BY <1>5 DEF BodyOf
    <2>5. /\ o.kind = "release" => \E n \in SvpNames \ {Internal} : cmd = SvpCmd("RELEASE", n)
      BY <1>5 DEF BodyOf
    <2>6. /\ o.kind = "rollbackto" => \E n \in SvpNames \ {Internal} : cmd = SvpCmd("ROLLBACK TO", n)
      BY <1>5 DEF BodyOf
    <2>7. \A w : WriteCmd(w).w = w
      BY DEF WriteCmd
    <2>8. o.kind = "write" => cmd.w \in Writes /\ cmd = WriteCmd(cmd.w)
      BY <2>1, <2>7
    <2> QED BY <2>2, <2>3, <2>4, <2>5, <2>6, <2>8
  <1>11. \A m, n : SvpCmd(m, n).sp = n
    BY DEF SvpCmd
  <1> HIDE DEF K
  <1>12. Shape(K)
    <2>1. be.st = "I" => be.work = << >> /\ be.svps = << >>
      BY <1>3 DEF Ground, Live
    <2>2. /\ o.kind \in {"savepoint", "release", "rollbackto"} => cmd.sp \in SvpNames \ {Internal}
          /\ o.kind = "savepoint" => cmd = SvpCmd("SAVEPOINT", cmd.sp)
          /\ o.kind = "release" => cmd = SvpCmd("RELEASE", cmd.sp)
          /\ o.kind = "rollbackto" => cmd = SvpCmd("ROLLBACK TO", cmd.sp)
      BY ZenonT(40), <1>k, <1>11
    <2> QED BY ZenonT(40), <1>3, <1>7, <1>10, <1>k, <2>1, <2>2 DEF Shape
  <1>13. Stage(K, << >>, conn, be)
    <2>1. CASE o.kind = "local"
      <3>1. Same(K.before, be) /\ Settled(conn, be) /\ ~conn.accessed /\ KnowsWork(conn, be)
        BY <1>3, <1>7 DEF Same, Unchanged, Calm, Untouched
      <3>2. FailState(K, conn, be) /\ DoneState(K, conn, be)
        BY <1>7, <2>1, <3>1 DEF FailState, DoneState, FailEffect, DoneEffect, IsData, KnowsWork
      <3> QED BY <1>7, <2>1, <3>2 DEF Stage, MidPcs, AtDiscard
    <2>2. CASE o.kind # "local"
      <3>1. e = FALSE
        BY <2>2
      <3> QED BY <1>3, <1>7, <2>2, <3>1 DEF Stage, MidPcs, AtExec
    <2> QED BY <2>1, <2>2
  <1>14. K.pc # PcIdle /\ K.pc # "endtran"
    BY <1>7
  <1>15. Mid(s, K, << >>, conn, be)
    BY <1>12, <1>13, <1>14, MidOf DEF Asks
  <1> QED BY <1>1, <1>2, <1>3, <1>8, <1>9, <1>14, <1>15, OneStep

\* The stage a call is in, by its program counter.
LEMMA StageAt ==
    ASSUME NEW k, NEW w, NEW c, NEW x, Stage(k, w, c, x)
    PROVE  /\ k.pc \in MidPcs
           /\ k.pc = "exec" => AtExec(k, w, c, x)
           /\ k.pc = "begin" => AtBegin(k, w, c, x)
           /\ k.pc = "request" => AtRequest(k, w, c, x)
           /\ k.pc = "svp" => AtSvp(k, w, c, x)
           /\ k.pc = "ready" => AtReady(k, w, c, x)
           /\ k.pc = "main" => AtMain(k, w, c, x)
           /\ k.pc = "post" => AtDiscard(k, w, c, x)
           /\ k.pc = "discard" => AtDiscard(k, w, c, x)
           /\ k.pc = "undo" => AtUndo(k, w, c, x)
           /\ k.pc = "aborting" => AtAborting(k, w, c, x)
           /\ k.pc = "abort" => AtAbort(k, w, c, x)
           /\ k.pc = "sync" => AtSync(k, w, c, x)
           /\ k.pc = "end" => AtEnd(k, w, c, x)
  BY DEF Stage

\* The stage of a call from what holds at its program counter.
LEMMA StageBy ==
    ASSUME NEW k, NEW w, NEW c, NEW x,
           \/ k.pc = "begin" /\ AtBegin(k, w, c, x)
           \/ k.pc = "request" /\ AtRequest(k, w, c, x)
           \/ k.pc = "svp" /\ AtSvp(k, w, c, x)
           \/ k.pc = "ready" /\ AtReady(k, w, c, x)
           \/ k.pc = "main" /\ AtMain(k, w, c, x)
           \/ k.pc = "post" /\ AtDiscard(k, w, c, x)
           \/ k.pc = "discard" /\ AtDiscard(k, w, c, x)
           \/ k.pc = "undo" /\ AtUndo(k, w, c, x)
           \/ k.pc = "aborting" /\ AtAborting(k, w, c, x)
           \/ k.pc = "abort" /\ AtAbort(k, w, c, x)
           \/ k.pc = "sync" /\ AtSync(k, w, c, x)
           \/ k.pc = "end" /\ AtEnd(k, w, c, x)
    PROVE  Stage(k, w, c, x) /\ k.pc # PcIdle /\ k.pc # "endtran"
  BY DEF Stage, MidPcs, PcIdle

\* A step of a call on a statement handle that takes it to another stage.
LEMMA Advance ==
    ASSUME TypeInv, SerialInv, NEW s \in Stmts, calls[s].pc # PcIdle,
           \A u \in Threads \ {s} : calls'[u] = calls[u] /\ wire'[u] = wire[u],
           Asks(calls'[s], calls[s]), Ground(conn', be'),
           calls'[s].pc # PcIdle, calls'[s].pc # "endtran",
           Stage(calls'[s], wire'[s], conn', be')
    PROVE  SerialInv'
  <1>1. s \in Threads
    BY DEF Threads
  <1>2. Shape(calls[s]) /\ \A u \in Threads \ {s} : calls[u].pc = PcIdle /\ wire[u] = << >>
    BY <1>1, Alone
  <1>3. Mid(s, calls'[s], wire'[s], conn', be')
    BY <1>2, MidOf
  <1> QED BY <1>1, <1>2, <1>3, OneStep

\* Where a call is, with what it may rely on.
LEMMA At ==
    ASSUME TypeInv, SerialInv, NEW s \in Stmts, calls[s].pc # PcIdle
    PROVE  /\ s \in Threads /\ Shape(calls[s]) /\ Stage(calls[s], wire[s], conn, be)
           /\ \A u \in Threads \ {s} : calls[u].pc = PcIdle /\ wire[u] = << >>
           /\ StatusCopied(s) = UpdateTransactionStatus(conn, be.st)
           /\ Ground(conn, be) /\ conn \in Conn /\ WellFormed(be) /\ be.st \in Statuses
           /\ calls[s] \in CallRec /\ TypeOK
           /\ calls[s].pc \in MidPcs \ {"endtran"}
           /\ DoesAutocommit(conn) = FALSE
  <1>1. s \in Threads /\ s # Dbc
    BY CoreAssumption DEF Threads
  <1>2. calls[s].pc \in MidPcs \ {"endtran"}
    BY <1>1, Alone DEF Stage
  <1>3. ~DoesAutocommit(conn)
    BY DEF SerialInv, Ground, DoesAutocommit
  <1> QED BY <1>1, <1>2, <1>3, Alone DEF TypeInv

\* The message of SetStatementSvp.
LEMMA SvpMessage ==
    SavepointCmds = IF conn.svp THEN <<Release, Savepoint>> ELSE <<Savepoint>>
  <1>1. /\ <<Release>> \o <<Savepoint>> = <<Release, Savepoint>>
        /\ << >> \o <<Savepoint>> = <<Savepoint>>
    BY Joined
  <1>2. SavepointCmds = (IF conn.svp THEN <<Release>> ELSE << >>) \o <<Savepoint>>
    BY DEF SavepointCmds, Release, Savepoint
  <1> QED BY <1>1, <1>2

\* Down: the call does not reach the server (no connection, an error before).
LEMMA StepDown ==
    ASSUME TypeInv, SerialInv, NEW s \in Stmts, Down(s)
    PROVE  SerialInv'
  <1> DEFINE k == calls[s]
             K == calls'[s]
  <1>1. k.pc \in {"exec", "request", "ready"} /\ ~conn.up /\ conn' = conn /\ be' = be /\ wire' = wire
    BY DEF Down
  <1>2. k.pc # PcIdle
    BY <1>1 DEF PcIdle
  <1>3. /\ K.pc = "post" /\ Asks(K, k) /\ K.err
        /\ \A u \in Threads \ {s} : calls'[u] = calls[u]
    BY <1>2, At DEF Down, TypeOK, CallRec, Asks
  <1>4. Stage(k, wire[s], conn, be) /\ Ground(conn, be) /\ be.st = "X"
    BY <1>1, <1>2, At DEF Ground
  <1> HIDE DEF K
  <1>5. wire[s] = << >> /\ Dead(k, conn, be)
    <2>1. CASE k.pc = "exec"
      <3>1. AtExec(k, wire[s], conn, be) /\ Shape(k)
        BY <1>2, <1>4, <2>1, StageAt, At
      <3> QED BY <1>4, <3>1 DEF AtExec, Shape
    <2>2. CASE k.pc = "request"
      <3>1. AtRequest(k, wire[s], conn, be)
        BY <1>4, <2>2, StageAt
      <3> QED BY <1>4, <3>1 DEF AtRequest, Begins
    <2>3. CASE k.pc = "ready"
      <3>1. AtReady(k, wire[s], conn, be)
        BY <1>4, <2>3, StageAt
      <3> QED BY <1>4, <3>1 DEF AtReady
    <2> QED BY <1>1, <2>1, <2>2, <2>3
  <1>6. AtDiscard(K, wire[s], conn, be)
    <2>1. Dead(K, conn, be)
      BY <1>3, <1>5, SameAsked DEF Asks
    <2> QED BY <1>3, <1>5, <2>1 DEF AtDiscard, FailState
  <1> QED BY <1>1, <1>2, <1>3, <1>4, <1>6, StageBy, Advance DEF K

\* BeginFirst: CC_begin before a statement of the extended protocol.
LEMMA StepBeginFirst ==
    ASSUME TypeInv, SerialInv, NEW s \in Stmts, BeginFirst(s)
    PROVE  SerialInv'
  <1> DEFINE k == calls[s]
             K == calls'[s]
  <1>1. k.pc = "exec" /\ k.prot = "ext" /\ conn' = conn /\ be' = be /\ ~conn.inTrans /\ conn.up
    BY DEF BeginFirst, IssueBegin
  <1>2. k.pc # PcIdle
    BY <1>1 DEF PcIdle
  <1>3. /\ K.pc = "begin" /\ Asks(K, k) /\ K.err = k.err /\ wire'[s] = <<Cmd("BEGIN")>>
        /\ \A u \in Threads \ {s} : calls'[u] = calls[u] /\ wire'[u] = wire[u]
    BY <1>2, At, Sends DEF BeginFirst
  <1>4. Stage(k, wire[s], conn, be) /\ Ground(conn, be)
    BY <1>2, At
  <1> HIDE DEF K
  <1>5. AtExec(k, wire[s], conn, be)
    BY <1>1, <1>4, StageAt
  <1>6. be.st = "I"
    <2>1. be.st \in Statuses /\ ~Live(be) /\ be.st # "X"
      BY <1>1, <1>2, <1>4, <1>5, At DEF AtExec, Calm, Settled, Ground
    <2> QED BY <2>1 DEF Live, Statuses
  <1>7. AtBegin(K, wire'[s], conn, be)
    BY <1>1, <1>3, <1>5, <1>6 DEF AtBegin, AtExec, Asks
  <1> QED BY <1>1, <1>2, <1>3, <1>4, <1>7, StageBy, Advance DEF K

\* BeginDone: its answer.
LEMMA StepBeginDone ==
    ASSUME TypeInv, SerialInv, NEW s \in Stmts, BeginDone(s)
    PROVE  SerialInv'
  <1> DEFINE k == calls[s]
             K == calls'[s]
  <1>1. k.pc = "begin" /\ wire[s] = << >> /\ conn' = StatusCopied(s) /\ be' = be /\ wire' = wire
    BY DEF BeginDone, Answered
  <1>2. k.pc # PcIdle
    BY <1>1 DEF PcIdle
  <1>3. /\ K.pc = "request" /\ Asks(K, k) /\ K.err = k.err
        /\ \A u \in Threads \ {s} : calls'[u] = calls[u]
    BY <1>2, At, Goes DEF BeginDone
  <1>4. /\ Stage(k, wire[s], conn, be) /\ Ground(conn, be) /\ be.st \in Statuses /\ conn \in Conn
        /\ conn' = UpdateTransactionStatus(conn, be.st)
    BY <1>1, <1>2, At
  <1> HIDE DEF K
  <1>5. AtRequest(k, << >>, conn, be)
    BY <1>1, <1>4, StageAt DEF AtBegin
  <1>6. Settled(conn, be)
    BY <1>5 DEF AtRequest, Begins, Calm, Dead
  <1>7. conn' = conn
    BY <1>4, <1>6, StatusSettled
  <1>8. AtRequest(K, << >>, conn, be)
    BY <1>3, <1>5, SameAsked DEF AtRequest, Asks
  <1> QED BY <1>1, <1>2, <1>3, <1>4, <1>7, <1>8, StageBy, Advance DEF K

\* DirectSavepoint: SetStatementSvp sends the savepoint in a message of its
\* own.
LEMMA StepDirectSavepoint ==
    ASSUME TypeInv, SerialInv, NEW s \in Stmts, DirectSavepoint(s)
    PROVE  SerialInv'
  <1> DEFINE k == calls[s]
             K == calls'[s]
             c == conn'
  <1>1. /\ k.pc \in {"exec", "request"} /\ be' = be /\ NeedsSvp(s)
        /\ wire'[s] = SavepointCmds
        /\ \A u \in Threads \ {s} : calls'[u] = calls[u] /\ wire'[u] = wire[u]
    BY DEF DirectSavepoint, TypeInv, TypeOK, Threads
  <1>2. k.pc # PcIdle
    BY <1>1 DEF PcIdle
  <1>3. K.pc = "svp" /\ Asks(K, k) /\ K.err = k.err /\ ~K.fail
    BY ZenonT(40), <1>2, At DEF DirectSavepoint, TypeOK, CallRec, Asks
  <1>4. Stage(k, wire[s], conn, be) /\ Ground(conn, be) /\ conn \in Conn
        /\ Shape(k) /\ be.st \in Statuses
    BY <1>1, <1>2, At
  <1>5. conn.inTrans /\ ~conn.inError /\ ~conn.optPrev /\ ~conn.rbpoint /\ k.kind \notin TransKinds
    BY <1>1 DEF NeedsSvp, EntersSvp, ConsidersSvp
  <1>c. /\ c.op = "savepoint" /\ ~c.optIn /\ c.inTrans /\ ~c.inError /\ ~c.optPrev /\ ~c.rbpoint
        /\ c.svp = conn.svp /\ c.up = conn.up /\ c.autocommit = conn.autocommit
        /\ c.cursors = conn.cursors
    <2>1. ~ReadOnly(s)
      BY <1>4 DEF ReadOnly, Shape, ManagedKinds
    <2>2. c = [conn EXCEPT !.op = "savepoint", !.optIn = conn.optIn /\ ReadOnly(s)]
      BY DEF DirectSavepoint
    <2> QED BY <1>4, <1>5, <2>1, <2>2 DEF Conn
  <1> HIDE DEF K, c
  <1>6. AtExec(k, wire[s], conn, be)
    <2>1. CASE k.pc = "exec"
      BY <1>4, <2>1, StageAt
    <2>2. CASE k.pc = "request"
      <3>1. AtRequest(k, wire[s], conn, be)
        BY <1>4, <2>2, StageAt
      <3>2. conn.optPrev
        BY <3>1 DEF AtRequest, Begins, Dead, Settled, Live
      <3> QED BY <1>5, <3>2
    <2> QED BY <1>1, <2>1, <2>2
  <1>7. be = k.before /\ be.st = "T" /\ ~k.err /\ k.kind \in Guards
    <2>1. Live(be) /\ be.st # "E"
      BY <1>5, <1>6 DEF AtExec, Calm, Settled
    <2> QED BY <1>4, <1>5, <1>6, <2>1 DEF AtExec, Live, Shape, ManagedKinds, Guards, TransKinds
  <1>8. Ground(c, be)
    BY <1>4, <1>c DEF Ground
  <1>9. Protecting(K, c, be)
    BY <1>3, <1>7, <1>c DEF Protecting, Asks, Same, Unchanged, KnowsWork
  <1>10. SvpWire(K, wire'[s], c, be)
    <2>1. wire'[s] = IF conn.svp THEN <<Release, Savepoint>> ELSE <<Savepoint>>
      BY <1>1, SvpMessage
    <2> QED BY <1>c, <2>1 DEF SvpWire
  <1>11. AtSvp(K, wire'[s], c, be)
    BY <1>3, <1>7, <1>9, <1>10 DEF AtSvp, Asks
  <1> QED BY <1>1, <1>2, <1>3, <1>8, <1>11, StageBy, Advance DEF K, c

\* SavepointMade: its answer.
LEMMA StepSavepointMade ==
    ASSUME TypeInv, SerialInv, NEW s \in Stmts, SavepointMade(s)
    PROVE  SerialInv'
  <1> DEFINE k == calls[s]
             K == calls'[s]
             c == conn'
  <1>1. k.pc = "svp" /\ wire[s] = << >> /\ be' = be /\ wire' = wire
    BY DEF SavepointMade, Answered
  <1>2. k.pc # PcIdle
    BY <1>1 DEF PcIdle
  <1>3. /\ Asks(K, k)
        /\ k.fail => K.pc \in {"discard", "post"} /\ K.err
        /\ ~k.fail => K.pc = "ready" /\ K.err = k.err
        /\ \A u \in Threads \ {s} : calls'[u] = calls[u]
    <2>1. TypeOK /\ s \in Threads
      BY <1>2, At
    <2>2. CASE k.fail
      <3>1. calls' = [calls EXCEPT ![s].err = TRUE,
                      ![s].pc = IF calls[s].prot = "ext" THEN "discard" ELSE "post"]
        BY <2>2 DEF SavepointMade
      <3> QED BY <2>1, <2>2, <3>1 DEF TypeOK, CallRec, Asks
    <2>3. CASE ~k.fail
      <3>1. GoTo(s, "ready")
        BY <2>3 DEF SavepointMade
      <3> QED BY <2>1, <2>3, <3>1, Goes
    <2> QED BY <2>2, <2>3
  <1>4. /\ Stage(k, wire[s], conn, be) /\ Ground(conn, be) /\ be.st \in Statuses /\ conn \in Conn
        /\ c = [UpdateTransactionStatus(conn, be.st) EXCEPT !.op = "none", !.accessed = TRUE]
    BY <1>2, At DEF SavepointMade
  <1> HIDE DEF K, c
  <1>5. AtSvp(k, << >>, conn, be)
    BY <1>1, <1>4, StageAt
  <1>6. \/ k.fail /\ Dead(k, conn, be)
        \/ ~k.fail /\ Protecting(k, conn, be) /\ SvpWire(k, << >>, conn, be)
    BY <1>5 DEF AtSvp
  <1>7. ~k.fail => conn.op = "none" /\ conn.rbpoint /\ conn.svp /\ TopNow(be) /\ be.st = "T"
    <2>1. << >> # <<Release, Savepoint>> /\ << >> # <<Savepoint>>
      OBVIOUS
    <2> QED BY <1>6, <2>1 DEF SvpWire, Protecting, Same
  <1>8. Settled(conn, be)
    BY <1>6, <1>7 DEF Dead, Protecting, Settled, Live
  <1>9. c = [conn EXCEPT !.op = "none", !.accessed = TRUE]
    BY <1>4, <1>8, StatusSettled
  <1>10. /\ c.op = "none" /\ c.accessed /\ c.autocommit = conn.autocommit /\ c.up = conn.up
         /\ c.inTrans = conn.inTrans /\ c.inError = conn.inError /\ c.rbpoint = conn.rbpoint
         /\ c.svp = conn.svp /\ c.optIn = conn.optIn /\ c.optPrev = conn.optPrev
         /\ c.cursors = conn.cursors
    BY <1>4, <1>9 DEF Conn
  <1>11. Ground(c, be) /\ Settled(c, be)
    BY <1>4, <1>8, <1>10 DEF Ground, Settled
  <1>12. CASE k.fail
    <2>1. FailState(K, c, be)
      BY <1>3, <1>6, <1>11, <1>12 DEF FailState, Dead, Asks
    <2>2. AtDiscard(K, << >>, c, be)
      BY <1>3, <1>12, <2>1 DEF AtDiscard
    <2> QED BY <1>1, <1>2, <1>3, <1>11, <1>12, <2>2, StageBy, Advance DEF K, c
  <1>13. CASE ~k.fail
    <2>1. /\ Guarded(K, c, be) /\ KnowsWork(c, be) /\ Clean(K.before, be) /\ K.kind \in Guards
          /\ ~k.err
      BY <1>3, <1>5, <1>6, <1>7, <1>10, <1>13
         DEF Guarded, Armed, Protecting, KnowsWork, Same, Clean, Asks, AtSvp
    <2>2. Sent(K, c, be)
      BY <1>6, <1>7, <1>10, <1>13, <2>1 DEF Sent, Protecting, Guards
    <2>3. AtReady(K, << >>, c, be)
      BY <1>3, <1>7, <1>13, <2>1, <2>2 DEF AtReady
    <2> QED BY <1>1, <1>2, <1>3, <1>11, <1>13, <2>3, StageBy, Advance DEF K, c
  <1> QED BY <1>12, <1>13

-----------------------------------------------------------------------------
(* SendMain, the message with what CC_send_query_append puts before it.    *)

\* What the driver knows of the session does not depend on manual_trans.
SameFlags(c, d) ==
    /\ d.autocommit = c.autocommit /\ d.inTrans = c.inTrans /\ d.inError = c.inError
    /\ d.accessed = c.accessed /\ d.rbpoint = c.rbpoint /\ d.svp = c.svp /\ d.op = c.op
    /\ d.optIn = c.optIn /\ d.optPrev = c.optPrev /\ d.up = c.up /\ d.cursors = c.cursors

\* What is known of the session depends on some of the flags only.
LEMMA FlagsDecide ==
    ASSUME NEW c, NEW d, SameFlags(c, d), NEW k, NEW x
    PROVE  /\ Ground(c, x) => Ground(d, x)
           /\ FailState(k, c, x) => FailState(k, d, x)
           /\ DoneState(k, c, x) => DoneState(k, d, x)
  <1>1. /\ Ground(c, x) => Ground(d, x)
        /\ Settled(c, x) => Settled(d, x)
        /\ KnowsWork(c, x) => KnowsWork(d, x)
    BY DEF SameFlags, Ground, Settled, KnowsWork
  <1>2. /\ Guarded(k, c, x) => Guarded(k, d, x)
        /\ Bare(k, c, x) => Bare(k, d, x)
    BY DEF SameFlags, Guarded, Bare, Armed
  <1>3. d.accessed = c.accessed /\ d.inTrans = c.inTrans /\ d.optIn = c.optIn /\ d.optPrev = c.optPrev
    BY DEF SameFlags
  <1>4. FailState(k, c, x) => FailState(k, d, x)
    BY <1>1, <1>2, <1>3 DEF FailState, Dead, Undoable
  <1>5. DoneState(k, c, x) => DoneState(k, d, x)
    BY <1>1, <1>3 DEF DoneState
  <1> QED BY <1>1, <1>4, <1>5

\* The copy of the status keeps what the driver knows of the session.
LEMMA GroundCopied ==
    ASSUME NEW c \in Conn, NEW x, x.st \in Statuses, Ground(c, x)
    PROVE  Ground(UpdateTransactionStatus(c, x.st), x)
  <1> DEFINE d == UpdateTransactionStatus(c, x.st)
  <1>1. CASE ~c.up
    BY <1>1 DEF UpdateTransactionStatus
  <1>2. CASE c.up /\ x.st \in {"T", "E"}
    <2>1. d.autocommit = c.autocommit /\ d.up = c.up /\ d.svp = c.svp /\ d.cursors = c.cursors
      BY <1>2, StatusInTrans
    <2> QED BY <2>1 DEF Ground
  <1>3. CASE c.up /\ x.st = "I"
    <2>1. CASE c.inTrans
      <3>1. d.autocommit = c.autocommit /\ d.up = c.up /\ ~d.svp /\ d.cursors = {}
        BY ZenonT(40), <1>3, <2>1, StatusOver, TransEndFields
      <3> QED BY <3>1 DEF Ground
    <2>2. CASE ~c.inTrans
      BY <1>3, <2>2 DEF UpdateTransactionStatus
    <2> QED BY <2>1, <2>2
  <1>4. c.up => x.st # "X"
    BY DEF Ground
  <1> QED BY <1>1, <1>2, <1>3, <1>4 DEF Statuses

\* What SendMain does with the flags of the connection.
LEMMA SendFlags ==
    ASSUME TypeInv, SerialInv, NEW s \in Stmts, SendMain(s), calls[s].kind # "local",
           Shape(calls[s])
    PROVE  LET k == calls[s]
               c == conn'
               enters == k.pc # "ready" /\ EntersSvp(s)
               prepend == k.pc # "ready" /\ NeedsSvp(s)
           IN  /\ ~enters => c = conn
               /\ enters => /\ ~c.optIn /\ c.op = IF prepend THEN "savepoint" ELSE conn.op
                            /\ c.accessed = (conn.accessed \/ k.kind \in Guards)
               /\ c.autocommit = conn.autocommit /\ c.inTrans = conn.inTrans
               /\ c.inError = conn.inError /\ c.rbpoint = conn.rbpoint /\ c.svp = conn.svp
               /\ c.optPrev = conn.optPrev /\ c.up = conn.up /\ c.cursors = conn.cursors
  <1> DEFINE k == calls[s]
             c == conn'
             enters == k.pc # "ready" /\ EntersSvp(s)
             prepend == k.pc # "ready" /\ NeedsSvp(s)
             d == [conn EXCEPT !.optIn = @ /\ ReadOnly(s),
                           !.accessed = @ \/ calls[s].kind \notin TransKinds \cup {"special"},
                           !.op = IF prepend THEN "savepoint" ELSE @]
  <1>1. c = IF ~enters THEN conn ELSE d
    BY DEF SendMain
  <1>2. ~ReadOnly(s) /\ ((k.kind \notin TransKinds \cup {"special"}) <=> k.kind \in Guards)
    BY DEF ReadOnly, Shape, ManagedKinds, TransKinds, Guards
  <1>3. conn \in Conn
    BY DEF TypeInv, TypeOK
  <1>4. /\ d.optIn = (conn.optIn /\ ReadOnly(s))
        /\ d.accessed = (conn.accessed \/ k.kind \notin TransKinds \cup {"special"})
        /\ d.op = (IF prepend THEN "savepoint" ELSE conn.op)
        /\ d.autocommit = conn.autocommit /\ d.inTrans = conn.inTrans
        /\ d.inError = conn.inError /\ d.rbpoint = conn.rbpoint /\ d.svp = conn.svp
        /\ d.optPrev = conn.optPrev /\ d.up = conn.up /\ d.cursors = conn.cursors
    BY <1>3 DEF Conn
  <1> HIDE DEF d, enters, prepend
  <1>5. ~d.optIn
    BY <1>2, <1>4
  <1>6. d.accessed = (conn.accessed \/ k.kind \in Guards)
    BY <1>2, <1>4
  <1>7. /\ ~enters => c = conn
        /\ enters => /\ ~c.optIn /\ c.op = IF prepend THEN "savepoint" ELSE conn.op
                     /\ c.accessed = (conn.accessed \/ k.kind \in Guards)
        /\ c.autocommit = conn.autocommit /\ c.inTrans = conn.inTrans
        /\ c.inError = conn.inError /\ c.rbpoint = conn.rbpoint /\ c.svp = conn.svp
        /\ c.optPrev = conn.optPrev /\ c.up = conn.up /\ c.cursors = conn.cursors
    <2>1. CASE ~enters
      BY <1>1, <2>1
    <2>2. CASE enters
      BY <1>1, <1>4, <1>5, <1>6, <2>2
    <2> QED BY <2>1, <2>2
  <1> QED BY <1>7 DEF enters, prepend

\* What SendMain does with the call and the wire.
LEMMA SendCall ==
    ASSUME TypeInv, NEW s \in Stmts, SendMain(s)
    PROVE  LET k == calls[s]
               K == calls'[s]
               prepend == k.pc # "ready" /\ NeedsSvp(s)
               begin == k.prot = "simple" /\ k.pc # "ready" /\ IssueBegin(s)
           IN  /\ k.pc \in {"exec", "request", "ready"} /\ be' = be /\ conn.up
               /\ k.pc = "exec" /\ k.prot = "ext" => ~IssueBegin(s)
               /\ prepend => k.prot = "simple"
               /\ K.pc = "main" /\ ~K.fail /\ Asks(K, k) /\ K.err = k.err
               /\ ~begin /\ ~prepend => wire'[s] = <<k.cmd>>
               /\ begin /\ ~prepend => wire'[s] = <<Cmd("BEGIN"), k.cmd>>
               /\ ~begin /\ prepend => wire'[s] = IF conn.svp THEN <<Release, Savepoint, k.cmd>>
                                                  ELSE <<Savepoint, k.cmd>>
               /\ \A u \in Threads \ {s} : calls'[u] = calls[u] /\ wire'[u] = wire[u]
  <1> DEFINE k == calls[s]
             K == calls'[s]
             prepend == k.pc # "ready" /\ NeedsSvp(s)
             begin == k.prot = "simple" /\ k.pc # "ready" /\ IssueBegin(s)
  <1>1. s \in Threads /\ TypeOK
    BY DEF Threads, TypeInv
  <1>2. /\ k.pc \in {"exec", "request", "ready"} /\ be' = be /\ conn.up
        /\ k.pc = "exec" /\ k.prot = "ext" => ~IssueBegin(s)
        /\ prepend => k.prot = "simple"
    BY DEF SendMain
  <1>3. calls' = [calls EXCEPT ![s].pc = "main", ![s].fail = FALSE,
                       ![s].lock = @ \/ (k.pc # "ready" /\ EntersSvp(s)),
                       ![s].wasIn = IF calls[s].pc = "exec" THEN conn.inTrans ELSE @]
    BY DEF SendMain
  <1>4. /\ K.pc = "main" /\ ~K.fail /\ Asks(K, k) /\ K.err = k.err
        /\ \A u \in Threads \ {s} : calls'[u] = calls[u]
    BY <1>1, <1>3 DEF TypeOK, CallRec, Asks
  <1>5. wire' = [wire EXCEPT ![s] = (IF begin THEN <<Cmd("BEGIN")>> ELSE << >>)
                      \o (IF prepend THEN SavepointCmds ELSE << >>) \o <<k.cmd>>]
    BY DEF SendMain
  <1> HIDE DEF begin, prepend
  <1>6. /\ wire'[s] = (IF begin THEN <<Cmd("BEGIN")>> ELSE << >>)
                      \o (IF prepend THEN SavepointCmds ELSE << >>) \o <<k.cmd>>
        /\ \A u \in Threads \ {s} : wire'[u] = wire[u]
    BY <1>1, <1>5 DEF TypeOK
  <1>7. ~begin /\ ~prepend => wire'[s] = <<k.cmd>>
    BY <1>6, Joined
  <1>8. begin /\ ~prepend => wire'[s] = <<Cmd("BEGIN"), k.cmd>>
    <2>1. <<Cmd("BEGIN")>> \o << >> = <<Cmd("BEGIN")>>
      BY Joined
    <2>2. <<Cmd("BEGIN")>> \o <<k.cmd>> = <<Cmd("BEGIN"), k.cmd>>
      BY JoinPair
    <2> QED BY <1>6, <2>1, <2>2
  <1>9. ~begin /\ prepend => wire'[s] = IF conn.svp THEN <<Release, Savepoint, k.cmd>>
                                        ELSE <<Savepoint, k.cmd>>
    <2>1. << >> \o SavepointCmds = SavepointCmds
      BY SvpMessage, Joined
    <2>2. /\ <<Release, Savepoint>> \o <<k.cmd>> = <<Release, Savepoint, k.cmd>>
          /\ <<Savepoint>> \o <<k.cmd>> = <<Savepoint, k.cmd>>
      BY JoinPair, JoinTriple
    <2> QED BY <1>6, <2>1, <2>2, SvpMessage
  <1> QED BY <1>2, <1>4, <1>6, <1>7, <1>8, <1>9 DEF begin, prepend

\* The state that SendMain starts from is one of the stages before the message.
LEMMA SendStage ==
    ASSUME TypeInv, SerialInv, NEW s \in Stmts, SendMain(s)
    PROVE  LET k == calls[s]
           IN  /\ k.pc # PcIdle /\ Shape(k) /\ k.kind # "local" /\ ~k.err
               /\ Ground(conn, be) /\ be.st \in Statuses /\ conn \in Conn
               /\ k.pc = "exec" => AtExec(k, wire[s], conn, be)
               /\ k.pc = "request" => k.prot = "ext" /\ k.before.st = "I" /\ Begins(k, conn, be)
               /\ k.pc = "ready" => AtReady(k, wire[s], conn, be)
  <1> DEFINE k == calls[s]
  <1>1. k.pc \in {"exec", "request", "ready"} /\ conn.up
    BY DEF SendMain
  <1>2. k.pc # PcIdle
    BY <1>1 DEF PcIdle
  <1>3. Shape(k) /\ Stage(k, wire[s], conn, be) /\ Ground(conn, be) /\ be.st \in Statuses
        /\ conn \in Conn
    BY <1>2, At
  <1>4. CASE k.pc = "exec"
    <2>1. AtExec(k, wire[s], conn, be)
      BY <1>3, <1>4, StageAt
    <2>2. k.kind # "local" /\ ~k.err
      BY <2>1 DEF AtExec
    <2> QED BY <1>2, <1>3, <1>4, <2>1, <2>2
  <1>5. CASE k.pc = "request"
    <2>1. AtRequest(k, wire[s], conn, be)
      BY <1>3, <1>5, StageAt
    <2>2. ~Dead(k, conn, be)
      BY <1>1, <1>3 DEF Dead, Ground
    <2>3. k.prot = "ext" /\ k.before.st = "I" /\ Begins(k, conn, be) /\ ~k.err
      BY <2>1, <2>2 DEF AtRequest
    <2>4. k.kind # "local"
      BY <1>3, <2>3 DEF Shape
    <2> QED BY <1>2, <1>3, <1>5, <2>3, <2>4
  <1>6. CASE k.pc = "ready"
    <2>1. AtReady(k, wire[s], conn, be)
      BY <1>3, <1>6, StageAt
    <2>2. k.kind # "local" /\ ~k.err
      BY <2>1 DEF AtReady, Guards
    <2> QED BY <1>2, <1>3, <1>6, <2>1, <2>2
  <1> QED BY <1>1, <1>4, <1>5, <1>6

\* What it takes for a command to be next at the server.
LEMMA SentBy ==
    ASSUME NEW k, NEW c, NEW d, NEW x, k.kind # "local", Clean(k.before, x),
           d.inTrans, d.inError <=> x.st = "E", KnowsWork(d, x),
           c.inTrans = d.inTrans, c.inError = d.inError, c.optPrev = d.optPrev, c.op = "none",
           IF k.kind \in Guards /\ x.st = "T" THEN Guarded(k, c, x) \/ Bare(k, c, x)
           ELSE Untouched(c)
    PROVE  Sent(k, c, x)
  <1>1. KnowsWork(c, x) /\ c.inTrans /\ (c.inError <=> x.st = "E")
    BY DEF KnowsWork
  <1> QED BY <1>1 DEF Sent

\* The command is sent behind a savepoint that has been made.
LEMMA SendReady ==
    ASSUME TypeInv, SerialInv, NEW s \in Stmts, SendMain(s), calls[s].pc = "ready"
    PROVE  /\ AtMain(calls'[s], wire'[s], conn', be')
           /\ Ground(conn', be')
  <1> DEFINE k == calls[s]
             K == calls'[s]
  <1>1. AtReady(k, wire[s], conn, be) /\ Ground(conn, be) /\ ~k.err /\ Shape(k) /\ k.kind # "local"
    BY SendStage
  <1>2. conn' = conn
    BY <1>1, SendFlags
  <1>3. be' = be /\ wire'[s] = <<k.cmd>> /\ Asks(K, k) /\ ~K.fail /\ K.err = k.err
    BY SendCall
  <1> HIDE DEF K
  <1>4. Sent(K, conn, be) /\ K.cmd = k.cmd
    BY <1>1, <1>3, SameAsked DEF AtReady, Asks
  <1> QED BY <1>1, <1>2, <1>3, <1>4 DEF AtMain, K

\* The command of the extended protocol is sent in the transaction that has
\* begun.
LEMMA SendRequest ==
    ASSUME TypeInv, SerialInv, NEW s \in Stmts, SendMain(s), calls[s].pc = "request"
    PROVE  /\ AtMain(calls'[s], wire'[s], conn', be')
           /\ Ground(conn', be')
  <1> DEFINE k == calls[s]
             K == calls'[s]
             c == conn'
  <1>1. /\ k.prot = "ext" /\ k.before.st = "I" /\ Begins(k, conn, be) /\ Ground(conn, be)
        /\ ~k.err /\ Shape(k) /\ k.kind # "local"
    BY SendStage
  <1>2. /\ conn.inTrans /\ ~conn.inError /\ ~conn.accessed /\ ~conn.rbpoint /\ conn.op = "none"
        /\ conn.optPrev /\ Clean(k.before, be) /\ be.st = "T" /\ KnowsWork(conn, be)
    BY <1>1 DEF Begins, Calm, Settled, Untouched, Live
  <1>3. EntersSvp(s) /\ ~NeedsSvp(s)
    BY <1>1, <1>2 DEF EntersSvp, ConsidersSvp, NeedsSvp
  <1>4. k.kind \in Guards /\ k.before.work = << >>
    BY <1>1 DEF Shape, Guards
  <1>5. /\ ~c.optIn /\ c.accessed /\ c.op = "none"
        /\ c.autocommit = conn.autocommit /\ c.inTrans = conn.inTrans
        /\ c.inError = conn.inError /\ c.rbpoint = conn.rbpoint /\ c.svp = conn.svp
        /\ c.optPrev = conn.optPrev /\ c.up = conn.up /\ c.cursors = conn.cursors
    BY <1>1, <1>2, <1>3, <1>4, SendFlags
  <1>6. be' = be /\ wire'[s] = <<k.cmd>> /\ Asks(K, k) /\ ~K.fail /\ K.err = k.err
    BY <1>1, <1>3, SendCall
  <1> HIDE DEF K, c
  <1>7. Ground(c, be)
    BY <1>1, <1>5 DEF Ground
  <1>8. Bare(k, c, be)
    BY <1>2, <1>4, <1>5 DEF Bare, Armed
  <1>9. Sent(k, c, be)
    BY <1>1, <1>2, <1>4, <1>5, <1>8, SentBy
  <1>10. Sent(K, c, be) /\ K.cmd = k.cmd
    BY <1>6, <1>9, SameAsked DEF Asks
  <1> QED BY <1>1, <1>6, <1>7, <1>10 DEF AtMain, K, c

\* A message in a transaction that is open.
LEMMA SendInTrans ==
    ASSUME TypeInv, SerialInv, Managed, NEW s \in Stmts, SendMain(s), calls[s].pc = "exec",
           conn.inTrans
    PROVE  /\ AtMain(calls'[s], wire'[s], conn', be')
           /\ Ground(conn', be')
  <1> DEFINE k == calls[s]
             K == calls'[s]
             c == conn'
  <1>1. /\ AtExec(k, wire[s], conn, be) /\ Ground(conn, be) /\ be.st \in Statuses
        /\ ~k.err /\ Shape(k) /\ k.kind # "local"
    BY SendStage
  <1>2. /\ (conn.inError <=> be.st = "E") /\ ~conn.accessed /\ ~conn.rbpoint
        /\ conn.op = "none" /\ KnowsWork(conn, be) /\ be.st \in {"T", "E"} /\ be = k.before
    BY <1>1 DEF AtExec, Calm, Settled, Untouched, Live
  <1>3. Clean(k.before, be)
    BY <1>2 DEF Clean, Unchanged
  <1>4. be' = be /\ Asks(K, k) /\ ~K.fail /\ K.err = k.err
    BY SendCall
  <1>5. ~IssueBegin(s)
    BY DEF IssueBegin
  <1>6. EntersSvp(s) <=> be.st = "T"
    BY <1>2 DEF EntersSvp, ConsidersSvp
  <1>7. NeedsSvp(s) <=> be.st = "T" /\ k.kind \in Guards /\ ~conn.optPrev
    <2>1. (k.kind \notin TransKinds \cup {"special"}) <=> k.kind \in Guards
      BY <1>1 DEF Shape, ManagedKinds, TransKinds, Guards
    <2> QED BY <1>6, <2>1 DEF NeedsSvp, Managed
  <1>8. /\ be.st # "T" => c = conn
        /\ be.st = "T" => /\ ~c.optIn /\ c.op = IF NeedsSvp(s) THEN "savepoint" ELSE conn.op
                          /\ c.accessed = (conn.accessed \/ k.kind \in Guards)
        /\ c.autocommit = conn.autocommit /\ c.inTrans = conn.inTrans
        /\ c.inError = conn.inError /\ c.rbpoint = conn.rbpoint /\ c.svp = conn.svp
        /\ c.optPrev = conn.optPrev /\ c.up = conn.up /\ c.cursors = conn.cursors
    BY <1>1, <1>6, SendFlags
  <1>9. /\ ~NeedsSvp(s) => wire'[s] = <<k.cmd>>
        /\ NeedsSvp(s) => /\ k.prot = "simple"
                          /\ wire'[s] = IF conn.svp THEN <<Release, Savepoint, k.cmd>>
                                        ELSE <<Savepoint, k.cmd>>
    BY <1>5, SendCall
  <1> HIDE DEF K, c
  <1>10. Ground(c, be) /\ KnowsWork(c, be)
    BY <1>1, <1>2, <1>8 DEF Ground, KnowsWork
  <1>11. CASE NeedsSvp(s)
    <2>1. be.st = "T" /\ k.kind \in Guards /\ ~conn.optPrev
      BY <1>7, <1>11
    <2>2. Protecting(K, c, be)
      BY <1>2, <1>4, <1>8, <1>10, <2>1 DEF Protecting, Asks, Same, Unchanged
    <2>3. AfterSvp(K, wire'[s], c, be)
      BY <1>2, <1>4, <1>8, <1>9, <1>11, <2>1, <2>2 DEF AfterSvp, Asks
    <2> QED BY <1>1, <1>4, <1>9, <1>10, <1>11, <2>3 DEF AtMain, Asks, K, c
  <1>12. CASE ~NeedsSvp(s)
    <2>1. ASSUME k.kind \in Guards, be.st = "T" PROVE Bare(k, c, be)
      <3>1. k.before.work = << >>
        BY <1>2, <1>7, <1>12, <2>1 DEF KnowsWork
      <3>2. ~c.optIn /\ c.accessed /\ ~c.rbpoint
        BY <1>2, <1>8, <2>1
      <3> QED BY <3>1, <3>2 DEF Bare, Armed
    <2>2. ASSUME ~(k.kind \in Guards /\ be.st = "T") PROVE Untouched(c)
      <3>1. CASE be.st = "T"
        <4>1. c.accessed = (conn.accessed \/ k.kind \in Guards) /\ c.rbpoint = conn.rbpoint
          BY <1>8, <3>1
        <4>2. ~conn.accessed /\ k.kind \notin Guards /\ ~conn.rbpoint
          BY <1>2, <2>2, <3>1
        <4>3. ~c.accessed /\ ~c.rbpoint
          BY <4>1, <4>2
        <4> QED BY <4>3 DEF Untouched
      <3>2. CASE be.st # "T"
        BY <1>2, <1>8, <3>2 DEF Untouched
      <3> QED BY <3>1, <3>2
    <2>3. Sent(k, c, be)
      <3>1. c.op = "none"
        BY <1>2, <1>8, <1>12
      <3>2. /\ c.inTrans = conn.inTrans /\ c.inError = conn.inError /\ c.optPrev = conn.optPrev
            /\ (conn.inError <=> be.st = "E") /\ KnowsWork(conn, be)
        BY <1>2, <1>8
      <3> QED BY <1>1, <1>3, <2>1, <2>2, <3>1, <3>2, SentBy
    <2>4. Sent(K, c, be) /\ K.cmd = k.cmd
      BY <1>4, <2>3, SameAsked DEF Asks
    <2> QED BY <1>1, <1>4, <1>9, <1>10, <1>12, <2>4 DEF AtMain, K, c
  <1> QED BY <1>11, <1>12

\* A message that begins the transaction.
LEMMA SendBegin ==
    ASSUME TypeInv, SerialInv, Managed, NEW s \in Stmts, SendMain(s), calls[s].pc = "exec",
           ~conn.inTrans
    PROVE  /\ AtMain(calls'[s], wire'[s], conn', be')
           /\ Ground(conn', be')
  <1> DEFINE k == calls[s]
             K == calls'[s]
             c == conn'
  <1>1. /\ AtExec(k, wire[s], conn, be) /\ Ground(conn, be) /\ be.st \in Statuses
        /\ ~k.err /\ Shape(k) /\ k.kind # "local" /\ conn.up /\ conn \in Conn
        /\ calls[s] \in CallRec /\ ~DoesAutocommit(conn)
    BY SendStage, At DEF SendMain
  <1>2. /\ ~conn.inError /\ ~conn.accessed /\ ~conn.rbpoint /\ ~conn.svp
        /\ conn.op = "none" /\ be = k.before /\ ~Live(be) /\ be.st # "X"
    BY <1>1 DEF AtExec, Calm, Settled, Untouched, Live, Ground
  <1>3. be.st = "I"
    BY <1>1, <1>2 DEF Live, Statuses
  <1>4. IssueBegin(s) /\ ~NeedsSvp(s)
    BY <1>1 DEF IssueBegin, NeedsSvp, Shape, ManagedKinds
  <1>5. EntersSvp(s)
    BY <1>2, <1>4 DEF EntersSvp, ConsidersSvp
  <1>6. k.prot = "simple" /\ Asks(K, k) /\ ~K.fail /\ K.err = k.err /\ be' = be
        /\ wire'[s] = <<Cmd("BEGIN"), k.cmd>>
    <2>1. k.prot # "ext"
      BY <1>4, SendCall
    <2>2. k.prot = "simple"
      BY <1>1, <2>1 DEF CallRec
    <2> QED BY <1>4, <2>2, SendCall
  <1>7. /\ ~c.optIn /\ c.op = "none" /\ c.accessed = (k.kind \in Guards)
        /\ c.autocommit = conn.autocommit /\ c.inTrans = conn.inTrans
        /\ c.inError = conn.inError /\ c.rbpoint = conn.rbpoint /\ c.svp = conn.svp
        /\ c.optPrev = conn.optPrev /\ c.up = conn.up /\ c.cursors = conn.cursors
    <2>1. /\ ~c.optIn /\ c.op = (IF NeedsSvp(s) THEN "savepoint" ELSE conn.op)
          /\ c.accessed = (conn.accessed \/ k.kind \in Guards)
          /\ c.autocommit = conn.autocommit /\ c.inTrans = conn.inTrans
          /\ c.inError = conn.inError /\ c.rbpoint = conn.rbpoint /\ c.svp = conn.svp
          /\ c.optPrev = conn.optPrev /\ c.up = conn.up /\ c.cursors = conn.cursors
      BY <1>1, <1>5, SendFlags
    <2>2. (conn.accessed \/ k.kind \in Guards) = (k.kind \in Guards)
      BY <1>2
    <2> QED BY <1>2, <1>4, <2>1, <2>2
  <1> HIDE DEF K, c
  <1>8. Ground(c, be)
    BY <1>1, <1>7 DEF Ground
  <1>9. AfterBegin(K, wire'[s], c, be)
    BY <1>1, <1>2, <1>3, <1>6, <1>7 DEF AfterBegin, Asks, Armed
  <1> QED BY <1>1, <1>6, <1>8, <1>9 DEF AtMain, Asks, K, c

\* SendMain: SC_execute or libpq_bind_and_exec sends the command of the call.
LEMMA StepSendMain ==
    ASSUME TypeInv, SerialInv, Managed, NEW s \in Stmts, SendMain(s)
    PROVE  SerialInv'
  <1> DEFINE k == calls[s]
             K == calls'[s]
  <1>1. /\ k.pc \in {"exec", "request", "ready"} /\ K.pc = "main" /\ Asks(K, k)
        /\ \A u \in Threads \ {s} : calls'[u] = calls[u] /\ wire'[u] = wire[u]
    BY SendCall
  <1>2. k.pc # PcIdle
    BY <1>1 DEF PcIdle
  <1>3. AtMain(K, wire'[s], conn', be') /\ Ground(conn', be')
    BY <1>1, SendReady, SendRequest, SendInTrans, SendBegin
  <1> HIDE DEF K
  <1>4. Stage(K, wire'[s], conn', be') /\ K.pc # PcIdle /\ K.pc # "endtran"
    BY <1>1, <1>3, StageBy
  <1> QED BY <1>1, <1>2, <1>3, <1>4, Advance DEF K

-----------------------------------------------------------------------------
(* After the answers, up to the end of the call.                           *)

\* No message is empty.
LEMMA NotEmpty ==
    ASSUME NEW a, NEW b, NEW d
    PROVE  << >> # <<a>> /\ << >> # <<a, b>> /\ << >> # <<a, b, d>>
  OBVIOUS

\* MainDone: the call has its answers; the simple protocol copies the status.
LEMMA StepMainDone ==
    ASSUME TypeInv, SerialInv, NEW s \in Stmts, MainDone(s)
    PROVE  SerialInv'
  <1> DEFINE k == calls[s]
             K == calls'[s]
             c == conn'
  <1>1. k.pc = "main" /\ wire[s] = << >> /\ be' = be /\ wire' = wire
    BY DEF MainDone, Answered
  <1>2. k.pc # PcIdle
    BY <1>1 DEF PcIdle
  <1>3. /\ Stage(k, wire[s], conn, be) /\ Ground(conn, be) /\ be.st \in Statuses /\ conn \in Conn
        /\ StatusCopied(s) = UpdateTransactionStatus(conn, be.st) /\ Shape(k)
        /\ TypeOK /\ s \in Threads /\ k \in CallRec
    BY <1>2, At
  <1>4. /\ K.pc = "post" /\ Asks(K, k) /\ K.err = k.fail
        /\ \A u \in Threads \ {s} : calls'[u] = calls[u]
    BY <1>3 DEF MainDone, TypeOK, CallRec, Asks
  <1>5. AtMain(k, << >>, conn, be)
    BY <1>1, <1>3, StageAt
  <1>6. c = AfterMain(k, conn, be)
    <2>1. k.kind # "declare"
      BY <1>3 DEF Shape, ManagedKinds
    <2>2. Queried(s) <=> k.prot = "simple"
      BY <1>1, <1>3 DEF Queried, CallRec
    <2> QED BY <1>3, <2>1, <2>2 DEF MainDone, AfterMain
  <1> HIDE DEF K, c
  <1>7. \/ ~k.fail /\ DoneState(k, c, be)
        \/ k.fail /\ FailState(k, c, be)
    <2>1. << >> # <<k.cmd>>
      BY NotEmpty
    <2>2. ~AfterBegin(k, << >>, conn, be) /\ ~AfterSvp(k, << >>, conn, be)
      BY NotEmpty DEF AfterBegin, AfterSvp
    <2> QED BY <1>5, <1>6, <2>1, <2>2 DEF AtMain
  <1>8. AtDiscard(K, << >>, c, be)
    BY <1>4, <1>7, <1>3, SameAsked DEF AtDiscard, Asks, CallRec
  <1>9. Ground(c, be)
    BY <1>3, <1>6, GroundCopied DEF AfterMain
  <1> QED BY <1>1, <1>2, <1>4, <1>8, <1>9, StageBy, Advance DEF K, c

\* Post: what SC_execute does after its last answer.
LEMMA StepPost ==
    ASSUME TypeInv, SerialInv, NEW s \in Stmts, Post(s)
    PROVE  SerialInv'
  <1> DEFINE k == calls[s]
             K == calls'[s]
             c == conn'
  <1>1. k.pc = "post" /\ be' = be /\ wire' = wire
    BY DEF Post
  <1>2. k.pc # PcIdle
    BY <1>1 DEF PcIdle
  <1>3. /\ Stage(k, wire[s], conn, be) /\ Ground(conn, be) /\ conn \in Conn /\ Shape(k)
        /\ TypeOK /\ s \in Threads /\ k \in CallRec
    BY <1>2, At
  <1>4. /\ K.pc = "discard" /\ Asks(K, k) /\ (K.err <=> k.err)
        /\ \A u \in Threads \ {s} : calls'[u] = calls[u]
    <2>1. k.kind # "call"
      BY <1>3 DEF Shape, ManagedKinds
    <2>2. calls' = [calls EXCEPT ![s].pc = "discard", ![s].err = @ \/ FALSE]
      BY <2>1 DEF Post
    <2> QED BY <1>3, <2>2 DEF TypeOK, CallRec, Asks
  <1>5. SameFlags(conn, c)
    <2>1. c = [conn EXCEPT !.manual = @ \/ /\ calls[s].kind \notin SelectKinds \cup {"ro"}
                                           /\ conn.inTrans /\ ~calls[s].wasIn]
      BY DEF Post
    <2> QED BY <1>3, <2>1 DEF SameFlags, Conn
  <1> HIDE DEF K, c
  <1>6. AtDiscard(k, wire[s], conn, be)
    BY <1>1, <1>3, StageAt
  <1>7. AtDiscard(K, wire[s], c, be)
    BY <1>4, <1>5, <1>6, FlagsDecide, SameAsked DEF AtDiscard, Asks
  <1>8. Ground(c, be)
    BY <1>3, <1>5, FlagsDecide
  <1> QED BY <1>1, <1>2, <1>4, <1>7, <1>8, StageBy, Advance DEF K, c

\* What DiscardStatementSvp may find, and what it then decides.
LEMMA Found ==
    ASSUME TypeInv, SerialInv, Managed, NEW s \in Stmts, calls[s].pc = "discard"
    PROVE  LET k == calls[s]
           IN  /\ wire[s] = << >>
               /\ k.err => FailState(k, conn, be)
               /\ ~k.err => DoneState(k, conn, be)
               /\ Engaged(s) => Undoable(k, conn, be)
               /\ Undoable(k, conn, be) /\ k.err => Engaged(s) /\ conn.inError
               /\ ~Undoable(k, conn, be) /\ k.err =>
                      Settled(conn, be) /\ FailEffect(k, be) /\ KnowsWork(conn, be)
  <1> DEFINE k == calls[s]
  <1>1. k.pc # PcIdle
    BY DEF PcIdle
  <1>2. Stage(k, wire[s], conn, be) /\ Ground(conn, be) /\ k \in CallRec
    BY <1>1, At
  <1>3. AtDiscard(k, wire[s], conn, be)
    BY <1>2, StageAt
  <1>4. wire[s] = << >> /\ (k.err => FailState(k, conn, be)) /\ (~k.err => DoneState(k, conn, be))
    BY <1>3 DEF AtDiscard
  <1>5. Engaged(s) <=> conn.accessed /\ conn.inTrans /\ k.err
    BY DEF Engaged, Managed
  <1>6. Dead(k, conn, be) => /\ ~conn.inTrans /\ Settled(conn, be) /\ FailEffect(k, be)
                             /\ KnowsWork(conn, be)
    BY <1>2 DEF Dead, Settled, Live, FailEffect, KnowsWork, Ground
  <1>7. Undoable(k, conn, be) => conn.inTrans /\ conn.inError /\ conn.accessed
    BY DEF Undoable, Guarded, Bare, Armed, Settled, Live
  <1>8. k.err => \/ Dead(k, conn, be) \/ Undoable(k, conn, be)
                 \/ ~conn.accessed /\ Settled(conn, be) /\ FailEffect(k, be) /\ KnowsWork(conn, be)
    BY <1>4 DEF FailState
  <1> QED BY <1>4, <1>5, <1>6, <1>7, <1>8

\* Discard: DiscardStatementSvp looks at the outcome of the statement.
LEMMA StepDiscard ==
    ASSUME TypeInv, SerialInv, Managed, NEW s \in Stmts, Discard(s)
    PROVE  SerialInv'
  <1> DEFINE k == calls[s]
             K == calls'[s]
  <1>1. /\ k.pc = "discard" /\ be' = be /\ wire' = wire /\ conn' = conn
        /\ ~Engaged(s) \/ ~conn.inError
    BY DEF Discard
  <1>2. k.pc # PcIdle
    BY <1>1 DEF PcIdle
  <1>3. Ground(conn, be) /\ TypeOK /\ s \in Threads
    BY <1>2, At
  <1>4. /\ K.pc = "end" /\ Asks(K, k) /\ K.err = k.err
        /\ \A u \in Threads \ {s} : calls'[u] = calls[u]
    BY <1>3, Goes DEF Discard
  <1> HIDE DEF K
  <1>5. wire[s] = << >> /\ IF k.err THEN Settled(conn, be) /\ FailEffect(k, be) /\ KnowsWork(conn, be)
                           ELSE DoneState(k, conn, be)
    BY <1>1, Found
  <1>6. AtEnd(K, wire[s], conn, be)
    BY <1>4, <1>5, SameAsked DEF AtEnd, Asks
  <1> QED BY <1>1, <1>2, <1>3, <1>4, <1>6, StageBy, Advance DEF K

\* Undo: it sends ROLLBACK TO and RELEASE of the internal savepoint.
LEMMA StepUndo ==
    ASSUME TypeInv, SerialInv, Managed, NEW s \in Stmts, Undo(s)
    PROVE  SerialInv'
  <1> DEFINE k == calls[s]
             K == calls'[s]
  <1>1. /\ k.pc = "discard" /\ be' = be /\ conn' = conn
        /\ Engaged(s) /\ HasRbPoint /\ conn.inError
    BY DEF Undo
  <1>2. k.pc # PcIdle
    BY <1>1 DEF PcIdle
  <1>3. Ground(conn, be) /\ TypeOK /\ s \in Threads
    BY <1>2, At
  <1>4. /\ K.pc = "undo" /\ Asks(K, k) /\ K.err = k.err /\ wire'[s] = UndoCmds
        /\ \A u \in Threads \ {s} : calls'[u] = calls[u] /\ wire'[u] = wire[u]
    BY <1>3, Sends DEF Undo
  <1> HIDE DEF K
  <1>5. k.err /\ Undoable(k, conn, be)
    BY <1>1, Found DEF Engaged
  <1>6. Guarded(k, conn, be)
    BY <1>1, <1>5 DEF Undoable, Bare, HasRbPoint
  <1>7. AtUndo(K, wire'[s], conn, be)
    BY <1>4, <1>5, <1>6, SameAsked DEF AtUndo, Asks
  <1> QED BY <1>1, <1>2, <1>3, <1>4, <1>7, StageBy, Advance DEF K

\* UndoDone: the answers to them.
LEMMA StepUndoDone ==
    ASSUME TypeInv, SerialInv, NEW s \in Stmts, UndoDone(s)
    PROVE  SerialInv'
  <1> DEFINE k == calls[s]
             K == calls'[s]
             c == conn'
  <1>1. k.pc = "undo" /\ wire[s] = << >> /\ be' = be /\ wire' = wire
    BY DEF UndoDone, Answered
  <1>2. k.pc # PcIdle
    BY <1>1 DEF PcIdle
  <1>3. /\ Stage(k, wire[s], conn, be) /\ Ground(conn, be) /\ be.st \in Statuses /\ conn \in Conn
        /\ TypeOK /\ s \in Threads /\ c = UpdateTransactionStatus(conn, be.st)
    BY <1>2, At DEF UndoDone
  <1>4. /\ K.pc = "end" /\ Asks(K, k) /\ K.err = k.err
        /\ \A u \in Threads \ {s} : calls'[u] = calls[u]
    BY <1>3, Goes DEF UndoDone
  <1> HIDE DEF K, c
  <1>5. AtUndo(k, << >>, conn, be)
    BY <1>1, <1>3, StageAt
  <1>6. k.err /\ (Dead(k, conn, be) \/ Undone(k, conn, be))
    <2>1. << >> # UndoCmds
      BY NotEmpty DEF UndoCmds
    <2> QED BY <1>5, <2>1 DEF AtUndo
  <1>7. Ground(c, be)
    BY <1>3, GroundCopied
  <1>8. Settled(c, be) /\ FailEffect(k, be) /\ KnowsWork(c, be)
    <2>1. CASE Dead(k, conn, be)
      <3>1. Settled(conn, be) /\ FailEffect(k, be) /\ KnowsWork(conn, be)
        BY <1>3, <2>1 DEF Dead, FailEffect, KnowsWork, Ground, Live
      <3> QED BY <1>3, <3>1, StatusSettled
    <2>2. CASE Undone(k, conn, be)
      <3>1. be.st = "T" /\ conn.up
        BY <1>3, <2>2 DEF Undone, Ground
      <3>2. c.inTrans /\ ~c.inError /\ c.op = conn.op /\ c.optPrev = conn.optPrev
        BY <1>3, <3>1, StatusInTrans
      <3>3. Settled(c, be) /\ KnowsWork(c, be)
        BY <2>2, <3>1, <3>2 DEF Undone, Settled, Live, KnowsWork
      <3>4. FailEffect(k, be)
        BY <2>2 DEF Undone, FailEffect
      <3> QED BY <3>3, <3>4
    <2> QED BY <1>6, <2>1, <2>2
  <1>9. AtEnd(K, << >>, c, be)
    BY <1>4, <1>6, <1>8, SameAsked DEF AtEnd, Asks
  <1> QED BY <1>1, <1>2, <1>4, <1>7, <1>9, StageBy, Advance DEF K, c

\* DecideAbort: without a savepoint it turns to CC_abort.
LEMMA StepDecideAbort ==
    ASSUME TypeInv, SerialInv, Managed, NEW s \in Stmts, DecideAbort(s)
    PROVE  SerialInv'
  <1> DEFINE k == calls[s]
             K == calls'[s]
  <1>1. /\ k.pc = "discard" /\ be' = be /\ conn' = conn /\ wire' = wire
        /\ Engaged(s) /\ ~HasRbPoint
    BY DEF DecideAbort
  <1>2. k.pc # PcIdle
    BY <1>1 DEF PcIdle
  <1>3. Ground(conn, be) /\ TypeOK /\ s \in Threads
    BY <1>2, At
  <1>4. /\ K.pc = "aborting" /\ Asks(K, k) /\ K.err = k.err
        /\ \A u \in Threads \ {s} : calls'[u] = calls[u]
    BY <1>3, Goes DEF DecideAbort
  <1> HIDE DEF K
  <1>5. k.err /\ Undoable(k, conn, be) /\ wire[s] = << >>
    BY <1>1, Found DEF Engaged
  <1>6. Bare(k, conn, be)
    BY <1>1, <1>5 DEF Undoable, Guarded, HasRbPoint
  <1>7. AtAborting(K, wire[s], conn, be)
    BY <1>4, <1>5, <1>6, SameAsked DEF AtAborting, Asks
  <1> QED BY <1>1, <1>2, <1>3, <1>4, <1>7, StageBy, Advance DEF K

\* Abort: CC_abort sends ROLLBACK.
LEMMA StepAbort ==
    ASSUME TypeInv, SerialInv, NEW s \in Stmts, Abort(s)
    PROVE  SerialInv'
  <1> DEFINE k == calls[s]
             K == calls'[s]
  <1>1. k.pc = "aborting" /\ be' = be /\ conn' = conn
    BY DEF Abort
  <1>2. k.pc # PcIdle
    BY <1>1 DEF PcIdle
  <1>3. Ground(conn, be) /\ TypeOK /\ s \in Threads /\ Stage(k, wire[s], conn, be)
    BY <1>2, At
  <1>4. AtAborting(k, wire[s], conn, be)
    BY <1>1, <1>3, StageAt
  <1>5. conn.up
    BY <1>3, <1>4 DEF AtAborting, Undoable, Ground
  <1>6. /\ K.pc = "abort" /\ Asks(K, k) /\ K.err = k.err /\ wire'[s] = <<Cmd("ROLLBACK")>>
        /\ \A u \in Threads \ {s} : calls'[u] = calls[u] /\ wire'[u] = wire[u]
    BY <1>3, <1>5, Sends DEF Abort
  <1> HIDE DEF K
  <1>7. AtAbort(K, wire'[s], conn, be)
    BY <1>4, <1>6, SameAsked DEF AtAborting, AtAbort, Asks
  <1> QED BY <1>1, <1>2, <1>3, <1>6, <1>7, StageBy, Advance DEF K

\* AbortDone: its answer.
LEMMA StepAbortDone ==
    ASSUME TypeInv, SerialInv, NEW s \in Stmts, AbortDone(s)
    PROVE  SerialInv'
  <1> DEFINE k == calls[s]
             K == calls'[s]
  <1>1. k.pc = "abort" /\ wire[s] = << >> /\ be' = be /\ conn' = conn /\ wire' = wire
    BY DEF AbortDone, Answered
  <1>2. k.pc # PcIdle
    BY <1>1 DEF PcIdle
  <1>3. Ground(conn, be) /\ TypeOK /\ s \in Threads /\ Stage(k, wire[s], conn, be)
    BY <1>2, At
  <1>4. /\ K.pc = "sync" /\ Asks(K, k) /\ K.err = k.err
        /\ \A u \in Threads \ {s} : calls'[u] = calls[u]
    BY <1>3, Goes DEF AbortDone
  <1> HIDE DEF K
  <1>5. AtAbort(k, << >>, conn, be)
    BY <1>1, <1>3, StageAt
  <1>6. k.err /\ GaveUp(k, conn, be)
    <2>1. << >> # <<Cmd("ROLLBACK")>>
      BY NotEmpty
    <2> QED BY <1>5, <2>1 DEF AtAbort
  <1>7. AtSync(K, << >>, conn, be)
    BY <1>4, <1>6, SameAsked DEF AtSync, Asks
  <1> QED BY <1>1, <1>2, <1>3, <1>4, <1>7, StageBy, Advance DEF K

\* Sync: the flags after the rollback.
LEMMA StepSync ==
    ASSUME TypeInv, SerialInv, NEW s \in Stmts, Sync(s)
    PROVE  SerialInv'
  <1> DEFINE k == calls[s]
             K == calls'[s]
             c == conn'
  <1>1. k.pc = "sync" /\ be' = be /\ wire' = wire
    BY DEF Sync
  <1>2. k.pc # PcIdle
    BY <1>1 DEF PcIdle
  <1>3. /\ Stage(k, wire[s], conn, be) /\ Ground(conn, be) /\ be.st \in Statuses /\ conn \in Conn
        /\ TypeOK /\ s \in Threads /\ c = UpdateTransactionStatus(conn, be.st) /\ Shape(k)
        /\ k \in CallRec
    BY <1>2, At DEF Sync
  <1>4. /\ K.pc = "end" /\ Asks(K, k) /\ K.err = k.err
        /\ \A u \in Threads \ {s} : calls'[u] = calls[u]
    <2>1. k.kind # "close"
      BY <1>3 DEF Shape, ManagedKinds
    <2>2. GoTo(s, "end")
      BY <2>1 DEF Sync
    <2> QED BY <1>3, <2>2, Goes
  <1> HIDE DEF K, c
  <1>5. AtSync(k, wire[s], conn, be)
    BY <1>1, <1>3, StageAt
  <1>6. k.err /\ wire[s] = << >> /\ GaveUp(k, conn, be)
    BY <1>5 DEF AtSync
  <1>7. Ground(c, be)
    BY <1>3, GroundCopied
  <1>8. Settled(c, be) /\ FailEffect(k, be) /\ KnowsWork(c, be)
    <2>1. CASE Dead(k, conn, be)
      <3>1. Settled(conn, be) /\ FailEffect(k, be) /\ KnowsWork(conn, be)
        BY <1>3, <2>1 DEF Dead, FailEffect, KnowsWork, Ground, Live
      <3> QED BY <1>3, <3>1, StatusSettled
    <2>2. CASE IsData(k.kind) /\ Emptied(k.before, be) /\ conn.inTrans
      <3>1. be.st = "I" /\ be.work = << >>
        BY <2>2 DEF Emptied, FreshSession
      <3>2. conn.up
        BY <1>3, <3>1 DEF Ground
      <3>3. ~c.inTrans /\ ~c.inError /\ ~c.rbpoint /\ ~c.svp /\ c.op = "none" /\ c.optPrev
        BY ZenonT(40), <1>3, <2>2, <3>1, <3>2, StatusOver, TransEndFields
      <3>4. Settled(c, be) /\ KnowsWork(c, be)
        BY <3>1, <3>3 DEF Settled, Live, KnowsWork
      <3>5. FailEffect(k, be)
        BY <2>2 DEF FailEffect
      <3> QED BY <3>4, <3>5
    <2> QED BY <1>6, <2>1, <2>2 DEF GaveUp
  <1>9. AtEnd(K, wire[s], c, be)
    BY <1>4, <1>6, <1>8, SameAsked DEF AtEnd, Asks
  <1> QED BY <1>1, <1>2, <1>4, <1>7, <1>9, StageBy, Advance DEF K, c

\* EndCall: the entry point returns.
LEMMA StepEndCall ==
    ASSUME TypeInv, SerialInv, NEW s \in Stmts, EndCall(s)
    PROVE  SerialInv'
  <1> DEFINE k == calls[s]
             c == conn'
             e == [conn EXCEPT !.optPrev = conn.optIn, !.optIn = TRUE]
  <1>1. k.pc = "end" /\ be' = be /\ wire' = wire
    BY DEF EndCall
  <1>2. k.pc # PcIdle
    BY <1>1 DEF PcIdle
  <1>3. /\ Stage(k, wire[s], conn, be) /\ Ground(conn, be) /\ conn \in Conn
        /\ TypeOK /\ s \in Threads
        /\ \A u \in Threads \ {s} : calls[u].pc = PcIdle /\ wire[u] = << >>
    BY <1>2, At
  <1>4. calls'[s] = Idle /\ \A u \in Threads \ {s} : calls'[u] = calls[u]
    BY <1>3 DEF EndCall, TypeOK
  <1>5. calls'[s].pc = PcIdle
    BY <1>4 DEF Idle
  <1>6. AtEnd(k, wire[s], conn, be)
    BY <1>1, <1>3, StageAt
  <1>7. /\ ~c.accessed /\ ~c.rbpoint /\ c.autocommit = conn.autocommit /\ c.up = conn.up
        /\ c.inTrans = conn.inTrans /\ c.inError = conn.inError /\ c.svp = conn.svp
        /\ c.op = conn.op /\ c.cursors = conn.cursors
        /\ c.optPrev = IF ~k.err /\ conn.accessed THEN conn.optIn ELSE conn.optPrev
    <2>1. c = StartStmt(IF ~k.err /\ conn.accessed THEN e ELSE conn)
      BY DEF EndCall
    <2>2. /\ e \in Conn /\ e.optPrev = conn.optIn /\ e.autocommit = conn.autocommit
          /\ e.up = conn.up /\ e.inTrans = conn.inTrans /\ e.inError = conn.inError
          /\ e.svp = conn.svp /\ e.op = conn.op /\ e.cursors = conn.cursors
      BY <1>3 DEF Conn
    <2> HIDE DEF e
    <2>3. ASSUME NEW d \in Conn
          PROVE  /\ ~StartStmt(d).accessed /\ ~StartStmt(d).rbpoint
                 /\ StartStmt(d).autocommit = d.autocommit /\ StartStmt(d).up = d.up
                 /\ StartStmt(d).inTrans = d.inTrans /\ StartStmt(d).inError = d.inError
                 /\ StartStmt(d).svp = d.svp /\ StartStmt(d).op = d.op
                 /\ StartStmt(d).cursors = d.cursors /\ StartStmt(d).optPrev = d.optPrev
      BY DEF StartStmt, Conn
    <2> QED BY <1>3, <2>1, <2>2, <2>3
  <1> HIDE DEF c
  <1>8. Ground(c, be)
    BY <1>3, <1>7 DEF Ground
  <1>9. Settled(conn, be) /\ (k.err => KnowsWork(conn, be)) /\ wire[s] = << >>
    BY <1>6 DEF AtEnd, DoneState
  <1>10. Calm(c, be)
    <2>1. CASE k.err
      BY <1>7, <1>9, <2>1 DEF Calm, Settled, Untouched, KnowsWork
    <2>2. CASE ~k.err
      <3>1. /\ ~conn.inTrans => ~conn.accessed
            /\ be.work # << >> => IF conn.accessed THEN ~conn.optIn ELSE ~conn.optPrev
        BY <1>6, <2>2 DEF AtEnd, DoneState
      <3>2. CASE conn.accessed
        BY <1>7, <1>9, <2>2, <3>1, <3>2 DEF Calm, Settled, Untouched, KnowsWork
      <3>3. CASE ~conn.accessed
        BY <1>7, <1>9, <2>2, <3>1, <3>3 DEF Calm, Settled, Untouched, KnowsWork
      <3> QED BY <3>2, <3>3
    <2> QED BY <2>1, <2>2
  <1>11. Mid(s, calls'[s], wire'[s], c, be)
    BY <1>1, <1>5, <1>9 DEF Mid
  <1> QED BY <1>1, <1>3, <1>4, <1>5, <1>8, <1>10, <1>11, OneStep DEF c

-----------------------------------------------------------------------------
(* What an application of this kind never makes the driver do.              *)

\* With autocommit off and no declare/fetch cursor these actions are never
\* enabled.
LEMMA NoAutocommit ==
    ASSUME TypeInv, SerialInv, Managed
    PROVE  /\ ~DoesAutocommit(conn) /\ conn.cursors = {}
           /\ ~SetAutocommit /\ ~SetAutocommitDone
           /\ \A s \in Stmts : /\ ~PreCommit(s) /\ ~PreCommitDone(s) /\ ~PostCommit(s)
                               /\ ~PostCommitDone(s) /\ ~Close(s) /\ ~CloseDone(s)
  <1>1. Ground(conn, be) /\ Dbc \in Threads
    BY DEF SerialInv, Threads
  <1>2. ~DoesAutocommit(conn) /\ conn.cursors = {} /\ ~conn.autocommit
    BY <1>1 DEF Ground, DoesAutocommit
  <1>3. ~SetAutocommit
    BY <1>2 DEF SetAutocommit, Managed
  <1>4. ~SetAutocommitDone
    <2>1. SUFFICES ASSUME SetAutocommitDone PROVE FALSE
      OBVIOUS
    <2>2. calls[Dbc].pc = "autocommit"
      BY <2>1 DEF SetAutocommitDone, Answered
    <2>3. calls[Dbc].pc # PcIdle
      BY <2>2 DEF PcIdle
    <2>4. calls[Dbc].pc = "endtran"
      BY <1>1, <2>3, Alone
    <2> QED BY <2>2, <2>4
  <1>5. ASSUME NEW s \in Stmts
        PROVE  /\ ~PreCommit(s) /\ ~PostCommit(s) /\ ~Close(s)
               /\ ~PreCommitDone(s) /\ ~PostCommitDone(s) /\ ~CloseDone(s)
    <2>1. ~PreCommit(s) /\ ~PostCommit(s) /\ ~Close(s)
      BY <1>2 DEF PreCommit, PostCommit, Close, CommitsFirst, CommitsAfter
    <2>2. calls[s].pc \notin {"precommit", "commit", "close"}
      <3>1. CASE calls[s].pc = PcIdle
        BY <3>1 DEF PcIdle
      <3>2. CASE calls[s].pc # PcIdle
        BY <3>2, At DEF MidPcs
      <3> QED BY <3>1, <3>2
    <2> QED BY <2>1, <2>2 DEF PreCommitDone, PostCommitDone, CloseDone, Answered
  <1> QED BY <1>2, <1>3, <1>4, <1>5

-----------------------------------------------------------------------------
(* SQLEndTran and the connection that is made again.                        *)

\* EndTran: SQLEndTran sends COMMIT or ROLLBACK.
LEMMA StepEndTran ==
    ASSUME TypeInv, SerialInv, Managed, NEW kind \in {"commit", "rollback"}, EndTran(kind)
    PROVE  SerialInv'
  <1> DEFINE K == calls'[Dbc]
             m == Cmd(IF kind = "commit" THEN "COMMIT" ELSE "ROLLBACK")
  <1>1. Dbc \in Threads /\ AtRest /\ conn.up /\ conn.inTrans /\ conn' = conn /\ be' = be
    BY DEF EndTran, MayCall, Managed, Threads
  <1>2. \A u \in Threads : calls[u].pc = PcIdle /\ wire[u] = << >>
    BY <1>1 DEF AtRest, SerialInv, Mid
  <1>3. Ground(conn, be) /\ Calm(conn, be) /\ be \in Session /\ TypeOK
    BY <1>1 DEF SerialInv, TypeInv, TypeOK
  <1>4. wire'[Dbc] = <<m>> /\ \A u \in Threads \ {Dbc} : wire'[u] = wire[u]
    BY <1>1, <1>3 DEF EndTran, TypeOK
  <1>5. Head(wire'[Dbc]) = m
    BY <1>4
  <1>6. /\ K = [Idle EXCEPT !.pc = "endtran", !.kind = kind, !.cmd = m, !.before = be]
        /\ \A u \in Threads \ {Dbc} : calls'[u] = calls[u]
    BY <1>1, <1>3, <1>5 DEF EndTran, TypeOK
  <1>7. /\ K.pc = "endtran" /\ K.kind = kind /\ K.cmd = m /\ K.before = be
        /\ K.prot = "simple" /\ ~K.err /\ ~K.fail
    BY <1>6 DEF Idle
  <1> HIDE DEF K
  <1>8. Shape(K)
    <2>1. be.st # "X" /\ (be.st = "I" => be.work = << >> /\ be.svps = << >>)
      BY <1>1, <1>3 DEF Ground, Live
    <2> QED BY <1>7, <2>1 DEF Shape, ManagedKinds
  <1>9. Sent(K, conn, be)
    <2>1. Clean(K.before, be)
      <3>1. be.st # "I"
        BY <1>1, <1>3 DEF Calm, Settled, Live
      <3> QED BY <1>7, <3>1 DEF Clean, Unchanged
    <2>2. /\ (conn.inError <=> be.st = "E") /\ conn.op = "none" /\ KnowsWork(conn, be)
          /\ Untouched(conn)
      BY <1>3 DEF Calm, Settled
    <2>3. K.kind # "local" /\ K.kind \notin Guards
      BY <1>7 DEF Guards
    <2> QED BY <1>1, <2>1, <2>2, <2>3, SentBy
  <1>10. AtEndTran(K, wire'[Dbc], conn, be)
    BY <1>4, <1>7, <1>9 DEF AtEndTran
  <1>11. Mid(Dbc, K, wire'[Dbc], conn, be) /\ K.pc # PcIdle
    BY <1>7, <1>8, <1>10 DEF Mid, Stage, MidPcs, PcIdle
  <1> QED BY <1>1, <1>2, <1>3, <1>4, <1>6, <1>11, OneStep DEF K

\* EndTranDone: it returns.
LEMMA StepEndTranDone ==
    ASSUME TypeInv, SerialInv, EndTranDone
    PROVE  SerialInv'
  <1> DEFINE k == calls[Dbc]
             c == conn'
             u == UpdateTransactionStatus(conn, be.st)
  <1>1. k.pc = "endtran" /\ wire[Dbc] = << >> /\ be' = be /\ wire' = wire
    BY DEF EndTranDone, Answered
  <1>2. Dbc \in Threads /\ k.pc # PcIdle /\ TypeOK
    BY <1>1 DEF PcIdle, Threads, TypeInv
  <1>3. /\ Stage(k, wire[Dbc], conn, be) /\ Ground(conn, be) /\ be.st \in Statuses /\ conn \in Conn
        /\ StatusCopied(Dbc) = u
        /\ \A t \in Threads \ {Dbc} : calls[t].pc = PcIdle /\ wire[t] = << >>
    BY <1>2, Alone
  <1>4. calls'[Dbc] = Idle /\ \A t \in Threads \ {Dbc} : calls'[t] = calls[t]
    BY <1>2 DEF EndTranDone, TypeOK
  <1>5. calls'[Dbc].pc = PcIdle
    BY <1>4 DEF Idle
  <1>6. AtEndTran(k, << >>, conn, be)
    BY <1>1, <1>3 DEF Stage
  <1>7. \/ k.fail /\ Dead(k, conn, be)
        \/ be.st = "I" /\ conn.inTrans
    <2>1. << >> # <<k.cmd>>
      BY NotEmpty
    <2> QED BY <1>6, <2>1 DEF AtEndTran
  <1>8. c = IF k.fail THEN OnTransEnd(u) ELSE u
    BY <1>3 DEF EndTranDone
  <1>9. u \in Conn
    BY <1>3, StatusType
  <1> HIDE DEF c, u
  <1>10. /\ c.autocommit = conn.autocommit /\ c.up = conn.up /\ ~c.inTrans /\ ~c.inError
         /\ ~c.accessed /\ ~c.rbpoint /\ ~c.svp /\ c.op = "none" /\ c.optPrev /\ c.cursors = {}
         /\ be.st \in {"I", "X"}
    <2>1. CASE k.fail /\ Dead(k, conn, be)
      <3>1. Settled(conn, be) /\ be.st = "X"
        BY <2>1 DEF Dead
      <3>2. u = conn
        BY <1>3, <3>1, StatusSettled DEF u
      <3>3. ~conn.inError
        BY <3>1 DEF Settled
      <3> QED BY <1>8, <1>9, <2>1, <3>1, <3>2, <3>3, TransEndFields
    <2>2. CASE be.st = "I" /\ conn.inTrans
      <3>1. u = OnTransEnd(conn)
        BY <1>3, <2>2, StatusOver DEF u, Ground
      <3>2. /\ u.autocommit = conn.autocommit /\ u.up = conn.up /\ ~u.inTrans /\ ~u.inError
            /\ ~u.accessed /\ ~u.rbpoint /\ ~u.svp /\ u.op = "none" /\ u.optPrev
            /\ u.cursors = {}
        BY <1>3, <2>2, <3>1, TransEndFields
      <3>3. CASE k.fail
        BY <1>8, <1>9, <2>2, <3>2, <3>3, TransEndFields
      <3>4. CASE ~k.fail
        BY <1>8, <2>2, <3>2, <3>4
      <3> QED BY <3>3, <3>4
    <2> QED BY <1>7, <2>1, <2>2
  <1>11. Ground(c, be)
    BY <1>3, <1>10 DEF Ground
  <1>12. Calm(c, be)
    <2>1. ~Live(be) /\ be.st # "E" /\ be.work = << >>
      BY <1>3, <1>10 DEF Live, Ground
    <2> QED BY <1>10, <2>1 DEF Calm, Settled, Untouched, KnowsWork
  <1>13. Mid(Dbc, calls'[Dbc], wire'[Dbc], c, be)
    BY <1>1, <1>5 DEF Mid
  <1> QED BY <1>1, <1>2, <1>3, <1>4, <1>5, <1>11, <1>12, <1>13, OneStep DEF c

\* Reconnect: the failover of SC_connection_lost_check, or SQLConnect.
LEMMA StepReconnect ==
    ASSUME TypeInv, SerialInv, Managed, NEW s \in Stmts, Reconnect(s)
    PROVE  SerialInv'
  <1> DEFINE c == conn'
             y == be'
  <1>1. /\ s \in Threads /\ AtRest /\ ~conn.up /\ calls' = calls /\ wire' = wire
        /\ y = FreshSession(be.durable) /\ c = [conn EXCEPT !.up = TRUE]
    BY DEF Reconnect, MayCall, Managed, Threads
  <1>2. \A u \in Threads : calls[u].pc = PcIdle /\ wire[u] = << >>
    BY <1>1 DEF AtRest, SerialInv, Mid
  <1>3. Ground(conn, be) /\ Calm(conn, be) /\ be.durable \in SUBSET Writes /\ conn \in Conn
    BY <1>1 DEF SerialInv, TypeInv, TypeOK, Session
  <1>4. y.st = "I" /\ y.work = << >> /\ y.svps = << >>
    BY <1>1, <1>3, FreshFields
  <1>5. /\ c.up /\ c.autocommit = conn.autocommit /\ c.inTrans = conn.inTrans
        /\ c.inError = conn.inError /\ c.accessed = conn.accessed /\ c.rbpoint = conn.rbpoint
        /\ c.svp = conn.svp /\ c.op = conn.op /\ c.optPrev = conn.optPrev
        /\ c.cursors = conn.cursors
    BY <1>1, <1>3 DEF Conn
  <1> HIDE DEF c, y
  <1>6. be.st = "X"
    BY <1>1, <1>3 DEF Ground
  <1>7. Ground(c, y) /\ Calm(c, y)
    BY <1>3, <1>4, <1>5, <1>6 DEF Ground, Calm, Settled, Untouched, KnowsWork, Live
  <1>8. Mid(s, calls'[s], wire'[s], c, y)
    BY <1>1, <1>2 DEF Mid
  <1> QED BY <1>1, <1>2, <1>7, <1>8, OneStep DEF c, y

-----------------------------------------------------------------------------
(* What the server does with the commands the driver adds.                  *)

\* RELEASE of the driver's savepoint takes the one on top,
LEMMA ReleaseOwn ==
    ASSUME NEW x \in Session, x.st = "T", TopOwn(x), NEW o \in Outcomes(x, Release)
    PROVE  /\ o.tag = "RELEASE" /\ o.be.st = "T" /\ o.be.work = x.work
           /\ o.be.durable = x.durable /\ UserSvps(o.be) = UserSvps(x)
  <1>1. Outcomes(x, Release) = OrFailed(x, OnRelease(x, Internal))
    BY DEF Outcomes, Release, SvpCmd
  <1>2. x.svps \in Seq(Frame) /\ Len(x.svps) \in Nat \ {0} /\ DOMAIN x.svps = 1 .. Len(x.svps)
    BY DEF Session, TopOwn
  <1>3. \A i : IsNewest(x, Internal, i) <=> i = Len(x.svps)
    BY <1>2 DEF IsNewest, Places, TopOwn
  <1>4. Len(x.svps) \in Places(x, Internal)
    BY <1>2 DEF Places, TopOwn
  <1>5. o = Answer([x EXCEPT !.svps = SubSeq(@, 1, Len(x.svps) - 1)], "RELEASE")
    <2>1. OnRelease(x, Internal) # {}
      BY <1>3, <1>4 DEF OnRelease
    <2>2. o \in OnRelease(x, Internal)
      BY <1>1, <2>1 DEF OrFailed
    <2> QED BY <1>3, <2>2 DEF OnRelease
  <1>6. /\ o.tag = "RELEASE" /\ o.be = [x EXCEPT !.svps = SubSeq(@, 1, Len(x.svps) - 1)]
    BY <1>5, AnswerFields
  <1>7. /\ o.be.st = "T" /\ o.be.work = x.work /\ o.be.durable = x.durable
        /\ o.be.svps = SubSeq(x.svps, 1, Len(x.svps) - 1)
    BY <1>6 DEF Session
  <1> QED BY <1>2, <1>6, <1>7, OwnSavepointDropped

\* SAVEPOINT puts a new one there,
LEMMA SaveOwn ==
    ASSUME NEW x \in Session, x.st = "T", NEW o \in Outcomes(x, Savepoint)
    PROVE  /\ o.tag = "SAVEPOINT" /\ o.be.st = "T" /\ o.be.work = x.work
           /\ o.be.durable = x.durable /\ UserSvps(o.be) = UserSvps(x) /\ TopNow(o.be)
  <1> DEFINE f == [name |-> Internal, mark |-> Len(x.work)]
  <1>1. Outcomes(x, Savepoint) = OnSavepoint(x, Internal)
    BY DEF Outcomes, Savepoint, SvpCmd
  <1>2. o = Answer([x EXCEPT !.svps = Append(@, f)], "SAVEPOINT")
    BY <1>1 DEF OnSavepoint
  <1>3. o.tag = "SAVEPOINT" /\ o.be = [x EXCEPT !.svps = Append(@, f)]
    BY <1>2, AnswerFields
  <1>4. x.svps \in Seq(Frame) /\ f \in Frame /\ f.name = Internal /\ f.mark = Len(x.work)
    BY CoreAssumption DEF Session, Frame
  <1> HIDE DEF f
  <1>5. /\ o.be.st = "T" /\ o.be.work = x.work /\ o.be.durable = x.durable
        /\ o.be.svps = Append(x.svps, f)
    BY <1>3 DEF Session
  <1>6. TopNow(o.be)
    BY <1>4, <1>5 DEF TopNow, TopOwn
  <1> QED BY <1>3, <1>4, <1>5, <1>6, OwnSavepointHidden

\* and ROLLBACK TO of the one on top takes back what was written since.
LEMMA UndoOwn ==
    ASSUME NEW x \in Session, x.st = "E", TopNow(x), NEW o \in Outcomes(x, Head(UndoCmds))
    PROVE  /\ o.tag = "ROLLBACK" /\ o.be.st = "T" /\ o.be.work = x.work
           /\ o.be.durable = x.durable /\ o.be.svps = x.svps
  <1>1. Outcomes(x, Head(UndoCmds)) = OrFailed(x, OnRollbackTo(x, Internal))
    <2>1. Head(UndoCmds) = SvpCmd("ROLLBACK TO", Internal)
      BY HeadTail DEF UndoCmds
    <2>2. SvpCmd("ROLLBACK TO", Internal).c = "ROLLBACK TO"
          /\ SvpCmd("ROLLBACK TO", Internal).sp = Internal
      BY DEF SvpCmd
    <2> QED BY <2>1, <2>2 DEF Outcomes
  <1>2. /\ x.svps \in Seq(Frame) /\ Len(x.svps) \in Nat \ {0} /\ DOMAIN x.svps = 1 .. Len(x.svps)
        /\ x.work \in Seq(Writes)
    BY DEF Session, TopNow, TopOwn
  <1>3. \A i : IsNewest(x, Internal, i) <=> i = Len(x.svps)
    BY <1>2 DEF IsNewest, Places, TopNow, TopOwn
  <1>4. Len(x.svps) \in Places(x, Internal)
    BY <1>2 DEF Places, TopNow, TopOwn
  <1>5. o = Answer([x EXCEPT !.st = "T", !.svps = SubSeq(@, 1, Len(x.svps)),
                      !.work = SubSeq(@, 1, x.svps[Len(x.svps)].mark)], "ROLLBACK")
    <2>1. OnRollbackTo(x, Internal) # {}
      BY <1>3, <1>4 DEF OnRollbackTo
    <2>2. o \in OnRollbackTo(x, Internal)
      BY <1>1, <2>1 DEF OrFailed
    <2> QED BY <1>3, <2>2 DEF OnRollbackTo
  <1>6. /\ o.tag = "ROLLBACK"
        /\ o.be = [x EXCEPT !.st = "T", !.svps = SubSeq(@, 1, Len(x.svps)),
                            !.work = SubSeq(@, 1, x.svps[Len(x.svps)].mark)]
    BY <1>5, AnswerFields
  <1>7. /\ o.be.st = "T" /\ o.be.durable = x.durable
        /\ o.be.svps = SubSeq(x.svps, 1, Len(x.svps))
        /\ o.be.work = SubSeq(x.work, 1, x.svps[Len(x.svps)].mark)
    BY <1>6 DEF Session
  <1>8. x.svps[Len(x.svps)].mark = Len(x.work)
    BY DEF TopNow
  <1>9. SubSeq(x.svps, 1, Len(x.svps)) = x.svps /\ SubSeq(x.work, 1, Len(x.work)) = x.work
    BY <1>2
  <1> QED BY <1>6, <1>7, <1>8, <1>9

-----------------------------------------------------------------------------
(* The answers of the server.                                              *)

\* What an answer does with the call it belongs to.
LEMMA ReplyFields ==
    ASSUME TypeInv, SerialInv, NEW t \in Threads, Reply(t)
    PROVE  /\ calls[t].pc # PcIdle /\ wire[t] # << >>
           /\ \E o \in Outcomes(be, Head(wire[t])) :
                /\ be' = o.be
                /\ LET k == calls[t]
                       K == calls'[t]
                   IN  /\ K.pc = k.pc /\ Asks(K, k) /\ K.err = k.err
                       /\ o.tag = "ERROR" => K.fail /\ wire'[t] = << >> /\ conn' = HandleError(conn)
                       /\ o.tag # "ERROR" =>
                            /\ K.fail = k.fail /\ wire'[t] = Tail(wire[t])
                            /\ conn' = IF Queried(t) THEN HandleTag(conn, o.tag) ELSE conn
                /\ \A u \in Threads \ {t} : calls'[u] = calls[u] /\ wire'[u] = wire[u]
  <1>1. wire[t] # << >> /\ TypeOK
    BY DEF Reply, TypeInv
  <1>2. calls[t].pc # PcIdle
    BY <1>1 DEF SerialInv, Mid
  <1>3. PICK o \in Outcomes(be, Head(wire[t])) :
         /\ be' = o.be
         /\ IF o.tag = "ERROR"
            THEN /\ wire' = [wire EXCEPT ![t] = << >>]
                 /\ calls' = [calls EXCEPT ![t].fail = TRUE]
                 /\ conn' = HandleError(conn)
            ELSE /\ wire' = [wire EXCEPT ![t] = Tail(@)]
                 /\ conn' = IF Queried(t) THEN HandleTag(conn, o.tag) ELSE conn
                 /\ UNCHANGED calls
    BY DEF Reply
  <1>4. CASE o.tag = "ERROR"
    <2>1. /\ wire' = [wire EXCEPT ![t] = << >>] /\ conn' = HandleError(conn)
          /\ calls' = [calls EXCEPT ![t].fail = TRUE]
      BY <1>3, <1>4
    <2>2. /\ calls'[t].pc = calls[t].pc /\ Asks(calls'[t], calls[t])
          /\ calls'[t].err = calls[t].err /\ calls'[t].fail
          /\ \A u \in Threads \ {t} : calls'[u] = calls[u]
      BY <1>1, <2>1 DEF TypeOK, CallRec, Asks
    <2>3. wire'[t] = << >> /\ \A u \in Threads \ {t} : wire'[u] = wire[u]
      BY <1>1, <2>1 DEF TypeOK
    <2> QED BY <1>1, <1>2, <1>3, <1>4, <2>1, <2>2, <2>3
  <1>5. CASE o.tag # "ERROR"
    <2>1. /\ wire' = [wire EXCEPT ![t] = Tail(@)] /\ calls' = calls
          /\ conn' = IF Queried(t) THEN HandleTag(conn, o.tag) ELSE conn
      BY <1>3, <1>5
    <2>2. wire'[t] = Tail(wire[t]) /\ \A u \in Threads \ {t} : wire'[u] = wire[u]
      BY <1>1, <2>1 DEF TypeOK
    <2> QED BY <1>1, <1>2, <1>3, <1>5, <2>1, <2>2 DEF Asks
  <1> QED BY <1>4, <1>5

\* An answer to a call on a statement handle.
LEMMA Answers ==
    ASSUME TypeInv, SerialInv, NEW s \in Stmts, Reply(s)
    PROVE  \E o \in Outcomes(be, Head(wire[s])) :
             LET k == calls[s]
                 K == calls'[s]
             IN  /\ be' = o.be /\ K.pc = k.pc /\ Asks(K, k) /\ K.err = k.err
                 /\ o.tag = "ERROR" => K.fail /\ wire'[s] = << >> /\ conn' = HandleError(conn)
                 /\ o.tag # "ERROR" =>
                      /\ K.fail = k.fail /\ wire'[s] = Tail(wire[s])
                      /\ conn' = IF Queried(s) THEN HandleTag(conn, o.tag) ELSE conn
  <1>1. s \in Threads
    BY DEF Threads
  <1> QED BY <1>1, ReplyFields

\* The answer to the BEGIN of the extended protocol.
LEMMA ReplyBegin ==
    ASSUME TypeInv, SerialInv, NEW s \in Stmts, Reply(s), calls[s].pc = "begin"
    PROVE  Ground(conn', be') /\ AtBegin(calls'[s], wire'[s], conn', be')
  <1> DEFINE k == calls[s]
             K == calls'[s]
             c == conn'
             y == be'
  <1>1. wire[s] # << >> /\ k.pc # PcIdle
    BY DEF Reply, PcIdle
  <1>2. /\ Stage(k, wire[s], conn, be) /\ Ground(conn, be) /\ conn \in Conn /\ be \in Session
    BY <1>1, At DEF WellFormed
  <1>3. /\ wire[s] = <<Cmd("BEGIN")>> /\ k.prot = "ext" /\ ~k.err
        /\ Calm(conn, be) /\ be = k.before /\ be.st = "I"
    <2>1. AtBegin(k, wire[s], conn, be)
      BY <1>2, StageAt
    <2> QED BY <1>1, <2>1 DEF AtBegin, AtRequest
  <1>4. PICK o \in Outcomes(be, Head(wire[s])) :
          /\ y = o.be /\ K.pc = k.pc /\ Asks(K, k) /\ K.err = k.err
          /\ o.tag # "ERROR" => /\ wire'[s] = Tail(wire[s])
                                /\ c = IF Queried(s) THEN HandleTag(conn, o.tag) ELSE conn
    BY Answers
  <1>5. o.tag = "BEGIN" /\ y = [be EXCEPT !.st = "T"]
    <2>1. Head(wire[s]) = Cmd("BEGIN")
      BY <1>3, HeadTail
    <2>2. Outcomes(be, Cmd("BEGIN")) = OnBegin(be)
      BY <1>3 DEF Outcomes, Cmd
    <2> QED BY <1>4, <2>1, <2>2, AnswerFields DEF OnBegin
  <1>6. wire'[s] = << >> /\ c = HandleTag(conn, "BEGIN")
    <2>1. Queried(s)
      BY DEF Queried
    <2> QED BY <1>3, <1>4, <1>5, <2>1, HeadTail
  <1>7. y.st = "T" /\ y.work = be.work /\ y.svps = be.svps /\ y.durable = be.durable
    BY <1>2, <1>5 DEF Session
  <1>8. /\ c.autocommit = conn.autocommit /\ c.up = conn.up /\ c.inTrans
        /\ c.accessed = conn.accessed /\ c.cursors = conn.cursors /\ c.inError = conn.inError
        /\ c.rbpoint = conn.rbpoint /\ c.svp = conn.svp /\ c.op = conn.op
        /\ c.optPrev = conn.optPrev
    BY <1>2, <1>6, TagFields
  <1> HIDE DEF K, c, y
  <1>9. be.work = << >> /\ ~conn.inTrans /\ ~conn.svp /\ conn.optPrev
    BY <1>2, <1>3 DEF Ground, Calm, Settled, Live
  <1>10. Ground(c, y)
    BY <1>2, <1>3, <1>7, <1>8, <1>9 DEF Ground, Live
  <1>11. Calm(c, y)
    BY <1>3, <1>7, <1>8, <1>9 DEF Calm, Settled, Untouched, KnowsWork, Live
  <1>12. Clean(K.before, y)
    <2>1. UserSvps(y) = UserSvps(be)
      BY <1>7, UserSvpsOf
    <2> QED BY <1>3, <1>4, <1>7, <2>1 DEF Clean, Unchanged, Asks
  <1>13. AtRequest(K, wire'[s], c, y)
    BY <1>3, <1>4, <1>6, <1>7, <1>8, <1>9, <1>11, <1>12 DEF AtRequest, Begins, Asks
  <1> QED BY <1>10, <1>13 DEF AtBegin, K, c, y

\* The answers to the commands that make the internal savepoint, with what the message
\* holds after them.
LEMMA ProtectReply ==
    ASSUME NEW c \in Conn, NEW x \in Session, NEW k, Ground(c, x), Protecting(k, c, x),
           c.op = "savepoint", ~c.rbpoint
    PROVE  /\ c.svp => \A o \in Outcomes(x, Release) :
                /\ o.tag # "ERROR"
                /\ LET d == HandleTag(c, o.tag)
                   IN  /\ Ground(d, o.be) /\ Protecting(k, d, o.be)
                       /\ d.op = "savepoint" /\ ~d.rbpoint /\ d.accessed = c.accessed
           /\ \A o \in Outcomes(x, Savepoint) :
                /\ o.tag # "ERROR"
                /\ LET d == HandleTag(c, o.tag)
                   IN  /\ Ground(d, o.be) /\ Protecting(k, d, o.be)
                       /\ d.op = "none" /\ d.rbpoint /\ d.svp /\ TopNow(o.be)
                       /\ d.accessed = c.accessed
  <1>1. /\ x.st = "T" /\ c.inTrans /\ ~c.inError /\ ~c.optIn /\ KnowsWork(c, x)
        /\ k.kind \in Guards /\ k.before.st = "T" /\ Same(k.before, x)
    BY DEF Protecting, Same
  <1>2. c.svp => TopOwn(x)
    BY <1>1 DEF Ground, Live
  <1>3. ASSUME c.svp, NEW o \in Outcomes(x, Release)
        PROVE  /\ o.tag # "ERROR"
               /\ LET d == HandleTag(c, o.tag)
                  IN  /\ Ground(d, o.be) /\ Protecting(k, d, o.be)
                      /\ d.op = "savepoint" /\ ~d.rbpoint /\ d.accessed = c.accessed
    <2> DEFINE d == HandleTag(c, o.tag)
               y == o.be
    <2>1. /\ o.tag = "RELEASE" /\ y.st = "T" /\ y.work = x.work
          /\ y.durable = x.durable /\ UserSvps(y) = UserSvps(x)
      BY <1>1, <1>2, <1>3, ReleaseOwn
    <2>2. /\ d.autocommit = c.autocommit /\ d.up = c.up /\ d.accessed = c.accessed
          /\ d.cursors = c.cursors /\ d.inTrans = c.inTrans /\ d.op = c.op
          /\ d.rbpoint = c.rbpoint /\ d.inError = c.inError /\ d.optIn = c.optIn
          /\ d.optPrev = c.optPrev /\ ~d.svp
      BY <2>1, TagFields
    <2> HIDE DEF d, y
    <2>3. Ground(d, y)
      BY <1>1, <2>1, <2>2 DEF Ground, Live
    <2>4. Protecting(k, d, y)
      BY <1>1, <2>1, <2>2 DEF Protecting, Same, Unchanged, KnowsWork
    <2> QED BY <2>1, <2>2, <2>3, <2>4 DEF d, y
  <1>4. ASSUME NEW o \in Outcomes(x, Savepoint)
        PROVE  /\ o.tag # "ERROR"
               /\ LET d == HandleTag(c, o.tag)
                  IN  /\ Ground(d, o.be) /\ Protecting(k, d, o.be)
                      /\ d.op = "none" /\ d.rbpoint /\ d.svp /\ TopNow(o.be)
                      /\ d.accessed = c.accessed
    <2> DEFINE d == HandleTag(c, o.tag)
               y == o.be
    <2>1. /\ o.tag = "SAVEPOINT" /\ y.st = "T" /\ y.work = x.work
          /\ y.durable = x.durable /\ UserSvps(y) = UserSvps(x) /\ TopNow(y)
      BY <1>1, SaveOwn
    <2>2. /\ d.autocommit = c.autocommit /\ d.up = c.up /\ d.accessed = c.accessed
          /\ d.cursors = c.cursors /\ d.inTrans = c.inTrans /\ d.op = "none"
          /\ d.rbpoint /\ d.inError = c.inError /\ d.optIn = c.optIn
          /\ d.optPrev = c.optPrev /\ d.svp
      BY <2>1, TagFields
    <2> HIDE DEF d, y
    <2>3. Ground(d, y)
      BY <1>1, <2>1, <2>2 DEF Ground, Live, TopNow
    <2>4. Protecting(k, d, y)
      BY <1>1, <2>1, <2>2 DEF Protecting, Same, Unchanged, KnowsWork
    <2> QED BY <2>1, <2>2, <2>3, <2>4 DEF d, y
  <1> QED BY <1>3, <1>4

\* Being about to have a savepoint does not depend on the program counter.
LEMMA ProtectAsked ==
    ASSUME NEW k, NEW K, Asks(K, k)
    PROVE  \A c, x : Protecting(k, c, x) => Protecting(K, c, x)
  BY DEF Protecting, Asks

\* The answer to a savepoint command in a message of its own.
LEMMA ReplySvp ==
    ASSUME TypeInv, SerialInv, NEW s \in Stmts, Reply(s), calls[s].pc = "svp"
    PROVE  Ground(conn', be') /\ AtSvp(calls'[s], wire'[s], conn', be')
  <1> DEFINE k == calls[s]
             K == calls'[s]
             c == conn'
             y == be'
  <1>1. wire[s] # << >> /\ k.pc # PcIdle /\ Queried(s)
    BY DEF Reply, PcIdle, Queried
  <1>2. /\ Stage(k, wire[s], conn, be) /\ Ground(conn, be) /\ conn \in Conn /\ be \in Session
    BY <1>1, At DEF WellFormed
  <1>3. /\ k.kind \in Guards /\ ~k.err /\ ~k.fail /\ Protecting(k, conn, be)
        /\ conn.op = "savepoint" /\ ~conn.rbpoint
        /\ \/ wire[s] = <<Release, Savepoint>> /\ conn.svp
           \/ wire[s] = <<Savepoint>>
    <2>1. AtSvp(k, wire[s], conn, be)
      BY <1>2, StageAt
    <2> QED BY <1>1, <2>1 DEF AtSvp, SvpWire
  <1>4. PICK o \in Outcomes(be, Head(wire[s])) :
          /\ y = o.be /\ Asks(K, k) /\ K.err = k.err
          /\ o.tag # "ERROR" => /\ K.fail = k.fail /\ wire'[s] = Tail(wire[s])
                                /\ c = IF Queried(s) THEN HandleTag(conn, o.tag) ELSE conn
    BY Answers
  <1> HIDE DEF K, c, y
  <1>5. CASE wire[s] = <<Release, Savepoint>> /\ conn.svp
    <2>1. Head(wire[s]) = Release /\ Tail(wire[s]) = <<Savepoint>>
      BY <1>5, HeadTail
    <2>2. /\ o.tag # "ERROR" /\ Ground(HandleTag(conn, o.tag), o.be)
          /\ Protecting(k, HandleTag(conn, o.tag), o.be)
          /\ HandleTag(conn, o.tag).op = "savepoint" /\ ~HandleTag(conn, o.tag).rbpoint
      BY <1>2, <1>3, <1>5, <2>1, ProtectReply
    <2>3. /\ wire'[s] = <<Savepoint>> /\ ~K.fail /\ Ground(c, y) /\ Protecting(K, c, y)
          /\ c.op = "savepoint" /\ ~c.rbpoint
      BY <1>1, <1>3, <1>4, <2>1, <2>2, ProtectAsked
    <2> QED BY <1>3, <1>4, <2>3 DEF AtSvp, SvpWire, Asks, K, c, y
  <1>6. CASE wire[s] = <<Savepoint>>
    <2>1. Head(wire[s]) = Savepoint /\ Tail(wire[s]) = << >>
      BY <1>6, HeadTail
    <2>2. /\ o.tag # "ERROR" /\ Ground(HandleTag(conn, o.tag), o.be)
          /\ Protecting(k, HandleTag(conn, o.tag), o.be)
          /\ HandleTag(conn, o.tag).op = "none" /\ HandleTag(conn, o.tag).rbpoint
          /\ HandleTag(conn, o.tag).svp /\ TopNow(o.be)
      BY <1>2, <1>3, <2>1, ProtectReply
    <2>3. /\ wire'[s] = << >> /\ ~K.fail /\ Ground(c, y) /\ Protecting(K, c, y)
          /\ c.op = "none" /\ c.rbpoint /\ c.svp /\ TopNow(y)
      BY ZenonT(40), <1>1, <1>3, <1>4, <2>1, <2>2, ProtectAsked
    <2> QED BY <1>3, <1>4, <2>3 DEF AtSvp, SvpWire, Asks, K, c, y
  <1> QED BY <1>3, <1>5, <1>6

\* The answers to ROLLBACK TO and RELEASE.
LEMMA ReplyUndo ==
    ASSUME TypeInv, SerialInv, NEW s \in Stmts, Reply(s), calls[s].pc = "undo"
    PROVE  Ground(conn', be') /\ AtUndo(calls'[s], wire'[s], conn', be')
  <1> DEFINE k == calls[s]
             K == calls'[s]
             y == be'
  <1>1. wire[s] # << >> /\ k.pc # PcIdle /\ ~Queried(s)
    BY DEF Reply, PcIdle, Queried
  <1>2. /\ Stage(k, wire[s], conn, be) /\ Ground(conn, be) /\ be \in Session
    BY <1>1, At DEF WellFormed
  <1>3. k.err /\ wire[s] = UndoCmds /\ Undoable(k, conn, be) /\ Guarded(k, conn, be)
    <2>1. AtUndo(k, wire[s], conn, be)
      BY <1>2, StageAt
    <2> QED BY <1>1, <2>1 DEF AtUndo
  <1>4. PICK o \in Outcomes(be, Head(wire[s])) :
          /\ y = o.be /\ Asks(K, k) /\ K.err = k.err
          /\ o.tag # "ERROR" => /\ wire'[s] = Tail(wire[s])
                                /\ conn' = IF Queried(s) THEN HandleTag(conn, o.tag) ELSE conn
    BY Answers
  <1> HIDE DEF K, y
  <1>5. /\ be.st = "E" /\ TopNow(be) /\ k.before.st = "T" /\ Unchanged(k.before, be)
        /\ IsData(k.kind) /\ Settled(conn, be) /\ KnowsWork(conn, be) /\ conn.inTrans
    BY <1>3 DEF Undoable, Guarded, Bare, Settled, Live
  <1>6. /\ o.tag = "ROLLBACK" /\ y.st = "T" /\ y.work = be.work
        /\ y.durable = be.durable /\ y.svps = be.svps
    BY <1>2, <1>3, <1>4, <1>5, UndoOwn
  <1>7. wire'[s] = << >> /\ conn' = conn
    BY <1>1, <1>3, <1>4, <1>6, HeadTail DEF UndoCmds
  <1>8. Ground(conn, y)
    BY <1>2, <1>5, <1>6 DEF Ground, Live, TopOwn
  <1>9. Undone(k, conn, y)
    <2>1. UserSvps(y) = UserSvps(be)
      BY <1>6, UserSvpsOf
    <2>2. Same(k.before, y)
      BY <1>5, <1>6, <2>1 DEF Same, Unchanged
    <2> QED BY <1>5, <1>6, <2>2 DEF Undone, Settled, KnowsWork
  <1>10. Undone(K, conn, y) /\ K.err
    BY <1>3, <1>4, <1>9, SameAsked DEF Asks
  <1> QED BY <1>7, <1>8, <1>10 DEF AtUndo, K, y

\* The answer to the ROLLBACK of CC_abort.
LEMMA ReplyAbort ==
    ASSUME TypeInv, SerialInv, NEW s \in Stmts, Reply(s), calls[s].pc = "abort"
    PROVE  Ground(conn', be') /\ AtAbort(calls'[s], wire'[s], conn', be')
  <1> DEFINE k == calls[s]
             K == calls'[s]
             c == conn'
             y == be'
  <1>1. wire[s] # << >> /\ k.pc # PcIdle /\ Queried(s)
    BY DEF Reply, PcIdle, Queried
  <1>2. /\ Stage(k, wire[s], conn, be) /\ Ground(conn, be) /\ be \in Session /\ conn \in Conn
    BY <1>1, At DEF WellFormed
  <1>3. k.err /\ wire[s] = <<Cmd("ROLLBACK")>> /\ Undoable(k, conn, be) /\ Bare(k, conn, be)
    <2>1. AtAbort(k, wire[s], conn, be)
      BY <1>2, StageAt
    <2> QED BY <1>1, <2>1 DEF AtAbort
  <1>4. PICK o \in Outcomes(be, Head(wire[s])) :
          /\ y = o.be /\ Asks(K, k) /\ K.err = k.err
          /\ o.tag # "ERROR" => /\ wire'[s] = Tail(wire[s])
                                /\ c = IF Queried(s) THEN HandleTag(conn, o.tag) ELSE conn
    BY Answers
  <1>5. /\ be.st = "E" /\ k.before.work = << >> /\ be.durable = k.before.durable
        /\ IsData(k.kind) /\ conn.inTrans /\ be.durable \in SUBSET Writes
    BY <1>2, <1>3 DEF Undoable, Bare, Settled, Live, Session
  <1>6. o.tag = "ROLLBACK" /\ y = FreshSession(be.durable)
    <2>1. Head(wire[s]) = Cmd("ROLLBACK")
      BY <1>3, HeadTail
    <2>2. Outcomes(be, Cmd("ROLLBACK")) = OnRollback(be)
      BY DEF Outcomes, Cmd
    <2> QED BY <1>4, <2>1, <2>2, AnswerFields DEF OnRollback
  <1>7. wire'[s] = << >> /\ c = HandleTag(conn, o.tag)
    BY <1>1, <1>3, <1>4, <1>6, HeadTail
  <1>8. c.autocommit = conn.autocommit /\ c.up = conn.up /\ c.cursors = conn.cursors
        /\ c.inTrans = conn.inTrans /\ ~c.svp
    BY <1>2, <1>6, <1>7, TagFields
  <1>9. y.st = "I" /\ y.work = << >> /\ y.svps = << >>
    BY <1>5, <1>6, FreshFields
  <1> HIDE DEF K, c, y
  <1>10. Ground(c, y)
    BY <1>2, <1>5, <1>8, <1>9 DEF Ground
  <1>11. GaveUp(k, c, y)
    BY <1>5, <1>6, <1>8 DEF GaveUp, Emptied
  <1>12. GaveUp(K, c, y) /\ K.err
    BY <1>3, <1>4, <1>11, SameAsked DEF Asks
  <1> QED BY <1>7, <1>10, <1>12 DEF AtAbort, K, c, y

\* The answer to the command of the call itself.
LEMMA ReplyCommand ==
    ASSUME TypeInv, SerialInv, NEW s \in Stmts, Reply(s), calls[s].pc = "main",
           wire[s] = <<calls[s].cmd>>, Sent(calls[s], conn, be)
    PROVE  Ground(conn', be') /\ AtMain(calls'[s], wire'[s], conn', be')
  <1> DEFINE k == calls[s]
             K == calls'[s]
             c == conn'
             y == be'
  <1>1. k.pc # PcIdle
    BY DEF PcIdle
  <1>2. /\ Stage(k, wire[s], conn, be) /\ Ground(conn, be) /\ conn \in Conn /\ WellFormed(be)
        /\ k \in CallRec /\ Shape(k)
    BY <1>1, At
  <1>3. ~k.err /\ ~k.fail
    <2>1. AtMain(k, wire[s], conn, be)
      BY <1>2, StageAt
    <2>2. wire[s] # << >>
      BY DEF Reply
    <2> QED BY <2>1, <2>2 DEF AtMain
  <1>4. PICK o \in Outcomes(be, Head(wire[s])) :
          /\ y = o.be /\ Asks(K, k) /\ K.err = k.err
          /\ o.tag = "ERROR" => K.fail /\ wire'[s] = << >> /\ c = HandleError(conn)
          /\ o.tag # "ERROR" => /\ K.fail = k.fail /\ wire'[s] = Tail(wire[s])
                                /\ c = IF Queried(s) THEN HandleTag(conn, o.tag) ELSE conn
    BY Answers
  <1>5. Head(wire[s]) = k.cmd /\ Tail(wire[s]) = << >>
    BY HeadTail
  <1>6. o \in Outcomes(be, k.cmd)
    BY <1>4, <1>5
  <1>7. CASE o.tag = "ERROR"
    <2>1. Ground(c, y) /\ FailState(k, UpdateTransactionStatus(c, y.st), y)
      BY <1>2, <1>4, <1>6, <1>7, MainReply
    <2> HIDE DEF K, c, y
    <2>2. FailState(K, UpdateTransactionStatus(c, y.st), y)
      BY <1>4, <2>1, SameAsked DEF Asks
    <2>3. AtMain(K, wire'[s], c, y)
      BY <1>3, <1>4, <1>7, <2>2 DEF AtMain, AfterMain
    <2> QED BY <2>1, <2>3 DEF K, c, y
  <1>8. CASE o.tag # "ERROR" /\ k.prot = "simple"
    <2>1. Queried(s)
      BY <1>8 DEF Queried
    <2>2. Ground(c, y) /\ DoneState(k, UpdateTransactionStatus(c, y.st), y)
      BY <1>2, <1>4, <1>6, <1>8, <2>1, MainReply
    <2> HIDE DEF K, c, y
    <2>3. DoneState(K, UpdateTransactionStatus(c, y.st), y) /\ K.prot = "simple"
      BY <1>4, <1>8, <2>2, SameAsked DEF Asks
    <2>4. AtMain(K, wire'[s], c, y)
      BY <1>3, <1>4, <1>5, <1>8, <2>3 DEF AtMain, AfterMain
    <2> QED BY <2>2, <2>4 DEF K, c, y
  <1>9. CASE o.tag # "ERROR" /\ k.prot = "ext"
    <2>1. ~Queried(s)
      BY <1>9 DEF Queried
    <2>2. Ground(c, y) /\ DoneState(k, c, y)
      BY <1>2, <1>4, <1>6, <1>9, <2>1, MainReply
    <2> HIDE DEF K, c, y
    <2>3. DoneState(K, c, y) /\ K.prot = "ext"
      BY <1>4, <1>9, <2>2, SameAsked DEF Asks
    <2>4. AtMain(K, wire'[s], c, y)
      BY <1>3, <1>4, <1>5, <1>9, <2>3 DEF AtMain, AfterMain
    <2> QED BY <2>2, <2>4 DEF K, c, y
  <1> QED BY <1>2, <1>7, <1>8, <1>9 DEF CallRec

\* The answer to the BEGIN before it.
LEMMA ReplyMainBegin ==
    ASSUME TypeInv, SerialInv, NEW s \in Stmts, Reply(s), calls[s].pc = "main",
           AfterBegin(calls[s], wire[s], conn, be), ~calls[s].err, ~calls[s].fail,
           calls[s].prot = "simple"
    PROVE  Ground(conn', be') /\ AtMain(calls'[s], wire'[s], conn', be')
  <1> DEFINE k == calls[s]
             K == calls'[s]
             c == conn'
             y == be'
  <1>1. k.pc # PcIdle /\ Queried(s)
    BY DEF PcIdle, Queried
  <1>2. Ground(conn, be) /\ conn \in Conn /\ be \in Session /\ Shape(k)
    BY <1>1, At DEF WellFormed
  <1>3. PICK o \in Outcomes(be, Head(wire[s])) :
          /\ y = o.be /\ Asks(K, k) /\ K.err = k.err
          /\ o.tag # "ERROR" => /\ K.fail = k.fail /\ wire'[s] = Tail(wire[s])
                                /\ c = IF Queried(s) THEN HandleTag(conn, o.tag) ELSE conn
    BY Answers
  <1>4. /\ be = k.before /\ be.st = "I" /\ k.kind # "local" /\ ~conn.inTrans /\ ~conn.inError
        /\ conn.op = "none" /\ ~conn.svp /\ ~conn.rbpoint
        /\ IF k.kind \in Guards THEN Armed(conn) ELSE ~conn.accessed
        /\ Head(wire[s]) = Cmd("BEGIN") /\ Tail(wire[s]) = <<k.cmd>>
    BY HeadTail DEF AfterBegin
  <1>5. o.tag = "BEGIN" /\ y = [be EXCEPT !.st = "T"]
    <2>1. Outcomes(be, Cmd("BEGIN")) = OnBegin(be)
      BY <1>4 DEF Outcomes, Cmd
    <2> QED BY <1>3, <1>4, <2>1, AnswerFields DEF OnBegin
  <1>6. wire'[s] = <<k.cmd>> /\ c = HandleTag(conn, "BEGIN") /\ ~K.fail
    BY <1>1, <1>3, <1>4, <1>5
  <1>7. y.st = "T" /\ y.work = be.work /\ y.svps = be.svps /\ y.durable = be.durable
    BY <1>2, <1>5 DEF Session
  <1>8. c.autocommit = conn.autocommit /\ c.up = conn.up /\ c.cursors = conn.cursors
        /\ c.accessed = conn.accessed
    BY <1>2, <1>6, TagFields
  <1>9. /\ c.inTrans /\ c.inError = conn.inError /\ c.rbpoint = conn.rbpoint
        /\ c.svp = conn.svp /\ c.op = conn.op /\ c.optIn = conn.optIn
    BY <1>2, <1>6, TagFields
  <1> HIDE DEF K, c, y
  <1>10. be.work = << >>
    BY <1>2, <1>4 DEF Ground, Live
  <1>11. Ground(c, y)
    BY <1>2, <1>4, <1>7, <1>8, <1>9 DEF Ground, Live
  <1>12. Clean(k.before, y)
    <2>1. UserSvps(y) = UserSvps(be)
      BY <1>7, UserSvpsOf
    <2> QED BY <1>4, <1>7, <2>1 DEF Clean, Unchanged
  <1>13. Sent(k, c, y)
    <2>1. KnowsWork(c, y) /\ (c.inError <=> y.st = "E") /\ c.op = "none"
      BY <1>4, <1>7, <1>9, <1>10 DEF KnowsWork
    <2>2. CASE k.kind \in Guards
      <3>1. Bare(k, c, y)
        BY <1>4, <1>8, <1>9, <1>10, <2>2 DEF Bare, Armed
      <3> QED BY <1>4, <1>7, <1>9, <1>12, <2>1, <2>2, <3>1 DEF Sent
    <2>3. CASE k.kind \notin Guards
      <3>1. Untouched(c)
        BY <1>4, <1>8, <1>9, <2>3 DEF Untouched
      <3> QED BY <1>4, <1>7, <1>9, <1>12, <2>1, <2>3, <3>1 DEF Sent
    <2> QED BY <2>2, <2>3
  <1>14. Sent(K, c, y) /\ ~K.err /\ wire'[s] = <<K.cmd>>
    BY <1>3, <1>6, <1>13, SameAsked DEF Asks
  <1> QED BY <1>6, <1>11, <1>14 DEF AtMain, K, c, y

\* The answers to the savepoint commands before it.
LEMMA ReplyMainSvp ==
    ASSUME TypeInv, SerialInv, NEW s \in Stmts, Reply(s), calls[s].pc = "main",
           AfterSvp(calls[s], wire[s], conn, be), ~calls[s].err, ~calls[s].fail,
           calls[s].prot = "simple"
    PROVE  Ground(conn', be') /\ AtMain(calls'[s], wire'[s], conn', be')
  <1> DEFINE k == calls[s]
             K == calls'[s]
             c == conn'
             y == be'
  <1>1. k.pc # PcIdle /\ Queried(s)
    BY DEF PcIdle, Queried
  <1>2. Ground(conn, be) /\ conn \in Conn /\ be \in Session
    BY <1>1, At DEF WellFormed
  <1>3. PICK o \in Outcomes(be, Head(wire[s])) :
          /\ y = o.be /\ Asks(K, k) /\ K.err = k.err
          /\ o.tag # "ERROR" => /\ K.fail = k.fail /\ wire'[s] = Tail(wire[s])
                                /\ c = IF Queried(s) THEN HandleTag(conn, o.tag) ELSE conn
    BY Answers
  <1>4. /\ Protecting(k, conn, be) /\ conn.accessed /\ conn.op = "savepoint" /\ ~conn.rbpoint
        /\ \/ wire[s] = <<Release, Savepoint, k.cmd>> /\ conn.svp
           \/ wire[s] = <<Savepoint, k.cmd>>
    BY DEF AfterSvp
  <1> HIDE DEF K, c, y
  <1>5. CASE wire[s] = <<Release, Savepoint, k.cmd>> /\ conn.svp
    <2>1. Head(wire[s]) = Release /\ Tail(wire[s]) = <<Savepoint, k.cmd>>
      BY <1>5, HeadTail
    <2>2. /\ o.tag # "ERROR" /\ Ground(HandleTag(conn, o.tag), o.be)
          /\ Protecting(k, HandleTag(conn, o.tag), o.be)
          /\ HandleTag(conn, o.tag).op = "savepoint" /\ ~HandleTag(conn, o.tag).rbpoint
          /\ HandleTag(conn, o.tag).accessed = conn.accessed
      BY ZenonT(40), <1>2, <1>4, <1>5, <2>1, ProtectReply
    <2>3. /\ wire'[s] = <<Savepoint, K.cmd>> /\ ~K.fail /\ Ground(c, y) /\ Protecting(K, c, y)
          /\ c.op = "savepoint" /\ ~c.rbpoint /\ c.accessed
      BY ZenonT(40), <1>1, <1>3, <1>4, <2>1, <2>2, ProtectAsked DEF Asks
    <2>4. AfterSvp(K, wire'[s], c, y)
      BY <2>3 DEF AfterSvp
    <2> QED BY <1>3, <2>3, <2>4 DEF AtMain, Asks, K, c, y
  <1>6. CASE wire[s] = <<Savepoint, k.cmd>>
    <2>1. Head(wire[s]) = Savepoint /\ Tail(wire[s]) = <<k.cmd>>
      BY <1>6, HeadTail
    <2> DEFINE d == HandleTag(conn, o.tag)
    <2>2. /\ o.tag # "ERROR" /\ Ground(d, o.be) /\ Protecting(k, d, o.be)
          /\ d.op = "none" /\ d.rbpoint /\ d.svp /\ TopNow(o.be) /\ d.accessed = conn.accessed
      <3>1. o \in Outcomes(be, Savepoint)
        BY <1>3, <2>1
      <3>2. \A p \in Outcomes(be, Savepoint) :
                /\ p.tag # "ERROR"
                /\ LET h == HandleTag(conn, p.tag)
                   IN  /\ Ground(h, p.be) /\ Protecting(k, h, p.be)
                       /\ h.op = "none" /\ h.rbpoint /\ h.svp /\ TopNow(p.be)
                       /\ h.accessed = conn.accessed
        BY <1>2, <1>4, ProtectReply
      <3> QED BY <3>1, <3>2
    <2>a. c = d /\ y = o.be /\ wire'[s] = <<k.cmd>> /\ ~K.fail /\ K.cmd = k.cmd
      BY <1>1, <1>3, <2>1, <2>2 DEF Asks
    <2> HIDE DEF d
    <2>3. /\ wire'[s] = <<K.cmd>> /\ ~K.fail /\ Ground(c, y) /\ Protecting(K, c, y)
          /\ c.op = "none" /\ c.rbpoint /\ c.svp /\ TopNow(y) /\ c.accessed
      BY <1>3, <1>4, <2>2, <2>a, ProtectAsked
    <2>4. /\ K.kind \in Guards /\ K.before.st = "T" /\ Same(K.before, y) /\ c.inTrans
          /\ ~c.inError /\ ~c.optIn /\ KnowsWork(c, y)
      BY <2>3 DEF Protecting
    <2>5. Guarded(K, c, y) /\ Clean(K.before, y) /\ y.st = "T"
      BY <2>3, <2>4 DEF Guarded, Armed, Same, Clean
    <2>6. Sent(K, c, y)
      <3>1. K.kind # "local"
        BY <2>4 DEF Guards
      <3> QED BY <2>3, <2>4, <2>5, <3>1 DEF Sent
    <2> QED BY <1>3, <2>3, <2>6 DEF AtMain, K, c, y
  <1> QED BY <1>4, <1>5, <1>6

\* Reply to a call on a statement handle, at each program counter that waits.
LEMMA StepReply ==
    ASSUME TypeInv, SerialInv, NEW s \in Stmts, Reply(s)
    PROVE  SerialInv'
  <1> DEFINE k == calls[s]
             K == calls'[s]
  <1>1. s \in Threads /\ wire[s] # << >>
    BY DEF Reply, Threads
  <1>2. /\ k.pc # PcIdle /\ K.pc = k.pc /\ Asks(K, k)
        /\ \A u \in Threads \ {s} : calls'[u] = calls[u] /\ wire'[u] = wire[u]
    BY <1>1, ReplyFields
  <1>3. /\ Stage(k, wire[s], conn, be) /\ k.pc \in MidPcs \ {"endtran"}
    BY <1>2, At
  <1>4. k.pc \in {"begin", "svp", "main", "undo", "abort"}
    BY <1>1, <1>3, StageAt
       DEF MidPcs, AtExec, AtRequest, AtReady, AtDiscard, AtAborting, AtSync, AtEnd
  <1>5. CASE k.pc = "main"
    <2>1. AtMain(k, wire[s], conn, be)
      BY <1>3, <1>5, StageAt
    <2>2. Ground(conn', be') /\ AtMain(K, wire'[s], conn', be')
      <3>1. ~k.err /\ ~k.fail
        BY <1>1, <2>1 DEF AtMain
      <3>2. \/ wire[s] = <<k.cmd>> /\ Sent(k, conn, be)
            \/ k.prot = "simple" /\ AfterBegin(k, wire[s], conn, be)
            \/ k.prot = "simple" /\ AfterSvp(k, wire[s], conn, be)
        BY <1>1, <2>1 DEF AtMain
      <3> QED BY <1>5, <3>1, <3>2, ReplyCommand, ReplyMainBegin, ReplyMainSvp
    <2> HIDE DEF K
    <2>3. Stage(K, wire'[s], conn', be') /\ K.pc # PcIdle /\ K.pc # "endtran"
      BY <1>2, <1>5, <2>2, StageBy
    <2> QED BY <1>2, <2>2, <2>3, Advance DEF K
  <1>6. CASE k.pc \in {"begin", "svp", "undo", "abort"}
    <2>1. /\ Ground(conn', be')
          /\ k.pc = "begin" => AtBegin(K, wire'[s], conn', be')
          /\ k.pc = "svp" => AtSvp(K, wire'[s], conn', be')
          /\ k.pc = "undo" => AtUndo(K, wire'[s], conn', be')
          /\ k.pc = "abort" => AtAbort(K, wire'[s], conn', be')
      BY <1>6, ReplyBegin, ReplySvp, ReplyUndo, ReplyAbort
    <2> HIDE DEF K
    <2>2. Stage(K, wire'[s], conn', be') /\ K.pc # PcIdle /\ K.pc # "endtran"
      BY <1>2, <1>6, <2>1, StageBy
    <2> QED BY <1>2, <2>1, <2>2, Advance DEF K
  <1> QED BY <1>4, <1>5, <1>6

\* Reply to SQLEndTran.
LEMMA StepReplyDbc ==
    ASSUME TypeInv, SerialInv, Reply(Dbc)
    PROVE  SerialInv'
  <1> DEFINE k == calls[Dbc]
             K == calls'[Dbc]
             c == conn'
             y == be'
  <1>1. Dbc \in Threads /\ wire[Dbc] # << >>
    BY DEF Reply, Threads
  <1>2. k.pc # PcIdle
    BY <1>1, ReplyFields
  <1>3. /\ Stage(k, wire[Dbc], conn, be) /\ k.pc = "endtran" /\ Shape(k) /\ Ground(conn, be)
        /\ conn \in Conn /\ WellFormed(be) /\ k \in CallRec
        /\ \A u \in Threads \ {Dbc} : calls[u].pc = PcIdle /\ wire[u] = << >>
    BY <1>1, <1>2, Alone
  <1>4. AtEndTran(k, wire[Dbc], conn, be)
    BY <1>3 DEF Stage
  <1>5. /\ k.kind \in {"commit", "rollback"} /\ ~k.err /\ ~k.fail /\ wire[Dbc] = <<k.cmd>>
        /\ Sent(k, conn, be)
    BY <1>1, <1>4 DEF AtEndTran
  <1>6. Head(wire[Dbc]) = k.cmd /\ Tail(wire[Dbc]) = << >>
    BY <1>5, HeadTail
  <1>7. PICK o \in Outcomes(be, Head(wire[Dbc])) :
          /\ y = o.be /\ K.pc = k.pc /\ Asks(K, k) /\ K.err = k.err
          /\ o.tag = "ERROR" => K.fail /\ wire'[Dbc] = << >> /\ c = HandleError(conn)
          /\ o.tag # "ERROR" => /\ K.fail = k.fail /\ wire'[Dbc] = Tail(wire[Dbc])
                                /\ c = IF Queried(Dbc) THEN HandleTag(conn, o.tag) ELSE conn
          /\ \A u \in Threads \ {Dbc} : calls'[u] = calls[u] /\ wire'[u] = wire[u]
    BY <1>1, ReplyFields
  <1>8. Queried(Dbc) /\ k.prot = "simple"
    BY <1>3, <1>5 DEF Queried, Shape, CallRec
  <1>9. o \in Outcomes(be, k.cmd)
    BY <1>6, <1>7
  <1>10. /\ y.st = "I" /\ c.inTrans /\ Ground(c, y)
         /\ o.tag = "ERROR" => ErrEffect(k.before, k.cmd, y)
         /\ o.tag # "ERROR" => OkEffect(k.before, k.cmd, y)
    <2>1. /\ y.st = "I"
          /\ o.tag = "ERROR" => /\ ErrEffect(k.before, k.cmd, y) /\ HandleError(conn).inTrans
                                /\ Ground(HandleError(conn), y)
          /\ o.tag # "ERROR" => /\ OkEffect(k.before, k.cmd, y)
                                /\ HandleTag(conn, o.tag).inTrans
                                /\ Ground(HandleTag(conn, o.tag), y)
      BY <1>3, <1>5, <1>7, <1>8, <1>9, MainReply
    <2> QED BY <1>7, <1>8, <2>1
  <1> HIDE DEF K, c, y
  <1>11. AtEndTran(K, wire'[Dbc], c, y)
    <2>1. CASE o.tag = "ERROR"
      BY <1>5, <1>7, <1>10, <2>1 DEF AtEndTran, Asks
    <2>2. CASE o.tag # "ERROR"
      BY <1>5, <1>6, <1>7, <1>10, <2>2 DEF AtEndTran, Asks
    <2> QED BY <2>1, <2>2
  <1>12. Shape(K)
    BY <1>3, <1>7, ShapeKept DEF Asks
  <1>13. Mid(Dbc, K, wire'[Dbc], c, y) /\ K.pc # PcIdle
    BY <1>3, <1>7, <1>11, <1>12 DEF Mid, Stage, MidPcs, PcIdle
  <1> QED BY <1>1, <1>3, <1>7, <1>10, <1>13, OneStep DEF K, c, y

-----------------------------------------------------------------------------
(* The connection breaks.                                                   *)

\* The commands the driver adds neither write nor commit.
LEMMA AddedNames ==
    /\ Release.c = "RELEASE" /\ Savepoint.c = "SAVEPOINT" /\ Cmd("BEGIN").c = "BEGIN"
    /\ Cmd("ROLLBACK").c = "ROLLBACK" /\ Head(UndoCmds).c = "ROLLBACK TO"
  <1>1. Head(UndoCmds) = SvpCmd("ROLLBACK TO", Internal)
    BY HeadTail DEF UndoCmds
  <1>2. SvpCmd("ROLLBACK TO", Internal).c = "ROLLBACK TO"
    BY DEF SvpCmd
  <1>3. /\ Release.c = "RELEASE" /\ Savepoint.c = "SAVEPOINT" /\ Cmd("BEGIN").c = "BEGIN"
        /\ Cmd("ROLLBACK").c = "ROLLBACK"
    BY DEF Release, Savepoint, Cmd, SvpCmd
  <1> QED BY <1>1, <1>2, <1>3

\* Before the command of a call runs nothing has become durable since it began.
LEMMA SentDurable ==
    ASSUME NEW k \in CallRec, Shape(k), NEW c, NEW x, Sent(k, c, x)
    PROVE  /\ x.durable = k.before.durable /\ x.work = k.before.work /\ Live(x)
           /\ c.inError => c.inTrans
  <1>1. k.before.st \in {"I", "T", "E"}
    BY DEF CallRec, Session, Shape
  <1> QED BY <1>1 DEF Sent, Clean, Unchanged, Live

\* The command that is next, in a session that has made nothing durable yet.
LEMMA NextCommand ==
    ASSUME TypeInv, SerialInv, NEW t \in Threads, wire[t] # << >>
    PROVE  LET k == calls[t]
               h == Head(wire[t])
           IN  /\ be.durable = k.before.durable /\ (conn.inError => conn.inTrans)
               /\ h.c = "WRITE" => be.st # "I"
               /\ h.c = "COMMIT" => k.cmd.c = "COMMIT" /\ Live(be) /\ be.work = k.before.work
  <1> DEFINE k == calls[t]
             h == Head(wire[t])
  <1>1. k.pc # PcIdle
    BY DEF SerialInv, Mid
  <1>2. /\ Stage(k, wire[t], conn, be) /\ Shape(k) /\ k \in CallRec
    BY <1>1, Alone
  <1>3. ASSUME wire[t] = <<k.cmd>>, Sent(k, conn, be)
        PROVE  /\ be.durable = k.before.durable /\ (conn.inError => conn.inTrans)
               /\ h.c = "WRITE" => be.st # "I"
               /\ h.c = "COMMIT" => k.cmd.c = "COMMIT" /\ Live(be) /\ be.work = k.before.work
    BY <1>2, <1>3, SentDurable, HeadTail DEF Live
  <1>4. ASSUME Protecting(k, conn, be), h = Release \/ h = Savepoint
        PROVE  /\ be.durable = k.before.durable /\ (conn.inError => conn.inTrans)
               /\ h.c \notin {"WRITE", "COMMIT"}
    BY <1>4, AddedNames DEF Protecting, Same, Unchanged
  <1>5. ASSUME Undoable(k, conn, be), h = Cmd("ROLLBACK") \/ h = Head(UndoCmds)
        PROVE  /\ be.durable = k.before.durable /\ (conn.inError => conn.inTrans)
               /\ h.c \notin {"WRITE", "COMMIT"}
    BY <1>5, AddedNames DEF Undoable, Settled, Live
  <1>6. CASE k.pc = "begin"
    <2>1. AtBegin(k, wire[t], conn, be)
      BY <1>2, <1>6, StageAt
    <2>2. Calm(conn, be) /\ be = k.before /\ h = Cmd("BEGIN")
      BY <2>1, HeadTail DEF AtBegin, AtRequest
    <2>3. conn.inError => conn.inTrans
      BY <2>2 DEF Calm, Settled, Live
    <2> QED BY <2>2, <2>3, AddedNames
  <1>7. CASE k.pc = "svp"
    <2>1. AtSvp(k, wire[t], conn, be)
      BY <1>2, <1>7, StageAt
    <2>2. /\ Protecting(k, conn, be)
          /\ wire[t] = <<Release, Savepoint>> \/ wire[t] = <<Savepoint>>
      BY <2>1 DEF AtSvp, SvpWire
    <2>3. h = Release \/ h = Savepoint
      BY <2>2, HeadTail
    <2> QED BY <1>4, <2>2, <2>3
  <1>8. CASE k.pc = "main"
    <2>1. AtMain(k, wire[t], conn, be)
      BY <1>2, <1>8, StageAt
    <2>2. CASE wire[t] = <<k.cmd>> /\ Sent(k, conn, be)
      BY <1>3, <2>2
    <2>3. CASE AfterBegin(k, wire[t], conn, be)
      <3>1. h = Cmd("BEGIN") /\ be = k.before /\ ~conn.inError
        BY <2>3, HeadTail DEF AfterBegin
      <3> QED BY <3>1, AddedNames
    <2>4. CASE AfterSvp(k, wire[t], conn, be)
      <3>1. Protecting(k, conn, be) /\ (h = Release \/ h = Savepoint)
        BY <2>4, HeadTail DEF AfterSvp
      <3> QED BY <1>4, <3>1
    <2> QED BY <2>1, <2>2, <2>3, <2>4 DEF AtMain
  <1>9. CASE k.pc = "undo"
    <2>1. AtUndo(k, wire[t], conn, be)
      BY <1>2, <1>9, StageAt
    <2>2. Undoable(k, conn, be) /\ h = Head(UndoCmds)
      BY <2>1 DEF AtUndo
    <2> QED BY <1>5, <2>2
  <1>10. CASE k.pc = "abort"
    <2>1. AtAbort(k, wire[t], conn, be)
      BY <1>2, <1>10, StageAt
    <2>2. Undoable(k, conn, be) /\ h = Cmd("ROLLBACK")
      BY <2>1, HeadTail DEF AtAbort
    <2> QED BY <1>5, <2>2
  <1>11. CASE k.pc = "endtran"
    <2>1. AtEndTran(k, wire[t], conn, be)
      BY <1>2, <1>11 DEF Stage
    <2>2. wire[t] = <<k.cmd>> /\ Sent(k, conn, be)
      BY <2>1 DEF AtEndTran
    <2> QED BY <1>3, <2>2
  <1>12. k.pc \in {"begin", "svp", "main", "undo", "abort", "endtran"}
    BY <1>2, StageAt
       DEF MidPcs, AtExec, AtRequest, AtReady, AtDiscard, AtAborting, AtSync, AtEnd
  <1> QED BY <1>6, <1>7, <1>8, <1>9, <1>10, <1>11, <1>12

\* What the last command of a call that did not get its answer may have made durable.
LEMMA LastDurable ==
    ASSUME TypeInv, SerialInv, NEW t \in Threads, wire[t] # << >>,
           NEW last \in {be} \cup {o.be : o \in Outcomes(be, Head(wire[t]))}
    PROVE  LET k == calls[t]
           IN  /\ last.durable \in SUBSET Writes
               /\ \/ last.durable = k.before.durable
                  \/ /\ k.cmd.c = "COMMIT"
                     /\ last.durable = k.before.durable \cup
                                         {k.before.work[i] : i \in DOMAIN k.before.work}
  <1> DEFINE k == calls[t]
             h == Head(wire[t])
  <1>1. /\ be.durable = k.before.durable
        /\ h.c = "WRITE" => be.st # "I"
        /\ h.c = "COMMIT" => k.cmd.c = "COMMIT" /\ Live(be) /\ be.work = k.before.work
    BY NextCommand
  <1>2. /\ be \in Session /\ be.durable \in SUBSET Writes
        /\ {be.work[i] : i \in DOMAIN be.work} \in SUBSET Writes
    BY DEF TypeInv, TypeOK, Session
  <1>3. CASE last = be
    BY <1>1, <1>2, <1>3
  <1>4. CASE last # be
    <2>1. PICK o \in Outcomes(be, h) : last = o.be
      BY <1>4
    <2>2. CASE h.c # "COMMIT"
      <3>1. o.be.durable = be.durable
        BY <1>1, <1>2, <2>2, DurableKept
      <3> QED BY <1>1, <1>2, <2>1, <3>1
    <2>3. CASE h.c = "COMMIT"
      <3>1. o \in OnCommit(be)
        BY <2>3 DEF Outcomes
      <3>2. \/ o.be = FreshSession(be.durable)
            \/ o.be = FreshSession(be.durable \cup {be.work[i] : i \in DOMAIN be.work})
        BY <1>1, <2>3, <3>1, AnswerFields DEF OnCommit, Live
      <3>3. \/ o.be.durable = be.durable
            \/ o.be.durable = be.durable \cup {be.work[i] : i \in DOMAIN be.work}
        BY <3>2 DEF FreshSession
      <3> QED BY <1>1, <1>2, <2>1, <2>3, <3>3
    <2> QED BY <2>2, <2>3
  <1> QED BY <1>3, <1>4

\* Lose: the connection breaks under a message (CC_on_abort(CONN_DEAD)).
LEMMA StepLose ==
    ASSUME TypeInv, SerialInv, NEW t \in Threads, Lose(t)
    PROVE  SerialInv'
  <1> DEFINE k == calls[t]
             K == calls'[t]
             c == conn'
             y == be'
  <1>1. wire[t] # << >> /\ TypeOK
    BY DEF Lose, TypeInv
  <1>2. k.pc # PcIdle
    BY <1>1 DEF SerialInv, Mid
  <1>3. /\ Stage(k, wire[t], conn, be) /\ Shape(k) /\ k \in CallRec /\ conn \in Conn
        /\ Ground(conn, be) /\ ((t = Dbc) <=> (k.pc = "endtran"))
        /\ \A u \in Threads \ {t} : calls[u].pc = PcIdle /\ wire[u] = << >>
    BY <1>2, Alone
  <1>4. PICK last \in {be} \cup {o.be : o \in Outcomes(be, Head(wire[t]))} : y = Gone(last)
    BY DEF Lose
  <1>5. /\ wire' = [x \in Threads |-> << >>] /\ c = OnDead(conn)
        /\ calls' = [x \in Threads |->
                   IF wire[x] = << >> THEN calls[x] ELSE [calls[x] EXCEPT !.fail = TRUE]]
    BY DEF Lose
  <1>6. /\ wire'[t] = << >> /\ K = [k EXCEPT !.fail = TRUE]
        /\ \A u \in Threads \ {t} : calls'[u] = calls[u] /\ wire'[u] = wire[u]
    BY <1>1, <1>3, <1>5
  <1>7. K.pc = k.pc /\ Asks(K, k) /\ K.err = k.err /\ K.fail
    BY <1>3, <1>6 DEF CallRec, Asks
  <1>8. Ground(c, y) /\ Calm(c, y) /\ Dead(k, c, y)
    <2>1. conn.inError => conn.inTrans
      BY <1>1, NextCommand
    <2>2. /\ last.durable \in SUBSET Writes
          /\ \/ last.durable = k.before.durable
             \/ /\ k.cmd.c = "COMMIT"
                /\ last.durable = k.before.durable \cup
                                    {k.before.work[i] : i \in DOMAIN k.before.work}
      BY <1>1, LastDurable
    <2> QED BY <1>3, <1>4, <1>5, <2>1, <2>2, Breaks
  <1>9. c \in Conn
    BY <1>3, <1>5, DeadFields
  <1> HIDE DEF K, c, y
  <1>10. Dead(K, c, y)
    BY <1>7, <1>8, SameAsked DEF Asks
  <1>11. UpdateTransactionStatus(c, y.st) = c
    <2>1. Settled(c, y) /\ y.st \in Statuses
      BY <1>8 DEF Dead, Statuses
    <2> QED BY <1>8, <1>9, <2>1, StatusSettled
  <1>12. k.pc \in {"begin", "svp", "main", "undo", "abort", "endtran"}
    BY <1>1, <1>3, StageAt
       DEF MidPcs, AtExec, AtRequest, AtReady, AtDiscard, AtAborting, AtSync, AtEnd
  <1>13. Shape(K)
    BY <1>3, <1>7, ShapeKept DEF Asks
  <1>14. Stage(K, << >>, c, y)
    <2>1. CASE k.pc = "begin"
      <3>1. AtBegin(k, wire[t], conn, be)
        BY <1>3, <2>1, StageAt
      <3>2. K.prot = "ext" /\ K.before.st = "I" /\ ~K.err
        BY <1>7, <3>1 DEF AtBegin, AtRequest, Asks
      <3>3. AtBegin(K, << >>, c, y)
        BY <1>10, <3>2 DEF AtBegin, AtRequest
      <3> QED BY <1>7, <2>1, <3>3, StageBy
    <2>2. CASE k.pc = "svp"
      <3>1. AtSvp(k, wire[t], conn, be)
        BY <1>3, <2>2, StageAt
      <3>2. AtSvp(K, << >>, c, y)
        BY <1>7, <1>10, <3>1 DEF AtSvp, Asks
      <3> QED BY <1>7, <2>2, <3>2, StageBy
    <2>3. CASE k.pc = "main"
      <3>1. AtMain(k, wire[t], conn, be)
        BY <1>3, <2>3, StageAt
      <3>2. FailState(K, AfterMain(K, c, y), y)
        BY <1>7, <1>10, <1>11 DEF AfterMain, FailState
      <3>3. AtMain(K, << >>, c, y)
        BY <1>7, <3>1, <3>2 DEF AtMain
      <3> QED BY <1>7, <2>3, <3>3, StageBy
    <2>4. CASE k.pc = "undo"
      <3>1. AtUndo(k, wire[t], conn, be)
        BY <1>3, <2>4, StageAt
      <3>2. AtUndo(K, << >>, c, y)
        BY <1>7, <1>10, <3>1 DEF AtUndo
      <3> QED BY <1>7, <2>4, <3>2, StageBy
    <2>5. CASE k.pc = "abort"
      <3>1. AtAbort(k, wire[t], conn, be)
        BY <1>3, <2>5, StageAt
      <3>2. AtAbort(K, << >>, c, y)
        BY <1>7, <1>10, <3>1 DEF AtAbort, GaveUp
      <3> QED BY <1>7, <2>5, <3>2, StageBy
    <2>6. CASE k.pc = "endtran"
      <3>1. AtEndTran(k, wire[t], conn, be)
        BY <1>3, <2>6 DEF Stage
      <3>2. AtEndTran(K, << >>, c, y)
        BY <1>7, <1>10, <3>1 DEF AtEndTran, Asks
      <3> QED BY <1>7, <2>6, <3>2 DEF Stage, MidPcs
    <2> QED BY <1>12, <2>1, <2>2, <2>3, <2>4, <2>5, <2>6
  <1>15. Mid(t, K, wire'[t], c, y) /\ K.pc # PcIdle
    BY <1>2, <1>3, <1>6, <1>7, <1>13, <1>14 DEF Mid
  <1> QED BY <1>3, <1>6, <1>8, <1>15, OneStep DEF K, c, y

-----------------------------------------------------------------------------
\* The invariant holds initially,
LEMMA SerialInit == Managed /\ Init => SerialInv
  <1> SUFFICES ASSUME Managed, Init PROVE SerialInv
    OBVIOUS
  <1>1. /\ ~conn.autocommit /\ ~conn.inTrans /\ ~conn.inError /\ ~conn.accessed
        /\ ~conn.rbpoint /\ ~conn.svp /\ conn.op = "none" /\ conn.optPrev /\ conn.up
        /\ conn.cursors = {}
    <2>1. PICK a \in Autocommits : conn =
             [autocommit |-> a, inTrans |-> FALSE, manual |-> FALSE, inError |-> FALSE,
              accessed |-> FALSE, rbpoint |-> FALSE, svp |-> FALSE, op |-> "none",
              optIn |-> TRUE, optPrev |-> TRUE, up |-> TRUE, cursors |-> {}]
      BY DEF Init
    <2>2. a = FALSE
      BY DEF Managed
    <2> QED BY <2>1, <2>2
  <1>2. be.st = "I" /\ be.work = << >> /\ be.svps = << >>
    BY DEF Init, FreshSession
  <1>3. \A t \in Threads : calls[t].pc = PcIdle /\ wire[t] = << >>
    BY DEF Init, Idle
  <1>4. Ground(conn, be) /\ Calm(conn, be)
    BY <1>1, <1>2 DEF Ground, Calm, Settled, Untouched, KnowsWork, Live
  <1> QED BY <1>3, <1>4 DEF SerialInv, Mid

\* and every step keeps it.
LEMMA SerialStep ==
    ASSUME Managed, TypeInv, SerialInv, [Next]_vars
    PROVE  SerialInv'
  <1>1. CASE UNCHANGED vars
    BY <1>1 DEF vars, SerialInv, Ground, AtRest, Calm, Settled, Untouched, KnowsWork, Mid, Stage
  <1>2. ASSUME NEW s \in Stmts, Progress(s) PROVE SerialInv'
    BY <1>2, NoAutocommit, StepDown, StepBeginFirst, StepBeginDone, StepDirectSavepoint,
       StepSavepointMade, StepSendMain, StepMainDone, StepPost, StepDiscard, StepUndo,
       StepUndoDone, StepDecideAbort, StepAbort, StepAbortDone, StepSync, StepEndCall
       DEF Progress
  <1>3. ASSUME NEW s \in Stmts, Call(s) \/ Close(s) \/ Reconnect(s) PROVE SerialInv'
    BY <1>3, NoAutocommit, StepCall, StepReconnect
  <1>4. ASSUME NEW t \in Threads, Reply(t) \/ Lose(t) PROVE SerialInv'
    BY <1>4, StepReply, StepReplyDbc, StepLose DEF Threads
  <1>5. CASE \/ \E k \in {"commit", "rollback"} : EndTran(k)
             \/ SetAutocommit \/ DbcProgress
    BY <1>5, NoAutocommit, StepEndTran, StepEndTranDone DEF DbcProgress
  <1> QED BY <1>1, <1>2, <1>3, <1>4, <1>5 DEF Next

-----------------------------------------------------------------------------
(* What follows for the application.                                        *)

\* It says where the internal savepoint is.
LEMMA OnTop == TypeInv /\ SerialInv => OwnSavepointOnTop
  <1> SUFFICES ASSUME TypeInv, SerialInv, conn.svp, be.st \in {"T", "E"}
               PROVE  be.svps # << >> /\ Last(be.svps).name = Internal
    BY DEF OwnSavepointOnTop
  <1>1. TopOwn(be)
    BY DEF SerialInv, Ground, Live
  <1>2. Last(be.svps) = be.svps[Len(be.svps)]
    BY DEF Last
  <1> QED BY <1>1, <1>2 DEF TopOwn

\* While internal_svp is set, the driver's savepoint is the newest of the
\* transaction, so that its RELEASE or ROLLBACK TO (SetStatementSvp,
\* CC_internal_rollback) reaches no savepoint of the application.
THEOREM OwnSavepointOnTopAlways ==
    ASSUME Managed
    PROVE  Spec => []OwnSavepointOnTop
  <1>1. Init => SerialInv
    BY SerialInit
  <1>2. TypeInv /\ SerialInv /\ [Next]_vars => SerialInv'
    BY SerialStep
  <1> QED BY <1>1, <1>2, TypeInit, TypeStep, OnTop, PTL DEF Spec

\* A step of the driver inside a call on a statement handle: the server is not involved
\* and the call goes on.
LEMMA RunsOn ==
    ASSUME TypeInv, SerialInv, Managed, NEW s \in Stmts, Progress(s), ~EndCall(s)
    PROVE  /\ be' = be /\ calls[s].pc # PcIdle /\ calls'[s].pc # PcIdle
           /\ Asks(calls'[s], calls[s]) /\ (calls[s].err => calls'[s].err)
           /\ \A u \in Threads \ {s} : calls'[u] = calls[u]
  <1> DEFINE k == calls[s]
             K == calls'[s]
             Goal == /\ be' = be /\ k.pc # PcIdle /\ K.pc # PcIdle /\ Asks(K, k)
                     /\ (k.err => K.err) /\ \A u \in Threads \ {s} : calls'[u] = calls[u]
  <1>1. s \in Threads /\ TypeOK /\ k \in CallRec /\ calls \in [Threads -> CallRec]
    BY DEF TypeInv, TypeOK, Threads
  <1>2. CASE Down(s)
    BY <1>1, <1>2 DEF Down, CallRec, Asks, PcIdle
  <1>3. CASE BeginFirst(s)
    <2>1. Send(s, "begin", <<Cmd("BEGIN")>>) /\ be' = be /\ k.pc = "exec"
      BY <1>3 DEF BeginFirst
    <2> QED BY <1>1, <2>1, Sends DEF PcIdle
  <1>4. CASE BeginDone(s)
    <2>1. GoTo(s, "request") /\ be' = be /\ k.pc = "begin"
      BY <1>4 DEF BeginDone, Answered
    <2> QED BY <1>1, <2>1, Goes DEF PcIdle
  <1>5. CASE DirectSavepoint(s)
    BY <1>1, <1>5 DEF DirectSavepoint, CallRec, Asks, PcIdle
  <1>6. CASE SavepointMade(s)
    <2>1. k.pc = "svp" /\ be' = be
      BY <1>6 DEF SavepointMade, Answered
    <2>2. CASE k.fail
      BY <1>1, <1>6, <2>1, <2>2 DEF SavepointMade, CallRec, Asks, PcIdle
    <2>3. CASE ~k.fail
      <3>1. GoTo(s, "ready")
        BY <1>6, <2>3 DEF SavepointMade
      <3> QED BY <1>1, <2>1, <3>1, Goes DEF PcIdle
    <2> QED BY <2>2, <2>3
  <1>7. CASE SendMain(s)
    <2>1. k.pc # PcIdle /\ be' = be
      BY <1>7 DEF SendMain, PcIdle
    <2>2. /\ K.pc = "main" /\ Asks(K, k) /\ K.err = k.err
          /\ \A u \in Threads \ {s} : calls'[u] = calls[u]
      BY <1>7, SendCall
    <2> QED BY <2>1, <2>2 DEF PcIdle
  <1>8. CASE MainDone(s)
    <2>1. k.pc = "main" /\ be' = be /\ k.pc # PcIdle
      BY <1>8 DEF MainDone, Answered, PcIdle
    <2>2. ~k.err
      <3>1. Stage(k, wire[s], conn, be)
        BY <2>1, At
      <3>2. AtMain(k, wire[s], conn, be)
        BY <2>1, <3>1, StageAt
      <3> QED BY <3>2 DEF AtMain
    <2> QED BY <1>1, <1>8, <2>1, <2>2 DEF MainDone, CallRec, Asks, PcIdle
  <1>9. CASE Post(s)
    <2>1. k.pc = "post" /\ be' = be
      BY <1>9 DEF Post
    <2>2. PICK e \in BOOLEAN : calls' = [calls EXCEPT ![s].pc = "discard", ![s].err = @ \/ e]
      BY <1>9 DEF Post
    <2> QED BY <1>1, <2>1, <2>2 DEF CallRec, Asks, PcIdle
  <1>10. CASE Discard(s)
    <2>1. GoTo(s, "end") /\ be' = be /\ k.pc = "discard"
      BY <1>10 DEF Discard
    <2> QED BY <1>1, <2>1, Goes DEF PcIdle
  <1>11. CASE Undo(s)
    <2>1. Send(s, "undo", UndoCmds) /\ be' = be /\ k.pc = "discard"
      BY <1>11 DEF Undo
    <2> QED BY <1>1, <2>1, Sends DEF PcIdle
  <1>12. CASE UndoDone(s)
    <2>1. GoTo(s, "end") /\ be' = be /\ k.pc = "undo"
      BY <1>12 DEF UndoDone, Answered
    <2> QED BY <1>1, <2>1, Goes DEF PcIdle
  <1>13. CASE DecideAbort(s)
    <2>1. GoTo(s, "aborting") /\ be' = be /\ k.pc = "discard"
      BY <1>13 DEF DecideAbort
    <2> QED BY <1>1, <2>1, Goes DEF PcIdle
  <1>14. CASE Abort(s)
    <2>1. /\ be' = be /\ k.pc = "aborting"
          /\ GoTo(s, "end") \/ Send(s, "abort", <<Cmd("ROLLBACK")>>)
      BY <1>14 DEF Abort
    <2>2. CASE GoTo(s, "end")
      BY <1>1, <2>1, <2>2, Goes DEF PcIdle
    <2>3. CASE Send(s, "abort", <<Cmd("ROLLBACK")>>)
      BY <1>1, <2>1, <2>3, Sends DEF PcIdle
    <2> QED BY <2>1, <2>2, <2>3
  <1>15. CASE AbortDone(s)
    <2>1. GoTo(s, "sync") /\ be' = be /\ k.pc = "abort"
      BY <1>15 DEF AbortDone, Answered
    <2> QED BY <1>1, <2>1, Goes DEF PcIdle
  <1>16. CASE Sync(s)
    <2>1. k.pc = "sync" /\ be' = be /\ k.pc # PcIdle
      BY <1>16 DEF Sync, PcIdle
    <2>2. k.kind # "close"
      BY <2>1, At DEF Shape, ManagedKinds
    <2>3. GoTo(s, "end")
      BY <1>16, <2>2 DEF Sync
    <2> QED BY <1>1, <2>1, <2>3, Goes DEF PcIdle
  <1> QED BY <1>2, <1>3, <1>4, <1>5, <1>6, <1>7, <1>8, <1>9, <1>10, <1>11, <1>12, <1>13,
             <1>14, <1>15, <1>16, NoAutocommit DEF Progress

\* The steps there are in a managed use.
LEMMA Moves ==
    ASSUME TypeInv, SerialInv, Managed, Next
    PROVE  \/ \E s \in Stmts : \/ Call(s) \/ Reconnect(s) \/ EndCall(s)
                               \/ Progress(s) /\ ~EndCall(s)
           \/ \E kind \in {"commit", "rollback"} : EndTran(kind)
           \/ EndTranDone
           \/ \E t \in Threads : Reply(t) \/ Lose(t)
  BY NoAutocommit DEF Next, DbcProgress

\* The call that ends, and what its end leaves.
LEMMA Ended ==
    ASSUME TypeInv, SerialInv, NEW s \in Stmts, EndCall(s)
    PROVE  LET k == calls[s]
           IN  /\ be' = be /\ conn'.up = conn.up /\ calls'[s] = Idle
               /\ \A u \in Threads \ {s} : calls'[u] = calls[u] /\ calls[u].pc = PcIdle
               /\ k.pc # PcIdle /\ Shape(k) /\ k \in CallRec /\ WellFormed(be)
               /\ conn.up <=> be.st # "X"
               /\ k.err => FailEffect(k, be)
               /\ ~k.err => DoneEffect(k, be)
  <1> DEFINE k == calls[s]
  <1>1. k.pc = "end" /\ be' = be /\ k.pc # PcIdle
    BY DEF EndCall, PcIdle
  <1>2. /\ Stage(k, wire[s], conn, be) /\ Ground(conn, be) /\ conn \in Conn
        /\ TypeOK /\ s \in Threads /\ Shape(k) /\ k \in CallRec /\ WellFormed(be)
        /\ \A u \in Threads \ {s} : calls[u].pc = PcIdle
    BY <1>1, At
  <1>3. calls'[s] = Idle /\ \A u \in Threads \ {s} : calls'[u] = calls[u]
    BY <1>2 DEF EndCall, TypeOK
  <1>4. AtEnd(k, wire[s], conn, be)
    BY <1>1, <1>2, StageAt
  <1>5. conn'.up = conn.up
    <2> DEFINE e == [conn EXCEPT !.optPrev = conn.optIn, !.optIn = TRUE]
    <2>1. conn' = StartStmt(IF ~k.err /\ conn.accessed THEN e ELSE conn)
      BY DEF EndCall
    <2>2. e \in Conn /\ e.up = conn.up
      BY <1>2 DEF Conn
    <2> HIDE DEF e
    <2>3. ASSUME NEW d \in Conn PROVE StartStmt(d).up = d.up
      BY DEF StartStmt, Conn
    <2> QED BY <1>2, <2>1, <2>2, <2>3
  <1>6. (k.err => FailEffect(k, be)) /\ (~k.err => DoneEffect(k, be))
    BY <1>4 DEF AtEnd, DoneState
  <1>7. conn.up <=> be.st # "X"
    BY <1>2 DEF Ground
  <1> QED BY <1>1, <1>2, <1>3, <1>5, <1>6, <1>7

\* A statement handle's call returns in EndCall only.
LEMMA ReturnsBy ==
    ASSUME TypeInv, SerialInv, Managed, [Next]_vars, NEW s \in Stmts, Returns(s)
    PROVE  EndCall(s)
  <1>1. s \in Threads /\ s # Dbc /\ calls[s].pc # PcIdle /\ calls'[s].pc = PcIdle
    BY CoreAssumption DEF Threads, Returns
  <1>2. \A u \in Threads \ {s} : calls[u].pc = PcIdle /\ wire[u] = << >>
    BY <1>1, Alone
  <1>3. TypeOK /\ calls \in [Threads -> CallRec]
    BY DEF TypeInv, TypeOK
  <1>4. Next
    BY <1>1 DEF vars
  <1>5. ASSUME NEW u \in Stmts, Call(u) \/ Reconnect(u) PROVE FALSE
    <2>1. AtRest
      BY <1>5 DEF Call, Reconnect, MayCall, Managed
    <2> QED BY <1>1, <2>1 DEF AtRest
  <1>6. ASSUME NEW u \in Stmts, EndCall(u) PROVE EndCall(s)
    <2>1. u = s
      BY <1>2, <1>6 DEF EndCall, PcIdle, Threads
    <2> QED BY <1>6, <2>1
  <1>7. ASSUME NEW u \in Stmts, Progress(u), ~EndCall(u) PROVE FALSE
    <2>1. calls[u].pc # PcIdle /\ calls'[u].pc # PcIdle /\ u \in Threads
      BY <1>7, RunsOn DEF Threads
    <2> QED BY <1>1, <1>2, <2>1
  <1>8. ASSUME NEW kind \in {"commit", "rollback"}, EndTran(kind) PROVE FALSE
    <2>1. AtRest
      BY <1>8 DEF EndTran, MayCall, Managed
    <2> QED BY <1>1, <2>1 DEF AtRest
  <1>9. ~EndTranDone
    <2>1. Dbc \in Threads /\ calls[Dbc].pc = PcIdle
      BY <1>1, <1>2 DEF Threads
    <2> QED BY <2>1 DEF EndTranDone, Answered, PcIdle
  <1>10. ASSUME NEW t \in Threads, Reply(t) PROVE FALSE
    <2>1. calls[t].pc # PcIdle /\ calls'[t].pc = calls[t].pc
      BY <1>10, ReplyFields
    <2> QED BY <1>1, <1>2, <2>1
  <1>11. ASSUME NEW t \in Threads, Lose(t) PROVE FALSE
    <2>1. calls' = [x \in Threads |->
                   IF wire[x] = << >> THEN calls[x] ELSE [calls[x] EXCEPT !.fail = TRUE]]
      BY <1>11 DEF Lose
    <2>2. calls'[s].pc = calls[s].pc
      BY <1>1, <1>3, <2>1 DEF CallRec
    <2> QED BY <1>1, <2>2
  <1> QED BY <1>4, <1>5, <1>6, <1>7, <1>8, <1>9, <1>10, <1>11, Moves

\* What LostEffect leaves is no session.
LEMMA LostIsGone ==
    ASSUME NEW k \in CallRec, NEW x, LostEffect(k.before, k.cmd, x)
    PROVE  x.st = "X"
  <1>1. PICK d : x = Gone(FreshSession(d))
    BY DEF LostEffect
  <1> QED BY <1>1 DEF Gone, FreshSession

\* A call on data that returns SQL_ERROR leaves the session as it found it, or
\* a new one in place of a transaction without work.
LEMMA FailsClean ==
    ASSUME TypeInv, SerialInv, NEW s \in Stmts, EndCall(s), conn.up, IsData(calls[s].kind),
           calls[s].err
    PROVE  Same(calls[s].before, be) \/ Emptied(calls[s].before, be)
  <1>1. FailEffect(calls[s], be) /\ calls[s] \in CallRec /\ be.st # "X"
    BY Ended
  <1> QED BY <1>1, LostIsGone DEF FailEffect

\* Of the kinds that work on data two occur here.
LEMMA DataOfManaged ==
    ASSUME NEW k, Shape(k), k.kind \in DataKinds
    PROVE  k.kind \in {"write", "read"} /\ IsData(k.kind)
  BY DEF Shape, ManagedKinds, DataKinds, IsData

\* Its end leaves the work it began with.
LEMMA KeepsEarlier ==
    ASSUME TypeInv, SerialInv, Managed, [Next]_vars, NEW s \in Stmts, FailsInTrans(s)
    PROVE  be'.work = calls[s].before.work
  <1> DEFINE k == calls[s]
  <1>1. EndCall(s) /\ k.err /\ conn'.up /\ k.kind \in DataKinds
    BY ReturnsBy DEF FailsInTrans
  <1>2. be' = be /\ conn'.up = conn.up /\ Shape(k) /\ k \in CallRec
    BY <1>1, Ended
  <1>3. Same(k.before, be) \/ Emptied(k.before, be)
    BY <1>1, <1>2, DataOfManaged, FailsClean
  <1>4. Emptied(k.before, be) => be.work = k.before.work
    BY DEF Emptied, FreshSession
  <1> QED BY <1>2, <1>3, <1>4 DEF Same, Unchanged

\* A statement that returns SQL_ERROR in a sound transaction leaves the work of
\* the statements before it: SetStatementSvp protected it, or there was none,
\* and DiscardStatementSvp takes back no more.
THEOREM EarlierWorkKeptAlways ==
    ASSUME Managed
    PROVE  Spec => EarlierWorkKept
  <1>1. Init => SerialInv
    BY SerialInit
  <1>2. TypeInv /\ SerialInv /\ [Next]_vars => SerialInv'
    BY SerialStep
  <1>3. TypeInv /\ SerialInv /\ [Next]_vars =>
            [\A s \in Stmts : FailsInTrans(s) => be'.work = calls[s].before.work]_vars
    BY KeepsEarlier
  <1> QED BY <1>1, <1>2, <1>3, TypeInit, TypeStep, PTL DEF Spec, EarlierWorkKept

\* A read or a write that succeeds leaves a sound transaction.
LEMMA DoneSound ==
    ASSUME NEW k \in CallRec, Shape(k), k.kind \in {"read", "write"}, NEW x \in Session,
           DoneEffect(k, x), k.before.st # "E"
    PROVE  x.st = "T"
  <1> DEFINE b == BegunBy(Seen(k.before))
  <1>1. k.before \in Session /\ k.before.st \in {"I", "T"}
    BY DEF CallRec, Session, Shape
  <1>2. Seen(k.before) \in Session /\ Seen(k.before).st = k.before.st /\ Seen(x).st = x.st
    BY <1>1, SeenFields
  <1>3. b.st = "T" /\ b \in Session
    BY <1>1, <1>2 DEF BegunBy, Session
  <1>4. PICK o \in Outcomes(b, k.cmd) : o.tag # "ERROR" /\ Seen(x) = o.be
    BY DEF DoneEffect, OkEffect
  <1> HIDE DEF b
  <1>5. k.cmd.c \in {"READ", "WRITE"}
    <2>1. Cmd("READ").c = "READ" /\ \A w : WriteCmd(w).c = "WRITE"
      BY DEF Cmd, WriteCmd
    <2> QED BY <2>1 DEF Shape
  <1>6. o \in OnRead(b) \/ o \in OnWrite(b, k.cmd.w)
    BY <1>3, <1>4, <1>5 DEF Outcomes
  <1>7. o.be.st = "T"
    BY <1>3, <1>4, <1>6 DEF OnRead, OnWrite, Failed, Answer, Session
  <1> QED BY <1>2, <1>4, <1>7

\* A call on data ends in a transaction that has not failed, if it began in
\* one.
LEMMA Sound ==
    ASSUME TypeInv, SerialInv, Managed, [Next]_vars, NEW s \in Stmts, Returns(s),
           calls[s].kind \in DataKinds, calls[s].before.st # "E"
    PROVE  be'.st # "E"
  <1> DEFINE k == calls[s]
  <1>1. EndCall(s)
    BY ReturnsBy
  <1>2. /\ be' = be /\ Shape(k) /\ k \in CallRec /\ (conn.up <=> be.st # "X") /\ be \in Session
        /\ ~k.err => DoneEffect(k, be)
    BY <1>1, Ended DEF WellFormed
  <1>3. CASE ~k.err
    <2>1. be.st = "T"
      BY <1>2, <1>3, DataOfManaged, DoneSound
    <2> QED BY <1>2, <2>1
  <1>4. CASE k.err /\ conn.up
    <2>1. Same(k.before, be) \/ Emptied(k.before, be)
      BY <1>1, <1>2, <1>4, DataOfManaged, FailsClean
    <2>2. Emptied(k.before, be) => be.st = "I"
      BY DEF Emptied, FreshSession
    <2> QED BY <1>2, <2>1, <2>2 DEF Same
  <1> QED BY <1>2, <1>3, <1>4

\* DiscardStatementSvp never leaves a transaction failed that was sound when
\* the statement was called.
THEOREM NotPoisonedAlways ==
    ASSUME Managed
    PROVE  Spec => NotPoisoned
  <1>1. Init => SerialInv
    BY SerialInit
  <1>2. TypeInv /\ SerialInv /\ [Next]_vars => SerialInv'
    BY SerialStep
  <1>3. TypeInv /\ SerialInv /\ [Next]_vars =>
            [\A s \in Stmts :
               /\ Returns(s) /\ calls[s].kind \in DataKinds /\ calls[s].before.st # "E"
               => be'.st # "E"]_vars
    BY Sound
  <1> QED BY <1>1, <1>2, <1>3, TypeInit, TypeStep, PTL DEF Spec, NotPoisoned

-----------------------------------------------------------------------------
(* The application's savepoints survive.                                   *)

\* While the server has a command of a call, the driver does nothing in that call.
LEMMA Waiting ==
    ASSUME TypeInv, SerialInv, Managed, NEW s \in Stmts, wire[s] # << >>
    PROVE  /\ calls[s].pc \in {"begin", "svp", "main", "undo", "abort"}
           /\ ~Progress(s)
  <1>1. s \in Threads
    BY DEF Threads
  <1>2. calls[s].pc # PcIdle
    BY <1>1 DEF SerialInv, Mid
  <1>3. Stage(calls[s], wire[s], conn, be) /\ calls[s].pc \in MidPcs \ {"endtran"}
    BY <1>2, At
  <1>4. calls[s].pc \in {"begin", "svp", "main", "undo", "abort"}
    BY <1>3, StageAt
       DEF MidPcs, AtExec, AtRequest, AtReady, AtDiscard, AtAborting, AtSync, AtEnd
  <1>5. ~Progress(s)
    BY <1>4, NoAutocommit
       DEF Progress, Down, BeginFirst, BeginDone, DirectSavepoint, SavepointMade, SendMain,
           MainDone, PostCommit, Post, Discard, Undo, UndoDone, DecideAbort, Abort, AbortDone,
           Sync, EndCall, Answered
  <1> QED BY <1>4, <1>5

\* The answer to a command that names the internal savepoint leaves the application's
\* savepoints as they are.
LEMMA OwnAnswered ==
    ASSUME TypeInv, SerialInv, NEW t \in Threads, Reply(t), Head(wire[t]).sp = Internal
    PROVE  UserSvps(be') = UserSvps(be)
  <1> DEFINE k == calls[t]
             h == Head(wire[t])
  <1>1. k.pc # PcIdle /\ wire[t] # << >>
    BY ReplyFields
  <1>2. /\ Stage(k, wire[t], conn, be) /\ Shape(k) /\ k \in CallRec /\ conn \in Conn
        /\ Ground(conn, be) /\ be \in Session
    BY <1>1, Alone DEF WellFormed
  <1>3. PICK o \in Outcomes(be, h) : be' = o.be
    BY ReplyFields
  <1>4. k.cmd.sp # Internal
    BY <1>2, ShapeNames
  <1>5. Cmd("BEGIN").sp # Internal /\ Cmd("ROLLBACK").sp # Internal
    BY NamesApart DEF Cmd
  <1>6. ASSUME Protecting(k, conn, be), conn.op = "savepoint", ~conn.rbpoint,
               (h = Release /\ conn.svp) \/ h = Savepoint
        PROVE  UserSvps(be') = UserSvps(be)
    <2>1. o.be = be' /\ (h = Release => o \in Outcomes(be, Release))
          /\ (h = Savepoint => o \in Outcomes(be, Savepoint))
      BY <1>3
    <2>2. Protecting(k, HandleTag(conn, o.tag), o.be)
      BY <1>2, <1>6, <2>1, ProtectReply
    <2>3. Same(k.before, be) /\ Same(k.before, be')
      BY <1>6, <2>1, <2>2 DEF Protecting
    <2> QED BY <2>3 DEF Same, Unchanged
  <1>7. CASE k.pc = "begin"
    <2>1. AtBegin(k, wire[t], conn, be)
      BY <1>2, <1>7, StageAt
    <2>2. h = Cmd("BEGIN")
      BY <1>1, <2>1, HeadTail DEF AtBegin, AtRequest
    <2> QED BY <1>5, <2>2
  <1>8. CASE k.pc = "svp"
    <2>1. AtSvp(k, wire[t], conn, be)
      BY <1>2, <1>8, StageAt
    <2>2. /\ Protecting(k, conn, be) /\ conn.op = "savepoint" /\ ~conn.rbpoint
          /\ (wire[t] = <<Release, Savepoint>> /\ conn.svp) \/ wire[t] = <<Savepoint>>
      BY <1>1, <2>1 DEF AtSvp, SvpWire
    <2>3. (h = Release /\ conn.svp) \/ h = Savepoint
      BY <2>2, HeadTail
    <2> QED BY <1>6, <2>2, <2>3
  <1>9. CASE k.pc = "main"
    <2>1. AtMain(k, wire[t], conn, be)
      BY <1>2, <1>9, StageAt
    <2>2. CASE wire[t] = <<k.cmd>>
      <3>1. h = k.cmd
        BY <2>2, HeadTail
      <3> QED BY <1>4, <3>1
    <2>3. CASE AfterBegin(k, wire[t], conn, be)
      <3>1. h = Cmd("BEGIN")
        BY <2>3, HeadTail DEF AfterBegin
      <3> QED BY <1>5, <3>1
    <2>4. CASE AfterSvp(k, wire[t], conn, be)
      <3>1. /\ Protecting(k, conn, be) /\ conn.op = "savepoint" /\ ~conn.rbpoint
            /\ \/ wire[t] = <<Release, Savepoint, k.cmd>> /\ conn.svp
               \/ wire[t] = <<Savepoint, k.cmd>>
        BY <2>4 DEF AfterSvp
      <3>2. (h = Release /\ conn.svp) \/ h = Savepoint
        BY <3>1, HeadTail
      <3> QED BY <1>6, <3>1, <3>2
    <2> QED BY <1>1, <2>1, <2>2, <2>3, <2>4 DEF AtMain
  <1>10. CASE k.pc = "undo"
    <2>1. AtUndo(k, wire[t], conn, be)
      BY <1>2, <1>10, StageAt
    <2>2. /\ be.st = "E" /\ TopNow(be) /\ h = Head(UndoCmds)
      BY <1>1, <2>1 DEF AtUndo, Undoable, Guarded
    <2>3. o \in Outcomes(be, Head(UndoCmds))
      BY <2>2
    <2>4. be'.svps = be.svps
      BY <1>2, <1>3, <2>2, <2>3, UndoOwn
    <2> QED BY <2>4, UserSvpsOf
  <1>11. CASE k.pc = "abort"
    <2>1. AtAbort(k, wire[t], conn, be)
      BY <1>2, <1>11, StageAt
    <2>2. h = Cmd("ROLLBACK")
      BY <1>1, <2>1, HeadTail DEF AtAbort
    <2> QED BY <1>5, <2>2
  <1>12. CASE k.pc = "endtran"
    <2>1. AtEndTran(k, wire[t], conn, be)
      BY <1>2, <1>12 DEF Stage
    <2>2. h = k.cmd
      BY <1>1, <2>1, HeadTail DEF AtEndTran
    <2> QED BY <1>4, <2>2
  <1>13. k.pc \in {"begin", "svp", "main", "undo", "abort", "endtran"}
    BY <1>1, <1>2, StageAt
       DEF MidPcs, AtExec, AtRequest, AtReady, AtDiscard, AtAborting, AtSync, AtEnd
  <1> QED BY <1>7, <1>8, <1>9, <1>10, <1>11, <1>12, <1>13

\* An answer to a command of the driver's own.
LEMMA SvpsSurvive ==
    ASSUME TypeInv, SerialInv, Managed, [Next]_vars, NEW t \in Threads, wire[t] # << >>,
           wire'[t] # wire[t], Head(wire[t]).sp = Internal, conn'.up
    PROVE  UserSvps(be') = UserSvps(be)
  <1>1. calls[t].pc # PcIdle
    BY DEF SerialInv, Mid
  <1>2. /\ \A u \in Threads \ {t} : calls[u].pc = PcIdle /\ wire[u] = << >>
        /\ conn \in Conn
    BY <1>1, Alone
  <1>3. Next
    BY DEF vars
  <1>4. ~AtRest
    BY <1>1 DEF AtRest
  <1>5. ASSUME NEW s \in Stmts, Call(s) \/ Reconnect(s) PROVE FALSE
    BY <1>4, <1>5 DEF Call, Reconnect, MayCall, Managed
  <1>6. ASSUME NEW s \in Stmts, EndCall(s) PROVE FALSE
    BY <1>6 DEF EndCall
  <1>7. ASSUME NEW s \in Stmts, Progress(s), ~EndCall(s) PROVE FALSE
    <2>1. calls[s].pc # PcIdle /\ s \in Threads
      BY <1>7, RunsOn DEF Threads
    <2>2. s = t
      BY <1>2, <2>1
    <2> QED BY <1>7, <2>2, Waiting
  <1>8. ASSUME NEW kind \in {"commit", "rollback"}, EndTran(kind) PROVE FALSE
    BY <1>4, <1>8 DEF EndTran, MayCall, Managed
  <1>9. ~EndTranDone
    BY DEF EndTranDone
  <1>10. ASSUME NEW u \in Threads, Reply(u) PROVE UserSvps(be') = UserSvps(be)
    <2>1. u = t
      BY <1>2, <1>10 DEF Reply
    <2> QED BY <1>10, <2>1, OwnAnswered
  <1>11. ASSUME NEW u \in Threads, Lose(u) PROVE FALSE
    <2>1. conn' = OnDead(conn)
      BY <1>11 DEF Lose
    <2> QED BY <1>2, <2>1, DeadFields
  <1> QED BY <1>3, <1>5, <1>6, <1>7, <1>8, <1>9, <1>10, <1>11, Moves

\* No RELEASE, SAVEPOINT or ROLLBACK TO that CC_send_query_append,
\* SetStatementSvp or CC_internal_rollback adds removes a savepoint of the
\* application.
THEOREM UserSavepointsSurviveAlways ==
    ASSUME Managed
    PROVE  Spec => UserSavepointsSurvive
  <1>1. Init => SerialInv
    BY SerialInit
  <1>2. TypeInv /\ SerialInv /\ [Next]_vars => SerialInv'
    BY SerialStep
  <1>3. TypeInv /\ SerialInv /\ [Next]_vars =>
            [\A t \in Threads :
               wire[t] # << >> /\ wire'[t] # wire[t] /\ Head(wire[t]).sp = Internal /\ conn'.up
                  => UserSvps(be') = UserSvps(be)]_vars
    BY SvpsSurvive
  <1> QED BY <1>1, <1>2, <1>3, TypeInit, TypeStep, PTL DEF Spec, UserSavepointsSurvive

-----------------------------------------------------------------------------
(* The refinement of TransactionContract.                                   *)

\* The words of the contract mean what they mean here.
LEMMA SameWords ==
    /\ \A c : Contract!Cmd(c) = Cmd(c)
    /\ \A c, n : Contract!SvpCmd(c, n) = SvpCmd(c, n)
    /\ \A w : Contract!WriteCmd(w) = WriteCmd(w)
    /\ Contract!Writes = Writes
    /\ \A d : Contract!FreshSession(d) = FreshSession(d)
    /\ \A x : Contract!Gone(x) = Gone(x)
  BY DEF Contract!Cmd, Cmd, Contract!SvpCmd, SvpCmd, Contract!WriteCmd, WriteCmd,
         Contract!NoWrite, NoWrite, Contract!Writes, Writes, Contract!FreshSession,
         FreshSession, Contract!Gone, Gone

\* Membership in the set of savepoint commands.
LEMMA SavepointCommands ==
    ASSUME NEW S, NEW T, NEW x \in S, NEW y \in T
    PROVE  Contract!SvpCmd(x, y) \in {Contract!SvpCmd(c, n) : c \in S, n \in T}
  BY SMTT(20)

\* The commands on transactions.
LEMMA ContractControl ==
    /\ \A c \in {"BEGIN", "COMMIT", "ROLLBACK"} : Cmd(c) \in Contract!Control
    /\ \A c \in {"SAVEPOINT", "RELEASE", "ROLLBACK TO"}, n \in SvpNames \ {Internal} :
            SvpCmd(c, n) \in Contract!Control
  <1> DEFINE S == {"SAVEPOINT", "RELEASE", "ROLLBACK TO"}
             T == SvpNames \ {Internal}
             U == {Contract!SvpCmd(c, n) : c \in S, n \in T}
  <1>1. Contract!Control =
          {Contract!Cmd("BEGIN"), Contract!Cmd("COMMIT"), Contract!Cmd("ROLLBACK")} \cup U
    BY DEF Contract!Control
  <1> HIDE DEF S, T
  <1>2. \A c \in S, n \in T : Contract!SvpCmd(c, n) \in U
    BY SavepointCommands
  <1> HIDE DEF U
  <1>3. \A c \in S, n \in T : Contract!SvpCmd(c, n) \in Contract!Control
    BY <1>1, <1>2
  <1>4. /\ Contract!Cmd("BEGIN") \in Contract!Control
        /\ Contract!Cmd("COMMIT") \in Contract!Control
        /\ Contract!Cmd("ROLLBACK") \in Contract!Control
    BY <1>1
  <1> QED BY <1>3, <1>4, SameWords DEF S, T

\* The commands of the contract.
LEMMA ContractCommands ==
    ASSUME NEW k, Shape(k)
    PROVE  /\ k.cmd \in Contract!Data \cup Contract!Control
           /\ IsData(k.kind) => k.cmd \in Contract!Data
           /\ k.kind = "local" => k.cmd = Contract!DoesNothing
  <1>1. Cmd("READ") \in Contract!Data /\ Contract!DoesNothing = Cmd("READ")
    BY SameWords DEF Contract!Data, Contract!DoesNothing
  <1>2. \A w \in Writes : WriteCmd(w) \in Contract!Data
    BY SameWords DEF Contract!Data
  <1>5. k.kind \in {"read", "local"} => k.cmd = Cmd("READ")
    BY DEF Shape
  <1>6. k.kind = "write" => k.cmd \in Contract!Data
    BY <1>2 DEF Shape
  <1>7. k.kind \in {"begin", "commit", "rollback"} => k.cmd \in Contract!Control
    BY ContractControl DEF Shape
  <1>8. k.kind \in {"savepoint", "release", "rollbackto"} => k.cmd \in Contract!Control
    BY ContractControl DEF Shape
  <1>9. k.kind \in ManagedKinds
    BY DEF Shape
  <1> QED BY <1>1, <1>5, <1>6, <1>7, <1>8, <1>9 DEF ManagedKinds, IsData

\* What the application sees of a call.
Asked(t, k) == [busy |-> TRUE, cmd |-> k.cmd, failed |-> k.err \/ (t = Dbc /\ k.fail)]

\* What the contract sees while a call runs, and after a step in one,
LEMMA SeenBusy ==
    ASSUME NEW t \in Threads, calls[t].pc # PcIdle, Shape(calls[t]),
           \A u \in Threads \ {t} : calls[u].pc = PcIdle
    PROVE  SeenSession = Seen(calls[t].before) /\ SeenCall = Asked(t, calls[t])
  <1>1. calls[t].kind # "close"
    BY DEF Shape, ManagedKinds
  <1>2. Running = {t}
    BY <1>1 DEF Running
  <1>3. Runner = t
    BY <1>2 DEF Runner
  <1> QED BY <1>2, <1>3 DEF SeenSession, SeenCall, Asked

\* the same of the next state,
LEMMA SeenBusyNext ==
    ASSUME NEW t \in Threads, calls'[t].pc # PcIdle, Shape(calls'[t]),
           \A u \in Threads \ {t} : calls'[u].pc = PcIdle
    PROVE  SeenSession' = Seen(calls'[t].before) /\ SeenCall' = Asked(t, calls'[t])
  <1>1. calls'[t].kind # "close"
    BY DEF Shape, ManagedKinds
  <1>2. Running' = {t}
    BY <1>1 DEF Running
  <1>3. Runner' = t
    BY <1>2 DEF Runner
  <1> QED BY <1>2, <1>3 DEF SeenSession, SeenCall, Asked

\* and between calls.
LEMMA SeenIdle ==
    /\ (\A t \in Threads : calls[t].pc = PcIdle) =>
           SeenSession = Seen(be) /\ SeenCall = Contract!NoCall
    /\ (\A t \in Threads : calls'[t].pc = PcIdle) =>
           SeenSession' = Seen(be') /\ SeenCall' = Contract!NoCall
  <1>1. Contract!NoCall = [busy |-> FALSE, cmd |-> Cmd("READ"), failed |-> FALSE]
    BY SameWords DEF Contract!NoCall
  <1>2. ASSUME \A t \in Threads : calls[t].pc = PcIdle
        PROVE  SeenSession = Seen(be) /\ SeenCall = Contract!NoCall
    <2>1. Running = {}
      BY <1>2 DEF Running
    <2> QED BY <1>1, <2>1 DEF SeenSession, SeenCall
  <1>3. ASSUME \A t \in Threads : calls'[t].pc = PcIdle
        PROVE  SeenSession' = Seen(be') /\ SeenCall' = Contract!NoCall
    <2>1. Running' = {}
      BY <1>3 DEF Running
    <2> QED BY <1>1, <2>1 DEF SeenSession, SeenCall
  <1> QED BY <1>2, <1>3

\* A call is made.
LEMMA MadeCall ==
    ASSUME TypeInv, SerialInv, Managed, TypeInv', SerialInv', NEW t \in Threads,
           AtRest, conn.up, be' = be, calls'[t].pc # PcIdle, calls'[t].before = be,
           \A u \in Threads \ {t} : calls'[u] = calls[u]
    PROVE  Contract!Make
  <1> DEFINE K == calls'[t]
  <1>1. SeenSession = Seen(be) /\ SeenCall = Contract!NoCall
    BY SeenIdle DEF AtRest
  <1>2. Shape(K) /\ \A u \in Threads \ {t} : calls'[u].pc = PcIdle
    BY DEF SerialInv, Mid, AtRest
  <1>3. SeenSession' = Seen(be) /\ SeenCall' = Asked(t, K)
    BY <1>2, SeenBusyNext
  <1>4. Seen(be).st # "X"
    <2>1. be.st # "X" /\ be \in Session
      BY DEF SerialInv, Ground, TypeInv, TypeOK
    <2> QED BY <2>1, SeenFields
  <1>5. ~SeenCall.busy
    BY <1>1 DEF Contract!NoCall
  <1>6. K.cmd \in Contract!Data \cup Contract!Control
    BY <1>2, ContractCommands
  <1>7. K \in CallRec
    BY DEF TypeInv, TypeOK
  <1>8. \E cmd \in Contract!Data \cup Contract!Control : \E failed \in BOOLEAN :
           SeenCall' = [busy |-> TRUE, cmd |-> cmd, failed |-> failed]
    <2> DEFINE f == K.err \/ (t = Dbc /\ K.fail)
    <2>1. f \in BOOLEAN
      OBVIOUS
    <2>2. SeenCall' = [busy |-> TRUE, cmd |-> K.cmd, failed |-> f]
      BY <1>3 DEF Asked
    <2> QED BY <1>6, <2>1, <2>2
  <1> QED BY <1>1, <1>3, <1>4, <1>5, <1>8 DEF Contract!Make

\* The field "failed" of the contract's call.
LEMMA FieldSet ==
    ASSUME NEW cmd, NEW f, NEW g, NEW h, NEW call,
           call = [busy |-> h, cmd |-> cmd, failed |-> f]
    PROVE  /\ [call EXCEPT !.failed = g] = [busy |-> h, cmd |-> cmd, failed |-> g]
           /\ call.busy = h /\ call.failed = f
  OBVIOUS

\* A call runs on: the application sees nothing of it, or that it is going to fail.
LEMMA CallGoesOn ==
    ASSUME TypeInv, SerialInv, TypeInv', SerialInv', NEW t \in Threads,
           calls[t].pc # PcIdle, calls'[t].pc # PcIdle, Asks(calls'[t], calls[t]),
           \A u \in Threads \ {t} : calls'[u] = calls[u],
           calls[t].err => calls'[t].err,
           t = Dbc => (calls[t].fail => calls'[t].fail)
    PROVE  [Contract!Next]_<<SeenSession, SeenCall>>
  <1> DEFINE k == calls[t]
             K == calls'[t]
             f == k.err \/ (t = Dbc /\ k.fail)
             g == K.err \/ (t = Dbc /\ K.fail)
  <1>1. /\ Shape(k) /\ k \in CallRec
        /\ \A u \in Threads \ {t} : calls[u].pc = PcIdle
    BY Alone
  <1>2. Shape(K) /\ K \in CallRec /\ \A u \in Threads \ {t} : calls'[u].pc = PcIdle
    BY <1>1 DEF SerialInv, Mid, TypeInv, TypeOK
  <1>3. SeenSession = Seen(k.before) /\ SeenCall = [busy |-> TRUE, cmd |-> k.cmd, failed |-> f]
    BY <1>1, SeenBusy DEF Asked
  <1>4. /\ SeenSession' = Seen(K.before)
        /\ SeenCall' = [busy |-> TRUE, cmd |-> K.cmd, failed |-> g]
    BY <1>2, SeenBusyNext DEF Asked
  <1>5. K.before = k.before /\ K.cmd = k.cmd
    BY DEF Asks
  <1>6. f \in BOOLEAN /\ g \in BOOLEAN /\ (f => g)
    OBVIOUS
  <1> HIDE DEF f, g
  <1>7. CASE f = g
    BY <1>3, <1>4, <1>5, <1>7
  <1>8. CASE f # g
    <2>1. f = FALSE /\ g = TRUE
      BY <1>6, <1>8
    <2> DEFINE h == TRUE
    <2>2. /\ SeenCall = [busy |-> h, cmd |-> k.cmd, failed |-> f]
          /\ SeenCall' = [busy |-> h, cmd |-> k.cmd, failed |-> g]
      BY <1>3, <1>4, <1>5, Zenon
    <2> HIDE DEF h
    <2>3. /\ [SeenCall EXCEPT !.failed = g] = [busy |-> h, cmd |-> k.cmd, failed |-> g]
          /\ SeenCall.busy = h /\ SeenCall.failed = f
      BY <2>2, FieldSet
    <2>4. SeenCall' = [SeenCall EXCEPT !.failed = g]
      BY <2>2, <2>3, Zenon
    <2>5. SeenCall' = [SeenCall EXCEPT !.failed = TRUE] /\ SeenCall.busy /\ ~SeenCall.failed
      BY <2>1, <2>3, <2>4, Zenon DEF h
    <2> QED BY <1>3, <1>4, <1>5, <2>5 DEF Contract!Next, Contract!Fail
  <1> QED BY <1>7, <1>8

\* The contract's record of a call that is about to return.
LEMMA AskedFields ==
    ASSUME NEW t, NEW k
    PROVE  /\ Asked(t, k).busy /\ Asked(t, k).cmd = k.cmd
           /\ Asked(t, k).failed <=> (k.err \/ (t = Dbc /\ k.fail))
  <1> DEFINE f == k.err \/ (t = Dbc /\ k.fail)
             h == TRUE
  <1>1. Asked(t, k) = [busy |-> h, cmd |-> k.cmd, failed |-> f]
    BY Zenon DEF Asked
  <1> HIDE DEF f, h
  <1>2. Asked(t, k).busy = h /\ Asked(t, k).cmd = k.cmd /\ Asked(t, k).failed = f
    BY <1>1
  <1> QED BY <1>2, Zenon DEF f, h

\* What the command of a call does to the application's session is what the contract
\* says it does.
LEMMA ContractBegun ==
    ASSUME NEW b, SeenSession = Seen(b)
    PROVE  Contract!Begun = BegunBy(Seen(b))
  BY DEF Contract!Begun, BegunBy

\* A call that succeeds is a step Succeed of the contract,
LEMMA Succeeds ==
    ASSUME NEW k \in CallRec, Shape(k), be \in Session, DoneEffect(k, be),
           SeenSession = Seen(k.before), SeenSession' = Seen(be), SeenCall.busy,
           SeenCall.cmd = k.cmd, ~SeenCall.failed, SeenCall' = Contract!NoCall
    PROVE  Contract!Succeed
  <1>1. Contract!Return
    BY DEF Contract!Return
  <1>2. CASE OkEffect(k.before, k.cmd, be)
    <2>1. PICK o \in Outcomes(BegunBy(Seen(k.before)), k.cmd) :
             o.tag # "ERROR" /\ Seen(be) = o.be
      BY <1>2 DEF OkEffect
    <2>2. o \in Contract!Outcomes(Contract!Begun, SeenCall.cmd)
      BY <2>1, ContractBegun, SameOutcomes
    <2> QED BY <1>1, <2>1, <2>2 DEF Contract!Succeed
  <1>3. CASE k.kind = "local" /\ Same(k.before, be)
    <2>1. SeenCall.cmd = Contract!DoesNothing
      BY <1>3, ContractCommands
    <2>2. k.before \in Session
      BY DEF CallRec
    <2>3. Seen(be) = Seen(k.before)
      BY <1>3, <2>2, SeenFields, SameSession DEF Same, Unchanged
    <2> QED BY <1>1, <2>1, <2>3 DEF Contract!Succeed
  <1> QED BY <1>2, <1>3 DEF DoneEffect

\* a command on the transaction that fails is FailControl,
LEMMA FailsControl ==
    ASSUME NEW k \in CallRec, ErrEffect(k.before, k.cmd, be),
           SeenSession = Seen(k.before), SeenSession' = Seen(be), SeenCall.busy,
           SeenCall.cmd = k.cmd, SeenCall.failed, SeenCall' = Contract!NoCall
    PROVE  Contract!FailControl
  <1>1. PICK o \in Outcomes(BegunBy(Seen(k.before)), k.cmd) :
           o.tag = "ERROR" /\ Seen(be) = o.be
    BY DEF ErrEffect
  <1>2. o \in Contract!Outcomes(Contract!Begun, SeenCall.cmd)
    BY <1>1, ContractBegun, SameOutcomes
  <1> QED BY <1>1, <1>2 DEF Contract!FailControl, Contract!Return

\* a call that lost its connection is Lost,
LEMMA FailsLost ==
    ASSUME NEW k \in CallRec, LostEffect(k.before, k.cmd, be),
           SeenSession = Seen(k.before), SeenSession' = Seen(be), SeenCall.busy,
           SeenCall.cmd = k.cmd, SeenCall.failed, SeenCall' = Contract!NoCall
    PROVE  Contract!Lost
  <1> DEFINE b == k.before
             s == Seen(b)
  <1>1. b \in Session /\ s.work = b.work /\ s.durable = b.durable
    <2>1. b \in Session
      BY DEF CallRec
    <2> QED BY <2>1, SeenFields
  <1>2. PICK d \in {b.durable} \cup
                   {d \in {b.durable \cup {b.work[i] : i \in DOMAIN b.work}} :
                       k.cmd.c = "COMMIT"} : be = Gone(FreshSession(d))
    BY DEF LostEffect
  <1>3. d \in SUBSET Writes
    <2>1. b.durable \in SUBSET Writes /\ {b.work[i] : i \in DOMAIN b.work} \in SUBSET Writes
      BY <1>1 DEF Session
    <2> QED BY <1>2, <2>1
  <1>4. Seen(be) = Contract!Gone(Contract!FreshSession(d))
    <2>1. FreshSession(d).durable = d
      BY <1>3, FreshFields
    <2>2. Seen(Gone(FreshSession(d))) = Gone(FreshSession(d))
      BY <1>3, <2>1, FreshFields
    <2> QED BY <1>2, <2>2, SameWords
  <1>5. d \in {s.durable} \cup
              {d_1 \in {s.durable \cup {s.work[i] : i \in DOMAIN s.work}} : k.cmd.c = "COMMIT"}
    BY <1>1, <1>2
  <1> HIDE DEF s
  <1> QED BY <1>4, <1>5 DEF Contract!Lost, Contract!Return, s

\* and a statement on data that fails is FailData.
LEMMA FailsData ==
    ASSUME NEW k \in CallRec, Shape(k), IsData(k.kind), be \in Session,
           Same(k.before, be) \/ Emptied(k.before, be),
           SeenSession = Seen(k.before), SeenSession' = Seen(be), SeenCall.busy,
           SeenCall.cmd = k.cmd, SeenCall.failed, SeenCall' = Contract!NoCall
    PROVE  Contract!FailData
  <1>1. k.before \in Session
    BY DEF CallRec
  <1>2. k.cmd \in Contract!Data
    BY ContractCommands
  <1>3. CASE Same(k.before, be)
    <2>1. Seen(be) = Seen(k.before)
      BY <1>1, <1>3, SeenFields, SameSession DEF Same, Unchanged
    <2> QED BY <1>2, <2>1 DEF Contract!FailData, Contract!Return
  <1>4. CASE Emptied(k.before, be)
    <2>1. k.before.work = << >> /\ be = FreshSession(k.before.durable)
      BY <1>4 DEF Emptied
    <2>2. k.before.durable \in SUBSET Writes
      BY <1>1 DEF Session
    <2>3. Seen(be) = Contract!FreshSession(k.before.durable)
      BY <2>1, <2>2, FreshFields, SameWords
    <2>4. Seen(k.before).work = << >> /\ Seen(k.before).durable = k.before.durable
      BY <1>1, <2>1, SeenFields
    <2> QED BY <1>2, <2>3, <2>4 DEF Contract!FailData, Contract!Return
  <1> QED BY <1>3, <1>4

\* The end of a call on a statement handle.
LEMMA EndRefines ==
    ASSUME TypeInv, SerialInv, NEW s \in Stmts, EndCall(s)
    PROVE  Contract!Next
  <1> DEFINE k == calls[s]
  <1>1. /\ be' = be /\ calls'[s] = Idle /\ k.pc # PcIdle /\ Shape(k) /\ k \in CallRec
        /\ \A u \in Threads \ {s} : calls'[u] = calls[u] /\ calls[u].pc = PcIdle
        /\ be \in Session /\ (k.err => FailEffect(k, be)) /\ (~k.err => DoneEffect(k, be))
    BY Ended DEF WellFormed
  <1>2. s \in Threads /\ s # Dbc
    BY CoreAssumption DEF Threads
  <1>3. SeenSession = Seen(k.before) /\ SeenCall = Asked(s, k)
    BY <1>1, <1>2, SeenBusy
  <1>4. SeenSession' = Seen(be) /\ SeenCall' = Contract!NoCall
    <2>1. \A t \in Threads : calls'[t].pc = PcIdle
      BY <1>1 DEF Idle
    <2> QED BY <1>1, <2>1, SeenIdle
  <1>5. SeenCall.busy /\ SeenCall.cmd = k.cmd /\ (SeenCall.failed <=> k.err)
    BY <1>2, <1>3, AskedFields
  <1>6. CASE ~k.err
    BY <1>1, <1>3, <1>4, <1>5, <1>6, Succeeds DEF Contract!Next
  <1>7. CASE k.err
    <2>1. CASE IsData(k.kind) /\ (Same(k.before, be) \/ Emptied(k.before, be))
      BY <1>1, <1>3, <1>4, <1>5, <1>7, <2>1, FailsData DEF Contract!Next
    <2>2. CASE ErrEffect(k.before, k.cmd, be)
      BY <1>1, <1>3, <1>4, <1>5, <1>7, <2>2, FailsControl DEF Contract!Next
    <2>3. CASE LostEffect(k.before, k.cmd, be)
      BY <1>1, <1>3, <1>4, <1>5, <1>7, <2>3, FailsLost DEF Contract!Next
    <2> QED BY <1>1, <1>7, <2>1, <2>2, <2>3 DEF FailEffect
  <1> QED BY <1>6, <1>7

\* The end of SQLEndTran.
LEMMA EndTranRefines ==
    ASSUME TypeInv, SerialInv, EndTranDone
    PROVE  Contract!Next
  <1> DEFINE k == calls[Dbc]
  <1>1. k.pc = "endtran" /\ wire[Dbc] = << >> /\ be' = be /\ calls' = [calls EXCEPT ![Dbc] = Idle]
    BY DEF EndTranDone, Answered
  <1>2. Dbc \in Threads /\ k.pc # PcIdle /\ TypeOK
    BY <1>1 DEF PcIdle, Threads, TypeInv
  <1>3. /\ Stage(k, wire[Dbc], conn, be) /\ Shape(k) /\ k \in CallRec /\ be \in Session
        /\ \A t \in Threads \ {Dbc} : calls[t].pc = PcIdle
    BY <1>2, Alone DEF WellFormed
  <1>4. AtEndTran(k, << >>, conn, be)
    BY <1>1, <1>3 DEF Stage
  <1>5. /\ ~k.err
        /\ \/ ~k.fail /\ OkEffect(k.before, k.cmd, be)
           \/ k.fail /\ (LostEffect(k.before, k.cmd, be) \/ ErrEffect(k.before, k.cmd, be))
    <2>1. << >> # <<k.cmd>>
      BY NotEmpty
    <2> QED BY <1>4, <2>1 DEF AtEndTran, Dead
  <1>6. SeenSession = Seen(k.before) /\ SeenCall = Asked(Dbc, k)
    BY <1>2, <1>3, SeenBusy
  <1>7. SeenSession' = Seen(be) /\ SeenCall' = Contract!NoCall
    <2>1. \A t \in Threads : calls'[t].pc = PcIdle
      BY <1>1, <1>2, <1>3 DEF TypeOK, Idle
    <2> QED BY <1>1, <2>1, SeenIdle
  <1>8. SeenCall.busy /\ SeenCall.cmd = k.cmd /\ (SeenCall.failed <=> k.fail)
    BY <1>5, <1>6, AskedFields
  <1>9. CASE ~k.fail
    <2>1. DoneEffect(k, be)
      BY <1>5, <1>9 DEF DoneEffect
    <2> QED BY <1>3, <1>6, <1>7, <1>8, <1>9, <2>1, Succeeds DEF Contract!Next
  <1>10. CASE k.fail
    BY <1>3, <1>5, <1>6, <1>7, <1>8, <1>10, FailsControl, FailsLost DEF Contract!Next
  <1> QED BY <1>9, <1>10

\* A reconnection, at rest.
LEMMA ReconnectRefines ==
    ASSUME TypeInv, SerialInv, Managed, NEW s \in Stmts, Reconnect(s)
    PROVE  Contract!Next
  <1>1. AtRest /\ calls' = calls /\ be' = FreshSession(be.durable) /\ ~conn.up
    BY DEF Reconnect, MayCall, Managed
  <1>2. be \in Session /\ be.durable \in SUBSET Writes /\ be.st = "X"
    BY <1>1 DEF TypeInv, TypeOK, SerialInv, Ground, Session
  <1>3. /\ SeenSession = Seen(be) /\ SeenCall = Contract!NoCall
        /\ SeenSession' = Seen(be') /\ SeenCall' = Contract!NoCall
    BY <1>1, SeenIdle DEF AtRest
  <1>4. Seen(be).st = "X" /\ Seen(be).durable = be.durable
    BY <1>2, SeenFields
  <1>5. Seen(be') = Contract!FreshSession(be.durable)
    BY <1>1, <1>2, FreshFields, SameWords
  <1>6. ~Contract!NoCall.busy
    BY DEF Contract!NoCall
  <1> QED BY <1>3, <1>4, <1>5, <1>6 DEF Contract!Next, Contract!Reconnect

\* An answer, or none.
LEMMA AnswerRefines ==
    ASSUME TypeInv, SerialInv, TypeInv', SerialInv', NEW t \in Threads, Reply(t) \/ Lose(t)
    PROVE  [Contract!Next]_<<SeenSession, SeenCall>>
  <1> DEFINE k == calls[t]
             K == calls'[t]
  <1>1. wire[t] # << >> /\ TypeOK
    BY DEF Reply, Lose, TypeInv
  <1>2. k.pc # PcIdle
    BY <1>1 DEF SerialInv, Mid
  <1>3. /\ Stage(k, wire[t], conn, be) /\ k \in CallRec /\ ((t = Dbc) <=> (k.pc = "endtran"))
        /\ \A u \in Threads \ {t} : calls[u].pc = PcIdle /\ wire[u] = << >>
    BY <1>2, Alone
  <1>4. /\ K.pc = k.pc /\ Asks(K, k) /\ K.err = k.err /\ (k.fail => K.fail)
        /\ \A u \in Threads \ {t} : calls'[u] = calls[u]
    <2>1. CASE Lose(t)
      <3>1. calls' = [x \in Threads |->
                        IF wire[x] = << >> THEN calls[x] ELSE [calls[x] EXCEPT !.fail = TRUE]]
        BY <2>1 DEF Lose
      <3>2. K = [k EXCEPT !.fail = TRUE] /\ \A u \in Threads \ {t} : calls'[u] = calls[u]
        BY <1>1, <1>3, <3>1
      <3> QED BY <1>3, <3>2 DEF CallRec, Asks
    <2>2. CASE Reply(t)
      BY <2>2, ReplyFields
    <2> QED BY <2>1, <2>2
  <1> HIDE DEF K, k
  <1> QED BY <1>2, <1>4, CallGoesOn DEF K, k

\* The initial states are initial states of the contract,
LEMMA InitRefines == Init => Contract!Init
  <1> SUFFICES ASSUME Init PROVE Contract!Init
    OBVIOUS
  <1>1. \A t \in Threads : calls[t].pc = PcIdle
    BY DEF Init, Idle
  <1>2. SeenSession = Seen(be) /\ SeenCall = Contract!NoCall
    BY <1>1, SeenIdle
  <1>3. Seen(be) = Contract!FreshSession({})
    <2>1. be = FreshSession({}) /\ {} \in SUBSET Writes
      BY DEF Init
    <2> QED BY <2>1, FreshFields, SameWords
  <1> QED BY <1>2, <1>3 DEF Contract!Init

\* and every step is a step of it, or changes nothing it sees.
LEMMA StepRefines ==
    ASSUME TypeInv, SerialInv, Managed, TypeInv', SerialInv', [Next]_vars
    PROVE  [Contract!Next]_<<SeenSession, SeenCall>>
  <1>1. CASE UNCHANGED vars
    BY <1>1 DEF vars, SeenSession, SeenCall, Running, Runner
  <1>2. ASSUME NEW s \in Stmts, Call(s) PROVE Contract!Make
    <2>1. s \in Threads /\ AtRest /\ conn.up /\ be' = be /\ TypeOK
      BY <1>2 DEF Threads, Call, MayCall, Managed, TypeInv
    <2>2. PICK o \in Ops : \E cmd \in BodyOf(o.kind), e \in BOOLEAN :
            calls' = [calls EXCEPT ![s] =
                 [Idle EXCEPT !.pc = IF o.kind = "local" THEN "discard" ELSE "exec",
                              !.kind = o.kind, !.prot = o.prot, !.cmd = cmd,
                              !.err = e, !.before = be]]
      BY <1>2 DEF Call
    <2>3. /\ calls'[s].pc # PcIdle /\ calls'[s].before = be
          /\ \A u \in Threads \ {s} : calls'[u] = calls[u]
      BY <2>1, <2>2 DEF TypeOK, Idle, PcIdle
    <2> QED BY <2>1, <2>3, MadeCall
  <1>3. ASSUME NEW kind \in {"commit", "rollback"}, EndTran(kind) PROVE Contract!Make
    <2>1. Dbc \in Threads /\ AtRest /\ conn.up /\ be' = be /\ TypeOK
      BY <1>3 DEF Threads, EndTran, MayCall, Managed, TypeInv
    <2>2. calls' = [calls EXCEPT ![Dbc] = [Idle EXCEPT !.pc = "endtran", !.kind = kind,
                                             !.cmd = Head(wire'[Dbc]), !.before = be]]
      BY <1>3 DEF EndTran
    <2>3. /\ calls'[Dbc].pc # PcIdle /\ calls'[Dbc].before = be
          /\ \A u \in Threads \ {Dbc} : calls'[u] = calls[u]
      BY <2>1, <2>2 DEF TypeOK, Idle, PcIdle
    <2> QED BY <2>1, <2>3, MadeCall
  <1>4. ASSUME NEW s \in Stmts, Progress(s), ~EndCall(s)
        PROVE  [Contract!Next]_<<SeenSession, SeenCall>>
    <2>1. s \in Threads /\ s # Dbc
      BY CoreAssumption DEF Threads
    <2>2. /\ calls[s].pc # PcIdle /\ calls'[s].pc # PcIdle
          /\ Asks(calls'[s], calls[s]) /\ (calls[s].err => calls'[s].err)
          /\ \A u \in Threads \ {s} : calls'[u] = calls[u]
      BY <1>4, RunsOn
    <2> QED BY <2>1, <2>2, CallGoesOn
  <1>5. Next \/ UNCHANGED vars
    OBVIOUS
  <1>6. ASSUME NEW t \in Threads, Reply(t) \/ Lose(t)
        PROVE  [Contract!Next]_<<SeenSession, SeenCall>>
    BY <1>6, AnswerRefines
  <1>7. Contract!Make => Contract!Next
    BY DEF Contract!Next
  <1> QED BY <1>1, <1>2, <1>3, <1>4, <1>5, <1>6, <1>7, Moves, ReconnectRefines, EndRefines,
             EndTranRefines

\* The driver implements TransactionContract: what an application sees of its
\* session between calls is what its own commands, executed one by one, make of
\* it; a statement that returns SQL_ERROR had no effect (DiscardStatementSvp),
\* and the savepoints SetStatementSvp makes never show.
THEOREM TransactionContractKept ==
    ASSUME Managed
    PROVE  Spec => ImplementsContract
  <1>1. Init => SerialInv
    BY SerialInit
  <1>2. TypeInv /\ SerialInv /\ [Next]_vars => SerialInv'
    BY SerialStep
  <1>3. Init => Contract!Init
    BY InitRefines
  <1>4. TypeInv /\ SerialInv /\ TypeInv' /\ SerialInv' /\ [Next]_vars
           => [Contract!Next]_<<SeenSession, SeenCall>>
    BY StepRefines
  <1> QED BY <1>1, <1>2, <1>3, <1>4, TypeInit, TypeStep, PTL
      DEF Spec, ImplementsContract, Contract!Spec

-----------------------------------------------------------------------------
(* What is reported of a write.                                             *)

\* COMMIT makes durable what was in the transaction.
LEMMA CommitWithin ==
    ASSUME NEW x \in Session, NEW n \in Nat, Within(x, n), NEW o \in OnCommit(x)
    PROVE  Within(o.be, n)
  <1>1. /\ x.durable \subseteq 1 .. n
        /\ (x.durable \cup {x.work[i] : i \in DOMAIN x.work}) \subseteq 1 .. n
    BY DEF Within
  <1>2. ASSUME NEW d, d \subseteq 1 .. n PROVE Within(FreshSession(d), n)
    <2>1. FreshSession(d).durable = d /\ FreshSession(d).work = << >>
      BY DEF FreshSession
    <2> QED BY <1>2, <2>1 DEF Within
  <1>3. \/ o.be = x \/ o.be = FreshSession(x.durable)
        \/ o.be = FreshSession(x.durable \cup {x.work[i] : i \in DOMAIN x.work})
    BY AnswerFields DEF OnCommit
  <1> QED BY <1>1, <1>2, <1>3

\* ROLLBACK TO keeps a part of what the transaction holds.
LEMMA RollbackToWithin ==
    ASSUME NEW x, WellFormed(x), NEW n \in Nat, Within(x, n), NEW m, NEW o \in OnRollbackTo(x, m)
    PROVE  Within(o.be, n)
  <1>1. PICK i \in Places(x, m) :
          o = Answer([x EXCEPT !.st = "T", !.svps = SubSeq(@, 1, i),
                               !.work = SubSeq(@, 1, x.svps[i].mark)], "ROLLBACK")
    BY DEF OnRollbackTo
  <1>2. /\ i \in DOMAIN x.svps /\ x.svps \in Seq(Frame) /\ x.work \in Seq(Writes) /\ x \in Session
    BY DEF Places, WellFormed, Session
  <1>3. x.svps[i].mark \in 0 .. Len(x.work)
    <2>1. x.svps[i] \in Frame /\ Len(x.work) \in Nat
      BY <1>2
    <2>2. x.svps[i].mark \in Nat
      BY <2>1 DEF Frame
    <2>3. x.svps[i].mark <= Len(x.work)
      BY <1>2 DEF WellFormed, Ordered
    <2> QED BY <2>1, <2>2, <2>3
  <1>4. o.be.work = SubSeq(x.work, 1, x.svps[i].mark) /\ o.be.durable = x.durable
    <2>1. o.be = [x EXCEPT !.st = "T", !.svps = SubSeq(@, 1, i),
                           !.work = SubSeq(@, 1, x.svps[i].mark)]
      BY <1>1, AnswerFields
    <2> QED BY <1>2, <2>1 DEF Session
  <1>5. ASSUME NEW k \in 0 .. Len(x.work), NEW y, y = SubSeq(x.work, 1, k)
        PROVE  \A j \in DOMAIN y : j \in DOMAIN x.work /\ y[j] = x.work[j]
    BY <1>2, <1>5
  <1>6. \A j \in DOMAIN o.be.work : j \in DOMAIN x.work /\ o.be.work[j] = x.work[j]
    BY <1>3, <1>4, <1>5
  <1> QED BY <1>4, <1>6 DEF Within

\* A write adds one.
LEMMA WriteWithin ==
    ASSUME NEW x \in Session, NEW n \in Nat, Within(x, n), NEW w \in 1 .. n,
           NEW o \in OnWrite(x, w)
    PROVE  Within(o.be, n)
  <1>1. CASE o = Failed(x)
    <2>1. o.be.work = x.work /\ o.be.durable = x.durable
      BY <1>1, AnswerFields DEF Failed, Session
    <2> QED BY <2>1 DEF Within
  <1>2. CASE x.st = "I" /\ o = Answer([x EXCEPT !.durable = @ \cup {w}], "WRITE")
    <2>1. o.be.work = x.work /\ o.be.durable = x.durable \cup {w}
      BY <1>2, AnswerFields DEF Session
    <2> QED BY <2>1 DEF Within
  <1>3. CASE x.st # "I" /\ o = Answer([x EXCEPT !.work = Append(@, w)], "WRITE")
    <2>1. o.be.work = Append(x.work, w) /\ o.be.durable = x.durable /\ x.work \in Seq(Writes)
      BY <1>3, AnswerFields DEF Session
    <2>2. \A i \in DOMAIN o.be.work : \/ o.be.work[i] = w
                                      \/ i \in DOMAIN x.work /\ o.be.work[i] = x.work[i]
      BY <2>1
    <2> QED BY <2>1, <2>2 DEF Within
  <1> QED BY <1>1, <1>2, <1>3 DEF OnWrite

\* No command adds anything else.
LEMMA OutcomeWithin ==
    ASSUME NEW x, WellFormed(x), NEW n \in Nat, Within(x, n), NEW cmd,
           cmd.c = "WRITE" => cmd.w \in 1 .. n, NEW o \in Outcomes(x, cmd)
    PROVE  Within(o.be, n)
  <1>1. x \in Session
    BY DEF WellFormed
  <1>2. ASSUME o.be.work = x.work, o.be.durable = x.durable PROVE Within(o.be, n)
    BY <1>2 DEF Within
  <1>3. ASSUME o = Failed(x) PROVE Within(o.be, n)
    BY <1>1, <1>2, <1>3, AnswerFields DEF Failed, Session
  <1>4. ASSUME o \in OnBegin(x) \/ o \in OnRead(x) \/ o \in OnClose(x) \/ o \in OnVacuum(x)
        PROVE  Within(o.be, n)
    <2>1. o = Failed(x) \/ o.be = x \/ o.be = [x EXCEPT !.st = "T"]
      BY <1>4, AnswerFields DEF OnBegin, OnRead, OnClose, OnVacuum
    <2> QED BY <1>1, <1>2, <1>3, <2>1 DEF Session
  <1>5. ASSUME o \in OnSavepoint(x, cmd.sp) \/ o \in OnRelease(x, cmd.sp) PROVE Within(o.be, n)
    <2>1. CASE o \in OnSavepoint(x, cmd.sp)
      <3>1. o.be = [x EXCEPT !.svps = Append(@, [name |-> cmd.sp, mark |-> Len(x.work)])]
        BY <2>1, AnswerFields DEF OnSavepoint
      <3> QED BY <1>1, <1>2, <3>1 DEF Session
    <2>2. CASE o \in OnRelease(x, cmd.sp)
      <3>1. PICK i \in Places(x, cmd.sp) :
              o = Answer([x EXCEPT !.svps = SubSeq(@, 1, i - 1)], "RELEASE")
        BY <2>2 DEF OnRelease
      <3>2. o.be = [x EXCEPT !.svps = SubSeq(@, 1, i - 1)]
        BY <3>1, AnswerFields
      <3> QED BY <1>1, <1>2, <3>2 DEF Session
    <2> QED BY <1>5, <2>1, <2>2
  <1>6. ASSUME o \in OnRollback(x) PROVE Within(o.be, n)
    <2>1. o.be.work = << >> /\ o.be.durable = x.durable
      BY <1>6, AnswerFields DEF OnRollback, FreshSession
    <2> QED BY <2>1 DEF Within
  <1>7. \/ o = Failed(x) \/ o \in OnCommit(x) \/ o \in OnRollback(x)
        \/ o \in OnRollbackTo(x, cmd.sp) \/ o \in OnBegin(x) \/ o \in OnSavepoint(x, cmd.sp)
        \/ o \in OnRelease(x, cmd.sp) \/ (cmd.c = "WRITE" /\ o \in OnWrite(x, cmd.w))
        \/ o \in OnRead(x) \/ o \in OnClose(x) \/ o \in OnVacuum(x)
    BY DEF Outcomes, OrFailed
  <1> QED BY <1>1, <1>3, <1>4, <1>5, <1>6, <1>7, CommitWithin, RollbackToWithin, WriteWithin

\* A command that writes is the one of the call.
LEMMA OnlyWrite ==
    ASSUME TypeInv, SerialInv, NEW t \in Threads, wire[t] # << >>, Head(wire[t]).c = "WRITE"
    PROVE  Head(wire[t]) = calls[t].cmd
  <1> DEFINE k == calls[t]
             h == Head(wire[t])
  <1>1. k.pc # PcIdle
    BY DEF SerialInv, Mid
  <1>2. /\ Stage(k, wire[t], conn, be) /\ Shape(k)
    BY <1>1, Alone
  <1>3. h \notin {Cmd("BEGIN"), Cmd("ROLLBACK"), Release, Savepoint, Head(UndoCmds)}
    BY AddedNames
  <1>4. CASE k.pc = "begin"
    <2>1. AtBegin(k, wire[t], conn, be)
      BY <1>2, <1>4, StageAt
    <2>2. wire[t] = <<Cmd("BEGIN")>>
      BY <2>1 DEF AtBegin, AtRequest
    <2> QED BY <1>3, <2>2, HeadTail
  <1>5. CASE k.pc = "svp"
    <2>1. AtSvp(k, wire[t], conn, be)
      BY <1>2, <1>5, StageAt
    <2>2. wire[t] = <<Release, Savepoint>> \/ wire[t] = <<Savepoint>>
      BY <2>1 DEF AtSvp, SvpWire
    <2> QED BY <1>3, <2>2, HeadTail
  <1>6. CASE k.pc = "main"
    <2>1. AtMain(k, wire[t], conn, be)
      BY <1>2, <1>6, StageAt
    <2>2. wire[t] = <<k.cmd>> \/ AfterBegin(k, wire[t], conn, be) \/ AfterSvp(k, wire[t], conn, be)
      BY <2>1 DEF AtMain
    <2>3. \/ wire[t] = <<k.cmd>> \/ wire[t] = <<Cmd("BEGIN"), k.cmd>>
          \/ wire[t] = <<Release, Savepoint, k.cmd>> \/ wire[t] = <<Savepoint, k.cmd>>
      BY <2>2 DEF AfterBegin, AfterSvp
    <2>4. h \in {k.cmd, Cmd("BEGIN"), Release, Savepoint}
      BY <2>3, HeadTail
    <2> QED BY <1>3, <2>4
  <1>7. CASE k.pc = "undo"
    <2>1. AtUndo(k, wire[t], conn, be)
      BY <1>2, <1>7, StageAt
    <2> QED BY <1>3, <2>1 DEF AtUndo
  <1>8. CASE k.pc = "abort"
    <2>1. AtAbort(k, wire[t], conn, be)
      BY <1>2, <1>8, StageAt
    <2>2. wire[t] = <<Cmd("ROLLBACK")>>
      BY <2>1 DEF AtAbort
    <2> QED BY <1>3, <2>2, HeadTail
  <1>9. CASE k.pc = "endtran"
    <2>1. AtEndTran(k, wire[t], conn, be)
      BY <1>2, <1>9 DEF Stage
    <2>2. wire[t] = <<k.cmd>>
      BY <2>1 DEF AtEndTran
    <2> QED BY <2>2, HeadTail
  <1>10. k.pc \in {"begin", "svp", "main", "undo", "abort", "endtran"}
    BY <1>2, StageAt
       DEF MidPcs, AtExec, AtRequest, AtReady, AtDiscard, AtAborting, AtSync, AtEnd
  <1> QED BY <1>4, <1>5, <1>6, <1>7, <1>8, <1>9, <1>10

\* A write at the server belongs to the call that asked for it.
LEMMA NextWrite ==
    ASSUME TypeInv, SerialInv, NEW t \in Threads, wire[t] # << >>, Head(wire[t]).c = "WRITE"
    PROVE  Head(wire[t]) = calls[t].cmd /\ calls[t].kind = "write" /\ calls[t].pc # PcIdle
  <1>1. calls[t].pc # PcIdle
    BY DEF SerialInv, Mid
  <1>2. Shape(calls[t])
    BY <1>1, Alone
  <1>3. calls[t].cmd.c = "WRITE" /\ Head(wire[t]) = calls[t].cmd
    BY OnlyWrite
  <1>4. (\A c : Cmd(c).c = c) /\ (\A c, n : SvpCmd(c, n).c = c)
    BY DEF Cmd, SvpCmd
  <1>5. calls[t].kind = "write"
    <2> DEFINE k == calls[t]
               n == k.cmd.sp
    <2>1. /\ k.kind \in ManagedKinds
          /\ k.kind \in {"read", "local"} => k.cmd = Cmd("READ")
          /\ k.kind = "begin" => k.cmd = Cmd("BEGIN")
          /\ k.kind = "commit" => k.cmd = Cmd("COMMIT")
          /\ k.kind = "rollback" => k.cmd = Cmd("ROLLBACK")
          /\ k.kind = "savepoint" => k.cmd = SvpCmd("SAVEPOINT", n)
          /\ k.kind = "release" => k.cmd = SvpCmd("RELEASE", n)
          /\ k.kind = "rollbackto" => k.cmd = SvpCmd("ROLLBACK TO", n)
      BY <1>2 DEF Shape
    <2> HIDE DEF n
    <2>2. /\ Cmd("READ").c = "READ" /\ Cmd("BEGIN").c = "BEGIN" /\ Cmd("COMMIT").c = "COMMIT"
          /\ Cmd("ROLLBACK").c = "ROLLBACK" /\ SvpCmd("SAVEPOINT", n).c = "SAVEPOINT"
          /\ SvpCmd("RELEASE", n).c = "RELEASE" /\ SvpCmd("ROLLBACK TO", n).c = "ROLLBACK TO"
      BY DEF Cmd, SvpCmd
    <2> HIDE DEF k
    <2>3. k.cmd.c = "WRITE"
      BY <1>3 DEF k
    <2>4. k.kind = "write"
      BY <2>1, <2>2, <2>3 DEF ManagedKinds
    <2> QED BY <2>4 DEF k
  <1> QED BY <1>1, <1>3, <1>5

\* A step that asks for no write.
LEMMA NumberKept ==
    ASSUME NumberInv, writes' = writes, Within(be', writes),
           \A t \in Threads : calls'[t].pc # PcIdle /\ calls'[t].kind = "write" =>
              calls[t].pc # PcIdle /\ Asks(calls'[t], calls[t])
    PROVE  NumberInv'
  BY DEF NumberInv, Asks

\* No write has been asked for initially.
LEMMA NumberInit == Init => NumberInv
  <1> SUFFICES ASSUME Init PROVE NumberInv
    OBVIOUS
  <1>1. be.durable = {} /\ be.work = << >>
    BY DEF Init, FreshSession
  <1>2. \A t \in Threads : calls[t].pc = PcIdle
    BY DEF Init, Idle
  <1> QED BY <1>1, <1>2 DEF NumberInv, Within

\* A new call asks for a new write.
LEMMA CallNumbered ==
    ASSUME TypeInv, SerialInv, NumberInv, Managed, NEW s \in Stmts, Call(s)
    PROVE  NumberInv'
  <1>1. s \in Threads /\ AtRest /\ be' = be /\ TypeOK /\ writes \in Nat
    BY DEF Threads, Call, MayCall, Managed, TypeInv, TypeOK
  <1>2. PICK o \in Ops : \E cmd \in BodyOf(o.kind), e \in BOOLEAN :
            /\ calls' = [calls EXCEPT ![s] =
                 [Idle EXCEPT !.pc = IF o.kind = "local" THEN "discard" ELSE "exec",
                              !.kind = o.kind, !.prot = o.prot, !.cmd = cmd,
                              !.err = e, !.before = be]]
            /\ writes' = IF cmd.w = NoWrite THEN writes ELSE cmd.w
    BY DEF Call
  <1>3. PICK cmd \in BodyOf(o.kind) : \E e \in BOOLEAN :
            /\ calls' = [calls EXCEPT ![s] =
                 [Idle EXCEPT !.pc = IF o.kind = "local" THEN "discard" ELSE "exec",
                              !.kind = o.kind, !.prot = o.prot, !.cmd = cmd,
                              !.err = e, !.before = be]]
            /\ writes' = IF cmd.w = NoWrite THEN writes ELSE cmd.w
    BY <1>2
  <1>4. /\ calls'[s].kind = o.kind /\ calls'[s].cmd = cmd /\ calls'[s].before = be
        /\ \A u \in Threads \ {s} : calls'[u] = calls[u]
        /\ writes' = IF cmd.w = NoWrite THEN writes ELSE cmd.w
    BY <1>1, <1>3 DEF TypeOK, Idle
  <1>5. o.kind \in ManagedKinds
    BY DEF Managed
  <1>6. \A u \in Threads \ {s} : calls'[u].pc = PcIdle
    BY <1>1, <1>4 DEF AtRest
  <1>7. CASE o.kind = "write"
    <2>1. cmd.w = writes + 1
      BY <1>7 DEF BodyOf, WriteCmd
    <2>2. writes' = writes + 1
      BY <1>1, <1>4, <2>1 DEF NoWrite
    <2>3. Within(be, writes + 1) /\ Lacks(be, writes + 1)
      BY <1>1 DEF NumberInv, Within, Lacks
    <2> QED BY <1>1, <1>4, <1>6, <2>1, <2>2, <2>3 DEF NumberInv
  <1>8. CASE o.kind # "write"
    <2>1. cmd.w = NoWrite
      <3>1. (\A c : Cmd(c).w = NoWrite) /\ (\A c, n : SvpCmd(c, n).w = NoWrite)
        BY DEF Cmd, SvpCmd
      <3>2. (\E c : cmd = Cmd(c)) \/ (\E c, n : cmd = SvpCmd(c, n))
        BY <1>5, <1>8 DEF BodyOf, ManagedKinds
      <3> QED BY <3>1, <3>2
    <2>2. writes' = writes
      BY <1>4, <2>1
    <2>3. Within(be', writes)
      BY <1>1 DEF NumberInv
    <2> QED BY <1>4, <1>6, <1>8, <2>2, <2>3, NumberKept
  <1> QED BY <1>7, <1>8

\* Every step keeps the numbers.
LEMMA NumberStep ==
    ASSUME TypeInv, SerialInv, NumberInv, Managed, [Next]_vars
    PROVE  NumberInv'
  <1>1. Within(be, writes) /\ writes \in Nat /\ TypeOK /\ WellFormed(be)
    BY DEF NumberInv, TypeInv, TypeOK, WellFormed
  <1>2. CASE UNCHANGED vars
    BY <1>2 DEF vars, NumberInv
  <1>3. ASSUME NEW s \in Stmts, Progress(s), ~EndCall(s) PROVE NumberInv'
    <2>1. /\ be' = be /\ calls[s].pc # PcIdle /\ Asks(calls'[s], calls[s])
          /\ \A u \in Threads \ {s} : calls'[u] = calls[u]
      BY <1>3, RunsOn
    <2>2. writes' = writes
      BY <1>3 DEF Progress, Down, PreCommit, PreCommitDone, BeginFirst, BeginDone,
         DirectSavepoint, SavepointMade, SendMain, MainDone, PostCommit, PostCommitDone, Post,
         Discard, Undo, UndoDone, DecideAbort, Abort, AbortDone, Sync, EndCall, CloseDone
    <2>3. \A t \in Threads : calls'[t].pc # PcIdle /\ calls'[t].kind = "write" =>
              calls[t].pc # PcIdle /\ Asks(calls'[t], calls[t])
      BY <2>1 DEF Asks
    <2> QED BY <1>1, <2>1, <2>2, <2>3, NumberKept
  <1>4. ASSUME NEW s \in Stmts, EndCall(s) PROVE NumberInv'
    <2>1. be' = be /\ writes' = writes /\ s \in Threads
      BY <1>4 DEF EndCall, Threads
    <2>2. calls'[s] = Idle /\ \A u \in Threads \ {s} : calls'[u] = calls[u]
      BY <1>4, Ended
    <2>3. \A t \in Threads : calls'[t].pc # PcIdle /\ calls'[t].kind = "write" =>
              calls[t].pc # PcIdle /\ Asks(calls'[t], calls[t])
      BY <2>2 DEF Asks, Idle
    <2> QED BY <1>1, <2>1, <2>3, NumberKept
  <1>5. ASSUME NEW s \in Stmts, Reconnect(s) PROVE NumberInv'
    <2>1. be' = FreshSession(be.durable) /\ calls' = calls /\ writes' = writes
      BY <1>5 DEF Reconnect
    <2>2. Within(be', writes)
      BY <1>1, <2>1 DEF Within, FreshSession
    <2> QED BY <2>1, <2>2, NumberKept DEF Asks
  <1>6. ASSUME NEW kind \in {"commit", "rollback"}, EndTran(kind) PROVE NumberInv'
    <2>1. /\ calls' = [calls EXCEPT ![Dbc] = [Idle EXCEPT !.pc = "endtran", !.kind = kind,
                                             !.cmd = Head(wire'[Dbc]), !.before = be]]
          /\ be' = be /\ writes' = writes
      BY <1>6 DEF EndTran
    <2>2. /\ calls'[Dbc].kind = kind /\ kind # "write"
          /\ \A u \in Threads \ {Dbc} : calls'[u] = calls[u]
      BY <1>1, <2>1 DEF TypeOK, Threads, Idle
    <2>3. \A t \in Threads : calls'[t].pc # PcIdle /\ calls'[t].kind = "write" =>
              calls[t].pc # PcIdle /\ Asks(calls'[t], calls[t])
      BY <2>2 DEF Asks
    <2> QED BY <1>1, <2>1, <2>3, NumberKept
  <1>7. CASE EndTranDone
    <2>1. calls' = [calls EXCEPT ![Dbc] = Idle] /\ be' = be /\ writes' = writes
      BY <1>7 DEF EndTranDone
    <2>2. calls'[Dbc] = Idle /\ \A u \in Threads \ {Dbc} : calls'[u] = calls[u]
      BY <1>1, <2>1 DEF TypeOK, Threads
    <2>3. \A t \in Threads : calls'[t].pc # PcIdle /\ calls'[t].kind = "write" =>
              calls[t].pc # PcIdle /\ Asks(calls'[t], calls[t])
      BY <2>2 DEF Asks, Idle
    <2> QED BY <1>1, <2>1, <2>3, NumberKept
  <1>8. ASSUME NEW t \in Threads, wire[t] # << >>,
               NEW last \in {be} \cup {o.be : o \in Outcomes(be, Head(wire[t]))}
        PROVE  Within(last, writes)
    <2>1. Head(wire[t]).c = "WRITE" => Head(wire[t]).w \in 1 .. writes
      BY <1>8, NextWrite DEF NumberInv
    <2> QED BY <1>1, <1>8, <2>1, OutcomeWithin
  <1>9. ASSUME NEW t \in Threads, Reply(t) PROVE NumberInv'
    <2>1. /\ calls[t].pc # PcIdle /\ Asks(calls'[t], calls[t]) /\ wire[t] # << >>
          /\ \A u \in Threads \ {t} : calls'[u] = calls[u]
          /\ \E o \in Outcomes(be, Head(wire[t])) : be' = o.be
      BY <1>9, ReplyFields
    <2>2. writes' = writes
      BY <1>9 DEF Reply
    <2>3. Within(be', writes)
      BY <1>8, <2>1
    <2>4. \A u \in Threads : calls'[u].pc # PcIdle /\ calls'[u].kind = "write" =>
              calls[u].pc # PcIdle /\ Asks(calls'[u], calls[u])
      BY <2>1 DEF Asks
    <2> QED BY <2>2, <2>3, <2>4, NumberKept
  <1>10. ASSUME NEW t \in Threads, Lose(t) PROVE NumberInv'
    <2>1. /\ calls' = [x \in Threads |->
                        IF wire[x] = << >> THEN calls[x] ELSE [calls[x] EXCEPT !.fail = TRUE]]
          /\ writes' = writes /\ wire[t] # << >>
      BY <1>10 DEF Lose
    <2>2. PICK last \in {be} \cup {o.be : o \in Outcomes(be, Head(wire[t]))} : be' = Gone(last)
      BY <1>10 DEF Lose
    <2>3. Within(last, writes)
      BY <1>8, <2>1
    <2>4. be'.durable = last.durable /\ be'.work = << >>
      BY <2>2 DEF Gone, FreshSession
    <2>5. Within(be', writes)
      BY <2>3, <2>4 DEF Within
    <2>6. \A u \in Threads : calls'[u].pc # PcIdle /\ calls'[u].kind = "write" =>
              calls[u].pc # PcIdle /\ Asks(calls'[u], calls[u])
      <3>1. ASSUME NEW u \in Threads PROVE calls'[u].pc = calls[u].pc /\ Asks(calls'[u], calls[u])
        BY <1>1, <2>1 DEF TypeOK, CallRec, Asks
      <3> QED BY <3>1
    <2> QED BY <2>1, <2>5, <2>6, NumberKept
  <1> QED BY <1>2, <1>3, <1>4, <1>5, <1>6, <1>7, <1>9, <1>10, CallNumbered, Moves

\* Under managed use every state satisfies ManagedInv: it says for each point
\* of a call (SC_execute, SetStatementSvp, DiscardStatementSvp, CC_abort,
\* SQLEndTran) how the flags of the connection, the session and the session the
\* call began with stand to each other.
THEOREM ManagedInvAlways ==
    ASSUME Managed
    PROVE  Spec => []ManagedInv
  <1>1. Init => SerialInv
    BY SerialInit
  <1>2. TypeInv /\ SerialInv /\ [Next]_vars => SerialInv'
    BY SerialStep
  <1>3. TypeInv /\ SerialInv /\ NumberInv /\ [Next]_vars => NumberInv'
    BY NumberStep
  <1>4. SerialInv /\ NumberInv => ManagedInv
    BY DEF ManagedInv
  <1> QED BY <1>1, <1>2, <1>3, <1>4, TypeInit, TypeStep, NumberInit, PTL DEF Spec

\* A write that is reported, and the session afterwards.
LEMMA Reported ==
    ASSUME TypeInv, SerialInv, NumberInv, Managed, [Next]_vars, NEW s \in Stmts, Returns(s),
           calls[s].kind = "write", conn'.up
    PROVE  LET w == calls[s].cmd.w
               kept == w \in be'.durable \/ w \in Range(be'.work)
           IN  kept <=> ~calls[s].err
  <1> DEFINE k == calls[s]
             w == k.cmd.w
  <1>1. EndCall(s) /\ s \in Threads /\ k.pc # PcIdle
    BY ReturnsBy DEF Threads, Returns
  <1>2. /\ be' = be /\ conn'.up = conn.up /\ Shape(k) /\ k \in CallRec /\ be \in Session
        /\ conn.up <=> be.st # "X"
        /\ ~k.err => DoneEffect(k, be)
    BY <1>1, Ended DEF WellFormed
  <1>3. Lacks(k.before, w)
    BY <1>1 DEF NumberInv
  <1>4. Range(be.work) = {be.work[i] : i \in DOMAIN be.work}
    BY DEF Range
  <1>5. CASE k.err
    <2>1. Same(k.before, be) \/ Emptied(k.before, be)
      BY <1>1, <1>2, <1>5, FailsClean DEF IsData
    <2>2. be.durable = k.before.durable /\ be.work = k.before.work
      BY <2>1 DEF Same, Unchanged, Emptied, FreshSession
    <2> QED BY <1>2, <1>3, <1>4, <1>5, <2>2 DEF Lacks
  <1>6. CASE ~k.err
    <2> DEFINE b == BegunBy(Seen(k.before))
    <2>1. b \in Session /\ b.st # "I" /\ Seen(be).work = be.work
      <3>1. k.before \in Session
        BY <1>2 DEF CallRec
      <3>2. Seen(k.before) \in Session /\ Seen(be).work = be.work
        BY <1>2, <3>1, SeenFields
      <3> QED BY <3>2 DEF BegunBy, Session
    <2>2. PICK o \in Outcomes(b, k.cmd) : o.tag # "ERROR" /\ Seen(be) = o.be
      BY <1>2, <1>6 DEF DoneEffect, OkEffect
    <2> HIDE DEF b
    <2>3. k.cmd.c = "WRITE"
      <3>1. WriteCmd(w).c = "WRITE"
        BY DEF WriteCmd
      <3>2. k.cmd = WriteCmd(w)
        BY <1>2 DEF Shape
      <3> QED BY <3>1, <3>2
    <2>4. o = Failed(b) \/ o \in OnWrite(b, w)
      BY <2>2, <2>3 DEF Outcomes
    <2>5. o = Answer([b EXCEPT !.work = Append(@, w)], "WRITE")
      <3>1. Failed(b).tag = "ERROR"
        BY AnswerFields DEF Failed
      <3> QED BY <2>1, <2>2, <2>4, <3>1 DEF OnWrite
    <2>6. be.work = Append(b.work, w) /\ b.work \in Seq(Writes)
      <3>1. o.be = [b EXCEPT !.work = Append(@, w)]
        BY <2>5, AnswerFields
      <3>2. o.be.work = Append(b.work, w) /\ b.work \in Seq(Writes)
        BY <2>1, <3>1 DEF Session
      <3> QED BY <2>1, <2>2, <3>2
    <2>7. Len(be.work) \in DOMAIN be.work /\ be.work[Len(be.work)] = w
      BY <2>6
    <2> QED BY <1>2, <1>4, <1>6, <2>7
  <1> QED BY <1>5, <1>6

\* A write that SC_execute reports as done is in the transaction or durable,
\* and one it reports as failed is neither.
THEOREM WriteReportedAlways ==
    ASSUME Managed
    PROVE  Spec => WriteReported
  <1>1. Init => SerialInv
    BY SerialInit
  <1>2. TypeInv /\ SerialInv /\ [Next]_vars => SerialInv'
    BY SerialStep
  <1>3. TypeInv /\ SerialInv /\ NumberInv /\ [Next]_vars => NumberInv'
    BY NumberStep
  <1>4. TypeInv /\ SerialInv /\ NumberInv /\ [Next]_vars =>
            [\A s \in Stmts :
               /\ Returns(s) /\ calls[s].kind = "write" /\ conn'.up
               => LET w == calls[s].cmd.w
                      kept == w \in be'.durable \/ w \in Range(be'.work)
                  IN  kept <=> ~calls[s].err]_vars
    BY Reported
  <1> QED BY <1>1, <1>2, <1>3, <1>4, TypeInit, TypeStep, NumberInit, PTL DEF Spec, WriteReported

==============================================================================
