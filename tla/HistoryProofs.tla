---------------------------- MODULE HistoryProofs ----------------------------
(***************************************************************************)
(* Proofs about the histories, for any numbers of identities, events,      *)
(* cursors, letters and lines: the store under several cursors             *)
(* (HistoryCursors), the C handle with its shared cursor (CHistory,        *)
(* EditHistory), and readline's list, its mirrors and its file             *)
(* (ReadlineHistory).                                                      *)
(***************************************************************************)
EXTENDS HistoryCursors, ReadlineHistory, WellFoundedInduction, TLAPS

-----------------------------------------------------------------------------
(* Rows of a store, and what inserting, dropping and rewriting them does to *)
(* the two orders they stand in: identities fall along the store, and so do *)
(* the event numbers the C layer keeps in the rows.                         *)

Rows(L, N) == [id : Identities, line : L, number : N]

Falling(e) == \A p, q \in DOMAIN e : p < q => e[p].id > e[q].id

Ranked(e) == \A p, q \in DOMAIN e : p < q => e[p].number > e[q].number

IdsIn(e) == {e[p].id : p \in DOMAIN e}

LEMMA IdsAreIds ==
  ASSUME NEW L, NEW N, NEW e \in Seq(Rows(L, N))
  PROVE  IdsIn(e) \subseteq Identities /\ Identities \subseteq Int
<1>1. \A i \in DOMAIN e : e[i] \in Rows(L, N)
  OBVIOUS
<1> QED
  BY <1>1, LastIdAssumption DEF IdsIn, Rows, Identities

(* A sequence with one more element in front.                               *)
LEMMA Shifted ==
  ASSUME NEW S, NEW e \in Seq(S), NEW x \in S
  PROVE  LET f == <<x>> \o e
         IN  /\ f \in Seq(S) /\ Len(f) = Len(e) + 1 /\ f[1] = x /\ 1 \in DOMAIN f
             /\ DOMAIN f = 1 .. Len(e) + 1 /\ DOMAIN e = 1 .. Len(e) /\ Len(e) \in Nat
             /\ \A i \in DOMAIN e : i + 1 \in DOMAIN f /\ f[i + 1] = e[i]
             /\ \A p \in DOMAIN f : p = 1 \/ (p - 1 \in DOMAIN e /\ f[p] = e[p - 1])
<1> DEFINE f == <<x>> \o e
<1>1. /\ f \in Seq(S) /\ Len(f) = Len(e) + 1 /\ f[1] = x
      /\ \A i \in 1 .. Len(e) : f[i + 1] = e[i]
  OBVIOUS
<1>2. DOMAIN f = 1 .. Len(e) + 1 /\ DOMAIN e = 1 .. Len(e) /\ Len(e) \in Nat
  BY <1>1
<1> HIDE DEF f
<1>3. \A p \in DOMAIN f : p = 1 \/ (p - 1 \in DOMAIN e /\ f[p] = e[p - 1])
  <2> TAKE p \in DOMAIN f
  <2>1. CASE p # 1
    <3>1. p - 1 \in 1 .. Len(e) /\ (p - 1) + 1 = p
      BY <1>2, <2>1
    <3> QED
      BY <1>1, <1>2, <3>1
  <2> QED
    BY <2>1
<1>4. \A i \in DOMAIN e : i + 1 \in DOMAIN f /\ f[i + 1] = e[i]
  BY <1>1, <1>2
<1> QED
  BY <1>1, <1>2, <1>3, <1>4 DEF f

(* A new row in front of all the others.                                    *)
LEMMA FallingCons ==
  ASSUME NEW L, NEW N, NEW e \in Seq(Rows(L, N)), Falling(e), NEW x \in Rows(L, N),
         \A id \in IdsIn(e) : id < x.id
  PROVE  /\ <<x>> \o e \in Seq(Rows(L, N)) /\ Falling(<<x>> \o e)
         /\ IdsIn(<<x>> \o e) = IdsIn(e) \cup {x.id}
<1> DEFINE f == <<x>> \o e
<1>1. /\ f \in Seq(Rows(L, N)) /\ f[1] = x /\ 1 \in DOMAIN f
      /\ DOMAIN f = 1 .. Len(e) + 1 /\ DOMAIN e = 1 .. Len(e) /\ Len(e) \in Nat
      /\ \A i \in DOMAIN e : i + 1 \in DOMAIN f /\ f[i + 1] = e[i]
      /\ \A p \in DOMAIN f : p = 1 \/ (p - 1 \in DOMAIN e /\ f[p] = e[p - 1])
  BY Shifted
<1> HIDE DEF f
<1>2. Falling(f)
  <2> SUFFICES ASSUME NEW p \in DOMAIN f, NEW q \in DOMAIN f, p < q
               PROVE  f[p].id > f[q].id
    BY DEF Falling
  <2>1. q - 1 \in DOMAIN e /\ f[q] = e[q - 1]
    BY <1>1
  <2>2. IdsIn(e) \subseteq Int /\ x.id \in Int
    BY IdsAreIds DEF Rows
  <2>3. CASE p = 1
    BY <1>1, <2>1, <2>2, <2>3 DEF IdsIn
  <2>4. CASE p # 1
    BY <1>1, <2>1, <2>4 DEF Falling
  <2> QED
    BY <2>3, <2>4
<1>3. IdsIn(f) = IdsIn(e) \cup {x.id}
  <2>1. \A id \in IdsIn(f) : id \in IdsIn(e) \cup {x.id}
    BY <1>1 DEF IdsIn
  <2>2. \A id \in IdsIn(e) \cup {x.id} : id \in IdsIn(f)
    BY <1>1 DEF IdsIn
  <2> QED
    BY <2>1, <2>2
<1> QED
  BY <1>1, <1>2, <1>3 DEF f

LEMMA RankedCons ==
  ASSUME NEW L, NEW e \in Seq(Rows(L, Int)), Ranked(e), NEW x \in Rows(L, Int),
         \A p \in DOMAIN e : e[p].number < x.number
  PROVE  Ranked(<<x>> \o e)
<1> DEFINE f == <<x>> \o e
<1>1. /\ f[1] = x /\ DOMAIN f = 1 .. Len(e) + 1 /\ Len(e) \in Nat
      /\ \A p \in DOMAIN f : p = 1 \/ (p - 1 \in DOMAIN e /\ f[p] = e[p - 1])
  BY Shifted
<1> HIDE DEF f
<1> SUFFICES ASSUME NEW p \in DOMAIN f, NEW q \in DOMAIN f, p < q
             PROVE  f[p].number > f[q].number
  BY DEF Ranked, f
<1>2. q - 1 \in DOMAIN e /\ f[q] = e[q - 1]
  BY <1>1
<1>3. \A i \in DOMAIN e : e[i].number \in Int
  <2>1. \A i \in DOMAIN e : e[i] \in Rows(L, Int)
    OBVIOUS
  <2> QED
    BY <2>1 DEF Rows
<1>4. x.number \in Int
  BY DEF Rows
<1>5. CASE p = 1
  BY <1>1, <1>2, <1>3, <1>4, <1>5
<1>6. CASE p # 1
  BY <1>1, <1>2, <1>6 DEF Ranked
<1> QED
  BY <1>5, <1>6

(* Rows of e in the order they have there, some of them left out.           *)
Thinned(f, e) ==
  \E from \in [DOMAIN f -> DOMAIN e] :
      /\ \A i, j \in DOMAIN f : i < j => from[i] < from[j]
      /\ \A i \in DOMAIN f : f[i] = e[from[i]]

LEMMA ThinnedKeeps ==
  ASSUME NEW e, NEW f, Thinned(f, e)
  PROVE  /\ IdsIn(f) \subseteq IdsIn(e)
         /\ Falling(e) => Falling(f)
         /\ Ranked(e) => Ranked(f)
         /\ \A i \in DOMAIN f : \E p \in DOMAIN e : f[i] = e[p]
<1> PICK from \in [DOMAIN f -> DOMAIN e] :
        /\ \A i, j \in DOMAIN f : i < j => from[i] < from[j]
        /\ \A i \in DOMAIN f : f[i] = e[from[i]]
  BY DEF Thinned
<1>1. \A i \in DOMAIN f : from[i] \in DOMAIN e
  OBVIOUS
<1> QED
  BY <1>1 DEF Falling, Ranked, IdsIn

LEMMA Unchanged == ASSUME NEW e PROVE Thinned(e, e)
<1> DEFINE from == [i \in DOMAIN e |-> i]
<1>1. from \in [DOMAIN e -> DOMAIN e]
  OBVIOUS
<1> QED
  BY <1>1 DEF Thinned

(* The newest n of the rows.                                                *)
LEMMA FrontThins ==
  ASSUME NEW S, NEW e \in Seq(S), NEW n \in 0 .. Len(e)
  PROVE  LET f == SubSeq(e, 1, n)
         IN  /\ f \in Seq(S) /\ Len(f) = n /\ Thinned(f, e)
             /\ \A i \in 1 .. n : f[i] = e[i]
<1> DEFINE f == SubSeq(e, 1, n)
<1>1. f \in Seq(S) /\ Len(f) = n /\ \A i \in 1 .. n : f[i] = e[i]
  OBVIOUS
<1>2. DOMAIN f = 1 .. n /\ DOMAIN e = 1 .. Len(e) /\ 1 .. n \subseteq 1 .. Len(e)
  BY <1>1
<1> HIDE DEF f
<1>3. Thinned(f, e)
  <2> DEFINE from == [i \in DOMAIN f |-> i]
  <2>1. from \in [DOMAIN f -> DOMAIN e]
    BY <1>2
  <2> QED
    BY <1>1, <1>2, <2>1 DEF Thinned
<1> QED
  BY <1>1, <1>3 DEF f

(* One row taken out.                                                       *)
LEMMA WithoutThins ==
  ASSUME NEW S, NEW e \in Seq(S), NEW p \in DOMAIN e
  PROVE  LET f == SubSeq(e, 1, p - 1) \o SubSeq(e, p + 1, Len(e))
         IN  /\ f \in Seq(S) /\ Len(f) = Len(e) - 1 /\ Thinned(f, e)
             /\ \A i \in 1 .. Len(e) - 1 : f[i] = IF i < p THEN e[i] ELSE e[i + 1]
<1> DEFINE g == SubSeq(e, 1, p - 1)
           t == SubSeq(e, p + 1, Len(e))
           f == g \o t
           From(i) == IF i < p THEN i ELSE i + 1
<1>0. p \in 1 .. Len(e) /\ Len(e) \in Nat /\ DOMAIN e = 1 .. Len(e)
  OBVIOUS
<1>1. g \in Seq(S) /\ Len(g) = p - 1 /\ \A i \in 1 .. p - 1 : g[i] = e[i]
  BY <1>0
<1>2. t \in Seq(S) /\ Len(t) = Len(e) - p /\ \A i \in 1 .. Len(e) - p : t[i] = e[p + i]
  BY <1>0
<1> HIDE DEF g, t
<1>3. /\ f \in Seq(S) /\ Len(f) = Len(e) - 1
      /\ \A i \in 1 .. p - 1 : f[i] = g[i]
      /\ \A i \in 1 .. Len(e) - p : f[p - 1 + i] = t[i]
  <2>0. g \in Seq(S) /\ t \in Seq(S)
    BY <1>1, <1>2
  <2>1. f \in Seq(S) /\ Len(f) = Len(g) + Len(t)
    BY ONLY <2>0 DEF f
  <2>2. \A i \in 1 .. Len(g) : f[i] = g[i]
    BY <1>1, <1>2
  <2>3. \A i \in 1 .. Len(t) : f[Len(g) + i] = t[i]
    BY <1>1, <1>2
  <2> HIDE DEF f
  <2> QED
    BY <1>0, <1>1, <1>2, <2>1, <2>2, <2>3
<1>4. DOMAIN f = 1 .. Len(e) - 1
  BY <1>3
<1> HIDE DEF f
<1>5. \A i \in DOMAIN f : From(i) \in DOMAIN e /\ f[i] = e[From(i)]
  <2> TAKE i \in DOMAIN f
  <2>1. CASE i < p
    BY <1>0, <1>1, <1>3, <1>4, <2>1
  <2>2. CASE ~(i < p)
    <3> DEFINE j == i - p + 1
    <3>1. j \in 1 .. Len(e) - p /\ p - 1 + j = i /\ p + j = i + 1
      BY <1>0, <1>4, <2>2
    <3> HIDE DEF j
    <3>2. f[p - 1 + j] = t[j] /\ t[j] = e[p + j]
      BY <1>2, <1>3, <3>1
    <3>3. f[i] = e[i + 1]
      BY <3>1, <3>2
    <3> QED
      BY <1>0, <1>4, <2>2, <3>3
  <2> QED
    BY <2>1, <2>2
<1>6. \A i, j \in DOMAIN f : i < j => From(i) < From(j)
  BY <1>0, <1>4
<1>7. Thinned(f, e)
  <2> DEFINE from == [i \in DOMAIN f |-> From(i)]
  <2> HIDE DEF From
  <2>1. from \in [DOMAIN f -> DOMAIN e] /\ \A i \in DOMAIN f : from[i] = From(i)
    BY <1>5
  <2> QED
    BY <1>5, <1>6, <2>1 DEF Thinned
<1>8. \A i \in 1 .. Len(e) - 1 : f[i] = IF i < p THEN e[i] ELSE e[i + 1]
  BY <1>4, <1>5
<1> QED
  BY <1>3, <1>7, <1>8 DEF f, g, t

(* One row rewritten in place: the identity stays, the number may.          *)
WithRow(f, e, p, line, number) ==
  f = [e EXCEPT ![p] = [@ EXCEPT !.line = line, !.number = number]]

LEMMA RowRewritten ==
  ASSUME NEW L, NEW N, NEW e \in Seq(Rows(L, N)), NEW p \in DOMAIN e,
         NEW line \in L, NEW number \in N,
         NEW f, WithRow(f, e, p, line, number)
  PROVE  /\ f \in Seq(Rows(L, N)) /\ Len(f) = Len(e) /\ DOMAIN f = DOMAIN e
         /\ \A q \in DOMAIN e : f[q].id = e[q].id
         /\ \A q \in DOMAIN e : q # p => f[q] = e[q]
         /\ f[p].number = number
<1>1. DOMAIN f = DOMAIN e /\ \A q \in DOMAIN e : q # p => f[q] = e[q]
  BY DEF WithRow
<1>2. f[p] = [e[p] EXCEPT !.line = line, !.number = number] /\ e[p] \in Rows(L, N)
  BY DEF WithRow
<1>0. f = [q \in DOMAIN e |-> f[q]]
  BY DEF WithRow
<1>3. f[p] \in Rows(L, N) /\ f[p].id = e[p].id /\ f[p].number = number
  BY <1>2 DEF Rows
<1>4. \A q \in DOMAIN e : f[q] \in Rows(L, N) /\ f[q].id = e[q].id
  BY <1>1, <1>3
<1>5. f \in Seq(Rows(L, N)) /\ Len(f) = Len(e)
  <2>1. DOMAIN e = 1 .. Len(e) /\ Len(e) \in Nat
    OBVIOUS
  <2>2. f \in [1 .. Len(e) -> Rows(L, N)]
    BY <1>0, <1>1, <1>4, <2>1
  <2> QED
    BY <2>1, <2>2
<1> QED
  BY <1>1, <1>3, <1>4, <1>5

-----------------------------------------------------------------------------
(* A store: its rows stand by age below the identity that comes next, and   *)
(* are not more than the identities that were given out.                    *)

Stores(L, N) == [entries : Seq(Rows(L, N)), capacity : Capacities,
                 unique : BOOLEAN, next : Identities \cup {None}]

Given(s) == IF s.next = None THEN LastId + 1 ELSE s.next

StoreOk(s, L, N) ==
  /\ s \in Stores(L, N)
  /\ Falling(s.entries)
  /\ s.next # None => \A id \in IdsIn(s.entries) : id < s.next
  /\ Size(s) <= Given(s)

(* The identities a step gave out are at most the one that was next, and    *)
(* next moves up or is used up.                                             *)
Fresh(s, t) ==
  /\ IdsIn(t.entries) \ IdsIn(s.entries) \subseteq {s.next} \ {None}
  /\ t.next # s.next => t.next = None \/ t.next > s.next
  /\ s.next = None => t.next = None

LEMMA StoreFacts ==
  ASSUME NEW L, NEW N, NEW s, StoreOk(s, L, N)
  PROVE  /\ s.entries \in Seq(Rows(L, N)) /\ Falling(s.entries)
         /\ Size(s) \in Nat /\ Size(s) = Len(s.entries) /\ DOMAIN s.entries = 1 .. Size(s)
         /\ IdsOf(s) = IdsIn(s.entries) /\ IdsOf(s) \subseteq Identities
         /\ Identities \subseteq Int /\ Live \notin IdsOf(s) /\ Live \notin Identities
         /\ Given(s) \in Nat
         /\ \A p \in DOMAIN s.entries : /\ s.entries[p] \in Rows(L, N)
                                        /\ s.entries[p].id \in IdsOf(s)
<1>1. s.entries \in Seq(Rows(L, N)) /\ s.next \in Identities \cup {None}
  BY DEF StoreOk, Stores
<1>2. IdsIn(s.entries) \subseteq Identities /\ Identities \subseteq Int
  BY <1>1, IdsAreIds
<1>3. Live \notin Identities
  BY LastIdAssumption DEF Live, Identities
<1>4. Given(s) \in Nat
  BY <1>1, LastIdAssumption DEF Given, Identities
<1> QED
  BY <1>1, <1>2, <1>3, <1>4 DEF StoreOk, IdsOf, IdsIn, Size

(* What a store becomes when only its rows change, to fewer of them.        *)
LEMMA FewerEntries ==
  ASSUME NEW L, NEW N, NEW s, StoreOk(s, L, N),
         NEW f \in Seq(Rows(L, N)), Thinned(f, s.entries), Len(f) <= Size(s),
         NEW t \in Stores(L, N), t.entries = f, t.next = s.next
  PROVE  StoreOk(t, L, N) /\ Fresh(s, t)
<1>1. IdsIn(f) \subseteq IdsIn(s.entries) /\ Falling(f)
  BY ThinnedKeeps DEF StoreOk
<1>2. Size(t) <= Given(t)
  <2>1. Given(t) = Given(s) /\ Size(t) = Len(f) /\ Len(f) \in Nat
    BY DEF Given, Size
  <2> QED
    BY <2>1, StoreFacts DEF StoreOk
<1> QED
  BY <1>1, <1>2 DEF StoreOk, Fresh

LEMMA PushedOk ==
  ASSUME NEW L, NEW N, NEW s, StoreOk(s, L, N), NEW line \in L, NEW number \in N,
         s.next # None
  PROVE  LET t == Pushed(s, line, number)
             x == [id |-> s.next, line |-> line, number |-> number]
         IN  /\ StoreOk(t, L, N) /\ Fresh(s, t)
             /\ t.capacity = s.capacity /\ t.unique = s.unique
             /\ t.next = IF s.next = LastId THEN None ELSE s.next + 1
             /\ x \in Rows(L, N)
             /\ s.capacity = Unbounded => t.entries = <<x>> \o s.entries
<1> DEFINE x == [id |-> s.next, line |-> line, number |-> number]
           longer == <<x>> \o s.entries
           full == s.capacity # Unbounded /\ Len(longer) > s.capacity
           kept == IF full THEN SubSeq(longer, 1, Len(longer) - 1) ELSE longer
           t == Pushed(s, line, number)
<1>1. x \in Rows(L, N) /\ x.id = s.next /\ s.next \in Identities
  BY DEF StoreOk, Stores, Rows
<1>2. s.entries \in Seq(Rows(L, N)) /\ Falling(s.entries) /\ \A id \in IdsIn(s.entries) : id < x.id
  BY <1>1 DEF StoreOk, Stores
<1>5. /\ t.entries = kept /\ t.capacity = s.capacity /\ t.unique = s.unique
      /\ t.next = IF s.next = LastId THEN None ELSE s.next + 1
      /\ t \in [entries : {kept}, capacity : Capacities, unique : BOOLEAN,
                next : {IF s.next = LastId THEN None ELSE s.next + 1}]
  BY DEF Pushed, StoreOk, Stores
<1> HIDE DEF x
<1>3. /\ longer \in Seq(Rows(L, N)) /\ Falling(longer)
      /\ IdsIn(longer) = IdsIn(s.entries) \cup {s.next}
  BY <1>1, <1>2, FallingCons
<1>4. Len(longer) \in Nat /\ Len(longer) = Size(s) + 1 /\ Size(s) \in Nat
  BY <1>1, <1>2, Shifted DEF Size
<1> HIDE DEF longer, t
<1>6. /\ kept \in Seq(Rows(L, N)) /\ Falling(kept) /\ IdsIn(kept) \subseteq IdsIn(longer)
      /\ Len(kept) <= Size(s) + 1 /\ Len(kept) \in Nat
  <2>1. Len(longer) - 1 \in 0 .. Len(longer)
    BY <1>4
  <2>2. LET f == SubSeq(longer, 1, Len(longer) - 1)
        IN  f \in Seq(Rows(L, N)) /\ Len(f) = Len(longer) - 1 /\ Thinned(f, longer)
    BY <1>3, <2>1, FrontThins
  <2>3. CASE full
    <3>1. kept = SubSeq(longer, 1, Len(longer) - 1)
      BY <2>3
    <3>2. Thinned(kept, longer) /\ kept \in Seq(Rows(L, N)) /\ Len(kept) = Len(longer) - 1
      BY <2>2, <3>1
    <3> HIDE DEF kept
    <3> QED
      BY <1>3, <1>4, <3>2, ThinnedKeeps
  <2>4. CASE ~full
    BY <1>3, <1>4, <2>4
  <2> QED
    BY <2>3, <2>4
<1>12. s.capacity = Unbounded => kept = longer
  OBVIOUS
<1> HIDE DEF kept
<1>7. t.next \in Identities \cup {None} /\ (t.next = None \/ t.next > s.next)
  BY <1>1, <1>5, LastIdAssumption DEF Identities, None
<1>8. \A id \in IdsIn(kept) : id \in Int /\ id <= s.next
  <2>1. IdsIn(kept) \subseteq Int /\ s.next \in Int
    BY <1>1, <1>6, IdsAreIds
  <2> QED
    BY <1>1, <1>2, <1>3, <1>6, <2>1
<1>9. t.next # None => \A id \in IdsIn(t.entries) : id < t.next
  BY <1>1, <1>5, <1>7, <1>8, LastIdAssumption DEF Identities, None
<1>13. Size(t) <= Given(t)
  <2>1. s.next \in Nat /\ Size(s) <= s.next /\ s.next <= LastId
    BY <1>1, LastIdAssumption DEF StoreOk, Given, Identities
  <2>2. Size(t) <= Size(s) + 1 /\ Size(t) \in Nat
    BY <1>5, <1>6 DEF Size
  <2>3. Given(t) = s.next + 1
    BY <1>5, <2>1, LastIdAssumption DEF Given, None
  <2> QED
    BY <1>4, <2>1, <2>2, <2>3
<1>10. StoreOk(t, L, N)
  BY <1>5, <1>6, <1>7, <1>9, <1>13 DEF StoreOk, Stores
<1>11. Fresh(s, t)
  BY <1>3, <1>5, <1>6, <1>7 DEF Fresh
<1> QED
  BY <1>1, <1>5, <1>10, <1>11, <1>12 DEF t, x, longer

LEMMA BoundedOk ==
  ASSUME NEW L, NEW N, NEW s, StoreOk(s, L, N), NEW limit \in Capacities
  PROVE  StoreOk(Bounded(s, limit), L, N) /\ Fresh(s, Bounded(s, limit))
<1> DEFINE t == Bounded(s, limit)
           f == IF limit = Unbounded \/ Len(s.entries) <= limit
                THEN s.entries ELSE SubSeq(s.entries, 1, limit)
<1>1. s.entries \in Seq(Rows(L, N)) /\ Len(s.entries) \in Nat
  BY StoreFacts
<1>4. t.entries = f /\ t.next = s.next
  BY DEF Bounded, StoreOk, Stores
<1>5. t \in [entries : {f}, capacity : Capacities, unique : BOOLEAN, next : Identities \cup {None}]
  BY DEF Bounded, StoreOk, Stores
<1>6. f \in Seq(Rows(L, N)) /\ Thinned(f, s.entries) /\ Len(f) <= Size(s)
  <2>1. CASE limit = Unbounded \/ Len(s.entries) <= limit
    <3>1. Thinned(s.entries, s.entries)
      BY Unchanged
    <3> QED
      BY <1>1, <2>1, <3>1 DEF Size
  <2>2. CASE ~(limit = Unbounded \/ Len(s.entries) <= limit)
    <3>1. limit \in 0 .. Len(s.entries)
      BY <1>1, <2>2 DEF Capacities
    <3>2. LET g == SubSeq(s.entries, 1, limit)
          IN  g \in Seq(Rows(L, N)) /\ Len(g) = limit /\ Thinned(g, s.entries)
      BY <1>1, <3>1, FrontThins
    <3> QED
      BY <1>1, <2>2, <3>1, <3>2 DEF Size
  <2> QED
    BY <2>1, <2>2
<1> HIDE DEF f, t
<1>7. t \in Stores(L, N)
  BY <1>5, <1>6 DEF Stores
<1> QED
  BY <1>4, <1>6, <1>7, FewerEntries DEF t

(* A position is where the identity stands.                                 *)
LEMMA PositionOk ==
  ASSUME NEW s, NEW id \in IdsOf(s)
  PROVE  /\ Position(s, id) \in DOMAIN s.entries
         /\ s.entries[Position(s, id)].id = id
  BY DEF IdsOf, Position

(* Two rows never have one identity.                                        *)
LEMMA PositionOnly ==
  ASSUME NEW L, NEW N, NEW s, StoreOk(s, L, N), NEW p \in DOMAIN s.entries
  PROVE  Position(s, s.entries[p].id) = p
<1> DEFINE id == s.entries[p].id
           q == Position(s, id)
<1>1. id \in IdsOf(s) /\ id \in Int /\ Falling(s.entries) /\ DOMAIN s.entries = 1 .. Size(s)
      /\ Size(s) \in Nat
  BY StoreFacts
<1>2. q \in DOMAIN s.entries /\ s.entries[q].id = id
  BY <1>1, PositionOk
<1> HIDE DEF q
<1> QED
  BY <1>1, <1>2 DEF Falling, q

LEMMA WithoutOk ==
  ASSUME NEW L, NEW N, NEW s, StoreOk(s, L, N), NEW p \in DOMAIN s.entries
  PROVE  LET t == WithoutPosition(s, p)
         IN  /\ StoreOk(t, L, N) /\ Fresh(s, t) /\ Size(t) = Size(s) - 1
             /\ t = [s EXCEPT !.entries = t.entries]
             /\ Thinned(t.entries, s.entries)
             /\ \A i \in 1 .. Size(s) - 1 :
                    t.entries[i] = IF i < p THEN s.entries[i] ELSE s.entries[i + 1]
<1> DEFINE e == s.entries
           f == SubSeq(e, 1, p - 1) \o SubSeq(e, p + 1, Len(e))
           t == WithoutPosition(s, p)
<1>1. e \in Seq(Rows(L, N)) /\ Size(s) = Len(e) /\ Size(s) \in Nat
  BY StoreFacts
<1>2. /\ f \in Seq(Rows(L, N)) /\ Len(f) = Len(e) - 1 /\ Thinned(f, e)
      /\ \A i \in 1 .. Len(e) - 1 : f[i] = IF i < p THEN e[i] ELSE e[i + 1]
  BY <1>1, WithoutThins
<1>3. t = [s EXCEPT !.entries = f]
  BY DEF WithoutPosition
<1> HIDE DEF f, t
<1>4. t.entries = f /\ t.next = s.next /\ t \in Stores(L, N)
  BY <1>2, <1>3 DEF StoreOk, Stores
<1>5. StoreOk(t, L, N) /\ Fresh(s, t)
  BY <1>1, <1>2, <1>4, FewerEntries
<1>6. Size(t) = Size(s) - 1
  BY <1>1, <1>2, <1>4 DEF Size
<1> QED
  BY <1>1, <1>2, <1>3, <1>4, <1>5, <1>6 DEF t

LEMMA RemovedOk ==
  ASSUME NEW L, NEW N, NEW s, StoreOk(s, L, N), NEW id
  PROVE  StoreOk(Removed(s, id), L, N) /\ Fresh(s, Removed(s, id))
<1>1. CASE id \notin IdsOf(s)
  BY <1>1 DEF Removed, Fresh
<1>2. CASE id \in IdsOf(s)
  BY <1>2, PositionOk, WithoutOk DEF Removed
<1> QED
  BY <1>1, <1>2

LEMMA RewrittenOk ==
  ASSUME NEW L, NEW N, NEW s, StoreOk(s, L, N), NEW id \in IdsOf(s), NEW line \in L,
         NEW number \in N
  PROVE  LET t == Rewritten(s, id, line, number)
             p == Position(s, id)
         IN  /\ StoreOk(t, L, N) /\ Fresh(s, t) /\ IdsOf(t) = IdsOf(s) /\ Size(t) = Size(s)
             /\ t = [s EXCEPT !.entries = t.entries]
             /\ DOMAIN t.entries = DOMAIN s.entries
             /\ \A q \in DOMAIN s.entries : t.entries[q].id = s.entries[q].id
             /\ \A q \in DOMAIN s.entries : q # p => t.entries[q] = s.entries[q]
             /\ t.entries[p].number = number
<1> DEFINE p == Position(s, id)
           e == s.entries
           f == [e EXCEPT ![p] = [@ EXCEPT !.line = line, !.number = number]]
           t == Rewritten(s, id, line, number)
<1>1. e \in Seq(Rows(L, N)) /\ Falling(e) /\ p \in DOMAIN e
  BY PositionOk, StoreFacts
<1>3. t = [s EXCEPT !.entries = f]
  BY <1>1 DEF Rewritten, StoreOk, Stores, p
<1> HIDE DEF p, e, f, t
<1>9. WithRow(f, e, p, line, number)
  BY DEF WithRow, f
<1>2. /\ f \in Seq(Rows(L, N)) /\ Len(f) = Len(e) /\ DOMAIN f = DOMAIN e
      /\ \A q \in DOMAIN e : f[q].id = e[q].id
      /\ \A q \in DOMAIN e : q # p => f[q] = e[q]
      /\ f[p].number = number
  BY ONLY <1>1, <1>9, line \in L, number \in N, RowRewritten
<1>4. t.entries = f /\ t.next = s.next /\ t \in Stores(L, N)
  BY <1>2, <1>3 DEF StoreOk, Stores, e
<1>5. Falling(f) /\ IdsIn(f) = IdsIn(e)
  BY <1>1, <1>2 DEF Falling, IdsIn
<1>6. StoreOk(t, L, N) /\ Fresh(s, t)
  BY <1>2, <1>4, <1>5 DEF StoreOk, Fresh, Given, Size, e
<1>7. IdsOf(t) = IdsOf(s) /\ Size(t) = Size(s)
  BY <1>2, <1>4, <1>5 DEF IdsOf, IdsIn, Size, e
<1> QED
  BY <1>1, <1>2, <1>3, <1>4, <1>6, <1>7 DEF t, p, e

LEMMA EmptyOk == ASSUME NEW L, NEW N PROVE StoreOk(EmptyStore, L, N)
<1>1. <<>> \in Seq(Rows(L, N)) /\ DOMAIN <<>> = {} /\ Len(<<>>) = 0
  OBVIOUS
<1> QED
  BY <1>1, LastIdAssumption
     DEF StoreOk, Stores, EmptyStore, Falling, IdsIn, Capacities, Identities, Given, Size, None

LEMMA ClearedOk ==
  ASSUME NEW L, NEW N, NEW s, StoreOk(s, L, N)
  PROVE  StoreOk(Cleared(s), L, N) /\ Fresh(s, Cleared(s)) /\ Cleared(s).entries = <<>>
<1>1. <<>> \in Seq(Rows(L, N)) /\ DOMAIN <<>> = {} /\ Len(<<>>) = 0
  OBVIOUS
<1>2. Cleared(s).entries = <<>> /\ Cleared(s).next = s.next /\ Cleared(s) \in Stores(L, N)
  BY <1>1 DEF Cleared, StoreOk, Stores
<1>3. Size(Cleared(s)) <= Given(Cleared(s))
  <2>1. Given(Cleared(s)) = Given(s) /\ Given(s) \in Nat
    BY <1>2, StoreFacts DEF Given
  <2> QED
    BY <1>1, <1>2, <2>1 DEF Size
<1> QED
  BY <1>1, <1>2, <1>3 DEF StoreOk, Falling, IdsIn, Fresh

-----------------------------------------------------------------------------
(* Movements.                                                               *)

(* A cursor moves to an entry that is there, or to the live line, and stays *)
(* what a cursor is.                                                        *)
LEMMA MovesOk ==
  ASSUME NEW L, NEW N, NEW s, StoreOk(s, L, N), NEW at \in Identities \cup {Live}, NEW id \in Identities
  PROVE  {Older(s, at), Newer(s, at), Selected(s, at, id)} \subseteq Identities \cup {Live}
<1>1. \A p \in DOMAIN s.entries : s.entries[p].id \in Identities
  BY StoreFacts
<1>2. DOMAIN s.entries = 1 .. Size(s) /\ Size(s) \in Nat
  BY StoreFacts
<1>3. Repaired(s, at) \in Identities \cup {Live}
  BY DEF Repaired
<1>4. Standing(s, Repaired(s, at)) \in 0 .. Size(s)
  BY <1>2, PositionOk DEF Standing, Repaired
<1>5. Older(s, at) \in Identities \cup {Live}
  BY <1>1, <1>2, <1>3, <1>4 DEF Older
<1>6. Newer(s, at) \in Identities \cup {Live}
  BY <1>1, <1>2, <1>4 DEF Newer
<1> QED
  BY <1>5, <1>6 DEF Selected

(* The entry next to a cursor's in position is the one next to it in age.   *)
LEMMA OlderByAge ==
  ASSUME NEW L, NEW N, NEW s, StoreOk(s, L, N), NEW cur \in Identities \cup {Live}
  PROVE  LET at == IF cur \in IdsOf(s) THEN cur ELSE Live
             below == {id \in IdsOf(s) : at = Live \/ id < at}
         IN  IF below = {} THEN Older(s, cur) = at
             ELSE Older(s, cur) \in below /\ \A id \in below : id <= Older(s, cur)
<1> DEFINE at == IF cur \in IdsOf(s) THEN cur ELSE Live
           below == {id \in IdsOf(s) : at = Live \/ id < at}
           e == s.entries
           p == Standing(s, at)
<1>1. Falling(e) /\ DOMAIN e = 1 .. Size(s) /\ Size(s) \in Nat
  BY StoreFacts
<1>2. IdsOf(s) \subseteq Int /\ IdsOf(s) = {e[i].id : i \in DOMAIN e} /\ Live \notin IdsOf(s)
  BY StoreFacts DEF IdsIn
<1>3. Older(s, cur) = IF p + 1 <= Size(s) THEN e[p + 1].id ELSE at
  BY DEF Older, Repaired
<1>4. p \in 0 .. Size(s) /\ (at = Live => p = 0) /\ (at # Live => p >= 1 /\ e[p].id = at)
  BY <1>1, <1>2, PositionOk DEF Standing
<1> HIDE DEF p
<1>5. \A i \in DOMAIN e : e[i].id \in below <=> i > p
  <2> TAKE i \in DOMAIN e
  <2>1. e[i].id \in IdsOf(s) /\ e[i].id \in Int
    BY <1>2
  <2>2. CASE at = Live
    BY <1>1, <1>4, <2>1, <2>2
  <2>3. CASE at # Live
    <3>1. p \in DOMAIN e /\ e[p].id = at /\ at \in Int
      BY <1>1, <1>2, <1>4, <2>3
    <3>2. (i > p => e[i].id < at) /\ (i < p => e[i].id > at) /\ (i = p => e[i].id = at)
      BY <1>1, <2>1, <3>1 DEF Falling
    <3> QED
      BY <1>1, <1>4, <2>1, <2>3, <3>1, <3>2
  <2> QED
    BY <2>2, <2>3
<1>6. CASE p + 1 <= Size(s)
  <2>1. p + 1 \in DOMAIN e /\ e[p + 1].id \in below
    BY <1>1, <1>4, <1>5, <1>6
  <2>2. \A id \in below : id <= e[p + 1].id
    <3> SUFFICES ASSUME NEW i \in DOMAIN e, e[i].id \in below PROVE e[i].id <= e[p + 1].id
      BY <1>2
    <3>1. i > p /\ i \in Int /\ p \in Int
      BY <1>1, <1>4, <1>5
    <3>2. CASE i = p + 1
      <4>1. e[i].id \in Int /\ e[i].id = e[p + 1].id
        BY <1>2, <3>2
      <4> QED
        BY ONLY <4>1
    <3>3. CASE i > p + 1
      <4>1. e[p + 1].id > e[i].id
        BY <1>1, <2>1, <3>3 DEF Falling
      <4>2. e[p + 1].id \in Int /\ e[i].id \in Int
        BY <1>2, <2>1
      <4> QED
        BY <4>1, <4>2
    <3> QED
      BY <3>1, <3>2, <3>3
  <2> QED
    BY <1>3, <1>6, <2>1, <2>2
<1>7. CASE ~(p + 1 <= Size(s))
  <2>1. below = {}
    BY <1>1, <1>2, <1>4, <1>5, <1>7
  <2> QED
    BY <1>3, <1>7, <2>1
<1> QED
  BY <1>6, <1>7

LEMMA NewerByAge ==
  ASSUME NEW L, NEW N, NEW s, StoreOk(s, L, N), NEW cur \in Identities \cup {Live}
  PROVE  LET at == IF cur \in IdsOf(s) THEN cur ELSE Live
             above == {id \in IdsOf(s) : at # Live /\ id > at}
         IN  IF above = {} THEN Newer(s, cur) = Live
             ELSE Newer(s, cur) \in above /\ \A id \in above : id >= Newer(s, cur)
<1> DEFINE at == IF cur \in IdsOf(s) THEN cur ELSE Live
           above == {id \in IdsOf(s) : at # Live /\ id > at}
           e == s.entries
           p == Standing(s, at)
<1>1. Falling(e) /\ DOMAIN e = 1 .. Size(s) /\ Size(s) \in Nat
  BY StoreFacts
<1>2. IdsOf(s) \subseteq Int /\ IdsOf(s) = {e[i].id : i \in DOMAIN e} /\ Live \notin IdsOf(s)
  BY StoreFacts DEF IdsIn
<1>3. Newer(s, cur) = IF p - 1 >= 1 THEN e[p - 1].id ELSE Live
  BY DEF Newer, Repaired
<1>4. p \in 0 .. Size(s) /\ (at = Live => p = 0) /\ (at # Live => p >= 1 /\ e[p].id = at)
  BY <1>1, <1>2, PositionOk DEF Standing
<1> HIDE DEF p
<1>5. \A i \in DOMAIN e : e[i].id \in above <=> i < p
  <2> TAKE i \in DOMAIN e
  <2>1. e[i].id \in IdsOf(s) /\ e[i].id \in Int
    BY <1>2
  <2>2. CASE at = Live
    BY <1>1, <1>4, <2>1, <2>2
  <2>3. CASE at # Live
    <3>1. p \in DOMAIN e /\ e[p].id = at /\ at \in Int
      BY <1>1, <1>2, <1>4, <2>3
    <3>2. (i > p => e[i].id < at) /\ (i < p => e[i].id > at) /\ (i = p => e[i].id = at)
      BY <1>1, <2>1, <3>1 DEF Falling
    <3> QED
      BY <1>1, <1>4, <2>1, <2>3, <3>1, <3>2
  <2> QED
    BY <2>2, <2>3
<1>6. CASE p - 1 >= 1
  <2>1. p - 1 \in DOMAIN e /\ e[p - 1].id \in above
    BY <1>1, <1>4, <1>5, <1>6
  <2>2. \A id \in above : id >= e[p - 1].id
    <3> SUFFICES ASSUME NEW i \in DOMAIN e, e[i].id \in above PROVE e[i].id >= e[p - 1].id
      BY <1>2
    <3>1. i < p /\ i \in Int /\ p \in Int
      BY <1>1, <1>4, <1>5
    <3>2. CASE i = p - 1
      <4>1. e[i].id \in Int /\ e[i].id = e[p - 1].id
        BY <1>2, <3>2
      <4> QED
        BY ONLY <4>1
    <3>3. CASE i < p - 1
      <4>1. e[i].id > e[p - 1].id
        BY <1>1, <2>1, <3>3 DEF Falling
      <4>2. e[p - 1].id \in Int /\ e[i].id \in Int
        BY <1>2, <2>1
      <4> QED
        BY <4>1, <4>2
    <3> QED
      BY <3>1, <3>2, <3>3
  <2> QED
    BY <1>3, <1>6, <2>1, <2>2
<1>7. CASE ~(p - 1 >= 1)
  <2>1. above = {}
    BY <1>1, <1>2, <1>4, <1>5, <1>7
  <2> QED
    BY <1>3, <1>7, <2>1
<1> QED
  BY <1>6, <1>7

-----------------------------------------------------------------------------
(* Several cursors over one store.                                          *)

CursorInv == StoreOk(store, Lines, {0}) /\ cursor \in [Cursors -> Identities \cup {Live}]

LEMMA CursorInvGives == CursorInv => TypeOK /\ IdsDescend
  BY DEF CursorInv, StoreOk, Stores, Rows, Entries, TypeOK, IdsDescend, Falling, IdsIn, IdsOf

LEMMA CursorInit == Init => CursorInv
  BY EmptyOk, BoundedOk DEF Init, CursorInv

(* What every step does to the store and to the cursors.                    *)
LEMMA StepOk ==
  ASSUME CursorInv, [Next]_vars
  PROVE  CursorInv' /\ Fresh(store, store')
<1> USE DEF CursorInv
<1>1. Fresh(store, store)
  BY DEF Fresh
<1>2. ASSUME NEW line \in Lines, Push(line) PROVE CursorInv' /\ Fresh(store, store')
  BY <1>1, <1>2, PushedOk DEF Push, Accepts
<1>3. ASSUME NEW limit \in Capacities, SetCapacity(limit) PROVE CursorInv' /\ Fresh(store, store')
  BY <1>3, BoundedOk DEF SetCapacity
<1>4. ASSUME NEW unique \in BOOLEAN, SetDuplicatePolicy(unique)
      PROVE  CursorInv' /\ Fresh(store, store')
  BY <1>4 DEF SetDuplicatePolicy, StoreOk, Stores, Fresh, Given, Size
<1>5. CASE ClearStore
  BY <1>5, ClearedOk DEF ClearStore
<1>6. ASSUME NEW id \in Identities, RemoveRecord(id) PROVE CursorInv' /\ Fresh(store, store')
  BY <1>6, RemovedOk DEF RemoveRecord
<1>7. ASSUME NEW id \in Identities, NEW line \in Lines, Rewrite(id, line)
      PROVE  CursorInv' /\ Fresh(store, store')
  BY <1>7, RewrittenOk DEF Rewrite
<1>8. ASSUME NEW c \in Cursors, NEW id \in Identities, Select(c, id)
      PROVE  CursorInv' /\ Fresh(store, store')
  BY <1>1, <1>8, MovesOk DEF Select
<1>9. ASSUME NEW c \in Cursors, Reset(c) \/ Previous(c) \/ Next_(c)
      PROVE  CursorInv' /\ Fresh(store, store')
  <2>1. 0 \in Identities
    BY LastIdAssumption DEF Identities
  <2> QED
    BY <1>1, <1>9, <2>1, MovesOk DEF Reset, Previous, Next_
<1>10. CASE UNCHANGED vars
  BY <1>1, <1>10 DEF vars
<1> QED
  BY <1>2, <1>3, <1>4, <1>5, <1>6, <1>7, <1>8, <1>9, <1>10 DEF Next

LEMMA MoveStep ==
  ASSUME CursorInv
  PROVE  MoveByAge
<1> SUFFICES ASSUME NEW c \in Cursors
             PROVE  LET at == IF cursor[c] \in IdsOf(store) THEN cursor[c] ELSE Live
                        below == {id \in IdsOf(store) : at = Live \/ id < at}
                        above == {id \in IdsOf(store) : at # Live /\ id > at}
                    IN  /\ Previous(c) =>
                             IF below = {} THEN cursor'[c] = at
                             ELSE cursor'[c] \in below /\ \A id \in below : id <= cursor'[c]
                        /\ Next_(c) =>
                             IF above = {} THEN cursor'[c] = Live
                             ELSE cursor'[c] \in above /\ \A id \in above : id >= cursor'[c]
  BY DEF MoveByAge
<1>1. cursor[c] \in Identities \cup {Live} /\ c \in DOMAIN cursor /\ StoreOk(store, Lines, {0})
  BY DEF CursorInv
<1>2. Previous(c) => cursor'[c] = Older(store, cursor[c])
  BY <1>1 DEF Previous
<1>3. Next_(c) => cursor'[c] = Newer(store, cursor[c])
  BY <1>1 DEF Next_
<1> QED
  BY <1>1, <1>2, <1>3, OlderByAge, NewerByAge

LEMMA CursorInvariant == Spec => []CursorInv
<1>1. CursorInv /\ [Next]_vars => CursorInv'
  BY StepOk
<1> QED
  BY <1>1, CursorInit, PTL DEF Spec

(* The store and the cursors keep their types (HistoryStore, HistoryCursor). *)
THEOREM TypeCorrect == Spec => []TypeOK
<1>1. CursorInv => TypeOK
  BY CursorInvGives
<1> QED
  BY <1>1, CursorInvariant, PTL

(* Entries stand by age, newest first, below the identity that comes next,   *)
(* after any pushes, evictions, removals and rewrites.                       *)
THEOREM EntriesStandByAge == Spec => []IdsDescend
<1>1. CursorInv => IdsDescend
  BY CursorInvGives
<1> QED
  BY <1>1, CursorInvariant, PTL

(* A movement goes to the entry next in age among those still there, and an  *)
(* identity that is gone never comes back (HistoryCursor::previous, next).   *)
THEOREM CursorsStayInPlace == Spec => CursorsKeepTheirPlace
<1>1. CursorInv /\ [Next]_vars => [MoveByAge /\ NoIdentityReused]_vars
  <2> SUFFICES ASSUME CursorInv, [Next]_vars PROVE MoveByAge /\ NoIdentityReused
    OBVIOUS
  <2>1. MoveByAge
    BY MoveStep
  <2>2. Fresh(store, store')
    BY StepOk
  <2>3. NoIdentityReused
    BY <2>2 DEF Fresh, NoIdentityReused, IdsOf, IdsIn
  <2> QED
    BY <2>1, <2>3
<1> QED
  BY <1>1, CursorInvariant, PTL DEF Spec, CursorsKeepTheirPlace

-----------------------------------------------------------------------------
(* Least and greatest elements.                                             *)

LEMMA LeastElement ==
  ASSUME NEW T \in SUBSET Nat, T # {}
  PROVE  \E n \in T : \A m \in T : n <= m
<1> DEFINE Lt == {ss \in Nat \X Nat : ss[1] < ss[2]}
<1>1. IsWellFoundedOn(Lt, Nat)
  BY NatLessThanWellFounded DEF OpToRel
<1>2. \E x \in T : \A y \in T : ~(<<y, x>> \in Lt)
  <2> HIDE DEF Lt
  <2> QED
    BY ONLY <1>1, T \in SUBSET Nat, T # {}, WFMin
<1>3. PICK x \in T : \A y \in T : ~(<<y, x>> \in Lt)
  BY <1>2
<1>4. \A y \in T : x <= y
  <2> TAKE y \in T
  <2>1. x \in Nat /\ y \in Nat /\ ~(<<y, x>> \in Lt)
    BY <1>3
  <2>2. y < x => <<y, x>> \in Lt
    BY <2>1
  <2> QED
    BY <2>1, <2>2
<1> QED
  BY <1>4

LEMMA GreatestElement ==
  ASSUME NEW k \in Nat, NEW T \in SUBSET (0 .. k), T # {}
  PROVE  \E n \in T : \A m \in T : n >= m
<1> DEFINE U == {k - n : n \in T}
<1>1. U \in SUBSET Nat /\ U # {}
  <2>1. \A n \in T : n \in 0 .. k /\ k - n \in Nat
    OBVIOUS
  <2> QED
    BY <2>1
<1>2. PICK u \in U : \A v \in U : u <= v
  BY <1>1, LeastElement
<1>3. PICK n \in T : u = k - n
  BY <1>2
<1>4. \A m \in T : n >= m
  <2> TAKE m \in T
  <2>1. k - n <= k - m
    BY <1>2, <1>3
  <2> QED
    BY <2>1
<1> QED
  BY <1>4

-----------------------------------------------------------------------------
(* The C handle: its store and the numbers in it fall along the store, and  *)
(* its cursor never outlives its row.                                       *)

Handles(L) ==
  [store : Stores(L, Numbers), cursor : Identities \cup {Live}, limit : Nat,
   number : Numbers, entered : Numbers \cup {NoNumber}, foreign : BOOLEAN]

HandleOk(g, L) ==
  /\ g \in Handles(L)
  /\ StoreOk(g.store, L, Numbers)
  /\ g.store.capacity = Unbounded
  /\ Ranked(g.store.entries)
  /\ \A p \in DOMAIN g.store.entries : g.store.entries[p].number <= g.number
  /\ Size(g.store) <= g.number
  /\ g.cursor \in Ids(g) \cup {Live}

LEMMA HandleFacts ==
  ASSUME NEW L, NEW g, HandleOk(g, L)
  PROVE  /\ Size(g.store) \in Nat /\ Size(g.store) = Len(g.store.entries)
         /\ DOMAIN g.store.entries = 1 .. Size(g.store)
         /\ g.store.entries \in Seq(Rows(L, Numbers))
         /\ Ids(g) \subseteq Identities /\ Identities \subseteq Int /\ Live \notin Ids(g)
         /\ Ids(g) = {} <=> Size(g.store) = 0
         /\ \A p \in 1 .. Size(g.store) : /\ g.store.entries[p].id \in Ids(g)
                                          /\ Position(g.store, g.store.entries[p].id) = p
                                          /\ g.store.entries[p].number \in Int
                                          /\ g.store.entries[p].line \in L
         /\ \A id \in Ids(g) : /\ Position(g.store, id) \in 1 .. Size(g.store)
                               /\ g.store.entries[Position(g.store, id)].id = id
<1>1. StoreOk(g.store, L, Numbers)
  BY DEF HandleOk
<1>2. /\ Size(g.store) \in Nat /\ Size(g.store) = Len(g.store.entries)
      /\ DOMAIN g.store.entries = 1 .. Size(g.store)
      /\ g.store.entries \in Seq(Rows(L, Numbers))
      /\ Ids(g) \subseteq Identities /\ Identities \subseteq Int /\ Live \notin Ids(g)
      /\ \A p \in DOMAIN g.store.entries : /\ g.store.entries[p] \in Rows(L, Numbers)
                                           /\ g.store.entries[p].id \in Ids(g)
  BY <1>1, StoreFacts DEF Ids
<1>3. Ids(g) = {} <=> Size(g.store) = 0
  <2>1. Size(g.store) # 0 => g.store.entries[1].id \in Ids(g)
    BY <1>2
  <2>2. Size(g.store) = 0 => DOMAIN g.store.entries = {}
    BY <1>2
  <2> QED
    BY <2>1, <2>2 DEF Ids, IdsOf
<1>4. \A p \in DOMAIN g.store.entries : Position(g.store, g.store.entries[p].id) = p
  BY <1>1, PositionOnly
<1>5. \A p \in DOMAIN g.store.entries : /\ g.store.entries[p].number \in Int
                                        /\ g.store.entries[p].line \in L
  BY <1>2, LastNumberAssumption DEF Rows, Numbers
<1>6. \A id \in Ids(g) : /\ Position(g.store, id) \in DOMAIN g.store.entries
                         /\ g.store.entries[Position(g.store, id)].id = id
  BY PositionOk DEF Ids
<1> QED
  BY <1>2, <1>3, <1>4, <1>5, <1>6

(* Only the cursor moves, to a row that is there or to none.                *)
LEMMA AtOk ==
  ASSUME NEW L, NEW g, HandleOk(g, L), NEW id \in Ids(g) \cup {Live}
  PROVE  /\ HandleOk(At(g, id), L)
         /\ At(g, id).store = g.store /\ At(g, id).cursor = id /\ Ids(At(g, id)) = Ids(g)
         /\ At(g, id).limit = g.limit /\ At(g, id).number = g.number
         /\ At(g, id).foreign = g.foreign /\ At(g, id).entered = g.entered
         /\ At(g, g.cursor) = g
         /\ \A jd : At(At(g, id), jd) = At(g, jd)
<1>1. g \in Handles(L) /\ id \in Identities \cup {Live}
  BY HandleFacts DEF HandleOk
<1>2. /\ At(g, id).store = g.store /\ At(g, id).cursor = id
      /\ At(g, id).limit = g.limit /\ At(g, id).number = g.number
      /\ At(g, id).foreign = g.foreign /\ At(g, id).entered = g.entered
      /\ At(g, id) \in Handles(L) /\ At(g, g.cursor) = g
      /\ \A jd : At(At(g, id), jd) = At(g, jd)
  BY <1>1 DEF At, Handles
<1> QED
  BY <1>2 DEF HandleOk, Ids

(* A reply that only moved the cursor; a success stands on a row.           *)
Moves(r, g) == \E id \in Ids(g) \cup {Live} : r.h = At(g, id) /\ (r.ok => id \in Ids(g))

LEMMA StandsMove ==
  ASSUME NEW L, NEW g, HandleOk(g, L)
  PROVE  /\ Moves(Failed(g), g) /\ Moves(Failed(Lost(g)), g)
         /\ \A id \in Ids(g) : Moves(Done(At(g, id)), g)
         /\ Current(g).ok => Moves(Done(g), g)
<1>1. g.cursor \in Ids(g) \cup {Live} /\ At(g, g.cursor) = g
  BY AtOk DEF HandleOk
<1>2. /\ Failed(g).h = g /\ ~Failed(g).ok /\ Failed(Lost(g)).h = At(g, Live) /\ ~Failed(Lost(g)).ok
      /\ \A id \in Ids(g) : Done(At(g, id)).h = At(g, id)
      /\ Done(g).h = g
  BY DEF Failed, Done, Lost
<1>3. Current(g).ok => g.cursor \in Ids(g)
  BY DEF Current, Done, Failed
<1> QED
  BY <1>1, <1>2, <1>3 DEF Moves

LEMMA NewestOldestMove ==
  ASSUME NEW L, NEW g, HandleOk(g, L)
  PROVE  Moves(Newest(g), g) /\ Moves(Oldest(g), g)
<1>1. Ids(g) # {} => /\ g.store.entries[1].id \in Ids(g)
                     /\ g.store.entries[Size(g.store)].id \in Ids(g)
  BY HandleFacts
<1> QED
  BY <1>1, StandsMove DEF Newest, Oldest

LEMMA OlderNewerMove ==
  ASSUME NEW L, NEW g, HandleOk(g, L)
  PROVE  Moves(MoveOlder(g), g) /\ Moves(MoveNewer(g), g)
<1>0. Size(g.store) \in Nat /\ g.cursor \in Ids(g) \cup {Live} /\ Ids(g) = IdsOf(g.store)
  BY HandleFacts DEF HandleOk, Ids
<1>1. \A p \in 1 .. Size(g.store) : g.store.entries[p].id \in Ids(g)
  BY HandleFacts
<1>2. CASE g.cursor = Live
  BY <1>2, StandsMove DEF MoveOlder, MoveNewer
<1>3. CASE g.cursor # Live
  <2>1. /\ g.cursor \in IdsOf(g.store) /\ Repaired(g.store, g.cursor) = g.cursor
        /\ Standing(g.store, g.cursor) = Position(g.store, g.cursor)
        /\ Position(g.store, g.cursor) \in 1 .. Size(g.store)
    BY <1>0, <1>3, HandleFacts DEF Repaired, Standing, Ids
  <2>2. Older(g.store, g.cursor) \in Ids(g)
    BY <1>0, <1>1, <1>3, <2>1 DEF Older
  <2>3. Newer(g.store, g.cursor) \in Ids(g) \cup {Live}
    BY <1>0, <1>1, <1>3, <2>1 DEF Newer
  <2>4. \A id \in Ids(g) : Moves(Failed(At(g, id)), g)
    BY DEF Moves, Failed
  <2>5. Moves(MoveOlder(g), g)
    BY <1>3, <2>2, <2>4, StandsMove DEF MoveOlder
  <2>6. Moves(MoveNewer(g), g)
    BY <1>3, <2>3, StandsMove DEF MoveNewer
  <2> QED
    BY <2>5, <2>6
<1> QED
  BY <1>2, <1>3

LEMMA SelectionsMove ==
  ASSUME NEW L, NEW g, HandleOk(g, L), NEW n
  PROVE  /\ Moves(SelectEvent(g, n), g)
         /\ n \in Nat => Moves(SelectNth(g, n), g)
<1>1. Moves(SelectEvent(g, n), g)
  <2>1. WithNumber(g, n) \subseteq Ids(g)
    BY DEF WithNumber
  <2>2. WithNumber(g, n) # {} => (CHOOSE id \in WithNumber(g, n) : TRUE) \in WithNumber(g, n)
    OBVIOUS
  <2>3. g.cursor \in Ids(g) => Moves(Done(g), g)
    BY StandsMove DEF Current, Done, Failed
  <2> QED
    BY <2>1, <2>2, <2>3, StandsMove DEF SelectEvent
<1>2. ASSUME n \in Nat PROVE Moves(SelectNth(g, n), g)
  <2>1. n < Size(g.store) => g.store.entries[Size(g.store) - n].id \in Ids(g)
    BY <1>2, HandleFacts
  <2>2. Size(g.store) \in Nat
    BY HandleFacts
  <2> QED
    BY <1>2, <2>1, <2>2, StandsMove DEF SelectNth
<1> QED
  BY <1>1, <1>2

(* A walk from the row under the cursor: where it stops, and what it found. *)
LEMMA WalkStops ==
  ASSUME NEW L, NEW g, HandleOk(g, L), g.cursor \in Ids(g), NEW d, NEW wanted
  PROVE  LET e == g.store.entries
             here == Position(g.store, g.cursor)
             reach == IF d = "older" THEN here .. Size(g.store) ELSE 1 .. here
             hits == {p \in reach : e[p].id \in wanted}
             r == Walk(g, d, wanted)
         IN  /\ reach \subseteq 1 .. Size(g.store) /\ reach # {} /\ here \in reach
             /\ r.ok <=> hits # {}
             /\ \E to \in IF hits = {} THEN reach ELSE hits : r.h = At(g, e[to].id)
             /\ hits = {} => r.h = At(g, e[IF d = "older" THEN Size(g.store) ELSE 1].id)
<1> DEFINE e == g.store.entries
           here == Position(g.store, g.cursor)
           reach == IF d = "older" THEN here .. Size(g.store) ELSE 1 .. here
           hits == {p \in reach : e[p].id \in wanted}
           stop == IF hits = {} THEN reach ELSE hits
           low == CHOOSE p \in stop : \A q \in stop : p <= q
           high == CHOOSE p \in stop : \A q \in stop : p >= q
           to == IF (d = "older") <=> (hits # {}) THEN low ELSE high
           r == Walk(g, d, wanted)
<1>1. here \in 1 .. Size(g.store) /\ Size(g.store) \in Nat
  BY HandleFacts
<1>2. r = [ok |-> hits # {}, h |-> At(g, e[to].id)]
  BY DEF Walk, Current, Done
<1> HIDE DEF here, r
<1>3. reach \subseteq 1 .. Size(g.store) /\ here \in reach
  BY <1>1
<1> HIDE DEF reach
<1>4. stop \subseteq reach /\ stop # {} /\ stop \in SUBSET (0 .. Size(g.store)) /\ stop \in SUBSET Nat
  <2>1. hits \subseteq reach
    OBVIOUS
  <2>2. stop \subseteq reach /\ stop # {}
    BY <1>3, <2>1
  <2> HIDE DEF stop
  <2> QED
    BY <1>1, <1>3, <2>2
<1> HIDE DEF hits
<1> HIDE DEF stop
<1>5. low \in stop /\ \A q \in stop : low <= q
  <2>1. \E p \in stop : \A q \in stop : p <= q
    BY <1>4, LeastElement
  <2> QED
    BY <2>1
<1>6. high \in stop /\ \A q \in stop : high >= q
  <2>1. \E p \in stop : \A q \in stop : p >= q
    BY <1>1, <1>4, GreatestElement
  <2> QED
    BY <2>1
<1> HIDE DEF low, high
<1>7. to \in stop
  BY <1>5, <1>6
<1>8. hits = {} => to = IF d = "older" THEN Size(g.store) ELSE 1
  <2> SUFFICES ASSUME hits = {} PROVE to = IF d = "older" THEN Size(g.store) ELSE 1
    OBVIOUS
  <2>1. stop = IF d = "older" THEN here .. Size(g.store) ELSE 1 .. here
    BY DEF stop, reach
  <2>2. CASE d = "older"
    <3>1. to = high /\ Size(g.store) \in stop /\ high \in here .. Size(g.store)
      BY <1>1, <1>6, <2>1, <2>2
    <3> QED
      BY <1>1, <1>6, <2>2, <3>1
  <2>3. CASE d # "older"
    <3>1. to = low /\ 1 \in stop /\ low \in 1 .. here
      BY <1>1, <1>5, <2>1, <2>3
    <3> QED
      BY <1>1, <1>5, <2>3, <3>1
  <2> QED
    BY <2>2, <2>3
<1> HIDE DEF to
<1>9. r.ok <=> hits # {}
  BY <1>2
<1>10. r.h = At(g, e[to].id)
  BY <1>2
<1>11. \E x \in IF hits = {} THEN reach ELSE hits : r.h = At(g, e[x].id)
  BY <1>7, <1>10 DEF stop
<1>12. hits = {} => r.h = At(g, e[IF d = "older" THEN Size(g.store) ELSE 1].id)
  BY <1>8, <1>10
<1>13. reach \subseteq 1 .. Size(g.store) /\ reach # {} /\ here \in reach
  BY <1>3
<1> QED
  BY <1>9, <1>11, <1>12, <1>13 DEF here, reach, hits, r

LEMMA WalkMoves ==
  ASSUME NEW L, NEW g, HandleOk(g, L), NEW d, NEW wanted
  PROVE  /\ Moves(Walk(g, d, wanted), g)
         /\ Walk(g, d, wanted).ok => Current(g).ok
<1>1. CASE ~Current(g).ok
  BY <1>1, StandsMove DEF Walk, Failed
<1>2. CASE Current(g).ok
  <2>1. g.cursor \in Ids(g)
    BY <1>2 DEF Current, Failed
  <2>2. PICK to \in 1 .. Size(g.store) : Walk(g, d, wanted).h = At(g, g.store.entries[to].id)
    <3> DEFINE here == Position(g.store, g.cursor)
               reach == IF d = "older" THEN here .. Size(g.store) ELSE 1 .. here
               hits == {p \in reach : g.store.entries[p].id \in wanted}
    <3>1. /\ reach \subseteq 1 .. Size(g.store)
          /\ \E to \in IF hits = {} THEN reach ELSE hits :
                 Walk(g, d, wanted).h = At(g, g.store.entries[to].id)
      BY <2>1, WalkStops
    <3>2. hits \subseteq reach
      OBVIOUS
    <3> HIDE DEF hits, reach
    <3> QED
      BY <3>1, <3>2
  <2>3. g.store.entries[to].id \in Ids(g)
    BY HandleFacts
  <2> QED
    BY <1>2, <2>2, <2>3 DEF Moves
<1> QED
  BY <1>1, <1>2

LEMMA MovesKeep ==
  ASSUME NEW L, NEW g, HandleOk(g, L), NEW r, Moves(r, g)
  PROVE  /\ HandleOk(r.h, L) /\ r.h.store = g.store /\ Ids(r.h) = Ids(g)
         /\ r.h.limit = g.limit /\ r.h.number = g.number
         /\ r.h.foreign = g.foreign /\ r.h.entered = g.entered
         /\ r.ok => r.h.cursor \in Ids(g)
         /\ \A jd \in Ids(g) \cup {Live} : At(r.h, jd) = At(g, jd)
<1> PICK id \in Ids(g) \cup {Live} : r.h = At(g, id) /\ (r.ok => id \in Ids(g))
  BY DEF Moves
<1> QED
  BY AtOk

-----------------------------------------------------------------------------
(* Going back to a row by its number.                                       *)

(* A number is that of one row at most.                                     *)
LEMMA NumbersDiffer ==
  ASSUME NEW L, NEW g, HandleOk(g, L), g.cursor \in Ids(g)
  PROVE  /\ WithNumber(g, NumberAt(g)) = {g.cursor}
         /\ \A p \in 1 .. Size(g.store) :
                g.store.entries[p].id \in WithNumber(g, NumberAt(g)) <=>
                    p = Position(g.store, g.cursor)
<1> DEFINE e == g.store.entries
           here == Position(g.store, g.cursor)
<1>1. here \in 1 .. Size(g.store) /\ e[here].id = g.cursor /\ NumberAt(g) = e[here].number
  BY HandleFacts DEF NumberAt, Entry
<1>2. \A p, q \in 1 .. Size(g.store) : e[p].number = e[q].number => p = q
  <2> SUFFICES ASSUME NEW p \in 1 .. Size(g.store), NEW q \in 1 .. Size(g.store), p < q
               PROVE  e[p].number # e[q].number
    BY HandleFacts
  <2>1. e[p].number > e[q].number
    BY HandleFacts DEF HandleOk, Ranked
  <2>2. e[p].number \in Int /\ e[q].number \in Int
    BY HandleFacts
  <2> QED
    BY <2>1, <2>2
<1>3. \A id \in Ids(g) : /\ Position(g.store, id) \in 1 .. Size(g.store)
                         /\ e[Position(g.store, id)].id = id
                         /\ Entry(g.store, id).number = e[Position(g.store, id)].number
  BY HandleFacts DEF Entry
<1>4. \A id \in Ids(g) : Entry(g.store, id).number = NumberAt(g) <=> id = g.cursor
  BY <1>1, <1>2, <1>3
<1>5. \A p \in 1 .. Size(g.store) : e[p].id \in Ids(g) /\ (e[p].id = g.cursor <=> p = here)
  BY <1>1, HandleFacts
<1> QED
  BY <1>4, <1>5 DEF WithNumber

LEMMA SelectBack ==
  ASSUME NEW L, NEW g, HandleOk(g, L), g.cursor \in Ids(g), NEW id \in Ids(g) \cup {Live}
  PROVE  SelectEvent(At(g, id), NumberAt(g)) = Done(g)
<1> DEFINE x == At(g, id)
           n == NumberAt(g)
<1>1. /\ x.store = g.store /\ x.cursor = id /\ Ids(x) = Ids(g) /\ At(x, g.cursor) = g
      /\ HandleOk(x, L) /\ At(g, g.cursor) = g
  BY AtOk
<1>2. WithNumber(x, n) = {g.cursor}
  <2>1. WithNumber(x, n) = WithNumber(g, n)
    BY <1>1 DEF WithNumber
  <2> QED
    BY <2>1, NumbersDiffer
<1>3. Ids(x) # {}
  BY <1>1
<1>4. x.cursor \in Ids(x) /\ NumberAt(x) = n => x = g
  <2> SUFFICES ASSUME x.cursor \in Ids(x), NumberAt(x) = n PROVE x = g
    OBVIOUS
  <2>1. id \in WithNumber(g, n)
    BY <1>1 DEF WithNumber, NumberAt
  <2>2. id = g.cursor
    BY <2>1, NumbersDiffer
  <2> QED
    BY <1>1, <2>2
<1>5. (CHOOSE jd \in WithNumber(x, n) : TRUE) = g.cursor
  BY <1>2
<1> HIDE DEF x, n
<1>6. SelectEvent(x, n) = Done(g)
  BY <1>1, <1>2, <1>3, <1>4, <1>5 DEF SelectEvent
<1> QED
  BY <1>6 DEF x, n

LEMMA SeekBack ==
  ASSUME NEW L, NEW g, HandleOk(g, L), g.cursor \in Ids(g), NEW q \in 1 .. Size(g.store),
         NEW d, IF d = "older" THEN q <= Position(g.store, g.cursor)
                               ELSE q >= Position(g.store, g.cursor)
  PROVE  Seek(At(g, g.store.entries[q].id), d, NumberAt(g)).h = g
<1> DEFINE e == g.store.entries
           here == Position(g.store, g.cursor)
           x == At(g, e[q].id)
           n == NumberAt(g)
           reach == IF d = "older" THEN q .. Size(g.store) ELSE 1 .. q
           hits == {p \in reach : e[p].id \in WithNumber(x, n)}
<1>1. /\ here \in 1 .. Size(g.store) /\ e[here].id = g.cursor /\ e[q].id \in Ids(g)
      /\ Position(g.store, e[q].id) = q /\ Size(g.store) \in Nat
  BY HandleFacts
<1>2. /\ x.store = g.store /\ x.cursor = e[q].id /\ Ids(x) = Ids(g) /\ At(x, g.cursor) = g
      /\ HandleOk(x, L)
  BY <1>1, AtOk
<1>3. WithNumber(x, n) = WithNumber(g, n)
  BY <1>2 DEF WithNumber
<1>4. reach \subseteq 1 .. Size(g.store) /\ here \in reach
  BY <1>1
<1>5. hits = {here}
  <2>1. \A p \in 1 .. Size(g.store) : e[p].id \in WithNumber(g, n) <=> p = here
    BY NumbersDiffer
  <2> HIDE DEF here, reach, n, x
  <2> QED
    BY <1>3, <1>4, <2>1
<1> HIDE DEF x, n
<1>6. \E to \in IF hits = {} THEN reach ELSE hits :
          Walk(x, d, WithNumber(x, n)).h = At(x, e[to].id)
  <2>1. x.cursor \in Ids(x) /\ x.store.entries = e /\ Position(x.store, x.cursor) = q
        /\ Size(x.store) = Size(g.store)
    BY <1>1, <1>2
  <2>2. \A w : LET r == Walk(x, d, w)
                   R == IF d = "older" THEN Position(x.store, x.cursor) .. Size(x.store)
                        ELSE 1 .. Position(x.store, x.cursor)
                   H == {p \in R : x.store.entries[p].id \in w}
               IN  \E to \in IF H = {} THEN R ELSE H : r.h = At(x, x.store.entries[to].id)
    BY <1>2, <2>1, WalkStops
  <2> QED
    BY <2>1, <2>2
<1>7. Walk(x, d, WithNumber(x, n)).h = At(x, e[here].id)
  <2> HIDE DEF hits, reach, here
  <2> QED
    BY <1>5, <1>6
<1>8. Seek(x, d, n).h = g
  BY <1>1, <1>2, <1>7 DEF Seek
<1> QED
  BY <1>8 DEF x, n

LEMMA LookupsGoBack ==
  ASSUME NEW L, HandleOk(h, L), base \in Int
  PROVE  /\ \A n \in Int : Got(h, n) = h
         /\ TotalBytes(h) = h
         /\ \A text, d : ~ Searched(h, text, d).ok => Searched(h, text, d).h = h
         /\ \A text, n : ~ SearchedPos(h, text, n).ok => SearchedPos(h, text, n).h = h
<1>0. Current(h).ok <=> h.cursor \in Ids(h)
  BY DEF Current, Done, Failed
<1>1. ASSUME NEW n \in Int PROVE Got(h, n) = h
  <2>1. CASE ~Gettable(h, n)
    BY <2>1 DEF Got
  <2>2. CASE Gettable(h, n)
    <3>1. h.cursor \in Ids(h) /\ Natural(n - base) \in Nat
      BY <1>0, <2>2 DEF Gettable, Natural
    <3>2. Moves(Getting(h, n), h)
      BY <3>1, SelectionsMove DEF Getting
    <3>3. PICK id \in Ids(h) \cup {Live} : Getting(h, n).h = At(h, id)
      BY <3>2 DEF Moves
    <3>4. GotBack(h, n) = Done(h).h
      BY <3>1, <3>3, SelectBack DEF GotBack
    <3> QED
      BY <2>2, <3>4 DEF Got, Done
  <2> QED
    BY <2>1, <2>2
<1>2. TotalBytes(h) = h
  <2>1. CASE ~Current(h).ok
    BY <2>1 DEF TotalBytes
  <2>2. CASE Current(h).ok
    <3>1. h.cursor \in Ids(h) /\ Ids(h) # {}
      BY <1>0, <2>2
    <3>2. Oldest(h).h = At(h, h.store.entries[Size(h.store)].id)
      BY <3>1 DEF Oldest, Done
    <3>3. /\ Size(h.store) \in 1 .. Size(h.store)
          /\ Size(h.store) >= Position(h.store, h.cursor)
      BY <3>1, HandleFacts
    <3>4. Seek(At(h, h.store.entries[Size(h.store)].id), "newer", NumberAt(h)).h = h
      BY <3>1, <3>3, SeekBack
    <3> QED
      BY <2>2, <3>2, <3>4 DEF TotalBytes
  <2> QED
    BY <2>1, <2>2
<1>3. ASSUME NEW text, NEW d, ~ Searched(h, text, d).ok PROVE Searched(h, text, d).h = h
  <2> DEFINE r == Walk(h, d, Containing(h, text))
  <2>1. CASE ~Current(h).ok
    <3>1. r = Failed(h) /\ Searched(h, text, d) = r
      BY <2>1 DEF Walk, Searched
    <3> QED
      BY <3>1 DEF Failed
  <2>2. CASE Current(h).ok
    <3>1. h.cursor \in Ids(h) /\ Moves(r, h)
      BY <1>0, <2>2, WalkMoves
    <3>2. PICK id \in Ids(h) \cup {Live} : r.h = At(h, id)
      BY <3>1 DEF Moves
    <3>3. SelectEvent(r.h, NumberAt(h)) = Done(h)
      BY <3>1, <3>2, SelectBack
    <3> HIDE DEF r
    <3>4. Searched(h, text, d) = IF r.ok THEN r ELSE Failed(SelectEvent(r.h, NumberAt(h)).h)
      BY <2>2 DEF Searched, r
    <3> QED
      BY <1>3, <3>3, <3>4 DEF Failed, Done
  <2> QED
    BY <2>1, <2>2
<1>4. ASSUME NEW text, NEW n, ~ SearchedPos(h, text, n).ok PROVE SearchedPos(h, text, n).h = h
  <2> DEFINE d == IF n > 0 THEN "older" ELSE "newer"
             b == IF n > 0 THEN "newer" ELSE "older"
             w == Containing(h, text)
             r == Walk(h, d, w)
             q == IF d = "older" THEN Size(h.store) ELSE 1
             here == Position(h.store, h.cursor)
             reach == IF d = "older" THEN here .. Size(h.store) ELSE 1 .. here
             hits == {p \in reach : h.store.entries[p].id \in w}
  <2>1. CASE ~Current(h).ok
    <3>1. r = Failed(h) /\ SearchedPos(h, text, n) = r
      BY <2>1 DEF Walk, SearchedPos
    <3> QED
      BY <3>1 DEF Failed
  <2>2. CASE Current(h).ok
    <3>1. h.cursor \in Ids(h)
      BY <1>0, <2>2
    <3>2. /\ r.ok <=> hits # {}
          /\ hits = {} => r.h = At(h, h.store.entries[q].id)
      BY <3>1, WalkStops
    <3>3. SearchedPos(h, text, n) = IF r.ok THEN r ELSE Failed(Seek(r.h, b, NumberAt(h)).h)
      BY <2>2 DEF SearchedPos
    <3> HIDE DEF r, hits
    <3>4. ~r.ok /\ r.h = At(h, h.store.entries[q].id)
      BY <1>4, <3>2, <3>3
    <3>5. /\ q \in 1 .. Size(h.store)
          /\ IF b = "older" THEN q <= here ELSE q >= here
      BY <3>1, HandleFacts
    <3>6. Seek(At(h, h.store.entries[q].id), b, NumberAt(h)).h = h
      BY <3>1, <3>5, SeekBack
    <3> QED
      BY <3>3, <3>4, <3>6 DEF Failed
  <2> QED
    BY <2>1, <2>2
<1> QED
  BY <1>1, <1>2, <1>3, <1>4

-----------------------------------------------------------------------------
(* What the operations of the handle leave.                                 *)

(* Everything about a handle but its rows, its cursor and its numbers.      *)
SameSettings(x, g) ==
  /\ x.limit = g.limit /\ x.foreign = g.foreign
  /\ x.store.unique = g.store.unique /\ x.store.capacity = g.store.capacity

LEMMA RemoveEntryOk ==
  ASSUME NEW L, NEW g, HandleOk(g, L), NEW id \in Ids(g)
  PROVE  LET x == RemoveEntry(g, id)
         IN  /\ HandleOk(x, L) /\ SameSettings(x, g)
             /\ Size(x.store) = Size(g.store) - 1
             /\ x.number = g.number /\ x.store.next = g.store.next
             /\ \A i \in 1 .. Size(g.store) - 1 :
                    x.store.entries[i] =
                        IF i < Position(g.store, id) THEN g.store.entries[i]
                        ELSE g.store.entries[i + 1]
<1> DEFINE s == g.store
           e == s.entries
           p == Position(s, id)
           heir == IF p > 1 THEN e[p - 1].id ELSE IF Size(s) > 1 THEN e[2].id ELSE Live
           t == WithoutPosition(s, p)
           x == RemoveEntry(g, id)
<1>1. /\ p \in 1 .. Size(s) /\ e[p].id = id /\ Size(s) \in Nat /\ DOMAIN e = 1 .. Size(s)
      /\ StoreOk(s, L, Numbers) /\ g \in Handles(L) /\ g.cursor \in Ids(g) \cup {Live}
  BY HandleFacts DEF HandleOk
<1>2. /\ StoreOk(t, L, Numbers) /\ Size(t) = Size(s) - 1
      /\ t = [s EXCEPT !.entries = t.entries]
      /\ Thinned(t.entries, e)
      /\ \A i \in 1 .. Size(s) - 1 : t.entries[i] = IF i < p THEN e[i] ELSE e[i + 1]
  BY <1>1, WithoutOk
<1>3. /\ x.store = t /\ x.cursor = IF g.cursor = id THEN heir ELSE g.cursor
      /\ x.limit = g.limit /\ x.foreign = g.foreign /\ x.number = g.number
      /\ x.entered = g.entered /\ x = [g EXCEPT !.store = t, !.cursor = x.cursor]
  BY <1>1 DEF RemoveEntry, Handles
<1>4. t.capacity = s.capacity /\ t.unique = s.unique /\ t.next = s.next /\ t \in Stores(L, Numbers)
  BY <1>1, <1>2 DEF StoreOk, Stores
<1> HIDE DEF t, x, p
<1>5. DOMAIN t.entries = 1 .. Size(s) - 1 /\ \A i \in DOMAIN t.entries : t.entries[i].id \in IdsOf(t)
  BY <1>1, <1>2, StoreFacts
<1>6. \A q \in 1 .. Size(s) : q # p => e[q].id \in IdsOf(t)
  <2> SUFFICES ASSUME NEW q \in 1 .. Size(s), q # p PROVE e[q].id \in IdsOf(t)
    OBVIOUS
  <2>1. CASE q < p
    BY <1>1, <1>2, <1>5, <2>1
  <2>2. CASE q > p
    <3>1. q - 1 \in 1 .. Size(s) - 1 /\ ~(q - 1 < p) /\ (q - 1) + 1 = q
      BY <1>1, <2>2
    <3> QED
      BY <1>2, <1>5, <3>1
  <2> QED
    BY <1>1, <2>1, <2>2
<1>7. x.cursor \in IdsOf(t) \cup {Live}
  <2>1. CASE g.cursor = id
    <3>1. heir \in IdsOf(t) \cup {Live}
      BY <1>1, <1>6
    <3> QED
      BY <1>3, <2>1, <3>1
  <2>2. CASE g.cursor # id
    <3>1. CASE g.cursor = Live
      BY <1>3, <2>2, <3>1
    <3>2. CASE g.cursor # Live
      <4>1. g.cursor \in Ids(g)
        BY <1>1, <3>2
      <4>2. Position(s, g.cursor) \in 1 .. Size(s) /\ e[Position(s, g.cursor)].id = g.cursor
        BY <4>1, HandleFacts
      <4> QED
        BY <1>1, <1>3, <1>6, <2>2, <4>2
    <3> QED
      BY <3>1, <3>2
  <2> QED
    BY <2>1, <2>2
<1>8. x \in Handles(L)
  <2>1. IdsOf(t) \subseteq Identities
    BY <1>2, StoreFacts
  <2>2. x.cursor \in Identities \cup {Live}
    BY <1>7, <2>1
  <2> QED
    BY <1>1, <1>3, <1>4, <2>2 DEF Handles
<1>9. Ranked(t.entries) /\ \A i \in DOMAIN t.entries : t.entries[i].number <= g.number
  <2>1. Ranked(e) /\ \A i \in DOMAIN e : e[i].number <= g.number
    BY DEF HandleOk
  <2>2. /\ Ranked(e) => Ranked(t.entries)
        /\ \A i \in DOMAIN t.entries : \E q \in DOMAIN e : t.entries[i] = e[q]
    BY <1>2, ThinnedKeeps
  <2> HIDE DEF e
  <2> QED
    BY <2>1, <2>2
<1>10. Size(t) <= g.number
  <2>1. Size(s) <= g.number /\ g.number \in Int
    BY LastNumberAssumption DEF HandleOk, Handles, Numbers
  <2> QED
    BY <1>1, <1>2, <2>1
<1>11. HandleOk(x, L)
  <2>1. t.capacity = Unbounded
    BY <1>4 DEF HandleOk
  <2> QED
    BY <1>2, <1>3, <1>7, <1>8, <1>9, <1>10, <2>1 DEF HandleOk, Ids
<1>12. SameSettings(x, g)
  BY <1>3, <1>4 DEF SameSettings
<1> QED
  BY <1>2, <1>3, <1>4, <1>11, <1>12 DEF x, p

(* H_DEL, H_DELDATA: a row is gone, or the cursor may have moved.           *)
LEMMA DeleteOk ==
  ASSUME NEW L, NEW g, HandleOk(g, L), NEW r, Moves(r, g)
  PROVE  LET x == DeleteSelected(r)
         IN  /\ HandleOk(x.h, L) /\ SameSettings(x.h, g)
             /\ x.h.number = g.number /\ x.h.store.next = g.store.next
             /\ x.ok <=> r.ok
             /\ x.ok => Size(x.h.store) = Size(g.store) - 1
             /\ ~x.ok => x.h.store = g.store
<1>1. /\ HandleOk(r.h, L) /\ r.h.store = g.store /\ Ids(r.h) = Ids(g)
      /\ r.h.limit = g.limit /\ r.h.number = g.number /\ r.h.foreign = g.foreign
      /\ r.ok => r.h.cursor \in Ids(g)
  BY MovesKeep
<1>2. SameSettings(r.h, g)
  BY <1>1 DEF SameSettings
<1>3. CASE ~r.ok
  BY <1>1, <1>2, <1>3 DEF DeleteSelected
<1>4. CASE r.ok
  <2> DEFINE x == RemoveEntry(r.h, r.h.cursor)
  <2>1. /\ HandleOk(x, L) /\ SameSettings(x, r.h) /\ Size(x.store) = Size(r.h.store) - 1
        /\ x.number = r.h.number /\ x.store.next = r.h.store.next
    BY <1>1, <1>4, RemoveEntryOk
  <2>2. DeleteSelected(r) = Done(x)
    BY <1>4 DEF DeleteSelected
  <2> HIDE DEF x
  <2>3. Done(x).h = x /\ Done(x).ok
    BY DEF Done
  <2>4. SameSettings(x, g)
    BY <1>1, <2>1 DEF SameSettings
  <2> QED
    BY <1>1, <1>4, <2>1, <2>2, <2>3, <2>4
<1> QED
  BY <1>3, <1>4

LEMMA ClearOk ==
  ASSUME NEW L, NEW g, HandleOk(g, L)
  PROVE  LET x == Clear(g)
         IN  /\ HandleOk(x, L) /\ SameSettings(x, g) /\ x.store.entries = <<>>
             /\ x.number = 0 /\ x.store.next = g.store.next /\ x.cursor = Live
<1> DEFINE x == Clear(g)
           t == Cleared(g.store)
<1>1. /\ StoreOk(t, L, Numbers) /\ t.entries = <<>> /\ t \in Stores(L, Numbers)
      /\ t.capacity = g.store.capacity /\ t.unique = g.store.unique /\ t.next = g.store.next
  <2>1. StoreOk(g.store, L, Numbers)
    BY DEF HandleOk
  <2>2. StoreOk(t, L, Numbers) /\ t.entries = <<>>
    BY <2>1, ClearedOk
  <2> QED
    BY <2>1, <2>2 DEF Cleared, StoreOk, Stores
<1>2. /\ x.store = t /\ x.cursor = Live /\ x.number = 0
      /\ x.limit = g.limit /\ x.foreign = g.foreign /\ x.entered = g.entered
      /\ x \in Handles(L)
  <2>1. x = [g EXCEPT !.store = t, !.cursor = Live, !.number = 0]
    BY DEF Clear
  <2>2. 0 \in Numbers /\ g \in Handles(L)
    BY LastNumberAssumption DEF HandleOk, Numbers
  <2> HIDE DEF x, t
  <2> QED
    BY <1>1, <2>1, <2>2 DEF Handles
<1> HIDE DEF x, t
<1>3. Len(<<>>) = 0 /\ DOMAIN <<>> = {}
  OBVIOUS
<1>4. t.capacity = Unbounded
  BY <1>1 DEF HandleOk
<1>5. HandleOk(x, L)
  BY <1>1, <1>2, <1>3, <1>4 DEF HandleOk, Ranked, Size
<1>6. SameSettings(x, g)
  BY <1>1, <1>2 DEF SameSettings
<1> QED
  BY <1>1, <1>2, <1>5, <1>6 DEF x

(* A line that is given the next number, before the limit is applied.       *)
Lengthened(g, line) ==
  [g EXCEPT !.store = Pushed(@, line, g.number + 1), !.number = @ + 1, !.cursor = g.store.next]

Row(g, line) == [id |-> g.store.next, line |-> line, number |-> g.number + 1]

LEMMA LengthenedOk ==
  ASSUME NEW L, NEW g, HandleOk(g, L), NEW line \in L, Inserts(g, line)
  PROVE  LET x == Lengthened(g, line)
         IN  /\ HandleOk(x, L) /\ SameSettings(x, g)
             /\ x.store.entries = <<Row(g, line)>> \o g.store.entries
             /\ Row(g, line) \in Rows(L, Numbers)
             /\ x.number = g.number + 1 /\ x.cursor = g.store.next /\ x.cursor # Live
             /\ x.store.next = IF g.store.next = LastId THEN None ELSE g.store.next + 1
             /\ x.entered = g.entered
<1> DEFINE s == g.store
           e == s.entries
           x == Lengthened(g, line)
           t == Pushed(s, line, g.number + 1)
           row == Row(g, line)
<1>1. /\ g.number \in Numbers /\ g.number + 1 \in Numbers /\ g.number \in Nat
      /\ s.next # None /\ StoreOk(s, L, Numbers) /\ s.capacity = Unbounded /\ g \in Handles(L)
  BY LastNumberAssumption DEF Inserts, Numbered, Accepts, HandleOk, Handles, Numbers
<1>2. /\ StoreOk(t, L, Numbers) /\ t.capacity = s.capacity /\ t.unique = s.unique
      /\ t.next = IF s.next = LastId THEN None ELSE s.next + 1
      /\ row \in Rows(L, Numbers) /\ t.entries = <<row>> \o e
  BY <1>1, PushedOk DEF Row
<1>3. t \in Stores(L, Numbers) /\ s.next \in Identities /\ s.next # Live
  BY <1>1, <1>2 DEF StoreOk, Stores, None, Live
<1> HIDE DEF t
<1>4. /\ x.store = t /\ x.number = g.number + 1 /\ x.cursor = s.next
      /\ x.limit = g.limit /\ x.foreign = g.foreign /\ x.entered = g.entered
      /\ x \in Handles(L)
  <2>1. x = [g EXCEPT !.store = t, !.number = g.number + 1, !.cursor = s.next]
    BY DEF Lengthened, t
  <2> HIDE DEF x
  <2> QED
    BY <1>1, <1>3, <2>1 DEF Handles
<1> HIDE DEF x
<1>5. e \in Seq(Rows(L, Numbers)) /\ Size(s) = Len(e) /\ Size(s) \in Nat /\ row.number = g.number + 1
      /\ row.id = s.next
  BY <1>1, StoreFacts DEF Row
<1>6. Ranked(t.entries)
  <2>1. Rows(L, Numbers) \subseteq Rows(L, Int)
    BY DEF Rows, Numbers
  <2>2. e \in Seq(Rows(L, Int)) /\ row \in Rows(L, Int)
    BY <1>2, <1>5, <2>1
  <2>3. \A p \in DOMAIN e : e[p].number < row.number
    <3> TAKE p \in DOMAIN e
    <3>1. e[p].number <= g.number /\ e[p].number \in Int
      BY HandleFacts DEF HandleOk
    <3> QED
      BY <1>1, <1>5, <3>1
  <2>4. Ranked(e)
    BY DEF HandleOk
  <2> HIDE DEF e, row
  <2> QED
    BY <1>2, <2>2, <2>3, <2>4, RankedCons
<1>7. /\ Len(<<row>> \o e) = Len(e) + 1 /\ (<<row>> \o e)[1] = row /\ 1 \in DOMAIN (<<row>> \o e)
      /\ \A p \in DOMAIN (<<row>> \o e) :
             p = 1 \/ (p - 1 \in DOMAIN e /\ (<<row>> \o e)[p] = e[p - 1])
  BY <1>2, <1>5, Shifted
<1>8. \A p \in DOMAIN t.entries : t.entries[p].number <= g.number + 1
  <2> SUFFICES ASSUME NEW p \in DOMAIN t.entries PROVE t.entries[p].number <= g.number + 1
    OBVIOUS
  <2>1. CASE p = 1
    BY <1>1, <1>2, <1>5, <1>7, <2>1
  <2>2. CASE p # 1
    <3>1. p - 1 \in DOMAIN e /\ t.entries[p] = e[p - 1]
      BY <1>2, <1>7, <2>2
    <3>2. e[p - 1].number <= g.number /\ e[p - 1].number \in Int
      BY <3>1, HandleFacts DEF HandleOk
    <3> QED
      BY <1>1, <3>1, <3>2
  <2> QED
    BY <2>1, <2>2
<1>9. Size(t) <= g.number + 1
  <2>1. Size(t) = Size(s) + 1 /\ Size(s) <= g.number
    BY <1>2, <1>5, <1>7 DEF Size, HandleOk
  <2> QED
    BY <1>1, <1>5, <2>1
<1>10. s.next \in IdsOf(t)
  BY <1>2, <1>5, <1>7 DEF IdsOf
<1>11. HandleOk(x, L)
  BY <1>1, <1>2, <1>4, <1>6, <1>8, <1>9, <1>10 DEF HandleOk, Ids
<1>12. SameSettings(x, g)
  BY <1>1, <1>2, <1>4 DEF SameSettings
<1> QED
  BY <1>2, <1>3, <1>4, <1>11, <1>12 DEF x

(* The limit is applied with the cursor on the newest row.                  *)
LEMMA ShrinkOk ==
  ASSUME NEW L, NEW g, HandleOk(g, L), Size(g.store) > 0, g.cursor = g.store.entries[1].id
  PROVE  LET x == ShrinkTo(g, g.limit)
         IN  /\ HandleOk(x, L) /\ SameSettings(x, g)
             /\ x.number = g.number /\ x.store.next = g.store.next /\ x.entered = g.entered
             /\ Size(x.store) = IF Size(g.store) <= g.limit THEN Size(g.store) ELSE g.limit
             /\ \A i \in 1 .. Size(x.store) : x.store.entries[i] = g.store.entries[i]
             /\ Size(g.store) <= g.limit => x = g
<1> DEFINE s == g.store
           e == s.entries
           x == ShrinkTo(g, g.limit)
           f == SubSeq(e, 1, g.limit)
           t == [s EXCEPT !.entries = f]
           c == IF f = <<>> THEN Live ELSE g.cursor
<1>1. /\ Size(s) \in Nat /\ e \in Seq(Rows(L, Numbers)) /\ Size(s) = Len(e) /\ g.limit \in Nat
      /\ StoreOk(s, L, Numbers) /\ g \in Handles(L) /\ g.number \in Nat
  BY HandleFacts, LastNumberAssumption DEF HandleOk, Handles, Numbers
<1>2. CASE Size(s) <= g.limit
  BY <1>2 DEF ShrinkTo, SameSettings
<1>3. CASE ~(Size(s) <= g.limit)
  <2>1. /\ f \in Seq(Rows(L, Numbers)) /\ Len(f) = g.limit /\ Thinned(f, e)
        /\ \A i \in 1 .. g.limit : f[i] = e[i]
    BY <1>1, <1>3, FrontThins
  <2>2. f = <<>> <=> g.limit = 0
    BY <1>1, <2>1
  <2>3. DOMAIN f = 1 .. g.limit
    BY <2>1
  <2> HIDE DEF f
  <2>4. /\ t.entries = f /\ t.next = s.next /\ t.capacity = s.capacity /\ t.unique = s.unique
        /\ t \in Stores(L, Numbers)
    BY <1>1, <2>1 DEF StoreOk, Stores
  <2>5. StoreOk(t, L, Numbers) /\ Size(t) = g.limit
    <3>1. Len(f) <= Size(s)
      BY <1>1, <1>3, <2>1
    <3>2. StoreOk(t, L, Numbers)
      BY <1>1, <2>1, <2>4, <3>1, FewerEntries
    <3> QED
      BY <2>1, <2>4, <3>2 DEF Size
  <2>6. x = [g EXCEPT !.store.entries = f, !.cursor = c]
    BY <1>3 DEF ShrinkTo, f
  <2> HIDE DEF x, c
  <2>7. /\ x.store = t /\ x.cursor = c
        /\ x.limit = g.limit /\ x.foreign = g.foreign /\ x.number = g.number /\ x.entered = g.entered
        /\ x = [g EXCEPT !.store = t, !.cursor = c]
    BY <1>1, <2>6 DEF Handles
  <2> HIDE DEF t
  <2>8. c \in IdsOf(t) \cup {Live}
    <3>1. CASE f = <<>>
      BY <3>1 DEF c
    <3>2. CASE f # <<>>
      <4>1. 1 \in DOMAIN t.entries /\ t.entries[1].id = g.cursor
        BY <1>1, <2>1, <2>2, <2>3, <2>4, <3>2
      <4> QED
        BY <3>2, <4>1 DEF c, IdsOf
    <3> QED
      BY <3>1, <3>2
  <2>9. x \in Handles(L)
    <3>1. IdsOf(t) \subseteq Identities
      BY <2>5, StoreFacts
    <3> QED
      BY <1>1, <2>4, <2>7, <2>8, <3>1 DEF Handles
  <2>10. Ranked(t.entries) /\ \A i \in DOMAIN t.entries : t.entries[i].number <= g.number
    <3>1. Ranked(e) /\ \A i \in DOMAIN e : e[i].number <= g.number
      BY DEF HandleOk
    <3>2. /\ Ranked(e) => Ranked(f)
          /\ \A i \in DOMAIN f : \E q \in DOMAIN e : f[i] = e[q]
      BY <2>1, ThinnedKeeps
    <3> HIDE DEF e
    <3> QED
      BY <2>4, <3>1, <3>2
  <2>11. Size(t) <= g.number
    <3>1. Size(s) <= g.number
      BY DEF HandleOk
    <3> QED
      BY <1>1, <1>3, <2>5, <3>1
  <2>12. HandleOk(x, L)
    <3>1. t.capacity = Unbounded
      BY <2>4 DEF HandleOk
    <3> QED
      BY <2>5, <2>7, <2>8, <2>9, <2>10, <2>11, <3>1 DEF HandleOk, Ids
  <2>13. SameSettings(x, g)
    BY <2>4, <2>7 DEF SameSettings
  <2>14. \A i \in 1 .. Size(x.store) : x.store.entries[i] = e[i]
    BY <2>1, <2>4, <2>5, <2>7
  <2> QED
    BY <1>3, <2>4, <2>5, <2>7, <2>12, <2>13, <2>14 DEF x
<1> QED
  BY <1>2, <1>3

(* H_ENTER and the insertion under H_ADD: a line that goes in is the newest *)
(* row, below the limit; one that does not leaves the store alone.          *)
LEMMA InsertOk ==
  ASSUME NEW L, NEW g, HandleOk(g, L), NEW line \in L
  PROVE  LET r == Insert(g, line)
             x == r.h
         IN  /\ HandleOk(x, L) /\ SameSettings(x, g) /\ x.entered = g.entered
             /\ r.ok \in BOOLEAN
             /\ ~Inserts(g, line) => x = g /\ (r.ok => IsDuplicate(g.store, line))
             /\ Inserts(g, line) =>
                  /\ r.ok /\ x.number = g.number + 1
                  /\ x.store.next = IF g.store.next = LastId THEN None ELSE g.store.next + 1
                  /\ Size(x.store) = IF Size(g.store) + 1 <= g.limit THEN Size(g.store) + 1
                                     ELSE g.limit
                  /\ \A i \in 1 .. Size(x.store) :
                         x.store.entries[i] = IF i = 1 THEN Row(g, line)
                                              ELSE g.store.entries[i - 1]
<1> DEFINE r == Insert(g, line)
           y == Lengthened(g, line)
           x == ShrinkTo(y, g.limit)
<1>1. CASE ~Inserts(g, line)
  <2>1. /\ r.h = g /\ r.ok \in BOOLEAN
        /\ r.ok => IsDuplicate(g.store, line)
    BY <1>1 DEF Insert, Numbered
  <2> HIDE DEF r
  <2>2. SameSettings(g, g)
    BY DEF SameSettings
  <2> QED
    BY <1>1, <2>1, <2>2 DEF r
<1>2. CASE Inserts(g, line)
  <2>1. /\ HandleOk(y, L) /\ SameSettings(y, g)
        /\ y.store.entries = <<Row(g, line)>> \o g.store.entries
        /\ Row(g, line) \in Rows(L, Numbers)
        /\ y.number = g.number + 1 /\ y.cursor = g.store.next
        /\ y.store.next = IF g.store.next = LastId THEN None ELSE g.store.next + 1
        /\ y.entered = g.entered
    BY <1>2, LengthenedOk
  <2>2. Insert(g, line) = Done(x)
    BY <1>2 DEF Insert, Entered, Lengthened
  <2> HIDE DEF y
  <2>3. /\ Size(g.store) \in Nat /\ Size(g.store) = Len(g.store.entries)
        /\ g.store.entries \in Seq(Rows(L, Numbers))
    BY HandleFacts
  <2>4. /\ Size(y.store) = Size(g.store) + 1
        /\ y.store.entries[1] = Row(g, line)
        /\ \A i \in DOMAIN y.store.entries : i = 1 \/ y.store.entries[i] = g.store.entries[i - 1]
    BY <2>1, <2>3, Shifted DEF Size
  <2>5. y.cursor = y.store.entries[1].id /\ Size(y.store) > 0 /\ y.limit = g.limit
    BY <2>1, <2>3, <2>4 DEF Row, SameSettings
  <2>6. /\ HandleOk(x, L) /\ SameSettings(x, y) /\ x.number = y.number
        /\ x.store.next = y.store.next /\ x.entered = y.entered
        /\ Size(x.store) = IF Size(y.store) <= y.limit THEN Size(y.store) ELSE y.limit
        /\ \A i \in 1 .. Size(x.store) : x.store.entries[i] = y.store.entries[i]
    BY <2>1, <2>5, ShrinkOk
  <2> HIDE DEF x
  <2>7. Done(x).h = x /\ Done(x).ok
    BY DEF Done
  <2>8. SameSettings(x, g)
    BY <2>1, <2>6 DEF SameSettings
  <2>9. Size(x.store) <= Size(y.store) /\ Size(x.store) \in Nat
        /\ DOMAIN y.store.entries = 1 .. Size(y.store)
    BY <2>1, <2>3, <2>4, <2>6, HandleFacts
  <2>10. \A i \in 1 .. Size(x.store) :
             x.store.entries[i] = IF i = 1 THEN Row(g, line) ELSE g.store.entries[i - 1]
    <3> TAKE i \in 1 .. Size(x.store)
    <3>1. i \in DOMAIN y.store.entries
      BY <2>3, <2>4, <2>9
    <3> QED
      BY <2>4, <2>6, <3>1
  <2> QED
    BY <1>2, <2>1, <2>2, <2>4, <2>5, <2>6, <2>7, <2>8, <2>10
<1> QED
  BY <1>1, <1>2

LEMMA EnterOk ==
  ASSUME NEW L, NEW g, HandleOk(g, L), NEW line \in L
  PROVE  LET r == Enter(g, line)
             x == r.h
         IN  /\ HandleOk(x, L) /\ SameSettings(x, g) /\ r.ok \in BOOLEAN
             /\ ~r.ok => x = g
             /\ ~Inserts(g, line) => /\ x.store = g.store /\ x.number = g.number
                                     /\ r.ok => IsDuplicate(g.store, line)
             /\ Inserts(g, line) =>
                  /\ r.ok /\ x.number = g.number + 1
                  /\ x.store.next = IF g.store.next = LastId THEN None ELSE g.store.next + 1
                  /\ Size(x.store) = IF Size(g.store) + 1 <= g.limit THEN Size(g.store) + 1
                                     ELSE g.limit
                  /\ \A i \in 1 .. Size(x.store) :
                         x.store.entries[i] = IF i = 1 THEN Row(g, line)
                                              ELSE g.store.entries[i - 1]
<1> DEFINE r == Insert(g, line)
           y == r.h
           n == IF Inserts(g, line) THEN y.number ELSE 0
           x == [y EXCEPT !.entered = n]
<1>1. /\ HandleOk(y, L) /\ SameSettings(y, g)
      /\ r.ok \in BOOLEAN
      /\ ~Inserts(g, line) => y = g /\ (r.ok => IsDuplicate(g.store, line))
      /\ Inserts(g, line) =>
           /\ r.ok /\ y.number = g.number + 1
           /\ y.store.next = IF g.store.next = LastId THEN None ELSE g.store.next + 1
           /\ Size(y.store) = IF Size(g.store) + 1 <= g.limit THEN Size(g.store) + 1 ELSE g.limit
           /\ \A i \in 1 .. Size(y.store) :
                  y.store.entries[i] = IF i = 1 THEN Row(g, line) ELSE g.store.entries[i - 1]
  BY InsertOk
<1>2. Enter(g, line) = IF ~r.ok THEN r ELSE Done(x)
  BY DEF Enter
<1> HIDE DEF r
<1>3. y \in Handles(L) /\ n \in Numbers
  <2>1. y \in Handles(L)
    BY <1>1 DEF HandleOk
  <2>2. y.number \in Numbers /\ 0 \in Numbers
    BY <2>1, LastNumberAssumption DEF Handles, Numbers
  <2> QED
    BY <2>1, <2>2
<1> HIDE DEF n, y
<1>4. /\ x.store = y.store /\ x.cursor = y.cursor /\ x.limit = y.limit /\ x.number = y.number
      /\ x.foreign = y.foreign /\ x \in Handles(L)
  BY <1>3 DEF Handles
<1> HIDE DEF x
<1>5. HandleOk(x, L)
  BY <1>1, <1>4 DEF HandleOk, Ids
<1>6. SameSettings(x, g)
  BY <1>1, <1>4 DEF SameSettings
<1>7. CASE ~r.ok
  BY <1>1, <1>2, <1>7 DEF y
<1>8. CASE r.ok
  <2>1. Enter(g, line) = Done(x) /\ Done(x).h = x /\ Done(x).ok
    BY <1>2, <1>8 DEF Done
  <2>2. CASE Inserts(g, line)
    <3>1. /\ x.number = g.number + 1
          /\ x.store.next = IF g.store.next = LastId THEN None ELSE g.store.next + 1
          /\ Size(x.store) = IF Size(g.store) + 1 <= g.limit THEN Size(g.store) + 1 ELSE g.limit
          /\ \A i \in 1 .. Size(x.store) :
                 x.store.entries[i] = IF i = 1 THEN Row(g, line) ELSE g.store.entries[i - 1]
      BY <1>1, <1>4, <2>2
    <3> QED
      BY <1>5, <1>6, <2>1, <2>2, <3>1
  <2>3. CASE ~Inserts(g, line)
    <3>1. x.store = g.store /\ x.number = g.number /\ IsDuplicate(g.store, line)
      BY <1>1, <1>4, <1>8, <2>3
    <3> QED
      BY <1>5, <1>6, <2>1, <2>3, <3>1
  <2> QED
    BY <2>2, <2>3
<1> QED
  BY <1>1, <1>7, <1>8

(* The row under the cursor gets another line and keeps its number.         *)
LEMMA RewriteOk ==
  ASSUME NEW L, NEW g, HandleOk(g, L), g.cursor \in Ids(g), NEW line \in L
  PROVE  LET x == [g EXCEPT !.store = Rewritten(@, g.cursor, line, NumberAt(g))]
         IN  /\ HandleOk(x, L) /\ SameSettings(x, g)
             /\ Size(x.store) = Size(g.store) /\ Ids(x) = Ids(g)
             /\ x.number = g.number /\ x.store.next = g.store.next /\ x.cursor = g.cursor
             /\ \A jd \in Ids(g) : Entry(x.store, jd).number = Entry(g.store, jd).number
<1> DEFINE s == g.store
           e == s.entries
           p == Position(s, g.cursor)
           t == Rewritten(s, g.cursor, line, NumberAt(g))
           x == [g EXCEPT !.store = Rewritten(@, g.cursor, line, NumberAt(g))]
<1>1. /\ p \in DOMAIN e /\ NumberAt(g) = e[p].number /\ NumberAt(g) \in Numbers
      /\ g.cursor \in IdsOf(s) /\ StoreOk(s, L, Numbers) /\ g \in Handles(L)
      /\ DOMAIN e = 1 .. Size(s)
  <2>1. p \in DOMAIN e /\ StoreOk(s, L, Numbers) /\ DOMAIN e = 1 .. Size(s)
    BY HandleFacts DEF HandleOk
  <2>2. e[p] \in Rows(L, Numbers)
    BY <2>1, StoreFacts
  <2>3. NumberAt(g) = e[p].number
    BY DEF NumberAt, Entry
  <2>4. e[p].number \in Numbers
    BY <2>2 DEF Rows
  <2>5. g.cursor \in IdsOf(s) /\ g \in Handles(L)
    BY DEF Ids, HandleOk
  <2> QED
    BY <2>1, <2>3, <2>4, <2>5
<1>2. /\ StoreOk(t, L, Numbers) /\ IdsOf(t) = IdsOf(s) /\ Size(t) = Size(s)
      /\ t = [s EXCEPT !.entries = t.entries]
      /\ DOMAIN t.entries = DOMAIN e
      /\ \A q \in DOMAIN e : t.entries[q].id = e[q].id
      /\ \A q \in DOMAIN e : q # p => t.entries[q] = e[q]
      /\ t.entries[p].number = NumberAt(g)
  <2> DEFINE n == NumberAt(g)
             id == g.cursor
  <2>1. StoreOk(s, L, Numbers) /\ id \in IdsOf(s) /\ line \in L /\ n \in Numbers
    BY <1>1
  <2> HIDE DEF s, id, n
  <2>2. LET u == Rewritten(s, id, line, n)
            q == Position(s, id)
        IN  /\ StoreOk(u, L, Numbers) /\ IdsOf(u) = IdsOf(s) /\ Size(u) = Size(s)
            /\ u = [s EXCEPT !.entries = u.entries]
            /\ DOMAIN u.entries = DOMAIN s.entries
            /\ \A k \in DOMAIN s.entries : u.entries[k].id = s.entries[k].id
            /\ \A k \in DOMAIN s.entries : k # q => u.entries[k] = s.entries[k]
            /\ u.entries[q].number = n
    BY ONLY <2>1, RewrittenOk
  <2> QED
    BY <2>2 DEF s, id, n
<1>3. /\ t.capacity = s.capacity /\ t.unique = s.unique /\ t.next = s.next
      /\ t \in Stores(L, Numbers)
  BY <1>1, <1>2 DEF StoreOk, Stores
<1>4. x = [g EXCEPT !.store = t]
  OBVIOUS
<1> HIDE DEF t, x
<1>5. /\ x.store = t /\ x.cursor = g.cursor /\ x.limit = g.limit /\ x.foreign = g.foreign
      /\ x.number = g.number /\ x \in Handles(L)
  BY <1>1, <1>3, <1>4 DEF Handles
<1>6. \A q \in DOMAIN e : t.entries[q].number = e[q].number
  BY <1>1, <1>2
<1>7. HandleOk(x, L)
  <2>1. /\ Ranked(e) /\ \A q \in DOMAIN e : e[q].number <= g.number
        /\ Size(s) <= g.number /\ g.cursor \in Ids(g) \cup {Live} /\ s.capacity = Unbounded
    BY DEF HandleOk
  <2>2. Ranked(t.entries)
    <3> HIDE DEF e
    <3> QED
      BY <1>2, <1>6, <2>1 DEF Ranked
  <2>3. \A q \in DOMAIN t.entries : t.entries[q].number <= g.number
    BY <1>2, <1>6, <2>1
  <2> QED
    BY <1>2, <1>3, <1>5, <2>1, <2>2, <2>3 DEF HandleOk, Ids
<1>8. SameSettings(x, g)
  BY <1>3, <1>5 DEF SameSettings
<1>9. Ids(x) = Ids(g)
  BY <1>2, <1>5 DEF Ids
<1>10. ASSUME NEW jd \in Ids(g) PROVE Entry(t, jd).number = Entry(s, jd).number
  <2>1. Position(s, jd) \in DOMAIN e /\ e[Position(s, jd)].id = jd
    BY <1>1, HandleFacts
  <2>2. t.entries[Position(s, jd)].id = jd
    BY <1>2, <2>1
  <2>3. Position(t, t.entries[Position(s, jd)].id) = Position(s, jd)
    BY <1>2, <2>1, PositionOnly
  <2> QED
    BY <1>6, <2>1, <2>2, <2>3 DEF Entry
<1>11. \A jd \in Ids(g) : Entry(x.store, jd).number = Entry(g.store, jd).number
  BY <1>5, <1>10
<1> QED
  BY <1>2, <1>3, <1>5, <1>7, <1>8, <1>9, <1>11 DEF x

LEMMA LineIsIn ==
  ASSUME NEW L, NEW g, HandleOk(g, L), g.cursor \in Ids(g)
  PROVE  LineAt(g) \in L
  BY HandleFacts DEF LineAt, Entry

LEMMA AddOk ==
  ASSUME NEW L, NEW g, HandleOk(g, L), NEW text \in L, \A line \in L : line \o text \in L
  PROVE  HandleOk(Add(g, text).h, L)
<1>1. CASE g.cursor = Live
  BY <1>1, InsertOk DEF Add
<1>2. CASE g.cursor # Live
  <2>1. g.cursor \in Ids(g)
    BY <1>2 DEF HandleOk
  <2>2. LineAt(g) \o text \in L
    BY <2>1, LineIsIn
  <2>3. HandleOk([g EXCEPT !.store = Rewritten(@, g.cursor, LineAt(g) \o text, NumberAt(g))], L)
    BY <2>1, <2>2, RewriteOk
  <2> QED
    BY <1>2, <2>1, <2>3 DEF Add, Done
<1> QED
  BY <1>1, <1>2

LEMMA ReplaceOk ==
  ASSUME NEW L, NEW g, HandleOk(g, L), NEW line \in L
  PROVE  LET x == Replace(g, line).h
         IN  /\ HandleOk(x, L) /\ SameSettings(x, g) /\ Size(x.store) = Size(g.store)
             /\ x.number = g.number /\ x.store.next = g.store.next /\ Ids(x) = Ids(g)
             /\ g.cursor \in Ids(g) =>
                  /\ x.cursor = g.cursor
                  /\ \A jd \in Ids(g) : Entry(x.store, jd).number = Entry(g.store, jd).number
<1>1. CASE g.cursor \in Ids(g)
  <2> DEFINE x == [g EXCEPT !.store = Rewritten(@, g.cursor, line, NumberAt(g))]
  <2>1. /\ HandleOk(x, L) /\ SameSettings(x, g) /\ Size(x.store) = Size(g.store)
        /\ x.number = g.number /\ x.store.next = g.store.next /\ Ids(x) = Ids(g)
        /\ x.cursor = g.cursor
        /\ \A jd \in Ids(g) : Entry(x.store, jd).number = Entry(g.store, jd).number
    BY <1>1, RewriteOk
  <2>2. Replace(g, line) = Done(x)
    BY <1>1 DEF Replace
  <2> HIDE DEF x
  <2>3. Replace(g, line).h = x
    BY <2>2 DEF Done
  <2> QED
    BY <2>1, <2>3
<1>2. CASE g.cursor \notin Ids(g)
  <2>1. Replace(g, line) = Failed(At(g, Live))
    BY <1>2 DEF Replace, Lost
  <2>2. Replace(g, line).h = At(g, Live)
    BY <2>1 DEF Failed
  <2> QED
    BY <1>2, <2>2, AtOk DEF SameSettings
<1> QED
  BY <1>1, <1>2

(* H_SETSIZE, H_SETUNIQUE and H_FUNC.                                       *)
LEMMA SettingsOk ==
  ASSUME NEW L, NEW g, HandleOk(g, L)
  PROVE  /\ \A n \in Nat : HandleOk([g EXCEPT !.limit = n], L)
         /\ \A b \in BOOLEAN : HandleOk([g EXCEPT !.store.unique = b], L)
         /\ \A n \in Numbers \cup {NoNumber} : HandleOk([g EXCEPT !.entered = n], L)
         /\ \A b \in BOOLEAN : HandleOk([g EXCEPT !.foreign = b], L)
<1>1. g \in Handles(L) /\ g.store \in Stores(L, Numbers)
  BY DEF HandleOk, StoreOk
<1>2. ASSUME NEW n \in Nat PROVE HandleOk([g EXCEPT !.limit = n], L)
  BY <1>1 DEF HandleOk, Handles, Ids
<1>3. ASSUME NEW n \in Numbers \cup {NoNumber} PROVE HandleOk([g EXCEPT !.entered = n], L)
  BY <1>1 DEF HandleOk, Handles, Ids
<1>4. ASSUME NEW b \in BOOLEAN PROVE HandleOk([g EXCEPT !.foreign = b], L)
  BY <1>1 DEF HandleOk, Handles, Ids
<1>5. ASSUME NEW b \in BOOLEAN PROVE HandleOk([g EXCEPT !.store.unique = b], L)
  <2> DEFINE s == g.store
             t == [s EXCEPT !.unique = b]
             x == [g EXCEPT !.store.unique = b]
  <2>1. /\ t.entries = s.entries /\ t.next = s.next /\ t.capacity = s.capacity
        /\ t \in Stores(L, Numbers)
    BY <1>1 DEF Stores
  <2>2. x = [g EXCEPT !.store = t]
    OBVIOUS
  <2> HIDE DEF t, x
  <2>3. /\ x.store = t /\ x.cursor = g.cursor /\ x.number = g.number /\ x \in Handles(L)
    BY <1>1, <2>1, <2>2 DEF Handles
  <2>4. StoreOk(t, L, Numbers)
    BY <2>1 DEF HandleOk, StoreOk, Size, Given
  <2>5. HandleOk(x, L)
    BY <2>1, <2>3, <2>4 DEF HandleOk, Ids, IdsOf, Size
  <2> QED
    BY <2>5 DEF x
<1> QED
  BY <1>2, <1>3, <1>4, <1>5

LEMMA NewHandleOk == ASSUME NEW L PROVE HandleOk(NewHandle, L)
<1>1. StoreOk(EmptyStore, L, Numbers)
  BY EmptyOk
<1>2. /\ EmptyStore.entries = <<>> /\ EmptyStore.capacity = Unbounded
      /\ DOMAIN <<>> = {} /\ Len(<<>>) = 0
  BY DEF EmptyStore
<1>3. /\ NewHandle.store = EmptyStore /\ NewHandle.cursor = Live /\ NewHandle.number = 0
      /\ NewHandle \in Handles(L)
  BY <1>1, LastNumberAssumption DEF NewHandle, Handles, StoreOk, Numbers
<1> QED
  BY <1>1, <1>2, <1>3 DEF HandleOk, Ranked, Size

LEMMA InstallOk ==
  ASSUME NEW L, NEW g, HandleOk(g, L), NEW complete
  PROVE  HandleOk(Install(g, complete).h, L)
<1> DEFINE forgotten == [g EXCEPT !.entered = NoNumber]
           emptied == IF g.foreign THEN forgotten ELSE Clear(forgotten)
<1>1. HandleOk(forgotten, L)
  BY SettingsOk
<1> HIDE DEF forgotten
<1>2. HandleOk(emptied, L)
  BY <1>1, ClearOk
<1> HIDE DEF emptied
<1>3. HandleOk([emptied EXCEPT !.foreign = TRUE], L)
  BY <1>2, SettingsOk
<1>4. Install(g, complete) =
        IF complete THEN Done([emptied EXCEPT !.foreign = TRUE])
        ELSE IF g.foreign THEN Failed(NewHandle) ELSE Failed(forgotten)
  BY DEF Install, forgotten, emptied
<1>5. \A x : Done(x).h = x /\ Failed(x).h = x
  BY DEF Done, Failed
<1> QED
  BY <1>1, <1>3, <1>4, <1>5, NewHandleOk

LEMMA TextsAreWords ==
  Texts \subseteq Seq(Letters) /\ \A s, t \in Seq(Letters) : s \o t \in Seq(Letters)
<1>1. <<>> \in Seq(Letters) /\ \A x \in Letters : <<x>> \in Seq(Letters)
  OBVIOUS
<1>2. \A s, t \in Seq(Letters) : s \o t \in Seq(Letters)
  OBVIOUS
<1> QED
  BY <1>1, <1>2 DEF Texts

(* Every call of histedit.h on a handle.                                    *)
LEMMA CallsOk ==
  ASSUME HandleOk(h, Seq(Letters)), CNext
  PROVE  HandleOk(h, Seq(Letters))'
<1> DEFINE L == Seq(Letters)
<1>0. \A x : Done(x).h = x
  BY DEF Done
<1>1. \A r : Moves(r, h) => HandleOk(r.h, L) /\ HandleOk(DeleteSelected(r).h, L)
  BY MovesKeep, DeleteOk
<1> SUFFICES \E x : h' = x /\ HandleOk(x, L)
  OBVIOUS
<1>2. CASE HFirst \/ HLast \/ HNext \/ HPrev
  <2>1. Moves(Newest(h), h) /\ Moves(Oldest(h), h) /\ Moves(MoveOlder(h), h) /\ Moves(MoveNewer(h), h)
    BY NewestOldestMove, OlderNewerMove
  <2> QED
    BY <1>1, <1>2, <2>1 DEF HFirst, HLast, HNext, HPrev, Leaves
<1>3. CASE HSet \/ HDel \/ HNth \/ HDelData
  <2>1. Numbers \subseteq Nat
    BY DEF Numbers
  <2>2. \A n \in Numbers : Moves(SelectEvent(h, n), h) /\ Moves(SelectNth(h, n), h)
    BY <2>1, SelectionsMove
  <2> QED
    BY <1>1, <1>3, <2>2 DEF HSet, HDel, HNth, HDelData, Leaves, DeleteEvent, DeleteNth
<1>4. CASE HClear
  BY <1>0, <1>4, ClearOk DEF HClear, Leaves
<1>5. CASE HEnter
  BY <1>5, EnterOk, TextsAreWords DEF HEnter, Leaves
<1>6. CASE HAdd \/ HAppend
  <2>1. \A text \in Texts : HandleOk(Add(h, text).h, L)
    BY AddOk, TextsAreWords
  <2>2. ASSUME NEW text \in Texts PROVE HandleOk(AppendTo(h, text).h, L)
    <3>1. Moves(SelectEvent(h, h.entered), h)
      BY SelectionsMove
    <3>2. HandleOk(SelectEvent(h, h.entered).h, L)
      BY <1>1, <3>1
    <3>3. HandleOk(Add(SelectEvent(h, h.entered).h, text).h, L)
      BY <3>2, AddOk, TextsAreWords
    <3> QED
      BY <3>2, <3>3 DEF AppendTo
  <2> QED
    BY <1>6, <2>1, <2>2 DEF HAdd, HAppend, Leaves
<1>7. CASE HReplace
  BY <1>7, ReplaceOk, TextsAreWords DEF HReplace, Leaves
<1>8. CASE HSeek \/ HSearch
  BY <1>1, <1>8, WalkMoves DEF HSeek, HSearch, Seek, Search, Leaves
<1>9. CASE HSetSize \/ HSetUnique
  <2>1. \A x : Failed(x).h = x
    BY DEF Failed
  <2>2. \A n \in Sizes : HandleOk(SetSize(h, n).h, L)
    BY <1>0, <2>1, SettingsOk, SizesAssumption DEF SetSize
  <2>3. \A b \in BOOLEAN : HandleOk(SetUnique(h, b).h, L)
    BY <1>0, <2>1, SettingsOk DEF SetUnique
  <2> QED
    BY <1>9, <2>2, <2>3 DEF HSetSize, HSetUnique
<1>10. CASE HFunc
  BY <1>10, InstallOk DEF HFunc
<1>11. CASE HForeignEnter
  BY <1>11, SettingsOk DEF HForeignEnter
<1>12. CASE HSave
  <2>1. Moves(Newest(h), h)
    BY NewestOldestMove
  <2> QED
    BY <1>0, <1>1, <1>12, <2>1 DEF HSave, Leaves, Saved
<1> QED
  BY <1>2, <1>3, <1>4, <1>5, <1>6, <1>7, <1>8, <1>9, <1>10, <1>11, <1>12 DEF CNext

-----------------------------------------------------------------------------
(* Induction along an interval, and functions defined by it.                *)

LEMMA Inducts ==
  ASSUME NEW n \in Nat, NEW T \in SUBSET (0 .. n), 0 \in T,
         \A k \in 1 .. n : k - 1 \in T => k \in T
  PROVE  T = 0 .. n
<1> DEFINE U == {k \in 0 .. n : k \notin T}
<1> SUFFICES ASSUME U # {} PROVE FALSE
  OBVIOUS
<1>1. U \in SUBSET Nat
  OBVIOUS
<1>2. PICK u \in U : \A v \in U : u <= v
  BY <1>1, LeastElement
<1>3. u \in 0 .. n /\ u \notin T /\ u # 0
  BY <1>2
<1>4. u \in 1 .. n /\ u - 1 \in 0 .. n /\ u - 1 \notin U
  BY <1>2, <1>3
<1> QED
  BY <1>3, <1>4

Steppers(n, S) == [(1 .. n) \X S -> S]

Traces(n, S, a, D) ==
  {g \in [0 .. n -> S] : g[0] = a /\ \A k \in 1 .. n : g[k] = D[<<k, g[k - 1]>>]}

LEMMA Iterates ==
  ASSUME NEW n \in Nat, NEW S, NEW a \in S, NEW D \in Steppers(n, S)
  PROVE  Traces(n, S, a, D) # {}
<1>0. D \in [(1 .. n) \X S -> S]
  BY DEF Steppers
<1> DEFINE Good(g, m) == /\ g \in [0 .. n -> S] /\ g[0] = a
                         /\ \A k \in 1 .. m : g[k] = D[<<k, g[k - 1]>>]
           T == {m \in 0 .. n : \E g : Good(g, m)}
<1>1. 0 \in T
  <2> DEFINE g == [k \in 0 .. n |-> a]
  <2>1. Good(g, 0)
    OBVIOUS
  <2>2. 0 \in 0 .. n
    OBVIOUS
  <2> HIDE DEF Good, g
  <2> QED
    BY <2>1, <2>2
<1>2. \A m \in 1 .. n : m - 1 \in T => m \in T
  <2> SUFFICES ASSUME NEW m \in 1 .. n, m - 1 \in T PROVE \E g : Good(g, m)
    <3> HIDE DEF Good
    <3> QED
      OBVIOUS
  <2>1. PICK g : Good(g, m - 1)
    <3> HIDE DEF Good
    <3> QED
      OBVIOUS
  <2> DEFINE x == D[<<m, g[m - 1]>>]
             f == [k \in 0 .. n |-> IF k = m THEN x ELSE g[k]]
  <2>2. g[m - 1] \in S /\ m - 1 \in 0 .. n
    BY <2>1
  <2>3. x \in S
    BY <1>0, <2>2
  <2>4. f \in [0 .. n -> S] /\ f[0] = a
    BY <2>1, <2>3
  <2>5. \A k \in 1 .. m : f[k] = D[<<k, f[k - 1]>>]
    <3> TAKE k \in 1 .. m
    <3>1. k - 1 \in 0 .. n /\ k \in 0 .. n /\ k - 1 # m /\ f[k - 1] = g[k - 1]
      OBVIOUS
    <3>2. CASE k = m
      <4>1. f[k] = x
        BY <3>1, <3>2
      <4> QED
        BY <3>1, <3>2, <4>1
    <3>3. CASE k # m
      <4>1. k \in 1 .. m - 1 /\ f[k] = g[k]
        BY <3>1, <3>3
      <4> QED
        BY <2>1, <3>1, <4>1
    <3> QED
      BY <3>2, <3>3
  <2>6. Good(f, m)
    BY <2>4, <2>5
  <2> QED
    BY <2>6
<1> HIDE DEF Good
<1>3. T = 0 .. n
  BY <1>1, <1>2, Inducts
<1>4. PICK g : Good(g, n)
  BY <1>3
<1>5. g \in Traces(n, S, a, D)
  BY <1>4 DEF Good, Traces
<1> QED
  BY <1>5

(* What stifle_history trims: as many of the oldest rows as its count says.  *)
LEMMA TrimmedOk ==
  ASSUME NEW L, NEW g, HandleOk(g, L), NEW size \in Nat, NEW max \in Nat
  PROVE  LET n == Size(g.store)
             gone == IF size <= max THEN 0
                     ELSE IF n <= max THEN IF n > 0 THEN 1 ELSE 0 ELSE n - max
             x == Trimmed(g, size, max)
         IN  /\ gone \in 0 .. n
             /\ HandleOk(x, L) /\ SameSettings(x, g) /\ x.number = g.number
             /\ x.store.next = g.store.next
             /\ Size(x.store) = n - gone
             /\ gone = 0 => x = g
<1> DEFINE n == Size(g.store)
           gone == IF size <= max THEN 0
                   ELSE IF n <= max THEN IF n > 0 THEN 1 ELSE 0 ELSE n - max
           S == {x \in Handles(L) : HandleOk(x, L)}
           D == [p \in (1 .. gone) \X S |-> DeleteNth(p[2], 0).h]
           Eq(f) == f = [k \in 0 .. gone |-> IF k = 0 THEN g ELSE DeleteNth(f[k - 1], 0).h]
           f == CHOOSE f : Eq(f)
<1>1. n \in Nat /\ gone \in 0 .. n
  BY HandleFacts
<1>2. Trimmed(g, size, max) = f[gone]
  BY DEF Trimmed
<1> HIDE DEF gone
<1>3. \A x \in S : /\ DeleteNth(x, 0).h \in S /\ SameSettings(DeleteNth(x, 0).h, x)
                   /\ DeleteNth(x, 0).h.number = x.number
                   /\ DeleteNth(x, 0).h.store.next = x.store.next
                   /\ Size(x.store) > 0 => Size(DeleteNth(x, 0).h.store) = Size(x.store) - 1
  <2> TAKE x \in S
  <2>1. HandleOk(x, L) /\ 0 \in Nat
    OBVIOUS
  <2>2. Moves(SelectNth(x, 0), x)
    BY <2>1, SelectionsMove
  <2>3. /\ HandleOk(DeleteNth(x, 0).h, L) /\ SameSettings(DeleteNth(x, 0).h, x)
        /\ DeleteNth(x, 0).h.number = x.number /\ DeleteNth(x, 0).h.store.next = x.store.next
        /\ DeleteNth(x, 0).ok <=> SelectNth(x, 0).ok
        /\ DeleteNth(x, 0).ok => Size(DeleteNth(x, 0).h.store) = Size(x.store) - 1
    BY <2>1, <2>2, DeleteOk DEF DeleteNth
  <2>4. Size(x.store) > 0 => SelectNth(x, 0).ok
    BY <2>1, HandleFacts DEF SelectNth, Done
  <2>5. DeleteNth(x, 0).h \in Handles(L)
    BY <2>3 DEF HandleOk
  <2> QED
    BY <2>3, <2>4, <2>5
<1>4. g \in S
  BY DEF HandleOk
<1> HIDE DEF S
<1>5. Eq(f)
  <2>1. D \in Steppers(gone, S)
    BY <1>3 DEF Steppers
  <2>2. \A k \in 1 .. gone, x \in S : D[<<k, x>>] = DeleteNth(x, 0).h
    OBVIOUS
  <2> HIDE DEF D
  <2>3. PICK a \in [0 .. gone -> S] : /\ a[0] = g
                                      /\ \A k \in 1 .. gone : a[k] = D[<<k, a[k - 1]>>]
    <3>1. gone \in Nat
      BY <1>1
    <3>2. Traces(gone, S, g, D) # {}
      BY ONLY <1>4, <2>1, <3>1, Iterates
    <3> QED
      BY <3>2 DEF Traces
  <2>4. \A k \in 0 .. gone : a[k] = IF k = 0 THEN g ELSE DeleteNth(a[k - 1], 0).h
    <3> TAKE k \in 0 .. gone
    <3>1. CASE k = 0
      BY <2>3, <3>1
    <3>2. CASE k # 0
      <4>1. k \in 1 .. gone /\ k - 1 \in 0 .. gone
        BY <1>1, <3>2
      <4>2. a[k - 1] \in S
        BY <2>3, <4>1
      <4> QED
        BY <2>2, <2>3, <3>2, <4>1, <4>2
    <3> QED
      BY <3>1, <3>2
  <2>5. Eq(a)
    BY <2>3, <2>4
  <2> HIDE DEF Eq
  <2> QED
    BY <2>5
<1> HIDE DEF f
<1>6. f[0] = g /\ \A k \in 1 .. gone : f[k] = DeleteNth(f[k - 1], 0).h
  BY <1>1, <1>5
<1> DEFINE Trims(x, k) == /\ x \in S /\ SameSettings(x, g) /\ x.number = g.number
                          /\ x.store.next = g.store.next /\ Size(x.store) = n - k
           T == {k \in 0 .. gone : Trims(f[k], k)}
<1>7. T = 0 .. gone
  <2>1. 0 \in T
    BY <1>1, <1>4, <1>6 DEF SameSettings
  <2>2. \A k \in 1 .. gone : k - 1 \in T => k \in T
    <3> SUFFICES ASSUME NEW k \in 1 .. gone, Trims(f[k - 1], k - 1) PROVE Trims(f[k], k)
      OBVIOUS
    <3>1. Size(f[k - 1].store) > 0
      BY <1>1
    <3>2. /\ f[k] \in S /\ SameSettings(f[k], f[k - 1]) /\ f[k].number = f[k - 1].number
          /\ f[k].store.next = f[k - 1].store.next
          /\ Size(f[k].store) = Size(f[k - 1].store) - 1
      BY <1>3, <1>6, <3>1
    <3> QED
      BY <1>1, <3>2 DEF SameSettings
  <2>3. T \in SUBSET (0 .. gone) /\ gone \in Nat
    BY <1>1
  <2> HIDE DEF T
  <2> QED
    BY <2>1, <2>2, <2>3, Inducts
<1>8. Trims(f[gone], gone)
  BY <1>1, <1>7
<1>9. HandleOk(f[gone], L)
  BY <1>8 DEF S
<1>10. gone = 0 => f[gone] = g
  BY <1>6
<1> HIDE DEF n
<1> QED
  BY <1>1, <1>2, <1>8, <1>9, <1>10 DEF n, gone

-----------------------------------------------------------------------------
(* Loading lines into a handle.                                             *)

(* No line enters any more: the numbers or the identities are used up.      *)
Blocked(g) == ~Numbered(g) \/ g.store.next = None

(* Without the rule against repetitions a line enters unless that.          *)
LEMMA EnterPlain ==
  ASSUME NEW L, NEW g, HandleOk(g, L), ~g.store.unique, NEW line \in L
  PROVE  /\ Enter(g, line) \in [ok : BOOLEAN, h : Handles(L)]
         /\ Enter(g, line).ok <=> ~Blocked(g)
         /\ Inserts(g, line) <=> ~Blocked(g)
<1>1. ~IsDuplicate(g.store, line)
  BY DEF IsDuplicate
<1>2. Inserts(g, line) <=> ~Blocked(g)
  BY <1>1 DEF Inserts, Accepts, Blocked
<1>3. Enter(g, line).ok <=> ~Blocked(g)
  BY <1>1, <1>2, EnterOk
<1>4. Enter(g, line).h \in Handles(L)
  BY EnterOk DEF HandleOk
<1>5. \E ok \in BOOLEAN : \E x : Enter(g, line) = [ok |-> ok, h |-> x]
  <2>1. \A x : Done(x) = [ok |-> TRUE, h |-> x]
    BY DEF Done
  <2>2. CASE Inserts(g, line)
    <3>1. Insert(g, line).ok
      BY <2>1, <2>2 DEF Insert
    <3> QED
      BY <2>1, <3>1 DEF Enter
  <2>3. CASE ~Inserts(g, line)
    <3>1. Insert(g, line) = [ok |-> FALSE, h |-> g]
      BY <1>1, <2>3 DEF Insert
    <3>2. Enter(g, line) = [ok |-> FALSE, h |-> g]
      BY <3>1 DEF Enter
    <3> QED
      BY <3>2
  <2> QED
    BY <2>2, <2>3
<1>6. Enter(g, line) \in [ok : BOOLEAN, h : Handles(L)]
  <2>1. PICK ok \in BOOLEAN : \E y : Enter(g, line) = [ok |-> ok, h |-> y]
    BY <1>5
  <2> PICK x : Enter(g, line) = [ok |-> ok, h |-> x]
    BY <2>1
  <2>2. x \in Handles(L)
    BY <1>4, <2>1
  <2> QED
    BY <2>1, <2>2
<1> QED
  BY <1>2, <1>3, <1>6

Replies(L) == {r \in [ok : BOOLEAN, h : Handles(L)] : HandleOk(r.h, L) /\ ~r.h.store.unique}

LEMMA LoadSteps ==
  ASSUME NEW L, NEW g, HandleOk(g, L), ~g.store.unique, NEW lines \in Seq(L)
  PROVE  \E a \in [0 .. Len(lines) -> Replies(L)] :
             /\ a[0] = Done(g) /\ Load(g, lines) = a[Len(lines)]
             /\ \A k \in 1 .. Len(lines) :
                    a[k] = IF a[k - 1].ok THEN Enter(a[k - 1].h, lines[k]) ELSE a[k - 1]
<1> DEFINE n == Len(lines)
           S == Replies(L)
           Next1(r, k) == IF r.ok THEN Enter(r.h, lines[k]) ELSE r
           D == [p \in (1 .. n) \X S |-> Next1(p[2], p[1])]
           Eq(f) == f = [k \in 0 .. n |-> IF k = 0 THEN Done(g) ELSE Next1(f[k - 1], k)]
           f == CHOOSE f : Eq(f)
<1>1. Load(g, lines) = f[n]
  BY DEF Load
<1>2. n \in Nat /\ \A k \in 1 .. n : lines[k] \in L
  OBVIOUS
<1> HIDE DEF n
<1>3. Done(g) \in S
  BY DEF Done, Replies, HandleOk
<1>4. \A r \in S, k \in 1 .. n : Next1(r, k) \in S
  <2> TAKE r \in S, k \in 1 .. n
  <2>1. CASE r.ok
    <3>1. HandleOk(r.h, L) /\ ~r.h.store.unique /\ lines[k] \in L
      BY <1>2 DEF Replies
    <3>2. /\ Enter(r.h, lines[k]) \in [ok : BOOLEAN, h : Handles(L)]
          /\ HandleOk(Enter(r.h, lines[k]).h, L)
          /\ SameSettings(Enter(r.h, lines[k]).h, r.h)
      BY <3>1, EnterPlain, EnterOk
    <3> QED
      BY <2>1, <3>1, <3>2 DEF Replies, SameSettings
  <2>2. CASE ~r.ok
    BY <2>2
  <2> QED
    BY <2>1, <2>2
<1> HIDE DEF S, Next1
<1>5. PICK a \in [0 .. n -> S] : a[0] = Done(g) /\ \A k \in 1 .. n : a[k] = D[<<k, a[k - 1]>>]
  <2>1. D \in Steppers(n, S)
    BY <1>4 DEF Steppers
  <2> HIDE DEF D
  <2>2. n \in Nat
    BY <1>2
  <2>3. Traces(n, S, Done(g), D) # {}
    BY ONLY <1>3, <2>1, <2>2, Iterates
  <2> QED
    BY <2>3 DEF Traces
<1>6. \A k \in 1 .. n : a[k] = Next1(a[k - 1], k)
  <2> TAKE k \in 1 .. n
  <2>1. k - 1 \in 0 .. n
    BY <1>2
  <2>2. a[k - 1] \in S
    BY <2>1
  <2> QED
    BY <1>5, <2>2
<1> HIDE DEF D
<1>7. Eq(a)
  <2>1. \A k \in 0 .. n : a[k] = IF k = 0 THEN Done(g) ELSE Next1(a[k - 1], k)
    BY <1>2, <1>5, <1>6
  <2> QED
    BY <1>5, <2>1
<1>8. Eq(f)
  <2> HIDE DEF Eq
  <2> QED
    BY <1>7
<1> HIDE DEF f
<1>9. f[0] = Done(g) /\ \A k \in 1 .. n : f[k] = Next1(f[k - 1], k)
  BY <1>2, <1>8
<1> DEFINE T == {k \in 0 .. n : f[k] = a[k]}
<1>10. T = 0 .. n
  <2>1. 0 \in T
    BY <1>2, <1>5, <1>9
  <2>2. \A k \in 1 .. n : k - 1 \in T => k \in T
    BY <1>6, <1>9
  <2> HIDE DEF T
  <2> QED
    BY <1>2, <2>1, <2>2, Inducts DEF T
<1>11. f[n] = a[n]
  BY <1>2, <1>10
<1> QED
  BY <1>1, <1>5, <1>6, <1>11 DEF Next1, S, n

LEMMA LoadOk ==
  ASSUME NEW L, NEW g, HandleOk(g, L), ~g.store.unique, NEW lines \in Seq(L)
  PROVE  LET r == Load(g, lines)
             x == r.h
         IN  /\ HandleOk(x, L) /\ SameSettings(x, g) /\ r.ok \in BOOLEAN
             /\ ~r.ok => Blocked(x)
             /\ Blocked(g) => Blocked(x)
             /\ Size(g.store) <= g.limit => Size(x.store) <= x.limit
<1> DEFINE n == Len(lines)
           Fits(x) == Size(x.store) <= x.limit
           Sound(r) == /\ r \in Replies(L) /\ SameSettings(r.h, g)
                       /\ ~r.ok => Blocked(r.h)
                       /\ Blocked(g) => Blocked(r.h)
                       /\ Fits(g) => Fits(r.h)
<1>1. n \in Nat /\ \A k \in 1 .. n : lines[k] \in L
  OBVIOUS
<1>2. PICK a \in [0 .. n -> Replies(L)] :
        /\ a[0] = Done(g) /\ Load(g, lines) = a[n]
        /\ \A k \in 1 .. n :
               a[k] = IF a[k - 1].ok THEN Enter(a[k - 1].h, lines[k]) ELSE a[k - 1]
  BY LoadSteps
<1> HIDE DEF n
<1> DEFINE T == {k \in 0 .. n : Sound(a[k])}
<1>3. 0 \in T
  <2>0. 0 \in 0 .. n
    BY <1>1
  <2>1. a[0] \in Replies(L) /\ a[0].h = g /\ a[0].ok
    <3>1. a[0] = Done(g) /\ a[0] \in Replies(L)
      BY ONLY <1>2, <2>0
    <3>2. Done(g).h = g /\ Done(g).ok
      BY DEF Done
    <3> QED
      BY <3>1, <3>2
  <2>2. SameSettings(a[0].h, g) /\ (Fits(g) => Fits(a[0].h)) /\ (Blocked(g) => Blocked(a[0].h))
    BY <2>1 DEF SameSettings
  <2>3. Sound(a[0])
    <3> HIDE DEF Fits
    <3> QED
      BY <2>1, <2>2
  <2> HIDE DEF Sound
  <2> QED
    BY <2>0, <2>3
<1>4. \A k \in 1 .. n : k - 1 \in T => k \in T
  <2> SUFFICES ASSUME NEW k \in 1 .. n, Sound(a[k - 1]) PROVE Sound(a[k])
    BY <1>1
  <2> DEFINE y == a[k - 1].h
             r == Enter(y, lines[k])
  <2>1. CASE ~a[k - 1].ok
    BY <1>2, <2>1
  <2>2. CASE a[k - 1].ok
    <3>1. a[k] = r /\ a[k] \in Replies(L)
      BY <1>1, <1>2, <2>2
    <3>2. HandleOk(y, L) /\ ~y.store.unique /\ lines[k] \in L
      BY <1>1 DEF Replies
    <3> HIDE DEF y
    <3>3. CASE Blocked(y)
      <4>1. ~r.ok /\ r.h = y
        BY <3>2, <3>3, EnterPlain, EnterOk
      <4> QED
        BY <3>1, <3>3, <4>1 DEF y
    <3>4. CASE ~Blocked(y)
      <4>1. /\ r.ok /\ SameSettings(r.h, y)
            /\ Size(r.h.store) = IF Size(y.store) + 1 <= y.limit THEN Size(y.store) + 1
                                 ELSE y.limit
        BY <3>2, <3>4, EnterPlain, EnterOk
      <4> HIDE DEF r
      <4>2. Fits(r.h)
        <5>1. y.limit \in Nat /\ Size(y.store) \in Nat /\ r.h.limit = y.limit
          BY <3>2, <4>1, HandleFacts DEF HandleOk, Handles, SameSettings
        <5> QED
          BY <4>1, <5>1
      <4>3. SameSettings(r.h, g)
        BY <4>1 DEF SameSettings, y
      <4>4. ~Blocked(g)
        BY <3>4 DEF y
      <4> HIDE DEF Fits
      <4> QED
        BY <3>1, <4>1, <4>2, <4>3, <4>4
    <3> QED
      BY <3>3, <3>4
  <2> QED
    BY <2>1, <2>2
<1>5. Sound(a[n])
  <2>1. T = 0 .. n
    <3> HIDE DEF T
    <3> QED
      BY <1>1, <1>3, <1>4, Inducts DEF T
  <2>2. n \in T
    BY <1>1, <2>1
  <2> QED
    BY <2>2
<1> QED
  BY <1>2, <1>5 DEF Replies

-----------------------------------------------------------------------------
(* readline's list: the handle, and the copy of its size.                   *)

Words == Seq(Letters) \cup {Header}

(* The list of a readline application.  Where lines can still enter, the    *)
(* copy is right and the limit is kept: a load only fails, and leaves the   *)
(* copy behind, where no line can ever enter again.                         *)
ListOk(g, count, late) ==
  /\ HandleOk(g, Words)
  /\ ~g.foreign /\ ~g.store.unique
  /\ Blocked(g) \/ (~late /\ Size(g.store) <= g.limit)
  /\ late \/ count = Size(g.store)

LEMMA TextsAreListed == Texts \subseteq Words /\ Header \in Words
  BY TextsAreWords DEF Words

LEMMA MovedList ==
  ASSUME NEW g, NEW count, NEW late, ListOk(g, count, late), NEW r, Moves(r, g)
  PROVE  ListOk(r.h, count, late)
<1>1. HandleOk(g, Words)
  BY DEF ListOk
<1>2. /\ HandleOk(r.h, Words) /\ r.h.store = g.store
      /\ r.h.limit = g.limit /\ r.h.number = g.number /\ r.h.foreign = g.foreign
  BY <1>1, MovesKeep
<1> QED
  BY <1>2 DEF ListOk, Blocked, Numbered

LEMMA ListMoves ==
  ASSUME NEW g, NEW count, NEW late, ListOk(g, count, late)
  PROVE  /\ ListOk(Newest(g).h, count, late) /\ ListOk(Oldest(g).h, count, late)
         /\ \A n : ListOk(SelectEvent(g, n).h, count, late)
         /\ \A n \in Nat : ListOk(SelectNth(g, n).h, count, late)
         /\ \A d, wanted : ListOk(Walk(g, d, wanted).h, count, late)
         /\ \A d, n : ListOk(Seek(g, d, n).h, count, late)
         /\ \A d, prefix : ListOk(Search(g, d, prefix).h, count, late)
<1>1. HandleOk(g, Words)
  BY DEF ListOk
<1>2. Moves(Newest(g), g) /\ Moves(Oldest(g), g)
  BY <1>1, NewestOldestMove
<1>3. \A n : Moves(SelectEvent(g, n), g) /\ (n \in Nat => Moves(SelectNth(g, n), g))
  BY <1>1, SelectionsMove
<1>4. \A d, wanted : Moves(Walk(g, d, wanted), g)
  BY <1>1, WalkMoves
<1>5. \A r : Moves(r, g) => ListOk(r.h, count, late)
  BY MovedList
<1>6. \A d, wanted : ListOk(Walk(g, d, wanted).h, count, late)
  BY <1>4, <1>5
<1> QED
  BY <1>2, <1>3, <1>5, <1>6 DEF Seek, Search

(* A search of a readline entry point, found or not.                        *)
LEMMA SearchesMove ==
  ASSUME NEW g, NEW count, NEW late, ListOk(g, count, late), NEW text
  PROVE  /\ \A d : ListOk(Searched(g, text, d).h, count, late)
         /\ \A pos : ListOk(SearchedPos(g, text, pos).h, count, late)
<1>1. ASSUME NEW x, NEW d, NEW n, ListOk(x, count, late)
      PROVE  /\ ListOk(Failed(SelectEvent(x, n).h).h, count, late)
             /\ ListOk(Failed(Seek(x, d, n).h).h, count, late)
  BY <1>1, ListMoves DEF Failed
<1>2. ASSUME NEW d PROVE ListOk(Searched(g, text, d).h, count, late)
  <2> DEFINE r == Walk(g, d, Containing(g, text))
  <2>1. ListOk(r.h, count, late)
    BY ListMoves
  <2>2. \/ Searched(g, text, d) = r
        \/ Searched(g, text, d) = Failed(SelectEvent(r.h, NumberAt(g)).h)
    BY DEF Searched
  <2> HIDE DEF r
  <2> QED
    BY <1>1, <2>1, <2>2
<1>3. ASSUME NEW pos PROVE ListOk(SearchedPos(g, text, pos).h, count, late)
  <2> DEFINE r == Walk(g, IF pos > 0 THEN "older" ELSE "newer", Containing(g, text))
  <2>1. ListOk(r.h, count, late)
    BY ListMoves
  <2>2. \/ SearchedPos(g, text, pos) = r
        \/ SearchedPos(g, text, pos)
             = Failed(Seek(r.h, IF pos > 0 THEN "newer" ELSE "older", NumberAt(g)).h)
    BY DEF SearchedPos
  <2> HIDE DEF r
  <2> QED
    BY <1>1, <2>1, <2>2
<1> QED
  BY <1>2, <1>3

LEMMA ReplacedList ==
  ASSUME NEW g, NEW count, NEW late, ListOk(g, count, late), NEW line \in Words
  PROVE  ListOk(Replace(g, line).h, count, late)
<1> DEFINE x == Replace(g, line).h
<1>1. HandleOk(g, Words)
  BY DEF ListOk
<1>2. /\ HandleOk(x, Words) /\ SameSettings(x, g) /\ Size(x.store) = Size(g.store)
      /\ x.number = g.number /\ x.store.next = g.store.next
  BY <1>1, ReplaceOk
<1> HIDE DEF x
<1>3. ListOk(x, count, late)
  BY <1>2 DEF ListOk, Blocked, Numbered, SameSettings
<1> QED
  BY <1>3 DEF x

(* The integers an application reads.                                       *)
IntegersOk == base \in Int /\ offset \in Int /\ length \in Nat /\ behind \in BOOLEAN

KeptList == ListOk(h, length, behind) /\ IntegersOk

(* What a lookup may do: the handle moved on the same list, the offset set. *)
Borrowed == /\ ListOk(h', length, behind) /\ offset' \in Int
            /\ UNCHANGED <<base, length, behind>>

LEMMA BorrowedKeeps == KeptList /\ Borrowed => KeptList'
<1> SUFFICES ASSUME KeptList, Borrowed PROVE KeptList'
  OBVIOUS
<1>1. IntegersOk' /\ length' = length /\ behind' = behind
  BY DEF KeptList, IntegersOk, Borrowed
<1>2. ListOk(h', length', behind')
  BY <1>1 DEF Borrowed
<1> QED
  BY <1>1, <1>2 DEF KeptList

LEMMA LookupsKeepList ==
  ASSUME KeptList, LookupCalls
  PROVE  Borrowed /\ UNCHANGED files
<1> DEFINE Good(x) == ListOk(x, length, behind)
<1>1. Good(h) /\ base \in Int /\ offset \in Int /\ length \in Nat /\ HandleOk(h, Words)
  BY DEF KeptList, IntegersOk, ListOk
<1>2. ASSUME NEW x, Good(x)
      PROVE  /\ Good(Newest(x).h) /\ Good(Oldest(x).h)
             /\ \A n : Good(SelectEvent(x, n).h)
             /\ \A d, n : Good(Seek(x, d, n).h)
             /\ \A d, prefix : Good(Search(x, d, prefix).h)
             /\ \A text, d : Good(Searched(x, text, d).h)
             /\ \A text, pos : Good(SearchedPos(x, text, pos).h)
             /\ \A line \in Words : Good(Replace(x, line).h)
  BY <1>2, ListMoves, SearchesMove, ReplacedList
<1>3. (\A n \in Int : Good(Got(h, n))) /\ Good(TotalBytes(h))
  BY <1>1, LookupsGoBack
<1> HIDE DEF Good
<1>4. \A x : Looks(x) /\ Good(x) => Borrowed /\ UNCHANGED files
  BY <1>1 DEF Looks, globals, Borrowed, Good
<1>5. CASE HistoryTotalBytes \/ HistoryList \/ CurrentHistory \/ LatestEvent
  BY <1>1, <1>2, <1>3, <1>4, <1>5
     DEF HistoryTotalBytes, HistoryList, CurrentHistory, LatestEvent
<1>6. ASSUME NEW n \in Positions, HistoryGet(n) \/ HistorySetPos(n)
      PROVE  Borrowed /\ UNCHANGED files
  <2>1. n \in Int
    BY PositionsAssumption
  <2>2. CASE HistoryGet(n)
    BY <1>3, <1>4, <2>1, <2>2 DEF HistoryGet
  <2>3. CASE HistorySetPos(n)
    BY <1>1, <2>1, <2>3 DEF HistorySetPos, Borrowed, Good
  <2> QED
    BY <1>6, <2>2, <2>3
<1>7. ASSUME NEW n \in Positions, NEW back \in BOOLEAN, NumberedEvent(n, back)
      PROVE  Borrowed /\ UNCHANGED files
  <2> DEFINE num == IF back THEN length - n + base ELSE n
  <2>1. num \in Int
    BY <1>1, PositionsAssumption
  <2>2. Looks(Got(h, num))
    BY <1>7 DEF NumberedEvent
  <2> HIDE DEF num
  <2> QED
    BY <1>3, <1>4, <2>1, <2>2
<1>8. ASSUME NEW by \in {-1, 1}, StepHistory(by) PROVE Borrowed /\ UNCHANGED files
  <2>1. h' \in {h, Oldest(h).h, Seek(Oldest(h).h, "newer", offset + by + 1).h}
    BY <1>8 DEF StepHistory
  <2>2. Good(h')
    BY <1>1, <1>2, <2>1
  <2>3. offset' \in Int /\ UNCHANGED <<base, length, behind, files>>
    BY <1>1, <1>8 DEF StepHistory
  <2> QED
    BY <2>2, <2>3 DEF Borrowed, Good
<1>9. ASSUME NEW n \in Positions, NEW line \in Texts \cup {Absent}, ReplaceHistoryEntry(n, line)
      PROVE  Borrowed /\ UNCHANGED files
  <2> DEFINE found == Seek(Oldest(h).h, "newer", n)
             left == Replacing(h, n, line)
  <2>0. left = IF ~ Current(h).ok THEN Failed(h)
               ELSE IF ~ found.ok \/ line = Absent THEN Failed(found.h)
               ELSE SelectEvent(Replace(found.h, line).h, NumberAt(h))
    BY DEF Replacing
  <2>1. Good(found.h)
    BY <1>1, <1>2
  <2>2. line # Absent => line \in Words
    BY TextsAreListed
  <2>3. Looks(left.h)
    BY <1>9 DEF ReplaceHistoryEntry
  <2> HIDE DEF found, left
  <2>4. Good(left.h)
    BY <1>1, <1>2, <2>0, <2>1, <2>2 DEF Failed
  <2> QED
    BY <1>4, <2>3, <2>4
<1>10. ASSUME NEW text \in Texts, NEW d \in Directions,
              HistorySearch(text, d) \/ HistorySearchPrefix(text, d)
       PROVE  Borrowed /\ UNCHANGED files
  BY <1>1, <1>2, <1>4, <1>10 DEF HistorySearch, HistorySearchPrefix
<1>11. ASSUME NEW text \in Texts, NEW n \in Positions, HistorySearchPos(text, n)
       PROVE  Borrowed /\ UNCHANGED files
  <2>1. n \in Int /\ -n \in Int
    BY PositionsAssumption
  <2>2. h' \in {h, SearchedPos(h, text, n).h}
    BY <1>11 DEF HistorySearchPos
  <2>3. offset' \in Int /\ UNCHANGED <<base, length, behind, files>>
    BY <1>1, <1>11, <2>1 DEF HistorySearchPos
  <2>4. Good(h')
    BY <1>1, <1>2, <2>2
  <2> QED
    BY <2>3, <2>4 DEF Borrowed, Good
<1>12. ASSUME NEW text \in Texts, NEW inside \in BOOLEAN, SearchedEvent(text, inside)
       PROVE  Borrowed /\ UNCHANGED files
  <2> DEFINE r == IF inside THEN Searched(h, text, "older") ELSE Search(h, "older", text)
             x == EventSearch(h, text, inside).h
  <2>1. Good(r.h)
    BY <1>1, <1>2
  <2>2. Looks(x)
    BY <1>12 DEF SearchedEvent
  <2>3. EventSearch(h, text, inside) =
          IF ~ Current(h).ok THEN Failed(h)
          ELSE IF r.ok THEN SelectEvent(r.h, NumberAt(h)) ELSE Failed(Newest(r.h).h)
    BY DEF EventSearch
  <2> HIDE DEF r
  <2>4. x \in {h, SelectEvent(r.h, NumberAt(h)).h, Newest(r.h).h}
    BY <2>3 DEF Failed
  <2> HIDE DEF x
  <2>5. Good(SelectEvent(r.h, NumberAt(h)).h) /\ Good(Newest(r.h).h)
    BY <1>2, <2>1
  <2>6. Good(x)
    BY <1>1, <2>4, <2>5
  <2> QED
    BY <1>4, <2>2, <2>6
<1> QED
  BY <1>5, <1>6, <1>7, <1>8, <1>9, <1>10, <1>11, <1>12 DEF LookupCalls

-----------------------------------------------------------------------------
(* The entry points that change the list.                                   *)

LEMMA AddHistoryKeeps ==
  ASSUME KeptList, NEW line \in Texts, AddHistory(line)
  PROVE  KeptList'
<1> DEFINE r == Enter(h, line)
           size == Size(r.h.store)
<1>1. HandleOk(h, Words) /\ ~h.foreign /\ ~h.store.unique /\ line \in Words
  BY TextsAreListed DEF KeptList, ListOk
<1>2. HandleOk(r.h, Words) /\ SameSettings(r.h, h) /\ r.ok \in BOOLEAN
  BY <1>1, EnterOk
<1>3. /\ r.ok <=> ~Blocked(h)
      /\ ~r.ok => r.h = h
      /\ r.ok => size = IF Size(h.store) + 1 <= h.limit THEN Size(h.store) + 1 ELSE h.limit
  BY <1>1, EnterOk, EnterPlain
<1>4. size \in Nat /\ Size(h.store) \in Nat /\ r.h.limit \in Nat
  BY <1>1, <1>2, HandleFacts DEF HandleOk, Handles
<1>5. /\ h' = r.h
      /\ base' = IF r.ok /\ size = length THEN base + 1 ELSE base
      /\ offset' = IF r.ok /\ size # length THEN offset + 1 ELSE offset
      /\ length' = IF r.ok THEN size ELSE length
      /\ behind' = (behind /\ ~ r.ok)
  BY DEF AddHistory
<1> HIDE DEF r, size
<1>6. IntegersOk'
  BY <1>4, <1>5 DEF KeptList, IntegersOk
<1>7. CASE ~r.ok
  BY <1>3, <1>5, <1>6, <1>7 DEF KeptList, ListOk, IntegersOk
<1>8. CASE r.ok
  <2>1. ~behind /\ Size(h.store) <= h.limit
    BY <1>3, <1>8 DEF KeptList, ListOk
  <2>2. r.h.limit = h.limit /\ ~r.h.foreign /\ ~r.h.store.unique
    BY <1>1, <1>2 DEF SameSettings
  <2>3. size <= r.h.limit
    BY <1>3, <1>4, <1>8, <2>1, <2>2
  <2>4. ~behind' /\ length' = size
    BY <1>5, <1>8
  <2>5. ListOk(r.h, size, FALSE)
    BY <1>2, <2>2, <2>3 DEF ListOk, size
  <2>6. ListOk(h', length', behind')
    BY <1>5, <2>4, <2>5 DEF ListOk
  <2> QED
    BY <1>6, <2>6 DEF KeptList
<1> QED
  BY <1>2, <1>7, <1>8

LEMMA RemoveHistoryKeeps ==
  ASSUME KeptList, NEW n \in Int, RemoveHistory(n)
  PROVE  KeptList'
<1> DEFINE m == Natural(n)
           s == SelectNth(h, m)
           r == DeleteNth(h, m)
<1>1. HandleOk(h, Words) /\ ~h.foreign /\ ~h.store.unique /\ m \in Nat
  BY DEF KeptList, ListOk, Natural
<1> HIDE DEF m
<1>2. Moves(s, h)
  BY <1>1, SelectionsMove
<1>3. /\ HandleOk(r.h, Words) /\ SameSettings(r.h, h)
      /\ r.h.number = h.number /\ r.h.store.next = h.store.next
      /\ r.ok => Size(r.h.store) = Size(h.store) - 1
      /\ ~r.ok => r.h.store = h.store
  BY <1>1, <1>2, DeleteOk DEF DeleteNth
<1>4. Size(r.h.store) \in Nat /\ Size(h.store) \in Nat /\ h.limit \in Nat
  BY <1>1, <1>3, HandleFacts DEF HandleOk, Handles
<1>5. /\ h' = r.h
      /\ length' = IF r.ok THEN Size(r.h.store) ELSE length
      /\ behind' = (behind /\ ~ r.ok)
      /\ UNCHANGED <<base, offset>>
  BY DEF RemoveHistory, m
<1> HIDE DEF r
<1>6. IntegersOk'
  BY <1>4, <1>5 DEF KeptList, IntegersOk
<1>7. ListOk(r.h, length', behind')
  <2>1. Blocked(r.h) <=> Blocked(h)
    BY <1>3 DEF Blocked, Numbered
  <2>2. r.h.limit = h.limit /\ ~r.h.foreign /\ ~r.h.store.unique
    BY <1>1, <1>3 DEF SameSettings
  <2>3. CASE r.ok
    <3>1. ~behind' /\ length' = Size(r.h.store)
      BY <1>5, <2>3
    <3>2. Blocked(r.h) \/ Size(r.h.store) <= r.h.limit
      <4>1. Blocked(h) \/ Size(h.store) <= h.limit
        BY DEF KeptList, ListOk
      <4> QED
        BY <1>3, <1>4, <2>1, <2>2, <2>3, <4>1
    <3> QED
      BY <1>3, <2>2, <3>1, <3>2 DEF ListOk
  <2>4. CASE ~r.ok
    BY <1>3, <1>5, <2>1, <2>2, <2>4 DEF KeptList, ListOk
  <2> QED
    BY <2>3, <2>4
<1>8. ListOk(h', length', behind')
  BY <1>5, <1>7
<1> QED
  BY <1>6, <1>8 DEF KeptList

LEMMA StifleHistoryKeeps ==
  ASSUME KeptList, NEW max \in Int, StifleHistory(max)
  PROVE  KeptList'
<1>1. CASE max < 0
  <2>1. h' = h /\ length' = length /\ UNCHANGED <<base, offset>>
    BY <1>1 DEF StifleHistory
  <2>2. behind' = (behind /\ length' # Size(h'.store))
    BY DEF StifleHistory
  <2>3. IntegersOk' /\ ListOk(h, length, behind')
    BY <2>1, <2>2 DEF KeptList, IntegersOk, ListOk
  <2> QED
    BY <2>1, <2>3 DEF KeptList
<1>2. CASE max >= 0
  <2> DEFINE g == SetSize(h, max).h
             n == Size(g.store)
             gone == IF length <= max THEN 0
                     ELSE IF n <= max THEN IF n > 0 THEN 1 ELSE 0 ELSE n - max
             x == Trimmed(g, length, max)
  <2>1. HandleOk(h, Words) /\ ~h.foreign /\ ~h.store.unique /\ max \in Nat /\ length \in Nat
    BY <1>2 DEF KeptList, ListOk, IntegersOk
  <2>2. g = [h EXCEPT !.limit = max]
    BY <2>1 DEF SetSize, Done
  <2>3. HandleOk(g, Words)
    BY <2>1, <2>2, SettingsOk
  <2>4. /\ g.store = h.store /\ g.limit = max /\ g.foreign = h.foreign /\ g.number = h.number
    BY <2>1, <2>2 DEF HandleOk, Handles
  <2>5. /\ h' = x
        /\ length' = IF x # g THEN Size(x.store) ELSE length
        /\ behind' = (behind /\ length' # Size(h'.store))
        /\ offset' = offset
        /\ base' = IF length > max THEN length - max ELSE base
    BY <1>2 DEF StifleHistory
  <2>6. n \in Nat /\ n = Size(h.store)
    BY <2>3, <2>4, HandleFacts
  <2>7. /\ gone \in 0 .. n
        /\ HandleOk(x, Words) /\ SameSettings(x, g) /\ x.number = g.number
        /\ x.store.next = g.store.next
        /\ Size(x.store) = n - gone
        /\ gone = 0 => x = g
    BY <2>1, <2>3, TrimmedOk
  <2> HIDE DEF g, n, x
  <2>8. IntegersOk'
    BY <2>1, <2>5, <2>6, <2>7 DEF KeptList, IntegersOk
  <2>9. /\ ~x.foreign /\ ~x.store.unique /\ x.limit = max
        /\ Blocked(x) <=> Blocked(h)
    BY <2>1, <2>4, <2>7 DEF SameSettings, Blocked, Numbered
  <2>10. Blocked(x) \/ (~behind' /\ Size(x.store) <= x.limit)
    <3> SUFFICES ASSUME ~Blocked(x) PROVE ~behind' /\ Size(x.store) <= max
      BY <2>9
    <3>1. ~behind /\ length = n
      BY <2>6, <2>9 DEF KeptList, ListOk
    <3>2. ~behind'
      BY <2>5, <3>1
    <3> QED
      BY <2>1, <2>6, <2>7, <3>1, <3>2
  <2>11. behind' \/ length' = Size(x.store)
    <3>1. CASE behind
      BY <2>5, <3>1
    <3>2. CASE ~behind
      <4>1. length = n
        BY <2>6, <3>2 DEF KeptList, ListOk
      <4> QED
        BY <2>5, <2>6, <2>7, <4>1 DEF n
    <3> QED
      BY <3>1, <3>2
  <2>12. ListOk(x, length', behind')
    BY <2>7, <2>9, <2>10, <2>11 DEF ListOk
  <2>13. ListOk(h', length', behind')
    BY <2>5, <2>12
  <2> QED
    BY <2>8, <2>13 DEF KeptList
<1> QED
  BY <1>1, <1>2

LEMMA ListCallsKeep ==
  ASSUME KeptList, ListCalls
  PROVE  KeptList' /\ UNCHANGED files
<1>0. HandleOk(h, Words) /\ ~h.foreign /\ ~h.store.unique
  BY DEF KeptList, ListOk
<1>1. CASE UsingHistory
  <2>1. UNCHANGED <<h, base, length, behind, files>> /\ offset' = length
    BY <1>1 DEF UsingHistory
  <2> QED
    BY <2>1 DEF KeptList, IntegersOk
<1>2. CASE UnstifleHistory
  <2> DEFINE x == [h EXCEPT !.limit = LastNumber]
  <2>1. h' = x /\ UNCHANGED <<base, length, offset, behind, files>>
    BY <1>0, <1>2 DEF UnstifleHistory, SetSize, Done
  <2>2. HandleOk(x, Words)
    BY <1>0, SettingsOk, LastNumberAssumption
  <2>3. /\ x.store = h.store /\ x.limit = LastNumber /\ x.foreign = h.foreign
        /\ x.number = h.number
    BY <1>0 DEF HandleOk, Handles
  <2> HIDE DEF x
  <2>4. Size(h.store) <= LastNumber
    <3>1. Size(h.store) <= h.number /\ h.number \in Numbers /\ Size(h.store) \in Nat
      BY <1>0, HandleFacts DEF HandleOk, Handles
    <3> QED
      BY <3>1, LastNumberAssumption DEF Numbers
  <2>5. ListOk(x, length, behind)
    BY <2>2, <2>3, <2>4 DEF KeptList, ListOk, Blocked, Numbered
  <2>6. ListOk(h', length', behind') /\ IntegersOk'
    BY <2>1, <2>5 DEF KeptList, IntegersOk
  <2> QED
    BY <2>1, <2>6 DEF KeptList
<1>3. CASE ClearHistory
  <2> DEFINE x == Clear(h)
  <2>1. h' = x /\ offset' = 0 /\ length' = 0 /\ ~behind' /\ behind' = FALSE
        /\ UNCHANGED <<base, files>>
    BY <1>3 DEF ClearHistory
  <2>2. HandleOk(x, Words) /\ SameSettings(x, h) /\ x.store.entries = <<>>
    BY <1>0, ClearOk
  <2>3. Size(x.store) = 0 /\ x.limit \in Nat
    BY <2>2 DEF Size, HandleOk, Handles
  <2> HIDE DEF x
  <2>4. ListOk(x, 0, FALSE)
    BY <1>0, <2>2, <2>3 DEF ListOk, SameSettings
  <2>5. ListOk(h', length', behind')
    BY <2>1, <2>4 DEF ListOk
  <2>6. base \in Int
    BY DEF KeptList, IntegersOk
  <2>7. base' \in Int /\ offset' \in Int /\ length' \in Nat
    BY <2>1, <2>6
  <2>8. behind' \in BOOLEAN
    BY <1>3 DEF ClearHistory
  <2> QED
    BY <2>1, <2>5, <2>7, <2>8 DEF KeptList, IntegersOk
<1>4. ASSUME NEW line \in Texts, AddHistory(line) PROVE KeptList' /\ UNCHANGED files
  BY <1>4, AddHistoryKeeps DEF AddHistory
<1>5. ASSUME NEW n \in Positions, RemoveHistory(n) \/ StifleHistory(n)
      PROVE  KeptList' /\ UNCHANGED files
  <2>1. n \in Int
    BY PositionsAssumption
  <2> QED
    BY <1>5, <2>1, RemoveHistoryKeeps, StifleHistoryKeeps DEF RemoveHistory, StifleHistory
<1> QED
  BY <1>1, <1>2, <1>3, <1>4, <1>5 DEF ListCalls

-----------------------------------------------------------------------------
(* The history file.                                                        *)

(* A file that a write left is the header and as many lines as a handle     *)
(* can be given.                                                            *)
FileOk ==
  /\ file \in Seq(Words) \cup {Absent}
  /\ written # Absent =>
       /\ written \in Seq(Words) /\ file = <<Header>> \o written
       /\ Len(written) <= LastNumber /\ Len(written) <= LastId + 1

LEMMA SavedLinesOk ==
  ASSUME NEW L, NEW g, HandleOk(g, L), NEW count \in Nat
  PROVE  /\ SavedLines(g, count) \in Seq(L)
         /\ OldestFirst(g) \in Seq(L) /\ Len(OldestFirst(g)) = Size(g.store)
         /\ SavedLines(g, LastNumber) = OldestFirst(g)
         /\ Size(g.store) <= LastNumber /\ Size(g.store) <= LastId + 1
<1> DEFINE n == Size(g.store)
<1>1. /\ n \in Nat
      /\ \A p \in 1 .. n : g.store.entries[p].line \in L
  BY HandleFacts
<1>2. n <= LastNumber
  <2>1. n <= g.number /\ g.number \in Numbers
    BY DEF HandleOk, Handles
  <2> QED
    BY <1>1, <2>1, LastNumberAssumption DEF Numbers
<1>3. n <= LastId + 1
  <2>1. StoreOk(g.store, L, Numbers)
    BY DEF HandleOk
  <2>2. n <= Given(g.store) /\ g.store.next \in Identities \cup {None}
    BY <2>1 DEF StoreOk, Stores
  <2> QED
    BY <1>1, <2>2, LastIdAssumption DEF Given, Identities
<1> HIDE DEF n
<1>4. ASSUME NEW m \in 0 .. n
      PROVE  [k \in 1 .. m |-> g.store.entries[m + 1 - k].line] \in Seq(L)
  <2>1. \A k \in 1 .. m : m + 1 - k \in 1 .. n
    BY <1>1
  <2>2. \A k \in 1 .. m : g.store.entries[m + 1 - k].line \in L
    BY <1>1, <2>1
  <2>3. m \in Nat
    BY <1>1
  <2> QED
    BY <2>2, <2>3
<1>5. SaveFrom(g, count) \in 0 .. n /\ SaveFrom(g, LastNumber) = n
  BY <1>1, <1>2, LastNumberAssumption DEF SaveFrom, n
<1>6. SavedLines(g, count) \in Seq(L)
  BY <1>4, <1>5 DEF SavedLines
<1>7. OldestFirst(g) = [k \in 1 .. n |-> g.store.entries[n + 1 - k].line]
  BY DEF OldestFirst, n
<1>8. OldestFirst(g) \in Seq(L) /\ Len(OldestFirst(g)) = n
  BY <1>1, <1>4, <1>7
<1>9. SavedLines(g, LastNumber) = OldestFirst(g)
  BY <1>5, <1>7 DEF SavedLines
<1> QED
  BY <1>2, <1>3, <1>6, <1>8, <1>9 DEF n

LEMMA ReadHistoryKeeps ==
  ASSUME KeptList, FileOk, ReadHistory
  PROVE  KeptList' /\ UNCHANGED files
<1>1. CASE ~Readable
  <2>1. UNCHANGED <<h, globals, files, behind>>
    BY <1>1 DEF ReadHistory
  <2> QED
    BY <2>1 DEF KeptList, IntegersOk, globals
<1>2. CASE Readable
  <2> DEFINE r == Load(h, Tail(file))
  <2>1. HandleOk(h, Words) /\ ~h.foreign /\ ~h.store.unique
    BY DEF KeptList, ListOk
  <2>2. Tail(file) \in Seq(Words)
    BY <1>2 DEF Readable, FileOk
  <2>3. /\ HandleOk(r.h, Words) /\ SameSettings(r.h, h) /\ r.ok \in BOOLEAN
        /\ ~r.ok => Blocked(r.h)
        /\ Blocked(h) => Blocked(r.h)
        /\ Size(h.store) <= h.limit => Size(r.h.store) <= r.h.limit
    BY <2>1, <2>2, LoadOk
  <2>4. /\ h' = r.h
        /\ length' = IF r.ok THEN Size(r.h.store) ELSE length
        /\ behind' = IF r.ok THEN FALSE ELSE behind \/ Size(r.h.store) # length
        /\ UNCHANGED <<base, offset, files>>
    BY <1>2 DEF ReadHistory
  <2> HIDE DEF r
  <2>5. Size(r.h.store) \in Nat
    BY <2>3, HandleFacts
  <2>6. base' \in Int /\ offset' \in Int /\ length' \in Nat
    BY <2>4, <2>5 DEF KeptList, IntegersOk
  <2>7. behind' \in BOOLEAN
    BY <2>4 DEF KeptList, IntegersOk
  <2>8. ~r.h.foreign /\ ~r.h.store.unique
    BY <2>1, <2>3 DEF SameSettings
  <2>9. Blocked(r.h) \/ (~behind' /\ Size(r.h.store) <= r.h.limit)
    <3>1. CASE r.ok
      <4>1. Blocked(h) \/ Size(h.store) <= h.limit
        BY DEF KeptList, ListOk
      <4>2. ~behind'
        BY <2>4, <3>1
      <4> QED
        BY <2>3, <4>1, <4>2
    <3>2. CASE ~r.ok
      BY <2>3, <3>2
    <3> QED
      BY <3>1, <3>2
  <2>10. behind' \/ length' = Size(r.h.store)
    BY <2>4
  <2>11. ListOk(r.h, length', behind')
    BY <2>3, <2>8, <2>9, <2>10 DEF ListOk
  <2>12. ListOk(h', length', behind')
    BY <2>4, <2>11
  <2> QED
    BY <2>4, <2>6, <2>7, <2>12 DEF KeptList, IntegersOk
<1> QED
  BY <1>1, <1>2

(* The cursor where a save gave out, or on the newest entry after a whole   *)
(* one.                                                                     *)
LEMMA SavesMove ==
  ASSUME KeptList, NEW x, x = Saved(h) \/ \E id \in Ids(h) \cup {h.cursor} : x = At(h, id)
  PROVE  ListOk(x, length, behind)
<1>1. ListOk(h, length, behind) /\ HandleOk(h, Words)
  BY DEF KeptList, ListOk
<1>2. CASE x = Saved(h)
  BY <1>1, <1>2, ListMoves DEF Saved
<1>3. ASSUME NEW id \in Ids(h) \cup {h.cursor}, x = At(h, id) PROVE ListOk(x, length, behind)
  <2>1. id \in Ids(h) \cup {Live}
    BY <1>1 DEF HandleOk
  <2>2. Moves(Failed(x), h) /\ Failed(x).h = x
    BY <1>3, <2>1 DEF Moves, Failed
  <2> QED
    BY <1>1, <2>2, MovedList
<1> QED
  BY <1>2, <1>3

LEMMA FileCallsKeep ==
  ASSUME KeptList, FileOk, FileCalls
  PROVE  KeptList' /\ FileOk'
<1>0. HandleOk(h, Words)
  BY DEF KeptList, ListOk
<1>1. CASE ReadHistory
  BY <1>1, ReadHistoryKeeps DEF FileOk, files
<1>2. ASSUME \/ h' = Saved(h)
             \/ \E id \in Ids(h) \cup {h.cursor} : h' = At(h, id)
             \/ h' = h,
             UNCHANGED <<globals, behind>>
      PROVE  KeptList'
  <2>1. ListOk(h', length, behind)
    BY <1>2, SavesMove DEF KeptList
  <2> QED
    BY <1>2, <2>1 DEF KeptList, IntegersOk, globals
<1>3. Words # {} /\ Header \in Words
  BY TextsAreListed
<1> HIDE DEF Words
<1>4. \A n \in Int : Appended(n) \in Seq(Words)
  <2> TAKE n \in Int
  <2> DEFINE count == IF n < 0 THEN LastNumber ELSE n
             header == IF file \in {Absent, <<>>} THEN <<Header>> ELSE <<>>
  <2>1. count \in Nat
    BY LastNumberAssumption
  <2>2. SavedLines(h, count) \in Seq(Words)
    BY <1>0, <2>1, SavedLinesOk
  <2>3. header \in Seq(Words)
    BY <1>3
  <2>4. Appended(n) = header \o SavedLines(h, count)
    BY DEF Appended
  <2> HIDE DEF header, count
  <2> QED
    BY <2>2, <2>3, <2>4
<1>5. Begun \in Seq(Words)
  BY DEF Begun, FileOk
<1>6. CASE WriteHistory
  <2>1. h' = Saved(h) /\ UNCHANGED <<globals, behind>>
    BY <1>6 DEF WriteHistory
  <2>2. /\ file' = <<Header>> \o OldestFirst(h) /\ written' = OldestFirst(h)
        /\ OldestFirst(h) \in Seq(Words) /\ Len(OldestFirst(h)) <= LastNumber
        /\ Len(OldestFirst(h)) <= LastId + 1
    BY <1>0, <1>6, SavedLinesOk, LastNumberAssumption DEF WriteHistory
  <2>3. file' \in Seq(Words)
    BY <1>3, <2>2
  <2>4. FileOk'
    BY <2>2, <2>3 DEF FileOk
  <2> QED
    BY <1>2, <2>1, <2>4
<1>7. CASE WriteFails
  BY <1>2, <1>7 DEF WriteFails, FileOk, files
<1>8. ASSUME NEW n \in Positions, TruncateFile(n) PROVE KeptList' /\ FileOk'
  <2>1. UNCHANGED <<h, globals, behind>> /\ n \in Int
    BY <1>8, PositionsAssumption DEF TruncateFile
  <2> DEFINE cut == file # Absent /\ n > 0 /\ Len(file) > n
             rest == SubSeq(file, Len(file) - n + 1, Len(file))
  <2>2. /\ file' = IF cut THEN rest ELSE file
        /\ written' = IF cut THEN Absent ELSE written
    BY <1>8 DEF TruncateFile
  <2>3. cut => rest \in Seq(Words)
    <3> SUFFICES ASSUME cut PROVE rest \in Seq(Words)
      OBVIOUS
    <3>1. file \in Seq(Words) /\ Len(file) \in Nat
      BY DEF FileOk
    <3>2. Len(file) - n + 1 \in 1 .. Len(file)
      BY <2>1, <3>1
    <3> QED
      BY <3>1, <3>2
  <2> HIDE DEF cut, rest
  <2>4. FileOk'
    BY <2>2, <2>3 DEF FileOk
  <2> QED
    BY <1>2, <2>1, <2>4
<1>9. ASSUME NEW n \in Positions, AppendHistory(n) PROVE KeptList' /\ FileOk'
  <2>1. h' = Saved(h) /\ UNCHANGED <<globals, behind>> /\ n \in Int
    BY <1>9, PositionsAssumption DEF AppendHistory
  <2>2. file' = Begun \o Appended(n) /\ written' = Absent
    BY <1>9 DEF AppendHistory
  <2>3. file' \in Seq(Words)
    BY <1>4, <1>5, <2>1, <2>2
  <2>4. FileOk'
    BY <2>2, <2>3 DEF FileOk
  <2> QED
    BY <1>2, <2>1, <2>4
<1>10. ASSUME NEW n \in Positions, AppendFails(n) PROVE KeptList' /\ FileOk'
  <2>1. (\E id \in Ids(h) \cup {h.cursor} : h' = At(h, id)) /\ UNCHANGED <<globals, behind>>
        /\ n \in Int
    BY <1>10, PositionsAssumption DEF AppendFails
  <2>2. PICK k \in 0 .. Len(Appended(n)) : file' = Begun \o SubSeq(Appended(n), 1, k)
    BY <1>10 DEF AppendFails
  <2>3. written' = Absent
    BY <1>10 DEF AppendFails
  <2>4. Appended(n) \in Seq(Words)
    BY <1>4, <2>1
  <2>5. SubSeq(Appended(n), 1, k) \in Seq(Words)
    BY <2>4, FrontThins
  <2>6. file' \in Seq(Words)
    BY <1>5, <2>2, <2>5
  <2>7. FileOk'
    BY <2>3, <2>6 DEF FileOk
  <2> QED
    BY <1>2, <2>1, <2>7
<1> QED
  BY <1>1, <1>6, <1>7, <1>8, <1>9, <1>10 DEF FileCalls

-----------------------------------------------------------------------------
(* The invariant of the handle under both interfaces.                       *)

ReadlineInv ==
  /\ api \in {"histedit", "readline"}
  /\ IntegersOk
  /\ api = "histedit" => HandleOk(h, Seq(Letters)) /\ length = 0 /\ ~behind
  /\ api = "readline" => ListOk(h, length, behind)
  /\ FileOk

LEMMA ReadlineStarts == HandleInit => ReadlineInv
<1> SUFFICES ASSUME HandleInit PROVE ReadlineInv
  OBVIOUS
<1>1. IntegersOk /\ length = 0 /\ ~behind /\ api \in {"histedit", "readline"}
  <2>1. base = 1 /\ length = 0 /\ offset = 0 /\ api \in {"histedit", "readline"}
    BY DEF HandleInit
  <2>2. behind \in BOOLEAN /\ ~behind
    BY DEF HandleInit
  <2> QED
    BY <2>1, <2>2 DEF IntegersOk
<1>2. FileOk
  <2>1. Header \in Words /\ written = Absent /\ file \in {Absent, <<>>, <<Header>>}
    BY TextsAreListed DEF HandleInit
  <2> HIDE DEF Words
  <2>2. <<>> \in Seq(Words) /\ <<Header>> \in Seq(Words)
    BY <2>1
  <2> QED
    BY <2>1, <2>2 DEF FileOk
<1>3. HandleOk(NewHandle, Words) /\ HandleOk(NewHandle, Seq(Letters))
  BY NewHandleOk
<1>4. ASSUME api = "readline" PROVE ListOk(h, length, behind)
  <2> DEFINE x == [NewHandle EXCEPT !.limit = LastNumber]
  <2>1. h = x
    BY <1>4 DEF HandleInit, ReadlineHandle
  <2>2. HandleOk(x, Words)
    BY <1>3, SettingsOk, LastNumberAssumption
  <2>3. x.store = NewHandle.store /\ x.foreign = NewHandle.foreign /\ x.limit = LastNumber
    BY DEF NewHandle
  <2>4. /\ ~NewHandle.foreign /\ ~NewHandle.store.unique /\ Size(NewHandle.store) = 0
    BY DEF NewHandle, EmptyStore, Size
  <2> HIDE DEF x
  <2>5. ListOk(x, 0, FALSE)
    BY <2>2, <2>3, <2>4, LastNumberAssumption DEF ListOk
  <2> QED
    BY <1>1, <2>1, <2>5 DEF ListOk
<1>5. api = "histedit" => h = NewHandle
  BY DEF HandleInit
<1> QED
  BY <1>1, <1>2, <1>3, <1>4, <1>5 DEF ReadlineInv

LEMMA ReadlineStep == ReadlineInv /\ [HandleNext]_rvars => ReadlineInv'
<1> SUFFICES ASSUME ReadlineInv, [HandleNext]_rvars PROVE ReadlineInv'
  OBVIOUS
<1>1. CASE UNCHANGED rvars
  <2>1. UNCHANGED <<h, api, base, length, offset, file, written, behind>>
    BY <1>1 DEF rvars
  <2> QED
    BY <2>1 DEF ReadlineInv, IntegersOk, FileOk
<1>2. CASE api = "histedit" /\ HisteditCalls /\ UNCHANGED api
  <2>1. CNext /\ UNCHANGED <<base, length, offset, file, written, behind, api>>
    BY <1>2 DEF HisteditCalls, globals, files
  <2>2. HandleOk(h', Seq(Letters))
    BY <1>2, <2>1, CallsOk DEF ReadlineInv
  <2>3. FileOk' /\ IntegersOk'
    BY <2>1 DEF ReadlineInv, FileOk, IntegersOk
  <2> QED
    BY <1>2, <2>1, <2>2, <2>3 DEF ReadlineInv
<1>3. CASE api = "readline" /\ (ListCalls \/ LookupCalls \/ FileCalls) /\ UNCHANGED api
  <2>1. KeptList /\ FileOk
    BY <1>3 DEF ReadlineInv, KeptList
  <2>2. UNCHANGED files => FileOk'
    BY <2>1 DEF files, FileOk
  <2>3. KeptList' /\ FileOk'
    BY <1>3, <2>1, <2>2, ListCallsKeep, LookupsKeepList, BorrowedKeeps, FileCallsKeep
  <2> QED
    BY <1>3, <2>3 DEF ReadlineInv, KeptList
<1> QED
  BY <1>1, <1>2, <1>3 DEF HandleNext

LEMMA ReadlineInvariant == HandleSpec => []ReadlineInv
  BY ReadlineStarts, ReadlineStep, PTL DEF HandleSpec

-----------------------------------------------------------------------------
(* The cursor the calls share, and the copy of the size.                    *)

LEMMA WalkEnds ==
  ASSUME NEW L, NEW g, HandleOk(g, L), g.cursor \in Ids(g), NEW d, NEW wanted
  PROVE  EndsOn(Walk(g, d, wanted), g, d, wanted)
<1> DEFINE e == g.store.entries
           here == Position(g.store, g.cursor)
           reach == IF d = "older" THEN here .. Size(g.store) ELSE 1 .. here
           hits == {p \in reach : e[p].id \in wanted}
           r == Walk(g, d, wanted)
<1>1. /\ reach \subseteq 1 .. Size(g.store) /\ (r.ok <=> hits # {})
      /\ \E to \in IF hits = {} THEN reach ELSE hits : r.h = At(g, e[to].id)
      /\ hits = {} => r.h = At(g, e[IF d = "older" THEN Size(g.store) ELSE 1].id)
  BY WalkStops
<1>2. \A p \in 1 .. Size(g.store) : e[p].id \in Ids(g) /\ At(g, e[p].id).cursor = e[p].id
  BY HandleFacts, AtOk
<1>3. \A p \in hits : e[p].id \in wanted
  OBVIOUS
<1> HIDE DEF reach, hits, r
<1>4. r.ok => r.h.cursor \in wanted
  <2>1. hits \subseteq reach
    BY DEF hits
  <2> QED
    BY <1>1, <1>2, <1>3, <2>1
<1>5. ~r.ok => r.h = IF d = "older" THEN Oldest(g).h ELSE Newest(g).h
  BY <1>1 DEF Oldest, Newest, Done
<1> QED
  BY <1>4, <1>5 DEF EndsOn, r

LEMMA SeeksEnd ==
  ASSUME NEW L, NEW g, HandleOk(g, L), g.cursor \in Ids(g), NEW n,
         NEW start \in {g, Oldest(g).h}
  PROVE  EndsOn(Seek(start, "newer", n), g, "newer", WithNumber(g, n))
<1>1. PICK id \in Ids(g) : start = At(g, id)
  <2>1. g = At(g, g.cursor) /\ g.store.entries[Size(g.store)].id \in Ids(g)
    BY AtOk, HandleFacts
  <2>2. Oldest(g).h = At(g, g.store.entries[Size(g.store)].id)
    BY DEF Oldest, Done
  <2> QED
    BY <2>1, <2>2
<1>2. /\ HandleOk(start, L) /\ start.cursor \in Ids(start) /\ Ids(start) = Ids(g)
      /\ start.store = g.store /\ \A jd : At(start, jd) = At(g, jd)
  BY <1>1, AtOk
<1>3. WithNumber(start, n) = WithNumber(g, n) /\ Newest(start).h = Newest(g).h
  BY <1>2 DEF WithNumber, Newest, Done
<1>4. EndsOn(Seek(start, "newer", n), start, "newer", WithNumber(start, n))
  BY <1>2, WalkEnds DEF Seek
<1> QED
  BY <1>3, <1>4 DEF EndsOn

(* !text and !?text? come back from what they found.                        *)
LEMMA EventsGoBack ==
  ASSUME NEW L, HandleOk(h, L), base \in Int, NEW text, NEW inside
  PROVE  LET r == EventSearch(h, text, inside)
         IN  /\ r.ok => r.h = h
             /\ Current(h).ok /\ ~r.ok => r.h = Newest(h).h
<1> DEFINE r == IF inside THEN Searched(h, text, "older") ELSE Search(h, "older", text)
<1>1. CASE ~Current(h).ok
  BY <1>1 DEF EventSearch, Failed
<1>2. CASE Current(h).ok
  <2>1. h.cursor \in Ids(h)
    BY <1>2 DEF Current, Done, Failed
  <2>2. PICK id \in Ids(h) \cup {Live} : r.h = At(h, id)
    <3>1. Moves(Walk(h, "older", Containing(h, text)), h) /\ Moves(Search(h, "older", text), h)
      BY WalkMoves DEF Search
    <3>2. \/ Searched(h, text, "older") = Walk(h, "older", Containing(h, text))
          \/ Searched(h, text, "older").h = h
      <4>1. ~Searched(h, text, "older").ok => Searched(h, text, "older").h = h
        BY LookupsGoBack
      <4> QED
        BY <1>2, <4>1 DEF Searched, Failed
    <3>3. h = At(h, h.cursor)
      BY AtOk, <2>1
    <3> QED
      BY <2>1, <3>1, <3>2, <3>3 DEF Moves
  <2>3. EventSearch(h, text, inside) =
          IF r.ok THEN SelectEvent(r.h, NumberAt(h)) ELSE Failed(Newest(r.h).h)
    BY <1>2 DEF EventSearch
  <2>4. SelectEvent(r.h, NumberAt(h)) = Done(h)
    BY <2>1, <2>2, SelectBack
  <2>5. Newest(r.h).h = Newest(h).h
    BY <2>1, <2>2, AtOk DEF Newest, Done
  <2> HIDE DEF r
  <2> QED
    BY <2>3, <2>4, <2>5 DEF Done, Failed
<1> QED
  BY <1>1, <1>2

(* A replacement comes back to the row it was called on, by its number.     *)
LEMMA ReplacingGoesBack ==
  ASSUME NEW L, HandleOk(h, L), NEW n, NEW line, line \in L \/ line = Absent
  PROVE  LET r == Replacing(h, n, line)
         IN  /\ r.ok => r.h.cursor = h.cursor
             /\ Current(h).ok /\ ~r.ok => r.h = Newest(h).h \/ r.h.cursor \in WithNumber(h, n)
<1> DEFINE found == Seek(Oldest(h).h, "newer", n)
           r == Replacing(h, n, line)
<1>1. CASE ~Current(h).ok
  BY <1>1 DEF Replacing, Failed
<1>2. CASE Current(h).ok
  <2>1. h.cursor \in Ids(h) /\ Current(h).ok
    BY <1>2 DEF Current, Done, Failed
  <2>2. EndsOn(found, h, "newer", WithNumber(h, n))
    BY <2>1, SeeksEnd
  <2>3. r = IF ~found.ok \/ line = Absent THEN Failed(found.h)
            ELSE SelectEvent(Replace(found.h, line).h, NumberAt(h))
    BY <2>1 DEF Replacing
  <2>4. ASSUME found.ok, line # Absent
        PROVE  SelectEvent(Replace(found.h, line).h, NumberAt(h)).ok
               /\ SelectEvent(Replace(found.h, line).h, NumberAt(h)).h.cursor = h.cursor
    <3> DEFINE g == found.h
               x == Replace(g, line).h
               y == At(x, h.cursor)
    <3>1. PICK id \in Ids(h) : g = At(h, id)
      <4>1. /\ Moves(Oldest(h), h) /\ HandleOk(Oldest(h).h, L) /\ Ids(Oldest(h).h) = Ids(h)
            /\ \A jd \in Ids(h) \cup {Live} : At(Oldest(h).h, jd) = At(h, jd)
        BY NewestOldestMove, MovesKeep
      <4>2. Moves(found, Oldest(h).h)
        BY <4>1, WalkMoves DEF Seek
      <4> QED
        BY <2>4, <4>1, <4>2 DEF Moves
    <3> HIDE DEF found
    <3>2. HandleOk(g, L) /\ g.cursor = id /\ Ids(g) = Ids(h) /\ g.store = h.store
      BY <3>1, AtOk
    <3>3. /\ HandleOk(x, L) /\ Ids(x) = Ids(h) /\ x.cursor = id
          /\ \A jd \in Ids(h) : Entry(x.store, jd).number = Entry(h.store, jd).number
      BY <2>4, <3>2, ReplaceOk
    <3> HIDE DEF x, g
    <3>4. /\ HandleOk(y, L) /\ y.cursor = h.cursor /\ Ids(y) = Ids(h) /\ y.store = x.store
          /\ At(y, id) = At(x, id) /\ At(x, id) = x
      BY <2>1, <3>3, AtOk
    <3>5. NumberAt(y) = NumberAt(h)
      BY <2>1, <3>3, <3>4 DEF NumberAt
    <3> HIDE DEF y
    <3>6. SelectEvent(At(y, id), NumberAt(y)) = Done(y)
      BY <2>1, <3>4, SelectBack
    <3>7. SelectEvent(x, NumberAt(h)) = Done(y)
      BY <3>4, <3>5, <3>6
    <3> QED
      BY <3>4, <3>7 DEF Done, x, g
  <2> HIDE DEF found, r
  <2>5. r.ok => r.h.cursor = h.cursor
    BY <2>3, <2>4 DEF Failed
  <2>6. ~r.ok => r.h = found.h
    BY <2>3, <2>4 DEF Failed
  <2>7. ~r.ok => r.h = Newest(h).h \/ r.h.cursor \in WithNumber(h, n)
    BY <2>2, <2>6 DEF EndsOn
  <2> QED
    BY <2>5, <2>7 DEF r
<1> QED
  BY <1>1, <1>2

LEMMA SearchesEnd ==
  ASSUME NEW L, HandleOk(h, L), Current(h).ok, NEW text
  PROVE  /\ \A d : EndsOn(Search(h, d, text), h, d, Beginning(h, text))
         /\ \A d : Searched(h, text, d).ok =>
                    Searched(h, text, d).h.cursor \in Containing(h, text)
         /\ \A n : SearchedPos(h, text, n).ok =>
                    SearchedPos(h, text, n).h.cursor \in Containing(h, text)
<1>1. h.cursor \in Ids(h)
  BY DEF Current, Done, Failed
<1>2. \A d : EndsOn(Search(h, d, text), h, d, Beginning(h, text))
  BY <1>1, WalkEnds DEF Search, Beginning
<1>3. \A d : Walk(h, d, Containing(h, text)).ok =>
               Walk(h, d, Containing(h, text)).h.cursor \in Containing(h, text)
  BY <1>1, WalkEnds DEF EndsOn
<1>4. \A d : Searched(h, text, d).ok => Searched(h, text, d).h.cursor \in Containing(h, text)
  BY <1>3 DEF Searched, Failed
<1>5. \A n : SearchedPos(h, text, n).ok =>
               SearchedPos(h, text, n).h.cursor \in Containing(h, text)
  BY <1>3 DEF SearchedPos, Failed
<1> QED
  BY <1>2, <1>4, <1>5

(* Whatever the application calls, of either interface: removal hands the   *)
(* shared cursor to a neighbour, eviction and H_CLEAR reset it, and behind  *)
(* every lookup of readline it is known where the cursor stands.  It is     *)
(* back where the caller left it, also after an index out of range, a       *)
(* search for contents that found nothing and a replacement, or it is on    *)
(* what the lookup found, or at the end at which it gave out.               *)
THEOREM CursorIsKnown == HandleSpec => []SharedCursorIsKnown
<1>1. ReadlineInv => SharedCursorIsKnown
  <2> SUFFICES ASSUME ReadlineInv PROVE SharedCursorIsKnown
    OBVIOUS
  <2>1. PICK L : HandleOk(h, L) /\ (api = "readline" => L = Words)
    BY DEF ReadlineInv, ListOk
  <2>2. CursorRetained
    BY <2>1 DEF HandleOk, CursorRetained
  <2>3. api = "readline" => \A line \in Texts : line \in L
    BY <2>1, TextsAreListed
  <2>4. LookupsRestoreCursor
    <3> SUFFICES ASSUME api = "readline"
                 PROVE  /\ \A n \in Positions : Got(h, n) = h
                        /\ TotalBytes(h) = h
                        /\ \A text \in Texts, d \in Directions :
                               ~ Searched(h, text, d).ok => Searched(h, text, d).h = h
                        /\ \A text \in Texts, n \in Positions :
                               ~ SearchedPos(h, text, n).ok => SearchedPos(h, text, n).h = h
                        /\ \A text \in Texts, inside \in BOOLEAN :
                               EventSearch(h, text, inside).ok => EventSearch(h, text, inside).h = h
                        /\ \A n \in Positions, line \in Texts :
                               Replacing(h, n, line).ok => Replacing(h, n, line).h.cursor = h.cursor
      BY DEF LookupsRestoreCursor
    <3>1. /\ \A n \in Positions : Got(h, n) = h
          /\ TotalBytes(h) = h
          /\ \A text \in Texts, d \in Directions :
                 ~ Searched(h, text, d).ok => Searched(h, text, d).h = h
          /\ \A text \in Texts, n \in Positions :
                 ~ SearchedPos(h, text, n).ok => SearchedPos(h, text, n).h = h
      BY <2>1, LookupsGoBack, PositionsAssumption DEF ReadlineInv, IntegersOk
    <3>2. \A text \in Texts, inside \in BOOLEAN :
             EventSearch(h, text, inside).ok => EventSearch(h, text, inside).h = h
      BY <2>1, EventsGoBack DEF ReadlineInv, IntegersOk
    <3>3. \A n \in Positions, line \in Texts :
             Replacing(h, n, line).ok => Replacing(h, n, line).h.cursor = h.cursor
      BY <2>1, <2>3, ReplacingGoesBack
    <3> QED
      BY <3>1, <3>2, <3>3
  <2>5. LookupsEndInSight
    <3> SUFFICES ASSUME api = "readline", Current(h).ok
                 PROVE  LookupsEndInSight
      BY DEF LookupsEndInSight
    <3>1. h.cursor \in Ids(h)
      BY DEF Current, Done, Failed
    <3>2. \A text \in Texts, d \in Directions :
             /\ EndsOn(Search(h, d, text), h, d, Beginning(h, text))
             /\ Searched(h, text, d).ok => Searched(h, text, d).h.cursor \in Containing(h, text)
      BY <2>1, SearchesEnd
    <3>3. \A text \in Texts, n \in Positions :
             SearchedPos(h, text, n).ok =>
                 SearchedPos(h, text, n).h.cursor \in Containing(h, text)
      BY <2>1, SearchesEnd
    <3>4. \A text \in Texts, inside \in BOOLEAN :
             ~ EventSearch(h, text, inside).ok => EventSearch(h, text, inside).h = Newest(h).h
      BY <2>1, EventsGoBack DEF ReadlineInv, IntegersOk
    <3>5. \A n \in Numbers, start \in {h, Oldest(h).h} :
             EndsOn(Seek(start, "newer", n), h, "newer", WithNumber(h, n))
      BY <2>1, <3>1, SeeksEnd
    <3>6. \A n \in Positions, line \in Texts \cup {Absent} :
             ~ Replacing(h, n, line).ok => \/ Replacing(h, n, line).h = Newest(h).h
                                          \/ Replacing(h, n, line).h.cursor \in WithNumber(h, n)
      BY <2>1, <2>3, ReplacingGoesBack
    <3> QED
      BY <3>2, <3>3, <3>4, <3>5, <3>6 DEF LookupsEndInSight
  <2> QED
    BY <2>2, <2>4, <2>5 DEF SharedCursorIsKnown
<1> QED
  BY <1>1, ReadlineInvariant, PTL

(* history_length is the size of the list behind every entry point, unless  *)
(* a load gave up half way.                                                 *)
THEOREM LengthIsCopied == HandleSpec => []LengthMirrors
<1>1. ReadlineInv => LengthMirrors
  BY DEF ReadlineInv, ListOk, LengthMirrors
<1> QED
  BY <1>1, ReadlineInvariant, PTL

-----------------------------------------------------------------------------
(* Indexes.                                                                 *)

LEMMA IndexStep ==
  ASSUME KeptList, ~behind, length > 0, NEW line \in Texts, AddHistory(line)
  PROVE  KeepsIndexes
<1> DEFINE r == Enter(h, line)
           s == Size(h.store)
           z == Size(r.h.store)
           e == h.store.entries
           f == r.h.store.entries
<1>1. HandleOk(h, Words) /\ ~h.store.unique /\ line \in Words /\ length = s
  BY TextsAreListed DEF KeptList, ListOk
<1>2. HandleOk(r.h, Words)
  BY <1>1, EnterOk
<1>3. /\ r.ok => Inserts(h, line)
      /\ ~r.ok => r.h = h
      /\ Inserts(h, line) => /\ z = IF s + 1 <= h.limit THEN s + 1 ELSE h.limit
                             /\ \A i \in 1 .. z : f[i] = IF i = 1 THEN Row(h, line) ELSE e[i - 1]
  BY <1>1, EnterOk, EnterPlain
<1>4. /\ h' = r.h
      /\ base' = IF r.ok /\ z = length THEN base + 1 ELSE base
  BY DEF AddHistory
<1>5. s \in Nat /\ z \in Nat /\ h.limit \in Nat /\ base \in Int
  BY <1>1, <1>2, HandleFacts DEF HandleOk, Handles, KeptList, IntegersOk
<1>6. r.ok => s <= h.limit
  BY <1>1, EnterPlain DEF KeptList, ListOk
<1>7. /\ \A p \in 1 .. s : e[p].id \in Ids(h)
      /\ \A p \in 1 .. z : f[p].id \in Ids(r.h) /\ Position(r.h.store, f[p].id) = p
      /\ Live \notin Ids(r.h)
      /\ \A id \in Ids(r.h) : \E p \in 1 .. z : f[p].id = id
      /\ \A p, q \in 1 .. s : e[p].id = e[q].id => p = q
  <2>1. \A p \in 1 .. s : e[p].id \in Ids(h) /\ Position(h.store, e[p].id) = p
    BY <1>1, HandleFacts
  <2>2. /\ \A p \in 1 .. z : f[p].id \in Ids(r.h) /\ Position(r.h.store, f[p].id) = p
        /\ Live \notin Ids(r.h)
        /\ \A id \in Ids(r.h) : \E p \in 1 .. z : f[p].id = id
    BY <1>2, HandleFacts
  <2>3. \A p, q \in 1 .. s : e[p].id = e[q].id => p = q
    BY <2>1
  <2> QED
    BY <2>1, <2>2, <2>3
<1>8. Inserts(h, line) => Row(h, line).id \notin Ids(h)
  <2> SUFFICES ASSUME Inserts(h, line) PROVE Row(h, line).id \notin Ids(h)
    OBVIOUS
  <2>1. h.store.next # None /\ StoreOk(h.store, Words, Numbers)
    BY <1>1 DEF Inserts, Accepts, HandleOk
  <2>2. \A id \in Ids(h) : id \in Int /\ id < h.store.next
    BY <1>1, <2>1, HandleFacts, StoreFacts DEF StoreOk, Ids
  <2> QED
    BY <2>2 DEF Row
<1> SUFFICES ASSUME NEW n \in Positions, Indexed(n) \in Ids(h') PROVE Indexed(n)' = Indexed(n)
  BY DEF KeepsIndexes
<1>9. n \in Int
  BY PositionsAssumption
<1>10. Indexed(n) = IF n - base \in 0 .. s - 1 THEN e[s - (n - base)].id ELSE Live
  BY DEF Indexed
<1>11. Indexed(n)' = IF n - base' \in 0 .. z - 1 THEN f[z - (n - base')].id ELSE Live
  BY <1>4 DEF Indexed
<1>12. n - base \in 0 .. s - 1
  BY <1>4, <1>7, <1>10
<1>13. CASE ~r.ok
  BY <1>3, <1>4, <1>10, <1>11, <1>13
<1> HIDE DEF r, s, z, e, f
<1>14. CASE r.ok
  <2> DEFINE k == s - (n - base)
  <2>1. k \in 1 .. s /\ Indexed(n) = e[k].id
    BY <1>5, <1>9, <1>10, <1>12
  <2>2. \A i \in 1 .. z : f[i] = IF i = 1 THEN Row(h, line) ELSE e[i - 1]
    BY <1>3, <1>14
  <2>3. CASE s + 1 <= h.limit
    <3>1. z = s + 1 /\ base' = base
      BY <1>1, <1>3, <1>4, <1>5, <1>14, <2>3
    <3>2. z - (n - base') = k + 1 /\ n - base' \in 0 .. z - 1
      BY <1>5, <1>9, <1>12, <3>1
    <3>3. f[k + 1] = e[k]
      <4>1. k + 1 \in 1 .. z /\ k + 1 # 1 /\ (k + 1) - 1 = k
        BY <1>5, <2>1, <3>1
      <4> QED
        BY <2>2, <4>1
    <3> QED
      BY <1>11, <2>1, <3>2, <3>3
  <2>4. CASE ~(s + 1 <= h.limit)
    <3>1. z = s /\ base' = base + 1
      BY <1>1, <1>3, <1>4, <1>5, <1>6, <1>14, <2>4
    <3>2. k < s
      <4> SUFFICES ASSUME k = s PROVE FALSE
        BY <1>5, <2>1
      <4>1. PICK p \in 1 .. z : f[p].id = e[s].id
        BY <1>4, <1>7, <2>1
      <4>2. CASE p = 1
        BY <1>3, <1>7, <1>8, <1>14, <2>1, <2>2, <4>1, <4>2
      <4>3. CASE p # 1
        <5>1. p - 1 \in 1 .. s /\ p - 1 # s /\ f[p] = e[p - 1]
          BY <1>5, <2>2, <3>1, <4>3
        <5> QED
          BY <1>7, <2>1, <4>1, <5>1
      <4> QED
        BY <4>2, <4>3
    <3>3. z - (n - base') = k + 1 /\ n - base' \in 0 .. z - 1
      BY <1>5, <1>9, <1>12, <3>1, <3>2
    <3>4. f[k + 1] = e[k]
      <4>1. k + 1 \in 1 .. z /\ k + 1 # 1 /\ (k + 1) - 1 = k
        BY <1>5, <2>1, <3>1, <3>2
      <4> QED
        BY <2>2, <4>1
    <3> QED
      BY <1>11, <2>1, <3>3, <3>4
  <2> QED
    BY <2>3, <2>4
<1> QED
  BY <1>13, <1>14

(* While lines are added the index of every entry that stays keeps naming   *)
(* it: the base moves exactly when the oldest entry is pushed out.          *)
THEOREM IndexesStay == HandleSpec => IndexesKept
<1>1. ReadlineInv /\ [HandleNext]_rvars =>
        [(~ behind /\ length > 0 /\ \E line \in Texts : AddHistory(line)) => KeepsIndexes]_rvars
  <2> SUFFICES ASSUME ReadlineInv, ~ behind, length > 0,
                      NEW line \in Texts, AddHistory(line)
               PROVE  KeepsIndexes
    OBVIOUS
  <2>1. KeptList
    BY DEF ReadlineInv, KeptList
  <2> QED
    BY <2>1, IndexStep
<1> QED
  BY <1>1, ReadlineInvariant, PTL DEF HandleSpec, IndexesKept

-----------------------------------------------------------------------------
(* What was saved is loaded again.                                          *)

LEMMA FreshLoad ==
  ASSUME NEW w \in Seq(Words), Len(w) <= LastNumber, Len(w) <= LastId + 1
  PROVE  LET r == Load([ReadlineHandle EXCEPT !.store.next = 0], w)
         IN  r.ok /\ OldestFirst(r.h) = w
<1> DEFINE g == [ReadlineHandle EXCEPT !.store.next = 0]
           n == Len(w)
           Holds(x, k) ==
             /\ x.number = k /\ Size(x.store) = k /\ x.limit = LastNumber
             /\ k <= LastId => x.store.next = k
             /\ \A i \in 1 .. k : x.store.entries[i].line = w[k + 1 - i]
<1>1. g = [NewHandle EXCEPT !.limit = LastNumber]
  <2> DEFINE x == [NewHandle EXCEPT !.limit = LastNumber]
  <2>1. [EmptyStore EXCEPT !.next = 0] = EmptyStore
    <3>1. EmptyStore \in Stores(Words, Numbers) /\ EmptyStore.next = 0
      BY EmptyOk DEF StoreOk, EmptyStore
    <3> QED
      BY <3>1 DEF Stores
  <2>2. NewHandle \in Handles(Words) /\ NewHandle.store = EmptyStore
    BY NewHandleOk DEF HandleOk, NewHandle
  <2>3. x.store = EmptyStore /\ [x EXCEPT !.store = EmptyStore] = x
    BY <2>2, LastNumberAssumption DEF Handles
  <2> HIDE DEF x
  <2>4. [x EXCEPT !.store.next = 0] = [x EXCEPT !.store = [EmptyStore EXCEPT !.next = 0]]
    BY <2>3
  <2>5. [x EXCEPT !.store.next = 0] = x
    BY <2>1, <2>3, <2>4
  <2> QED
    BY <2>5 DEF x, ReadlineHandle
<1>2. HandleOk(g, Words)
  BY <1>1, NewHandleOk, SettingsOk, LastNumberAssumption
<1>3. /\ ~g.store.unique /\ g.number = 0 /\ Size(g.store) = 0 /\ g.limit = LastNumber
      /\ g.store.next = 0
  BY <1>1 DEF NewHandle, EmptyStore, Size
<1>4. n \in Nat /\ n <= LastNumber /\ n <= LastId + 1 /\ \A k \in 1 .. n : w[k] \in Words
  OBVIOUS
<1> HIDE DEF g
<1>5. PICK a \in [0 .. n -> Replies(Words)] :
        /\ a[0] = Done(g) /\ Load(g, w) = a[n]
        /\ \A k \in 1 .. n :
               a[k] = IF a[k - 1].ok THEN Enter(a[k - 1].h, w[k]) ELSE a[k - 1]
  BY <1>2, <1>3, LoadSteps
<1> HIDE DEF n
<1> DEFINE T == {k \in 0 .. n : a[k].ok /\ Holds(a[k].h, k)}
<1>6. 0 \in T
  <2>1. 0 \in 0 .. n /\ 1 .. 0 = {}
    BY <1>4
  <2>2. a[0].h = g /\ a[0].ok
    BY <1>5 DEF Done
  <2>3. Holds(g, 0)
    BY <1>3, <2>1
  <2> QED
    BY <2>1, <2>2, <2>3
<1>7. \A k \in 1 .. n : k - 1 \in T => k \in T
  <2> SUFFICES ASSUME NEW k \in 1 .. n, a[k - 1].ok, Holds(a[k - 1].h, k - 1)
               PROVE  a[k].ok /\ Holds(a[k].h, k)
    BY <1>4
  <2> DEFINE y == a[k - 1].h
             r == Enter(y, w[k])
  <2>1. a[k] = r /\ a[k - 1] \in Replies(Words) /\ k \in Nat /\ w[k] \in Words
    BY <1>4, <1>5
  <2>2. HandleOk(y, Words) /\ ~y.store.unique
    BY <2>1 DEF Replies
  <2>3. ~Blocked(y)
    <3>1. y.number = k - 1 /\ k - 1 < LastNumber
      BY <1>4, LastNumberAssumption
    <3>2. y.store.next = k - 1 /\ k - 1 # None
      BY <1>4, LastIdAssumption DEF None
    <3> QED
      BY <3>1, <3>2 DEF Blocked, Numbered
  <2>4. Holds(y, k - 1)
    OBVIOUS
  <2> HIDE DEF y
  <2>5. /\ r.ok /\ SameSettings(r.h, y) /\ r.h.number = y.number + 1
        /\ r.h.store.next = IF y.store.next = LastId THEN None ELSE y.store.next + 1
        /\ Size(r.h.store) = IF Size(y.store) + 1 <= y.limit THEN Size(y.store) + 1
                             ELSE y.limit
        /\ \A i \in 1 .. Size(r.h.store) :
               r.h.store.entries[i] = IF i = 1 THEN Row(y, w[k]) ELSE y.store.entries[i - 1]
    BY <2>1, <2>2, <2>3, EnterPlain, EnterOk
  <2> HIDE DEF r
  <2>6. r.h.number = k /\ Size(r.h.store) = k /\ r.h.limit = LastNumber
    BY <1>4, <2>1, <2>4, <2>5, LastNumberAssumption DEF SameSettings
  <2>7. k <= LastId => r.h.store.next = k
    BY <1>4, <2>1, <2>4, <2>5, LastIdAssumption
  <2>8. \A i \in 1 .. k : r.h.store.entries[i].line = w[k + 1 - i]
    <3> TAKE i \in 1 .. k
    <3>1. r.h.store.entries[i] = IF i = 1 THEN Row(y, w[k]) ELSE y.store.entries[i - 1]
      BY <2>5, <2>6
    <3>2. CASE i = 1
      <4>1. Row(y, w[k]).line = w[k] /\ k + 1 - i = k
        BY <2>1, <3>2 DEF Row
      <4> QED
        BY <3>1, <3>2, <4>1
    <3>3. CASE i # 1
      <4>1. i - 1 \in 1 .. k - 1 /\ (k - 1) + 1 - (i - 1) = k + 1 - i
        BY <2>1, <3>3
      <4>2. y.store.entries[i - 1].line = w[(k - 1) + 1 - (i - 1)]
        BY <2>4, <4>1
      <4> QED
        BY <3>1, <3>3, <4>1, <4>2
    <3> QED
      BY <3>2, <3>3
  <2> QED
    BY <2>1, <2>5, <2>6, <2>7, <2>8
<1>8. a[n].ok /\ Holds(a[n].h, n) /\ HandleOk(a[n].h, Words)
  <2> HIDE DEF Holds
  <2>1. T = 0 .. n
    <3>1. T \in SUBSET (0 .. n) /\ n \in Nat
      BY <1>4
    <3> HIDE DEF T
    <3> QED
      BY <1>6, <1>7, <3>1, Inducts
  <2>2. n \in 0 .. n
    BY <1>4
  <2>3. a[n] \in Replies(Words)
    BY <1>5, <2>2
  <2> QED
    BY <2>1, <2>2, <2>3 DEF Replies
<1> DEFINE x == a[n].h
<1>9. OldestFirst(x) = w
  <2>1. OldestFirst(x) \in Seq(Words) /\ Len(OldestFirst(x)) = n
    BY <1>8, SavedLinesOk
  <2>2. \A k \in 1 .. n : OldestFirst(x)[k] = w[k]
    <3> TAKE k \in 1 .. n
    <3>1. n + 1 - k \in 1 .. n /\ n + 1 - (n + 1 - k) = k
      BY <1>4
    <3>2. x.store.entries[n + 1 - k].line = w[n + 1 - (n + 1 - k)]
      BY <1>8, <3>1
    <3>3. OldestFirst(x)[k] = x.store.entries[n + 1 - k].line
      BY <1>8 DEF OldestFirst
    <3> QED
      BY <3>1, <3>2, <3>3
  <2> HIDE DEF x, Words
  <2> QED
    BY <2>1, <2>2 DEF n
<1> QED
  BY <1>5, <1>8, <1>9 DEF g

(* A whole write_history leaves a file that read_history accepts, and that  *)
(* gives a new session the same lines in the same order.                    *)
THEOREM SavedLinesReturn ==
  HandleSpec => []SavedIsRestored
<1>1. ReadlineInv => SavedIsRestored
  <2> SUFFICES ASSUME ReadlineInv, written # Absent
               PROVE  /\ Readable
                      /\ LET r == Load([ReadlineHandle EXCEPT !.store.next = 0], Tail(file))
                         IN  r.ok /\ OldestFirst(r.h) = written
    BY DEF SavedIsRestored
  <2>1. /\ written \in Seq(Words) /\ file = <<Header>> \o written
        /\ Len(written) <= LastNumber /\ Len(written) <= LastId + 1
    BY DEF ReadlineInv, FileOk
  <2>2. Header \in Words
    BY TextsAreListed
  <2> HIDE DEF Words
  <2>3. file \in Seq(Words) /\ file # <<>> /\ file[1] = Header /\ Tail(file) = written
    BY <2>1, <2>2
  <2>4. file # Absent
    BY <2>3, AbsentAssumption DEF Words
  <2> QED
    BY <2>1, <2>3, <2>4, FreshLoad DEF Readable
<1> QED
  BY <1>1, ReadlineInvariant, PTL
=============================================================================
