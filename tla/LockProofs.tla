------------------------------ MODULE LockProofs ------------------------------
(***************************************************************************)
(* Waiting for row locks never closes a circle, except through a sweep or  *)
(* an edit of an account: for any number of connections and rows.          *)
(***************************************************************************)
EXTENDS RowLocks, WellFoundedInduction, TLAPS

USE LocksAssumption

-----------------------------------------------------------------------------
(* Statements and programs *)

Known == {"key", "draft", "user", "cart", "placed", "pet", "product", "category", "media"}

Program == Seq(Statement)

\* Later statements ask for later classes; the table of users is only shared.
Sorted(q) ==
    /\ \A i \in 1 .. Len(q) : q[i].class = "table" => q[i].mode = "share"
    /\ \A i, j \in 1 .. Len(q) :
         i < j => q[j].class = "table" \/ ClassRank[q[i].class] < ClassRank[q[j].class]

LEMMA StatementFields ==
  ASSUME NEW s \in Statement
  PROVE  s.class \in Classes /\ s.ids \subseteq 0 .. Width - 1 /\ s.mode \in Modes
BY DEF Statement

LEMMA RankType == ASSUME NEW x \in Classes PROVE ClassRank[x] \in 0 .. 9
BY DEF Classes, ClassRank

LEMMA StatementTypes ==
  ASSUME NEW x \in Classes, NEW ids \in SUBSET (0 .. Width - 1)
  PROVE  Lock(x, ids) \in Statement /\ Share(x, ids) \in Statement
         /\ SkipLocked(x, ids) \in Statement
BY DEF Statement, Lock, Share, SkipLocked, Modes

\* A program whose classes lie between two ranks.
Within(p, a, b) ==
    /\ p \in Program
    /\ Sorted(p)
    /\ \A i \in 1 .. Len(p) : ClassRank[p[i].class] \in a .. b

LEMMA Joined ==
  ASSUME NEW p, NEW q, NEW a \in Nat, NEW b \in Nat, NEW c \in Nat, NEW d \in Nat,
         Within(p, a, b), Within(q, c, d), a <= c, b < c, b <= d
  PROVE  Within(p \o q, a, d)
<1> DEFINE r == p \o q
<1>1. p \in Program /\ q \in Program  BY DEF Within
<1>2. r \in Program /\ Len(r) = Len(p) + Len(q)  BY <1>1 DEF Program
<1>3. \A i \in 1 .. Len(r) : r[i] = IF i <= Len(p) THEN p[i] ELSE q[i - Len(p)]
  BY <1>1 DEF Program
<1>4. Len(p) \in Nat /\ Len(q) \in Nat  BY <1>1 DEF Program
<1>5. \A i \in 1 .. Len(p) : ClassRank[p[i].class] \in a .. b  BY DEF Within
<1>6. \A i \in 1 .. Len(q) : ClassRank[q[i].class] \in c .. d  BY DEF Within
<1>7. ASSUME NEW i \in 1 .. Len(r)
      PROVE  \/ i \in 1 .. Len(p) /\ r[i] = p[i]
             \/ i - Len(p) \in 1 .. Len(q) /\ r[i] = q[i - Len(p)]
  BY <1>2, <1>3, <1>4
<1> HIDE DEF r
<1>8. Sorted(r)
  <2>1. ASSUME NEW i \in 1 .. Len(r), r[i].class = "table"  PROVE r[i].mode = "share"
    BY <1>7, <2>1 DEF Within, Sorted
  <2>2. ASSUME NEW i \in 1 .. Len(r), NEW j \in 1 .. Len(r), i < j
        PROVE  r[j].class = "table" \/ ClassRank[r[i].class] < ClassRank[r[j].class]
    <3>1. CASE i \in 1 .. Len(p) /\ r[i] = p[i] /\ j \in 1 .. Len(p) /\ r[j] = p[j]
      BY <2>2, <3>1 DEF Within, Sorted
    <3>2. CASE i \in 1 .. Len(p) /\ r[i] = p[i]
               /\ j - Len(p) \in 1 .. Len(q) /\ r[j] = q[j - Len(p)]
      BY <3>2, <1>5, <1>6
    <3>3. CASE /\ i - Len(p) \in 1 .. Len(q) /\ r[i] = q[i - Len(p)]
               /\ j - Len(p) \in 1 .. Len(q) /\ r[j] = q[j - Len(p)]
      <4>1. i - Len(p) < j - Len(p)  BY <2>2, <1>4
      <4> QED BY <3>3, <4>1 DEF Within, Sorted
    <3>4. CASE i - Len(p) \in 1 .. Len(q) /\ j \in 1 .. Len(p)
      BY <3>4, <2>2, <1>4
    <3> QED BY <3>1, <3>2, <3>3, <3>4, <1>7
  <2> QED BY <2>1, <2>2 DEF Sorted
<1>9. \A i \in 1 .. Len(r) : ClassRank[r[i].class] \in a .. d
  <2>1. ASSUME NEW i \in 1 .. Len(r)  PROVE ClassRank[r[i].class] \in a .. d
    <3>1. CASE i \in 1 .. Len(p) /\ r[i] = p[i]  BY <3>1, <1>5
    <3>2. CASE i - Len(p) \in 1 .. Len(q) /\ r[i] = q[i - Len(p)]  BY <3>2, <1>6
    <3> QED BY <3>1, <3>2, <1>7
  <2> QED BY <2>1
<1>10. Within(r, a, d)  BY <1>2, <1>8, <1>9 DEF Within
<1> QED BY <1>10 DEF r

LEMMA One ==
  ASSUME NEW s \in Statement, s.class # "table"
  PROVE  Within(<<s>>, ClassRank[s.class], ClassRank[s.class])
BY RankType, StatementFields DEF Within, Program, Sorted

LEMMA Two ==
  ASSUME NEW s \in Statement, NEW t \in Statement, s.class # "table", t.class # "table",
         ClassRank[s.class] < ClassRank[t.class]
  PROVE  Within(<<s, t>>, ClassRank[s.class], ClassRank[t.class])
BY RankType, StatementFields DEF Within, Program, Sorted

LEMMA CartWithin == ASSUME NEW u \in Users PROVE Within(Cart(u), 3, 4)
<1>1. {u} \in SUBSET (0 .. Width - 1)  OBVIOUS
<1>2. Lock("user", {u}) \in Statement /\ Lock("cart", {u}) \in Statement
  BY <1>1, StatementTypes DEF Classes
<1>3. Lock("user", {u}).class = "user" /\ Lock("cart", {u}).class = "cart"  BY DEF Lock
<1>4. ClassRank["user"] = 3 /\ ClassRank["cart"] = 4  BY DEF ClassRank
<1>5. Within(<<Lock("user", {u}), Lock("cart", {u})>>, 3, 4)  BY <1>2, <1>3, <1>4, Two
<1> QED BY <1>5 DEF Cart

LEMMA InventoryWithin == ASSUME NEW items \in Items PROVE Within(Inventory(items), 6, 7)
<1>1. items.pets \in SUBSET (0 .. Width - 1) /\ items.products \in SUBSET (0 .. Width - 1)  BY DEF Items
<1>2. Lock("pet", items.pets) \in Statement /\ Lock("product", items.products) \in Statement
  BY <1>1, StatementTypes DEF Classes
<1> QED BY <1>2, Two DEF Inventory, Lock, ClassRank

LEMMA LockWithin ==
  ASSUME NEW class \in Known, NEW ids \in SUBSET (0 .. Width - 1)
  PROVE  /\ Within(<<Lock(class, ids)>>, ClassRank[class], ClassRank[class])
         /\ Within(<<Share(class, ids)>>, ClassRank[class], ClassRank[class])
         /\ Within(<<SkipLocked(class, ids)>>, ClassRank[class], ClassRank[class])
<1>1. class \in Classes /\ class # "table"  BY DEF Known, Classes
<1> QED BY <1>1, One, StatementTypes DEF Lock, Share, SkipLocked

-----------------------------------------------------------------------------
(* Least and greatest numbers *)

LessThan == {pair \in Nat \X Nat : pair[1] < pair[2]}

LEMMA LessThanWellFounded == IsWellFoundedOn(LessThan, Nat)
<1>1. OpToRel(<, Nat) = LessThan  BY DEF OpToRel, LessThan
<1> QED BY <1>1, NatLessThanWellFounded

LEMMA HasLeast ==
  ASSUME NEW T \in SUBSET Nat, T # {}
  PROVE  \E x \in T : \A y \in T : x <= y
<1>1. PICK x \in T : \A y \in T : ~ (<<y, x>> \in LessThan)
  BY LessThanWellFounded, WFMin
<1>2. \A y \in T : <<y, x>> \in LessThan <=> y < x  BY DEF LessThan
<1>3. ASSUME NEW y \in T  PROVE x <= y
  <2>1. x \in Nat /\ y \in Nat  OBVIOUS
  <2>2. ~ (y < x)  BY <1>1, <1>2
  <2> QED BY <2>1, <2>2
<1> QED BY <1>3

LEMMA HasGreatest ==
  ASSUME NEW n \in Nat, NEW T \in SUBSET (0 .. n), T # {}
  PROVE  \E x \in T : \A y \in T : y <= x
<1> DEFINE U == {n - x : x \in T}
<1>1. U \in SUBSET Nat /\ U # {}
  <2>1. \A x \in T : n - x \in Nat  OBVIOUS
  <2>2. PICK x \in T : TRUE  OBVIOUS
  <2>3. n - x \in U  OBVIOUS
  <2> QED BY <2>1, <2>3
<1>2. PICK u \in U : \A v \in U : u <= v  BY <1>1, HasLeast
<1>3. PICK x \in T : u = n - x  BY <1>2
<1>4. ASSUME NEW y \in T  PROVE y <= x
  <2>1. n - y \in U /\ x \in 0 .. n /\ y \in 0 .. n  OBVIOUS
  <2>2. n - x <= n - y  BY <2>1, <1>2, <1>3
  <2> QED BY <2>1, <2>2
<1> QED BY <1>4

LEMMA LeastIn ==
  ASSUME NEW ids \in SUBSET (0 .. Width - 1), ids # {}
  PROVE  Least(ids) \in ids /\ \A j \in ids : Least(ids) <= j
<1>1. \E i \in ids : \A j \in ids : i <= j  BY HasLeast
<1> QED BY <1>1 DEF Least

-----------------------------------------------------------------------------
(* A transaction that takes its locks in the order of the classes *)

\* Nothing it still asks for comes before anything it holds.
InOrder(q, h) ==
    /\ Sorted(q)
    /\ \A l \in h : l.class = "table" => l.mode = "share"
    /\ \A l \in h : \A i \in 1 .. Len(q) :
         \/ q[i].class = "table"
         \/ ClassRank[l.class] < ClassRank[q[i].class]
         \/ i = 1 /\ l.class = q[i].class /\ \A id \in q[i].ids : l.id < id

Shrunk(q) == <<[Head(q) EXCEPT !.ids = @ \ {Least(Head(q).ids)}]>> \o Tail(q)

Granted(q) == [class |-> Head(q).class, id |-> Least(Head(q).ids),
               mode |-> IF Head(q).mode = "share" THEN "share" ELSE "update"]

LEMMA FirstStatement ==
  ASSUME NEW q \in Program, q # <<>>
  PROVE  /\ Len(q) \in Nat \ {0} /\ Head(q) = q[1] /\ Head(q) \in Statement
         /\ Tail(q) \in Program /\ Len(Tail(q)) = Len(q) - 1
         /\ \A i \in 1 .. Len(q) - 1 : Tail(q)[i] = q[i + 1]
BY DEF Program

LEMMA ShrunkShape ==
  ASSUME NEW q \in Program, q # <<>>
  PROVE  /\ Shrunk(q) \in Program /\ Len(Shrunk(q)) = Len(q)
         /\ Shrunk(q)[1] = [Head(q) EXCEPT !.ids = @ \ {Least(Head(q).ids)}]
         /\ \A i \in 2 .. Len(q) : Shrunk(q)[i] = q[i]
         /\ \A i \in 1 .. Len(q) : /\ Shrunk(q)[i].class = q[i].class
                                   /\ Shrunk(q)[i].mode = q[i].mode
                                   /\ Shrunk(q)[i].ids \subseteq q[i].ids
<1> DEFINE s == [Head(q) EXCEPT !.ids = @ \ {Least(Head(q).ids)}]
<1>1. /\ s \in Statement /\ s.class = q[1].class /\ s.mode = q[1].mode
      /\ s.ids = q[1].ids \ {Least(Head(q).ids)}
  BY FirstStatement DEF Statement
<1> HIDE DEF s
<1>2. <<s>> \in Program /\ Len(<<s>>) = 1 /\ <<s>>[1] = s  BY <1>1 DEF Program
<1> DEFINE r == <<s>> \o Tail(q)
<1>3. r \in Program /\ Len(r) = Len(q)
  BY <1>2, FirstStatement DEF Program
<1>4. \A i \in 1 .. Len(q) : r[i] = IF i <= 1 THEN s ELSE Tail(q)[i - 1]
  BY <1>2, FirstStatement DEF Program
<1> HIDE DEF r
<1>5. r[1] = s /\ \A i \in 2 .. Len(q) : r[i] = q[i]
  BY <1>4, FirstStatement
<1>6. ASSUME NEW i \in 1 .. Len(q)
      PROVE  r[i].class = q[i].class /\ r[i].mode = q[i].mode /\ r[i].ids \subseteq q[i].ids
  <2>1. CASE i = 1  BY <2>1, <1>1, <1>5
  <2>2. CASE i \in 2 .. Len(q)  BY <2>2, <1>5
  <2> QED BY <2>1, <2>2, FirstStatement
<1>7. Shrunk(q) = r  BY DEF Shrunk, r, s
<1> QED BY <1>1, <1>3, <1>5, <1>6, <1>7 DEF s

LEMMA GrantedType ==
  ASSUME NEW q \in Program, q # <<>>, Head(q).ids # {}
  PROVE  Granted(q) \in Taken
<1>1. Head(q) \in Statement  BY FirstStatement
<1>2. Least(Head(q).ids) \in Head(q).ids  BY <1>1, LeastIn DEF Statement
<1> QED BY <1>1, <1>2 DEF Statement, Granted, Taken

LEMMA StaysSorted ==
  ASSUME NEW q \in Program, q # <<>>, Sorted(q)
  PROVE  Sorted(Shrunk(q)) /\ Sorted(Tail(q))
<1>1. Sorted(Shrunk(q))
  <2> DEFINE r == Shrunk(q)
  <2>1. Len(r) = Len(q) /\ \A i \in 1 .. Len(q) : r[i].class = q[i].class /\ r[i].mode = q[i].mode
    BY ShrunkShape
  <2> HIDE DEF r
  <2>2. Sorted(r)  BY <2>1 DEF Sorted
  <2> QED BY <2>2 DEF r
<1>2. Sorted(Tail(q))  BY FirstStatement DEF Sorted
<1> QED BY <1>1, <1>2

LEMMA GrantInOrder ==
  ASSUME NEW q \in Program, q # <<>>, Head(q).ids # {}, NEW h \in SUBSET Taken, InOrder(q, h)
  PROVE  InOrder(Shrunk(q), h \cup {Granted(q)}) /\ InOrder(Shrunk(q), h)
<1> DEFINE r == Shrunk(q)
           g == Granted(q)
<1>1. Sorted(q) /\ Sorted(r)  BY StaysSorted DEF InOrder
<1>2. Head(q) = q[1] /\ Len(q) \in Nat \ {0} /\ q[1] \in Statement  BY FirstStatement
<1>3. /\ g.class = q[1].class /\ g.id = Least(q[1].ids)
      /\ q[1].mode = "share" => g.mode = "share"
  BY <1>2 DEF Granted
<1> HIDE DEF r, g
<1>4. g.class = "table" => g.mode = "share"
  <2>1. 1 \in 1 .. Len(q)  BY <1>2
  <2>2. q[1].class = "table" => q[1].mode = "share"  BY <2>1, <1>1 DEF Sorted
  <2> QED BY <2>2, <1>3
<1>9. /\ Len(r) = Len(q) /\ r[1].ids = q[1].ids \ {Least(q[1].ids)}
      /\ \A i \in 1 .. Len(q) : r[i].class = q[i].class /\ r[i].ids \subseteq q[i].ids
  <2>1. r[1] = [q[1] EXCEPT !.ids = @ \ {Least(q[1].ids)}]  BY <1>2, ShrunkShape DEF r
  <2>2. r[1].ids = q[1].ids \ {Least(q[1].ids)}  BY <2>1, <1>2 DEF Statement
  <2>3. Len(r) = Len(q) /\ \A i \in 1 .. Len(q) : r[i].class = q[i].class /\ r[i].ids \subseteq q[i].ids
    BY ShrunkShape DEF r
  <2> QED BY <2>2, <2>3
<1>5. ASSUME NEW l \in h, NEW i \in 1 .. Len(r)
      PROVE  \/ r[i].class = "table"
             \/ ClassRank[l.class] < ClassRank[r[i].class]
             \/ i = 1 /\ l.class = r[i].class /\ \A id \in r[i].ids : l.id < id
  <2>1. \/ q[i].class = "table"
        \/ ClassRank[l.class] < ClassRank[q[i].class]
        \/ i = 1 /\ l.class = q[i].class /\ \A id \in q[i].ids : l.id < id
    BY <1>9 DEF InOrder
  <2> QED BY <2>1, <1>9
<1>6. ASSUME NEW i \in 1 .. Len(r)
      PROVE  \/ r[i].class = "table"
             \/ ClassRank[g.class] < ClassRank[r[i].class]
             \/ i = 1 /\ g.class = r[i].class /\ \A id \in r[i].ids : g.id < id
  <2>1. CASE i = 1
    <3>1. r[1].class = g.class /\ r[1].ids = q[1].ids \ {g.id}
      BY <1>2, <1>3, <1>9
    <3>2. q[1].ids \in SUBSET (0 .. Width - 1)  BY <1>2 DEF Statement
    <3>3. g.id \in q[1].ids /\ \A j \in q[1].ids : g.id <= j  BY <1>2, <1>3, <3>2, LeastIn
    <3>4. \A id \in r[1].ids : g.id < id  BY <3>1, <3>2, <3>3
    <3> QED BY <2>1, <3>1, <3>4
  <2>2. CASE i \in 2 .. Len(q)
    <3>1. r[i].class = q[i].class  BY <1>9
    <3>2. q[i].class = "table" \/ ClassRank[q[1].class] < ClassRank[q[i].class]
      BY <2>2, <1>1, <1>2 DEF Sorted
    <3> QED BY <1>3, <3>1, <3>2
  <2> QED BY <2>1, <2>2, <1>2, <1>9
<1>7. \A l \in h : l.class = "table" => l.mode = "share"  BY DEF InOrder
<1> QED BY <1>1, <1>4, <1>5, <1>6, <1>7 DEF InOrder, r, g

LEMMA TailInOrder ==
  ASSUME NEW q \in Program, q # <<>>, NEW h \in SUBSET Taken, InOrder(q, h)
  PROVE  InOrder(Tail(q), h)
<1>1. Sorted(Tail(q))  BY StaysSorted DEF InOrder
<1>2. ASSUME NEW l \in h, NEW i \in 1 .. Len(Tail(q))
      PROVE  Tail(q)[i].class = "table" \/ ClassRank[l.class] < ClassRank[Tail(q)[i].class]
  <2>1. i + 1 \in 1 .. Len(q) /\ i + 1 # 1 /\ Tail(q)[i] = q[i + 1]  BY FirstStatement
  <2> QED BY <2>1 DEF InOrder
<1> QED BY <1>1, <1>2 DEF InOrder

-----------------------------------------------------------------------------
(* Where handlers begin *)

Orderly(k) == k \notin {"sweep", "edit"}

OrderInv == \A c \in Connections : Orderly(kind[c]) => InOrder(todo[c], held[c])

LockInv == LocksTypeOK /\ OrderInv

LEMMA BeginKeeps ==
  ASSUME LockInv, NEW c \in Connections, NEW handler \in Handlers,
         NEW q \in Program, Orderly(handler) => Sorted(q),
         handler = "sweep" =>
           \A i \in 1 .. Len(q) : q[i].class = "placed" => q[i].ids \subseteq Placed,
         Begin(c, handler, q)
  PROVE  LockInv'
<1>1. /\ kind' = [kind EXCEPT ![c] = handler] /\ todo' = [todo EXCEPT ![c] = q]
      /\ held' = held /\ rows' = rows /\ kind[c] = "idle"
  BY DEF Begin
<1>2. held[c] = {} /\ rows[c] = {}  BY <1>1 DEF LockInv, LocksTypeOK
<1>3. LocksTypeOK'
  <2>1. LocksTypeOK  BY DEF LockInv
  <2>2. todo' \in [Connections -> Seq(Statement)]  BY <1>1, <2>1 DEF LocksTypeOK, Program
  <2>3. kind' \in [Connections -> Handlers \cup {"idle"}]  BY <1>1, <2>1 DEF LocksTypeOK
  <2>4. /\ kind'[c] = handler /\ todo'[c] = q
        /\ \A d \in Connections \ {c} : kind'[d] = kind[d] /\ todo'[d] = todo[d]
    BY <1>1, <2>1 DEF LocksTypeOK
  <2>5. handler # "idle"  BY DEF Handlers
  <2>6. ASSUME NEW d \in Connections
        PROVE  /\ kind'[d] = "idle" => todo'[d] = <<>> /\ held'[d] = {}
               /\ kind'[d] # "sweep" => rows'[d] = {}
               /\ \A i \in 1 .. Len(todo'[d]) :
                    kind'[d] = "sweep" /\ todo'[d][i].class = "placed" => todo'[d][i].ids \subseteq Placed
    <3>1. CASE d = c  BY <3>1, <2>4, <2>5, <1>1, <1>2
    <3>2. CASE d # c  BY <3>2, <2>4, <1>1, <2>1 DEF LocksTypeOK
    <3> QED BY <3>1, <3>2
  <2> QED BY <2>1, <2>2, <2>3, <2>6, <1>1 DEF LocksTypeOK
<1>4. ASSUME NEW d \in Connections, Orderly(kind'[d])  PROVE InOrder(todo'[d], held'[d])
  <2>1. CASE d = c
    <3>1. todo'[d] = q /\ held'[d] = {} /\ Sorted(q)
      BY <2>1, <1>1, <1>2, <1>4 DEF LockInv, LocksTypeOK
    <3> QED BY <3>1 DEF InOrder
  <2>2. CASE d # c
    <3>1. todo'[d] = todo[d] /\ held'[d] = held[d] /\ kind'[d] = kind[d]
      BY <2>2, <1>1 DEF LockInv, LocksTypeOK
    <3> QED BY <3>1, <1>4 DEF LockInv, OrderInv
  <2> QED BY <2>1, <2>2
<1> QED BY <1>3, <1>4 DEF LockInv, OrderInv

LEMMA ByRank ==
  /\ ClassRank["key"] = 1 /\ ClassRank["draft"] = 2 /\ ClassRank["placed"] = 5
  /\ ClassRank["pet"] = 6 /\ ClassRank["product"] = 7 /\ ClassRank["category"] = 8
  /\ ClassRank["media"] = 9 /\ ClassRank["user"] = 3 /\ ClassRank["cart"] = 4
BY DEF ClassRank

LEMMA Identifiers ==
  /\ \A k \in Keys : {k} \in SUBSET (0 .. Width - 1)
  /\ \A u \in Users : {u} \in SUBSET (0 .. Width - 1)
  /\ \A o \in Drafts \cup Placed : {o} \in SUBSET (0 .. Width - 1)
  /\ \A p \in Pets \cup Products : {p} \in SUBSET (0 .. Width - 1)
  /\ \A k \in Categories : {k} \in SUBSET (0 .. Width - 1)
  /\ \A m \in Images : {m} \in SUBSET (0 .. Width - 1)
OBVIOUS

LEMMA OrderFields ==
  ASSUME NEW o \in Drafts \cup Placed
  PROVE  Owner[o] \in Users /\ Basket[o] \in Items /\ [Basket[o] EXCEPT !.pets = {}] \in Items
BY DEF Items

LEMMA CreateProgram ==
  ASSUME NEW k \in Keys, NEW u \in Users, NEW items \in Items, NEW covers \in SUBSET Images
  PROVE  Within(<<Lock("key", {k})>> \o Cart(u) \o Inventory(items) \o <<Lock("media", covers)>>, 1, 9)
<1>1. Within(<<Lock("key", {k})>>, 1, 1)  BY LockWithin, ByRank, Identifiers DEF Known
<1>2. Within(<<Lock("key", {k})>> \o Cart(u), 1, 4)
  <2> DEFINE p == <<Lock("key", {k})>>
             q == Cart(u)
  <2>1. Within(p, 1, 1) /\ Within(q, 3, 4)  BY <1>1, CartWithin
  <2> HIDE DEF p, q
  <2>2. Within(p \o q, 1, 4)  BY <2>1, Joined
  <2> QED BY <2>2 DEF p, q
<1>3. Within(<<Lock("key", {k})>> \o Cart(u) \o Inventory(items), 1, 7)
  BY <1>2, InventoryWithin, Joined
<1>4. covers \in SUBSET (0 .. Width - 1)  OBVIOUS
<1>5. Within(<<Lock("media", covers)>>, 9, 9)  BY <1>4, LockWithin, ByRank DEF Known
<1> QED BY <1>3, <1>5, Joined

LEMMA Three ==
  ASSUME NEW s \in Statement, NEW t \in Statement, NEW u \in Statement,
         s.class # "table", t.class # "table", u.class # "table",
         ClassRank[s.class] < ClassRank[t.class], ClassRank[t.class] < ClassRank[u.class]
  PROVE  Within(<<s, t, u>>, ClassRank[s.class], ClassRank[u.class])
BY RankType, StatementFields DEF Within, Program, Sorted

LEMMA Four ==
  ASSUME NEW s \in Statement, NEW t \in Statement, NEW u \in Statement, NEW v \in Statement,
         s.class # "table", t.class # "table", u.class # "table", v.class # "table",
         ClassRank[s.class] < ClassRank[t.class], ClassRank[t.class] < ClassRank[u.class],
         ClassRank[u.class] < ClassRank[v.class]
  PROVE  Within(<<s, t, u, v>>, ClassRank[s.class], ClassRank[v.class])
BY RankType, StatementFields DEF Within, Program, Sorted

LEMMA KeyCart == ASSUME NEW k \in Keys, NEW u \in Users
                 PROVE Within(<<Lock("key", {k})>> \o Cart(u), 1, 4)
<1>1. Within(<<Lock("key", {k})>>, 1, 1)  BY LockWithin, ByRank, Identifiers DEF Known
<1> DEFINE p == <<Lock("key", {k})>>
           q == Cart(u)
<1>2. Within(p, 1, 1) /\ Within(q, 3, 4)  BY <1>1, CartWithin
<1> HIDE DEF p, q
<1>3. Within(p \o q, 1, 4)  BY <1>2, Joined
<1> QED BY <1>3 DEF p, q

LEMMA KeyOrder ==
  ASSUME NEW k \in Keys, NEW o \in Drafts \cup Placed, NEW class \in {"draft", "placed"}
  PROVE  Within(<<Lock("key", {k}), Lock(class, {o})>>, 1, ClassRank[class])
<1>1. {k} \in SUBSET (0 .. Width - 1) /\ {o} \in SUBSET (0 .. Width - 1)  BY Identifiers
<1>2. Lock("key", {k}) \in Statement /\ Lock(class, {o}) \in Statement
  BY <1>1, StatementTypes DEF Classes
<1>3. Lock("key", {k}).class = "key" /\ Lock(class, {o}).class = class  BY DEF Lock
<1>4. ClassRank["key"] < ClassRank[class]  BY ByRank
<1> QED BY <1>2, <1>3, <1>4, Two, ByRank

LEMMA PlaceProgram ==
  ASSUME NEW k \in Keys, NEW o \in Drafts
  PROVE  Within(<<Lock("key", {k}), Lock("draft", {o})>> \o Cart(Owner[o]) \o Inventory(Basket[o]), 1, 7)
<1> DEFINE p == <<Lock("key", {k}), Lock("draft", {o})>>
           q == Cart(Owner[o])
           r == Inventory(Basket[o])
<1>1. Within(p, 1, 2)  BY KeyOrder, ByRank
<1>2. Within(q, 3, 4) /\ Within(r, 6, 7)  BY CartWithin, InventoryWithin, OrderFields
<1> HIDE DEF p, q, r
<1>3. Within(p \o q, 1, 4)  BY <1>1, <1>2, Joined
<1>4. Within(p \o q \o r, 1, 7)  BY <1>2, <1>3, Joined
<1> QED BY <1>4 DEF p, q, r

LEMMA PayProgram ==
  ASSUME NEW k \in Keys, NEW o \in Placed, NEW items \in Items
  PROVE  Within(<<Lock("key", {k}), Lock("placed", {o})>> \o Inventory(items), 1, 7)
<1> DEFINE p == <<Lock("key", {k}), Lock("placed", {o})>>
           r == Inventory(items)
<1>1. Within(p, 1, 5)  BY KeyOrder, ByRank
<1>2. Within(r, 6, 7)  BY InventoryWithin
<1> HIDE DEF p, r
<1>3. Within(p \o r, 1, 7)  BY <1>1, <1>2, Joined
<1> QED BY <1>3 DEF p, r

LEMMA MoveProgram ==
  ASSUME NEW o \in Placed
  PROVE  Within(<<Lock("placed", {o})>> \o Inventory(Basket[o]), 5, 7)
<1> DEFINE p == <<Lock("placed", {o})>>
           r == Inventory(Basket[o])
<1>1. Within(p, 5, 5)  BY LockWithin, ByRank, Identifiers DEF Known
<1>2. Within(r, 6, 7)  BY InventoryWithin, OrderFields
<1> HIDE DEF p, r
<1>3. Within(p \o r, 5, 7)  BY ONLY <1>1, <1>2, Joined
<1> QED BY <1>3 DEF p, r

LEMMA PairProgram ==
  ASSUME NEW a \in Known, NEW b \in Known, ClassRank[a] < ClassRank[b],
         NEW x \in SUBSET (0 .. Width - 1), NEW y \in SUBSET (0 .. Width - 1)
  PROVE  /\ Within(<<Lock(a, x), Lock(b, y)>>, ClassRank[a], ClassRank[b])
         /\ Within(<<Lock(a, x), Share(b, y)>>, ClassRank[a], ClassRank[b])
<1>1. a \in Classes /\ b \in Classes /\ a # "table" /\ b # "table"  BY DEF Known, Classes
<1>2. /\ Lock(a, x) \in Statement /\ Lock(b, y) \in Statement /\ Share(b, y) \in Statement
  BY <1>1, StatementTypes
<1>3. Lock(a, x).class = a /\ Lock(b, y).class = b /\ Share(b, y).class = b  BY DEF Lock, Share
<1> QED BY <1>1, <1>2, <1>3, Two

LEMMA LegacyPlaceProgram ==
  ASSUME NEW o \in Drafts, NEW p \in Pets, NEW old \in SUBSET Legacy
  PROVE  Within(<<Lock("draft", {o}), Lock("user", {Owner[o]}), Lock("placed", old), Lock("pet", {p})>>, 2, 6)
<1>1. /\ {o} \in SUBSET (0 .. Width - 1) /\ {Owner[o]} \in SUBSET (0 .. Width - 1)
      /\ old \in SUBSET (0 .. Width - 1) /\ {p} \in SUBSET (0 .. Width - 1)
  BY Identifiers, OrderFields
<1>2. /\ Lock("draft", {o}) \in Statement /\ Lock("user", {Owner[o]}) \in Statement
      /\ Lock("placed", old) \in Statement /\ Lock("pet", {p}) \in Statement
  BY <1>1, StatementTypes DEF Classes
<1>3. /\ Lock("draft", {o}).class = "draft" /\ Lock("user", {Owner[o]}).class = "user"
      /\ Lock("placed", old).class = "placed" /\ Lock("pet", {p}).class = "pet"
  BY DEF Lock
<1> QED BY <1>2, <1>3, Four, ByRank

LEMMA SaveProgram ==
  ASSUME NEW class \in {"pet", "product"}, NEW i \in Pets \cup Products,
         NEW k \in SUBSET Categories, NEW ms \in SUBSET Images
  PROVE  Within(<<Lock(class, {i}), Share("category", k), Lock("media", ms)>>, ClassRank[class], 9)
<1>1. /\ {i} \in SUBSET (0 .. Width - 1) /\ k \in SUBSET (0 .. Width - 1)
      /\ ms \in SUBSET (0 .. Width - 1)
  BY Identifiers
<1>2. /\ Lock(class, {i}) \in Statement /\ Share("category", k) \in Statement
      /\ Lock("media", ms) \in Statement
  BY <1>1, StatementTypes DEF Classes
<1>3. /\ Lock(class, {i}).class = class /\ Share("category", k).class = "category"
      /\ Lock("media", ms).class = "media"
  BY DEF Lock, Share
<1>4. ClassRank[class] < 8  BY ByRank
<1> QED BY <1>2, <1>3, <1>4, Three, ByRank

LEMMA TableStatements ==
  /\ Share("table", UsersTable) \in Statement /\ Lock("table", UsersTable) \in Statement
  /\ Share("table", UsersTable).class = "table" /\ Share("table", UsersTable).mode = "share"
  /\ ClassRank["table"] = 0
<1>1. UsersTable \in SUBSET (0 .. Width - 1)  BY DEF UsersTable
<1>2. Share("table", UsersTable) \in Statement /\ Lock("table", UsersTable) \in Statement
  BY <1>1, StatementTypes DEF Classes
<1> QED BY <1>2 DEF Share, ClassRank

LEMMA TableFirst ==
  ASSUME NEW s \in Statement, NEW t \in Statement, s.class = "table", s.mode = "share",
         t.class = "user"
  PROVE  <<s, t>> \in Program /\ Sorted(<<s, t>>)
BY TableStatements, ByRank DEF Program, Sorted

LEMMA TableLast ==
  ASSUME NEW s \in Statement, NEW t \in Statement, NEW u \in Statement,
         s.class = "user", t.class = "cart", u.class = "table", u.mode = "share"
  PROVE  <<s, t, u>> \in Program /\ Sorted(<<s, t, u>>)
BY TableStatements, ByRank DEF Program, Sorted

LEMMA UserPrograms ==
  ASSUME NEW u \in Users
  PROVE  /\ <<Share("table", UsersTable), Lock("user", {u})>> \in Program
         /\ Sorted(<<Share("table", UsersTable), Lock("user", {u})>>)
         /\ <<Lock("user", {u}), Lock("cart", {u}), Share("table", UsersTable)>> \in Program
         /\ Sorted(<<Lock("user", {u}), Lock("cart", {u}), Share("table", UsersTable)>>)
         /\ <<Lock("table", UsersTable), Lock("user", {u})>> \in Program
<1>1. {u} \in SUBSET (0 .. Width - 1)  BY Identifiers
<1>2. Lock("user", {u}) \in Statement /\ Lock("cart", {u}) \in Statement
  BY <1>1, StatementTypes DEF Classes
<1>3. Lock("user", {u}).class = "user" /\ Lock("cart", {u}).class = "cart"  BY DEF Lock
<1>4. <<Lock("table", UsersTable), Lock("user", {u})>> \in Program
  BY <1>2, TableStatements DEF Program
<1>5. /\ <<Share("table", UsersTable), Lock("user", {u})>> \in Program
      /\ Sorted(<<Share("table", UsersTable), Lock("user", {u})>>)
  BY <1>2, <1>3, TableStatements, TableFirst
<1>6. /\ <<Lock("user", {u}), Lock("cart", {u}), Share("table", UsersTable)>> \in Program
      /\ Sorted(<<Lock("user", {u}), Lock("cart", {u}), Share("table", UsersTable)>>)
  BY <1>2, <1>3, TableStatements, TableLast
<1> QED BY <1>4, <1>5, <1>6

-----------------------------------------------------------------------------
(* Every step keeps the order *)

LEMMA OrderBeginsKeep ==
  ASSUME LockInv, NEW c \in Connections, OrderBegins(c)
  PROVE  LockInv'
<1>1. CASE ReplaceCart(c)
  <2>1. PICK k \in Keys, u \in Users : Begin(c, "cart", <<Lock("key", {k})>> \o Cart(u))
    BY <1>1 DEF ReplaceCart
  <2> QED BY <2>1, KeyCart, BeginKeeps DEF Within, Handlers
<1>2. CASE CreateOrder(c)
  <2>1. PICK k \in Keys, u \in Users, items \in Items, covers \in SUBSET Images :
          Begin(c, "create", <<Lock("key", {k})>> \o Cart(u) \o Inventory(items)
                               \o <<Lock("media", covers)>>)
    BY <1>2 DEF CreateOrder
  <2> QED BY <2>1, CreateProgram, BeginKeeps DEF Within, Handlers
<1>3. CASE PlaceOrder(c)
  <2>1. PICK k \in Keys, o \in Drafts :
          Begin(c, "place", <<Lock("key", {k}), Lock("draft", {o})>> \o Cart(Owner[o])
                              \o Inventory(Basket[o]))
    BY <1>3 DEF PlaceOrder
  <2> QED BY <2>1, PlaceProgram, BeginKeeps DEF Within, Handlers
<1>4. CASE Pay(c)
  <2>1. PICK k \in Keys, o \in Placed :
          \E items \in {Basket[o], [Basket[o] EXCEPT !.pets = {}]} :
            Begin(c, "pay", <<Lock("key", {k}), Lock("placed", {o})>> \o Inventory(items))
    BY <1>4 DEF Pay
  <2>2. PICK items \in Items :
            Begin(c, "pay", <<Lock("key", {k}), Lock("placed", {o})>> \o Inventory(items))
    BY <2>1, OrderFields
  <2> QED BY <2>2, PayProgram, BeginKeeps DEF Within, Handlers
<1>5. CASE MoveOrder(c)
  <2>1. PICK o \in Placed : Begin(c, "move", <<Lock("placed", {o})>> \o Inventory(Basket[o]))
    BY <1>5 DEF MoveOrder
  <2> QED BY <2>1, MoveProgram, BeginKeeps DEF Within, Handlers
<1>6. CASE ChangeDraft(c)
  <2>1. PICK o \in Drafts, p \in SUBSET Pets : Begin(c, "draft", <<Lock("draft", {o}), Lock("pet", p)>>)
    BY <1>6 DEF ChangeDraft
  <2>2. {o} \in SUBSET (0 .. Width - 1) /\ p \in SUBSET (0 .. Width - 1)  BY Identifiers
  <2>3. "draft" \in Known /\ "pet" \in Known  BY DEF Known
  <2>4. ClassRank["draft"] < ClassRank["pet"]  BY ByRank
  <2>5. Within(<<Lock("draft", {o}), Lock("pet", p)>>, ClassRank["draft"], ClassRank["pet"])
    BY ONLY <2>2, <2>3, <2>4, PairProgram
  <2> QED BY <2>1, <2>5, BeginKeeps DEF Within, Handlers
<1>7. CASE LegacyCreate(c)
  <2>1. PICK u \in Users, p \in Pets : Begin(c, "legacyCreate", <<Lock("user", {u}), Lock("pet", {p})>>)
    BY <1>7 DEF LegacyCreate
  <2>2. Within(<<Lock("user", {u}), Lock("pet", {p})>>, ClassRank["user"], ClassRank["pet"])
    <3>1. {u} \in SUBSET (0 .. Width - 1) /\ {p} \in SUBSET (0 .. Width - 1)  BY Identifiers
    <3>2. "user" \in Known /\ "pet" \in Known  BY DEF Known
    <3>3. ClassRank["user"] < ClassRank["pet"]  BY ByRank
    <3> QED BY ONLY <3>1, <3>2, <3>3, PairProgram
  <2> QED BY <2>1, <2>2, BeginKeeps DEF Within, Handlers
<1>8. CASE LegacyPlace(c)
  <2>1. PICK o \in Drafts, p \in Pets, old \in SUBSET Legacy :
          Begin(c, "legacyPlace", <<Lock("draft", {o}), Lock("user", {Owner[o]}),
                                    Lock("placed", old), Lock("pet", {p})>>)
    BY <1>8 DEF LegacyPlace
  <2> QED BY <2>1, LegacyPlaceProgram, BeginKeeps DEF Within, Handlers
<1>9. CASE Sweep(c)
  <2>1. PICK overdue \in SUBSET Placed : Begin(c, "sweep", <<SkipLocked("placed", overdue)>>)
    BY <1>9 DEF Sweep
  <2>2. overdue \in SUBSET (0 .. Width - 1)  OBVIOUS
  <2>3. <<SkipLocked("placed", overdue)>> \in Program
    BY <2>2, StatementTypes DEF Program, Classes
  <2> DEFINE q == <<SkipLocked("placed", overdue)>>
  <2>4. ~ Orderly("sweep") /\ "sweep" \in Handlers  BY DEF Orderly, Handlers
  <2>5. \A i \in 1 .. Len(q) : q[i].ids \subseteq Placed  BY DEF SkipLocked
  <2>6. q \in Program /\ Begin(c, "sweep", q)  BY <2>1, <2>3
  <2> HIDE DEF q
  <2> QED BY <2>4, <2>5, <2>6, BeginKeeps
<1> QED BY <1>1, <1>2, <1>3, <1>4, <1>5, <1>6, <1>7, <1>8, <1>9 DEF OrderBegins

LEMMA CatalogBeginsKeep ==
  ASSUME LockInv, NEW c \in Connections, CatalogBegins(c)
  PROVE  LockInv'
<1>1. CASE SaveCard(c)
  <2>1. PICK class \in {"pet", "product"}, i \in Pets \cup Products,
             k \in SUBSET Categories, ms \in SUBSET Images :
          Begin(c, "save", <<Lock(class, {i}), Share("category", k), Lock("media", ms)>>)
    BY <1>1 DEF SaveCard
  <2> QED BY <2>1, SaveProgram, BeginKeeps DEF Within, Handlers
<1>2. CASE ChangeCard(c)
  <2>1. PICK class \in {"pet", "product"}, i \in Pets \cup Products, k \in SUBSET Categories :
          Begin(c, "card", <<Lock(class, {i}), Share("category", k)>>)
    BY <1>2 DEF ChangeCard
  <2>2. {i} \in SUBSET (0 .. Width - 1) /\ k \in SUBSET (0 .. Width - 1)  BY Identifiers
  <2>3. class \in Known /\ "category" \in Known /\ ClassRank[class] < ClassRank["category"]
    BY ByRank DEF Known
  <2>4. Within(<<Lock(class, {i}), Share("category", k)>>, ClassRank[class], ClassRank["category"])
    BY <2>2, <2>3, PairProgram
  <2> QED BY <2>1, <2>4, BeginKeeps DEF Within, Handlers
<1>3. CASE SaveCategory(c)
  <2>1. PICK k \in Categories : Begin(c, "category", <<Lock("category", {k})>>)
    BY <1>3 DEF SaveCategory
  <2>2. Within(<<Lock("category", {k})>>, 8, 8)  BY LockWithin, ByRank, Identifiers DEF Known
  <2> QED BY <2>1, <2>2, BeginKeeps DEF Within, Handlers
<1>4. CASE DeleteMedia(c)
  <2>1. PICK m \in Images : Begin(c, "media", <<Lock("media", {m})>>)
    BY <1>4 DEF DeleteMedia
  <2>2. Within(<<Lock("media", {m})>>, 9, 9)  BY LockWithin, ByRank, Identifiers DEF Known
  <2> QED BY <2>1, <2>2, BeginKeeps DEF Within, Handlers
<1>5. CASE CleanUp(c)
  <2>1. PICK ms \in SUBSET Images : Begin(c, "cleanup", <<SkipLocked("media", ms)>>)
    BY <1>5 DEF CleanUp
  <2>2. ms \in SUBSET (0 .. Width - 1)  OBVIOUS
  <2>3. Within(<<SkipLocked("media", ms)>>, 9, 9)  BY <2>2, LockWithin, ByRank DEF Known
  <2> QED BY <2>1, <2>3, BeginKeeps DEF Within, Handlers
<1> QED BY <1>1, <1>2, <1>3, <1>4, <1>5 DEF CatalogBegins

LEMMA UserBeginsKeep ==
  ASSUME LockInv, NEW c \in Connections, UserBegins(c)
  PROVE  LockInv'
<1>1. CASE UpdateUser(c)
  <2>1. PICK u \in Users : Begin(c, "update", <<Share("table", UsersTable), Lock("user", {u})>>)
    BY <1>1 DEF UpdateUser
  <2> QED BY <2>1, UserPrograms, BeginKeeps DEF Handlers
<1>2. CASE ConfirmUser(c)
  <2>1. PICK u \in Users :
          Begin(c, "confirm", <<Lock("user", {u}), Lock("cart", {u}), Share("table", UsersTable)>>)
    BY <1>2 DEF ConfirmUser
  <2> QED BY <2>1, UserPrograms, BeginKeeps DEF Handlers
<1>3. CASE EditUser(c)
  <2>1. PICK u \in Users : Begin(c, "edit", <<Lock("table", UsersTable), Lock("user", {u})>>)
    BY <1>3 DEF EditUser
  <2>2. ~ Orderly("edit")  BY DEF Orderly
  <2> DEFINE q == <<Lock("table", UsersTable), Lock("user", {u})>>
  <2>3. q \in Program  BY UserPrograms
  <2>4. Begin(c, "edit", q)  BY <2>1
  <2>5. "edit" \in Handlers  BY DEF Handlers
  <2> HIDE DEF q
  <2> QED BY <2>2, <2>3, <2>4, <2>5, BeginKeeps
<1> QED BY <1>1, <1>2, <1>3 DEF UserBegins

LEMMA KeepsInOrder ==
  ASSUME OrderInv, NEW c \in Connections, \A d \in Connections : kind'[d] = kind[d],
         \A d \in Connections \ {c} : todo'[d] = todo[d] /\ held'[d] = held[d],
         Orderly(kind[c]) => InOrder(todo'[c], held'[c])
  PROVE  OrderInv'
<1>1. ASSUME NEW d \in Connections, Orderly(kind'[d])  PROVE InOrder(todo'[d], held'[d])
  <2>1. CASE d = c  BY <1>1, <2>1
  <2>2. CASE d # c  BY <1>1, <2>2 DEF OrderInv
  <2> QED BY <2>1, <2>2
<1> QED BY <1>1 DEF OrderInv

LEMMA GrantKeeps ==
  ASSUME LockInv, NEW c \in Connections, Grant(c)
  PROVE  LockInv'
<1> DEFINE q == todo[c]
<1>1. q \in Program /\ q # <<>> /\ Head(q).ids # {} /\ kind[c] # "idle"
  BY DEF Grant, Asks, LockInv, LocksTypeOK, Program
<1>2. held[c] \in SUBSET Taken /\ Granted(q) \in Taken  BY <1>1, GrantedType DEF LockInv, LocksTypeOK
<1>3. /\ todo' = [todo EXCEPT ![c] = Shrunk(q)]
      /\ held' = [held EXCEPT ![c] = @ \cup {Granted(q)}]
      /\ kind' = kind
  BY DEF Grant, Rest, Next1, Shrunk, Granted
<1>4. LocksTypeOK  BY DEF LockInv
<1>5. /\ todo'[c] = Shrunk(q) /\ held'[c] = held[c] \cup {Granted(q)}
      /\ \A d \in Connections \ {c} : todo'[d] = todo[d] /\ held'[d] = held[d]
  BY <1>3, <1>4 DEF LocksTypeOK
<1>6. /\ Shrunk(q) \in Seq(Statement) /\ Len(Shrunk(q)) = Len(q)
      /\ \A i \in 1 .. Len(q) : Shrunk(q)[i].class = q[i].class /\ Shrunk(q)[i].ids \subseteq q[i].ids
  BY <1>1, ShrunkShape DEF Program
<1>7. kind[c] = "sweep" /\ Head(q).class = "placed" => Next1(c) \in Placed
  <2>1. Head(q) = q[1] /\ q[1] \in Statement /\ 1 \in 1 .. Len(q)  BY <1>1, FirstStatement
  <2>2. Next1(c) \in q[1].ids  BY <1>1, <2>1, LeastIn DEF Next1, Statement
  <2> QED BY <2>1, <2>2, <1>4 DEF LocksTypeOK
<1>8. rows' \in [Connections -> SUBSET Placed]
      /\ \A d \in Connections : kind[d] # "sweep" => rows'[d] = {}
  <2>1. rows' = [rows EXCEPT ![c] = IF kind[c] = "sweep" /\ Head(q).class = "placed"
                                    THEN @ \cup {Next1(c)} ELSE @]
    BY DEF Grant
  <2> QED BY <2>1, <1>4, <1>7 DEF LocksTypeOK
<1>9. LocksTypeOK'
  <2>1. todo' \in [Connections -> Seq(Statement)]  BY <1>3, <1>4, <1>6 DEF LocksTypeOK
  <2>2. held' \in [Connections -> SUBSET Taken]  BY <1>2, <1>3, <1>4 DEF LocksTypeOK
  <2>3. ASSUME NEW d \in Connections
        PROVE  /\ kind'[d] = "idle" => todo'[d] = <<>> /\ held'[d] = {}
               /\ \A i \in 1 .. Len(todo'[d]) :
                    kind'[d] = "sweep" /\ todo'[d][i].class = "placed" => todo'[d][i].ids \subseteq Placed
    <3>1. CASE d = c
      <4>1. \A i \in 1 .. Len(q) : kind[c] = "sweep" /\ q[i].class = "placed" => q[i].ids \subseteq Placed
        BY <1>4 DEF LocksTypeOK
      <4> HIDE DEF q
      <4> QED BY <3>1, <4>1, <1>1, <1>3, <1>5, <1>6
    <3>2. CASE d # c  BY <3>2, <1>3, <1>4, <1>5 DEF LocksTypeOK
    <3> QED BY <3>1, <3>2
  <2> QED BY <2>1, <2>2, <2>3, <1>3, <1>4, <1>8 DEF LocksTypeOK
<1>10. Orderly(kind[c]) => InOrder(todo'[c], held'[c])
  <2>1. Orderly(kind[c]) => InOrder(q, held[c])  BY DEF LockInv, OrderInv
  <2> HIDE DEF q
  <2>2. Orderly(kind[c]) => InOrder(Shrunk(q), held[c] \cup {Granted(q)})
    BY ONLY <2>1, <1>1, <1>2, GrantInOrder
  <2> QED BY <2>2, <1>5
<1> HIDE DEF q
<1>11. OrderInv'  BY <1>3, <1>5, <1>10, KeepsInOrder DEF LockInv
<1> QED BY <1>9, <1>11 DEF LockInv

LEMMA PassOverKeeps ==
  ASSUME LockInv, NEW c \in Connections, PassOver(c)
  PROVE  LockInv'
<1> DEFINE q == todo[c]
<1>1. q \in Program /\ q # <<>> /\ Head(q).ids # {} /\ kind[c] # "idle"
  BY DEF PassOver, Asks, LockInv, LocksTypeOK, Program
<1>2. held[c] \in SUBSET Taken  BY DEF LockInv, LocksTypeOK
<1>3. todo' = [todo EXCEPT ![c] = Shrunk(q)] /\ held' = held /\ kind' = kind /\ rows' = rows
  BY DEF PassOver, Rest, Next1, Shrunk
<1>4. LocksTypeOK  BY DEF LockInv
<1>5. /\ todo'[c] = Shrunk(q) /\ held'[c] = held[c]
      /\ \A d \in Connections \ {c} : todo'[d] = todo[d] /\ held'[d] = held[d]
  BY <1>3, <1>4 DEF LocksTypeOK
<1>6. /\ Shrunk(q) \in Seq(Statement) /\ Len(Shrunk(q)) = Len(q)
      /\ \A i \in 1 .. Len(q) : Shrunk(q)[i].class = q[i].class /\ Shrunk(q)[i].ids \subseteq q[i].ids
  BY <1>1, ShrunkShape DEF Program
<1>9. LocksTypeOK'
  <2>1. todo' \in [Connections -> Seq(Statement)]  BY <1>3, <1>4, <1>6 DEF LocksTypeOK
  <2>3. ASSUME NEW d \in Connections
        PROVE  /\ kind'[d] = "idle" => todo'[d] = <<>> /\ held'[d] = {}
               /\ \A i \in 1 .. Len(todo'[d]) :
                    kind'[d] = "sweep" /\ todo'[d][i].class = "placed" => todo'[d][i].ids \subseteq Placed
    <3>1. CASE d = c
      <4>1. \A i \in 1 .. Len(q) : kind[c] = "sweep" /\ q[i].class = "placed" => q[i].ids \subseteq Placed
        BY <1>4 DEF LocksTypeOK
      <4> HIDE DEF q
      <4> QED BY <3>1, <4>1, <1>1, <1>3, <1>5, <1>6
    <3>2. CASE d # c  BY <3>2, <1>3, <1>4, <1>5 DEF LocksTypeOK
    <3> QED BY <3>1, <3>2
  <2> QED BY <2>1, <2>3, <1>3, <1>4 DEF LocksTypeOK
<1>10. Orderly(kind[c]) => InOrder(todo'[c], held'[c])
  <2>1. Orderly(kind[c]) => InOrder(q, held[c])  BY DEF LockInv, OrderInv
  <2> HIDE DEF q
  <2>2. Orderly(kind[c]) => InOrder(Shrunk(q), held[c])
    BY ONLY <2>1, <1>1, <1>2, GrantInOrder
  <2> QED BY <2>2, <1>5
<1> HIDE DEF q
<1>11. OrderInv'  BY <1>3, <1>5, <1>10, KeepsInOrder DEF LockInv
<1> QED BY <1>9, <1>11 DEF LockInv

LEMMA NextStatementKeeps ==
  ASSUME LockInv, NEW c \in Connections, NextStatement(c)
  PROVE  LockInv'
<1> DEFINE q == todo[c]
<1>1. q \in Program /\ q # <<>>  BY DEF NextStatement, LockInv, LocksTypeOK, Program
<1>2. held[c] \in SUBSET Taken  BY DEF LockInv, LocksTypeOK
<1>3. todo' = [todo EXCEPT ![c] = Tail(q)] /\ held' = held /\ kind' = kind /\ rows' = rows
  BY DEF NextStatement
<1>4. LocksTypeOK  BY DEF LockInv
<1>5. /\ todo'[c] = Tail(q) /\ held'[c] = held[c]
      /\ \A d \in Connections \ {c} : todo'[d] = todo[d] /\ held'[d] = held[d]
  BY <1>3, <1>4 DEF LocksTypeOK
<1>6. /\ Tail(q) \in Seq(Statement) /\ Len(Tail(q)) = Len(q) - 1 /\ Len(q) \in Nat
      /\ \A i \in 1 .. Len(q) - 1 : Tail(q)[i] = q[i + 1]
  BY <1>1, FirstStatement DEF Program
<1>9. LocksTypeOK'
  <2>1. todo' \in [Connections -> Seq(Statement)]  BY <1>3, <1>4, <1>6 DEF LocksTypeOK
  <2>3. ASSUME NEW d \in Connections
        PROVE  /\ kind'[d] = "idle" => todo'[d] = <<>> /\ held'[d] = {}
               /\ \A i \in 1 .. Len(todo'[d]) :
                    kind'[d] = "sweep" /\ todo'[d][i].class = "placed" => todo'[d][i].ids \subseteq Placed
    <3>1. CASE d = c
      <4>1. /\ \A i \in 1 .. Len(q) : kind[c] = "sweep" /\ q[i].class = "placed" => q[i].ids \subseteq Placed
            /\ kind[c] # "idle"
        BY <1>1, <1>4 DEF LocksTypeOK
      <4> HIDE DEF q
      <4> QED BY <3>1, <4>1, <1>1, <1>3, <1>5, <1>6
    <3>2. CASE d # c  BY <3>2, <1>3, <1>4, <1>5 DEF LocksTypeOK
    <3> QED BY <3>1, <3>2
  <2> QED BY <2>1, <2>3, <1>3, <1>4 DEF LocksTypeOK
<1>10. Orderly(kind[c]) => InOrder(todo'[c], held'[c])
  <2>1. Orderly(kind[c]) => InOrder(q, held[c])  BY DEF LockInv, OrderInv
  <2> HIDE DEF q
  <2> QED BY <2>1, <1>1, <1>2, <1>5, TailInOrder
<1> HIDE DEF q
<1>11. OrderInv'  BY <1>3, <1>5, <1>10, KeepsInOrder DEF LockInv
<1> QED BY <1>9, <1>11 DEF LockInv

LEMMA ExpireNextKeeps ==
  ASSUME LockInv, NEW c \in Connections, ExpireNext(c)
  PROVE  LockInv'
<1>1. PICK o \in rows[c] :
        rows' = [rows EXCEPT ![c] = @ \ {o}] /\ todo' = [todo EXCEPT ![c] = Inventory(Basket[o])]
  BY DEF ExpireNext
<1>2. kind' = kind /\ held' = held  BY DEF ExpireNext
<1>3. LocksTypeOK  BY DEF LockInv
<1>4. kind[c] = "sweep" /\ o \in Placed  BY <1>1, <1>3 DEF LocksTypeOK
<1> DEFINE q == Inventory(Basket[o])
<1>5. q \in Seq(Statement)  BY <1>4, OrderFields, InventoryWithin DEF Within, Program
<1>6. \A i \in 1 .. Len(q) : q[i].class # "placed"  BY DEF Inventory, Lock
<1> HIDE DEF q
<1>7. todo'[c] = q /\ \A d \in Connections \ {c} : todo'[d] = todo[d]
  BY <1>1, <1>3 DEF LocksTypeOK, q
<1>8. todo' \in [Connections -> Seq(Statement)]  BY <1>1, <1>3, <1>5 DEF LocksTypeOK, q
<1>9. rows' \in [Connections -> SUBSET Placed]
      /\ \A d \in Connections : kind[d] # "sweep" => rows'[d] = {}
  BY <1>1, <1>3, <1>4 DEF LocksTypeOK
<1>10. ASSUME NEW d \in Connections
       PROVE  /\ kind'[d] = "idle" => todo'[d] = <<>> /\ held'[d] = {}
              /\ \A i \in 1 .. Len(todo'[d]) :
                   kind'[d] = "sweep" /\ todo'[d][i].class = "placed" => todo'[d][i].ids \subseteq Placed
  <2>1. CASE d = c  BY <2>1, <1>2, <1>4, <1>6, <1>7
  <2>2. CASE d # c  BY <2>2, <1>2, <1>3, <1>7 DEF LocksTypeOK
  <2> QED BY <2>1, <2>2
<1>11. LocksTypeOK'  BY <1>2, <1>3, <1>8, <1>9, <1>10 DEF LocksTypeOK
<1>12. ~ Orderly(kind[c])  BY <1>4 DEF Orderly
<1>13. OrderInv'  BY <1>2, <1>7, <1>12, KeepsInOrder DEF LockInv
<1> QED BY <1>11, <1>13 DEF LockInv

LEMMA EndKeeps ==
  ASSUME LockInv, NEW c \in Connections, End(c)
  PROVE  LockInv'
<1>1. /\ kind' = [kind EXCEPT ![c] = "idle"] /\ todo' = [todo EXCEPT ![c] = <<>>]
      /\ held' = [held EXCEPT ![c] = {}] /\ rows' = [rows EXCEPT ![c] = {}]
  BY DEF End
<1>2. LocksTypeOK  BY DEF LockInv
<1>3. <<>> \in Seq(Statement)  OBVIOUS
<1>4. /\ kind'[c] = "idle" /\ todo'[c] = <<>> /\ held'[c] = {} /\ rows'[c] = {}
      /\ \A d \in Connections \ {c} : /\ kind'[d] = kind[d] /\ todo'[d] = todo[d]
                                      /\ held'[d] = held[d] /\ rows'[d] = rows[d]
  BY <1>1, <1>2 DEF LocksTypeOK
<1>5. /\ todo' \in [Connections -> Seq(Statement)] /\ held' \in [Connections -> SUBSET Taken]
      /\ rows' \in [Connections -> SUBSET Placed] /\ kind' \in [Connections -> Handlers \cup {"idle"}]
  BY <1>1, <1>2, <1>3 DEF LocksTypeOK
<1>6. ASSUME NEW d \in Connections
      PROVE  /\ kind'[d] = "idle" => todo'[d] = <<>> /\ held'[d] = {}
             /\ kind'[d] # "sweep" => rows'[d] = {}
             /\ \A i \in 1 .. Len(todo'[d]) :
                  kind'[d] = "sweep" /\ todo'[d][i].class = "placed" => todo'[d][i].ids \subseteq Placed
  <2>1. CASE d = c  BY <2>1, <1>4
  <2>2. CASE d # c  BY <2>2, <1>2, <1>4 DEF LocksTypeOK
  <2> QED BY <2>1, <2>2
<1>7. LocksTypeOK'  BY <1>5, <1>6 DEF LocksTypeOK
<1>8. ASSUME NEW d \in Connections, Orderly(kind'[d])  PROVE InOrder(todo'[d], held'[d])
  <2>1. CASE d = c
    <3>1. todo'[d] = <<>> /\ held'[d] = {}  BY <2>1, <1>4
    <3> QED BY <3>1 DEF InOrder, Sorted
  <2>2. CASE d # c  BY <1>8, <2>2, <1>4 DEF LockInv, OrderInv
  <2> QED BY <2>1, <2>2
<1>9. OrderInv'  BY <1>8 DEF OrderInv
<1> QED BY <1>7, <1>9 DEF LockInv

LEMMA LockInvStep == LockInv /\ [Next]_vars => LockInv'
<1> SUFFICES ASSUME LockInv, [Next]_vars  PROVE LockInv'
  OBVIOUS
<1>1. CASE UNCHANGED vars
  BY <1>1 DEF vars, LockInv, LocksTypeOK, OrderInv
<1>2. ASSUME NEW c \in Connections,
             \/ OrderBegins(c) \/ CatalogBegins(c) \/ UserBegins(c)
             \/ Goes(c) \/ Refuse(c) \/ Victim(c)
      PROVE  LockInv'
  <2>1. CASE Goes(c)
    <3>1. CASE Commit(c)  BY <3>1, EndKeeps DEF Commit
    <3> QED BY <2>1, <3>1, GrantKeeps, PassOverKeeps, NextStatementKeeps, ExpireNextKeeps DEF Goes
  <2>2. CASE Refuse(c)  BY <2>2, EndKeeps DEF Refuse
  <2>3. CASE Victim(c)  BY <2>3, EndKeeps DEF Victim
  <2> QED BY <1>2, <2>1, <2>2, <2>3, OrderBeginsKeep, CatalogBeginsKeep, UserBeginsKeep
<1> QED BY <1>1, <1>2 DEF Next

LEMMA LockInvInit == Init => LockInv
BY DEF Init, LockInv, LocksTypeOK, OrderInv, InOrder, Sorted, Handlers

-----------------------------------------------------------------------------
(* Theorems *)

\* The state of every transaction is well-formed: a connection that works for
\* nobody holds nothing, and only sweeps select orders to expire.
THEOREM LocksTypeInvariant == Spec => []LocksTypeOK
<1>1. LockInv => LocksTypeOK  BY DEF LockInv
<1> QED BY LockInvInit, LockInvStep, <1>1, PTL DEF Spec

\* What a waiting transaction asks for, as ranks.
AskedRank(c) == ClassRank[Head(todo[c]).class]

LEMMA WaitTypes ==
  ASSUME LockInv, NEW c \in Connections, Waits(c)
  PROVE  /\ kind[c] # "idle" /\ todo[c] \in Program /\ todo[c] # <<>>
         /\ Head(todo[c]) = todo[c][1] /\ 1 \in 1 .. Len(todo[c])
         /\ Head(todo[c]).class \in Classes /\ AskedRank(c) \in 0 .. 9
         /\ Next1(c) \in 0 .. Width - 1 /\ Next1(c) \in Head(todo[c]).ids
<1>1. kind[c] # "idle" /\ todo[c] \in Program /\ todo[c] # <<>> /\ Head(todo[c]).ids # {}
  BY DEF Waits, Asks, LockInv, LocksTypeOK, Program
<1>2. Head(todo[c]) = todo[c][1] /\ 1 \in 1 .. Len(todo[c]) /\ Head(todo[c]) \in Statement
  BY <1>1, FirstStatement
<1>3. Head(todo[c]).ids \in SUBSET (0 .. Width - 1) /\ Head(todo[c]).class \in Classes
  BY <1>2, StatementFields
<1>4. Next1(c) \in Head(todo[c]).ids  BY <1>1, <1>3, LeastIn DEF Next1
<1> QED BY <1>1, <1>2, <1>3, <1>4, RankType DEF AskedRank

\* Of two orderly transactions of which one waits for the other, and that waits
\* too, the other asks for a lock of a later class, or a later row of the same.
LEMMA Climbs ==
  ASSUME LockInv, NEW c \in Connections, NEW d \in Connections,
         Orderly(kind[c]), Orderly(kind[d]), Waits(c), Waits(d), Blocks(d, c),
         Head(todo[d]).class # "table"
  PROVE  \/ AskedRank(c) < AskedRank(d)
         \/ Head(todo[c]).class = Head(todo[d]).class /\ Next1(c) < Next1(d)
<1>1. InOrder(todo[d], held[d])  BY DEF LockInv, OrderInv
<1>2. PICK l \in held[d] : l.class = Head(todo[c]).class /\ l.id = Next1(c)
  BY DEF Blocks, Holds
<1>3. 1 \in 1 .. Len(todo[d]) /\ Head(todo[d]) = todo[d][1] /\ Next1(d) \in todo[d][1].ids
  BY WaitTypes
<1>4. \/ todo[d][1].class = "table"
      \/ ClassRank[l.class] < ClassRank[todo[d][1].class]
      \/ l.class = todo[d][1].class /\ \A id \in todo[d][1].ids : l.id < id
  BY <1>1, <1>3 DEF InOrder
<1> QED BY <1>2, <1>3, <1>4 DEF AskedRank

\* Orderly transactions wait for the table of users only while it is edited.
LEMMA NoTableWait ==
  ASSUME LockInv, NEW c \in Connections, NEW d \in Connections,
         Orderly(kind[c]), Orderly(kind[d]), Waits(c), Blocks(d, c)
  PROVE  Head(todo[c]).class # "table"
<1> SUFFICES ASSUME Head(todo[c]).class = "table"  PROVE FALSE
  OBVIOUS
<1>1. InOrder(todo[d], held[d]) /\ InOrder(todo[c], held[c])  BY DEF LockInv, OrderInv
<1>2. PICK l \in held[d] : /\ l.class = "table"
                           /\ ~ (l.mode = "share" /\ Head(todo[c]).mode = "share")
  BY DEF Blocks, Holds
<1>3. l.mode = "share"  BY <1>1, <1>2 DEF InOrder
<1>4. Head(todo[c]).mode = "share"  BY <1>1, WaitTypes DEF InOrder, Sorted
<1> QED BY <1>2, <1>3, <1>4

LEMMA OrderlyNeverDeadlock ==
  ASSUME LockInv, NEW S \in SUBSET Connections, Deadlocked(S),
         \A c \in S : Orderly(kind[c])
  PROVE  FALSE
<1>1. S # {} /\ \A c \in S : Waits(c) /\ \E d \in S : Blocks(d, c)  BY DEF Deadlocked
<1>2. \A c \in S : Head(todo[c]).class # "table"  BY <1>1, NoTableWait
<1> DEFINE R == {AskedRank(c) : c \in S}
<1>3. R \in SUBSET (0 .. 9) /\ R # {}  BY <1>1, WaitTypes
<1>4. PICK r \in R : \A x \in R : x <= r  BY <1>3, HasGreatest
<1> DEFINE T == {c \in S : AskedRank(c) = r}
           N == {Next1(c) : c \in T}
<1>5. N \in SUBSET (0 .. Width - 1) /\ N # {}  BY <1>1, <1>4, WaitTypes
<1>6. PICK n \in N : \A x \in N : x <= n
  <2>1. Width - 1 \in Nat  OBVIOUS
  <2> QED BY <2>1, <1>5, HasGreatest
<1>7. PICK c \in T : n = Next1(c)  BY <1>6
<1>8. PICK d \in S : Blocks(d, c)  BY <1>1, <1>7
<1>9. \/ AskedRank(c) < AskedRank(d)
      \/ Head(todo[c]).class = Head(todo[d]).class /\ Next1(c) < Next1(d)
  BY <1>1, <1>2, <1>7, <1>8, Climbs
<1>10. AskedRank(d) <= AskedRank(c)  BY <1>4, <1>7
<1>11. AskedRank(c) \in Nat /\ AskedRank(d) \in Nat /\ Next1(c) \in Nat /\ Next1(d) \in Nat
  <2>1. c \in S /\ d \in S /\ Waits(c) /\ Waits(d)  BY <1>1, <1>7
  <2>2. /\ AskedRank(c) \in 0 .. 9 /\ AskedRank(d) \in 0 .. 9
        /\ Next1(c) \in 0 .. Width - 1 /\ Next1(d) \in 0 .. Width - 1
    BY <2>1, WaitTypes
  <2> QED BY <2>2
<1>12. Head(todo[c]).class = Head(todo[d]).class /\ Next1(c) < Next1(d)
  BY <1>9, <1>10, <1>11
<1>13. d \in T  BY <1>7, <1>12 DEF AskedRank
<1>14. Next1(d) <= Next1(c)  BY <1>6, <1>7, <1>13
<1> QED BY <1>11, <1>12, <1>14

\* Every circle of waiting transactions has a sweep over several orders or an
\* edit under LOCK TABLE users in it, for any number of connections and rows:
\* all other handlers take their locks in one order.
THEOREM DeadlocksAreKnownInvariant == Spec => []DeadlocksAreKnown
<1>1. LockInv => DeadlocksAreKnown
  BY OrderlyNeverDeadlock DEF DeadlocksAreKnown, Orderly
<1> QED BY LockInvInit, LockInvStep, <1>1, PTL DEF Spec

-----------------------------------------------------------------------------
(* Someone goes on *)

Open == {c \in Connections : kind[c] # "idle"}

\* Whoever is waited for has an open transaction, so if all of them wait they go in
\* circles.
LEMMA AllWaiting ==
  ASSUME LocksTypeOK, Open # {}, \A c \in Open : Waits(c)
  PROVE  Deadlocked(Open)
<1> SUFFICES ASSUME NEW c \in Open PROVE \E d \in Open : Blocks(d, c)
  BY DEF Deadlocked
<1>1. PICK d \in Connections : Blocks(d, c)
  BY DEF Waits
<1>2. held[d] # {}
  BY <1>1 DEF Blocks, Holds
<1>3. d \in Open
  BY <1>2 DEF LocksTypeOK, Open
<1> QED BY <1>1, <1>3

\* Some open transaction does not wait, or a sweep or an edit is in a circle that
\* deadlock_timeout ends.
SomeoneGoesOn ==
    Open # {} => \/ \E c \in Open : ~ Waits(c)
                 \/ \E S \in SUBSET Open : /\ Deadlocked(S)
                                           /\ \E c \in S : kind[c] \in {"sweep", "edit"}

\* The shop never comes to a standstill: as long as transactions are open, one of them
\* has all it asks for, unless a sweep or an edit is among them and PostgreSQL has a
\* circle to end; for any number of connections, however long the queues are.
THEOREM NoStandstill == Spec => []SomeoneGoesOn
<1>1. LockInv => SomeoneGoesOn
  <2> SUFFICES ASSUME LockInv, Open # {}, \A c \in Open : Waits(c)
               PROVE  \E S \in SUBSET Open : /\ Deadlocked(S)
                                             /\ \E c \in S : kind[c] \in {"sweep", "edit"}
    BY DEF SomeoneGoesOn
  <2>1. Deadlocked(Open)
    BY AllWaiting DEF LockInv
  <2>2. Open \in SUBSET Connections
    BY DEF Open
  <2>3. \E c \in Open : kind[c] \in {"sweep", "edit"}
    BY <2>1, <2>2, OrderlyNeverDeadlock DEF Orderly
  <2> QED BY <2>1, <2>3
<1> QED BY LockInvInit, LockInvStep, <1>1, PTL DEF Spec

=============================================================================
