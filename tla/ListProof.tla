------------------------------ MODULE ListProof ------------------------------
(***************************************************************************)
(* Proofs for Lists: for any number of nodes, the list that powerman.c and *)
(* the registries build holds what was inserted and not removed, in order, *)
(* and llist.c follows no pointer that it did not set.                     *)
(*                                                                         *)
(* The inductive invariant names the nodes of the list in order.  Their    *)
(* next pointers are right in both uses, the prev pointers only where      *)
(* elements are appended: an insertion at the front leaves the prev of its *)
(* successor stale (llist.c:73), which a removal would follow.             *)
(***************************************************************************)
EXTENDS Lists, FiniteSetTheorems, SequenceTheorems, WellFoundedInduction, TLAPS

Pointer == Node \cup {NULL, Junk}
NodeType == [p : Data \cup {Junk}, next : Pointer, prev : Pointer]
ListType ==
  [len : Nat, head : Pointer, tail : Pointer, wild : BOOLEAN, used : SUBSET Node,
   node : [Node -> NodeType]]

\* A field of the node n.
Field(r, n, f) == r.node[n][f]
Fields == {"p", "next", "prev"}

\* The length after an insertion, after a removal.
More(k) == k + 1
Less(k) == k - 1

\* The list r but for its nodes.
Frame(r, len, head, tail, wild, used) ==
  /\ r \in ListType
  /\ r.len = len /\ r.head = head /\ r.tail = tail /\ r.wild = wild /\ r.used = used

-----------------------------------------------------------------------------
(* What the stores of llist.c do.                                          *)

\* malloc and the data of a new node.
AfterNew(m, n, x, r) ==
  /\ Frame(r, More(m.len), m.head, m.tail, m.wild, m.used \cup {n})
  /\ Field(r, n, "p") = x
  /\ \A k \in Node \ {n}, f \in Fields : Field(r, k, f) = Field(m, k, f)

\* What NewNode leaves.
LEMMA Allocated ==
  ASSUME NEW m \in ListType, NEW n \in Node, NEW x \in Data, NEW r,
         r = NewNode(m, n, x)
  PROVE  AfterNew(m, n, x, r)
  <1> USE DEF ListType, NodeType, Pointer, NewNode
  <1>1. PICK a : a = [m EXCEPT !.len = @ + 1]
    OBVIOUS
  <1>2. a \in ListType /\ a.used = m.used /\ a.node = m.node
    BY <1>1, SMT
  <1>3. PICK b : b = [a EXCEPT !.used = @ \cup {n}]
    OBVIOUS
  <1>4. b \in ListType /\ b.node = m.node
    BY <1>2, <1>3, SMT
  <1>5. PICK c : c = [b EXCEPT !.node[n] = [p |-> x, next |-> Junk, prev |-> Junk]]
    OBVIOUS
  <1>6. c \in ListType
    BY <1>4, <1>5, SMT
  <1>7. r = c
    BY <1>1, <1>3, <1>5, Zenon
  <1>8. r.len = m.len + 1 /\ r.used = m.used \cup {n}
    BY SMT
  <1>9. r.head = m.head /\ r.tail = m.tail /\ r.wild = m.wild
    BY SMT
  <1>10. r.node[n].p = x
    BY SMT
  <1>11. \A k \in Node \ {n} : r.node[k] = m.node[k]
    BY SMT
  <1> QED  BY <1>6, <1>7, <1>8, <1>9, <1>10, <1>11 DEF Frame, Field, More, AfterNew

\* A store to the next or the prev of a node.
AfterStore(m, n, field, v, r) ==
  /\ Frame(r, m.len, m.head, m.tail, m.wild, m.used)
  /\ Field(r, n, field) = v
  /\ \A f \in Fields \ {field} : Field(r, n, f) = Field(m, n, f)
  /\ \A k \in Node \ {n}, f \in Fields : Field(r, k, f) = Field(m, k, f)

\* What one store leaves.
LEMMA Stored ==
  ASSUME NEW m \in ListType, NEW n \in Node, NEW field \in {"next", "prev"}, NEW v \in Pointer, NEW r,
         r = Store(m, n, field, v)
  PROVE  AfterStore(m, n, field, v, r)
  <1> USE DEF ListType, NodeType, Pointer, Store
  <1>1. r \in ListType
    <2>1. CASE field = "next"
      BY <2>1, SMT
    <2>2. CASE field = "prev"
      BY <2>2, SMT
    <2> QED  BY <2>1, <2>2
  <1>2. r.len = m.len /\ r.used = m.used
    BY SMT
  <1>3. r.head = m.head /\ r.tail = m.tail /\ r.wild = m.wild
    BY SMT
  <1>4. r.node[n][field] = v
    <2>1. CASE field = "next"
      BY <2>1, SMT
    <2>2. CASE field = "prev"
      BY <2>2, SMT
    <2> QED  BY <2>1, <2>2
  <1>5. \A g \in {"p", "next", "prev"} \ {field} : r.node[n][g] = m.node[n][g]
    <2>1. CASE field = "next"
      BY <2>1, SMT
    <2>2. CASE field = "prev"
      BY <2>2, SMT
    <2> QED  BY <2>1, <2>2
  <1>6. \A k \in Node \ {n} : r.node[k] = m.node[k]
    BY SMT
  <1> QED  BY <1>1, <1>2, <1>3, <1>4, <1>5, <1>6 DEF Frame, Field, Fields, AfterStore

\* A store to the head, to the tail.
SetHead(m, v) == [m EXCEPT !.head = v]
SetTail(m, v) == [m EXCEPT !.tail = v]

\* A store to the list's head, and one to its tail, leave the nodes alone.
LEMMA HeadStored ==
  ASSUME NEW m \in ListType, NEW v \in Pointer, NEW r, r = SetHead(m, v)
  PROVE  Frame(r, m.len, v, m.tail, m.wild, m.used) /\ \A k, f : Field(r, k, f) = Field(m, k, f)
  <1> USE DEF ListType, NodeType, Pointer, SetHead
  <1>1. r \in ListType
    BY SMT
  <1>2. r.len = m.len /\ r.used = m.used /\ r.node = m.node
    BY SMT
  <1>3. r.head = v /\ r.tail = m.tail /\ r.wild = m.wild
    BY SMT
  <1> QED  BY <1>1, <1>2, <1>3 DEF Frame, Field

LEMMA TailStored ==
  ASSUME NEW m \in ListType, NEW v \in Pointer, NEW r, r = SetTail(m, v)
  PROVE  Frame(r, m.len, m.head, v, m.wild, m.used) /\ \A k, f : Field(r, k, f) = Field(m, k, f)
  <1> USE DEF ListType, NodeType, Pointer, SetTail
  <1>1. r \in ListType
    BY SMT
  <1>2. r.len = m.len /\ r.used = m.used /\ r.node = m.node
    BY SMT
  <1>3. r.head = m.head /\ r.tail = v /\ r.wild = m.wild
    BY SMT
  <1> QED  BY <1>1, <1>2, <1>3 DEF Frame, Field

\* free changes no other node, and the length.
LEMMA OthersStay ==
  ASSUME NEW m \in ListType, NEW n \in Node, NEW r, r = FreeNode(m, n)
  PROVE  \A k \in Node \ {n}, f \in Fields : Field(r, k, f) = Field(m, k, f)
  <1>1. \A k \in Node \ {n} : r.node[k] = m.node[k]
    BY SMT DEF ListType, NodeType, Pointer, Uninitialised, FreeNode
  <1> QED  BY <1>1 DEF Field

\* free gives one node back.
LEMMA Freed ==
  ASSUME NEW m \in ListType, m.len # 0, NEW n \in Node, NEW r,
         r = FreeNode(m, n)
  PROVE  Frame(r, Less(m.len), m.head, m.tail, m.wild, m.used \ {n})
  <1> USE DEF ListType, NodeType, Pointer, Uninitialised, FreeNode
  <1>1. PICK a : a = [m EXCEPT !.len = @ - 1]
    OBVIOUS
  <1>2. a \in ListType /\ a.used = m.used /\ a.node = m.node
    BY <1>1, SMT
  <1>3. PICK b : b = [a EXCEPT !.used = @ \ {n}]
    OBVIOUS
  <1>4. b \in ListType /\ b.node = m.node
    BY <1>2, <1>3, SMT
  <1>5. PICK f : f = [x \in Node |-> IF x = n THEN Uninitialised ELSE m.node[x]]
    OBVIOUS
  <1>6. f \in [Node -> NodeType]
    BY <1>5, SMT
  <1>7. PICK c : c = [b EXCEPT !.node = f]
    OBVIOUS
  <1>8. c \in ListType
    BY <1>4, <1>6, <1>7, SMT
  <1>9. r = c
    BY <1>1, <1>3, <1>4, <1>5, <1>7, Zenon
  <1>10. r.len = m.len - 1 /\ r.used = m.used \ {n}
    BY SMT
  <1>11. r.head = m.head /\ r.tail = m.tail /\ r.wild = m.wild
    BY SMT
  <1> QED  BY <1>8, <1>9, <1>10, <1>11 DEF Frame, Less

-----------------------------------------------------------------------------
(* The cases of list_insert and list_remove, as sequences of stores.       *)

\* The last statement of list_insert, when there is a tail.
LEMMA TailThere == \A m \in ListType : m.tail # NULL => FixTail(m) = m
  BY SMT DEF ListType, FixTail

\* The branches of list_insert and list_remove as single stores.
LEMMA OnlyStores == \A m, n : LinkOnly(m, n) = SetTail(SetHead(m, n), n)
  BY Zenon DEF LinkOnly, SetTail, SetHead

LEMMA FrontStores ==
  ASSUME NEW m, NEW n \in Node
  PROVE  LinkFront(m, n) = Store(Store(SetHead(m, n), n, "next", m.head), n, "prev", NULL)
  <1>1. PICK b : b = SetHead(m, n)
    OBVIOUS
  <1>2. PICK c : c = Store(b, n, "next", m.head)
    OBVIOUS
  <1>3. PICK d : d = Store(c, n, "prev", NULL)
    OBVIOUS
  <1>4. b = [m EXCEPT !.head = n]
    BY <1>1 DEF SetHead
  <1>5. c = [b EXCEPT !.node[n]["next"] = m.head]
    BY <1>2, Zenon DEF Store
  <1>6. d = [c EXCEPT !.node[n]["prev"] = NULL]
    BY <1>3, Zenon DEF Store
  <1>7. LinkFront(m, n) = d
    BY <1>4, <1>5, <1>6, Zenon DEF LinkFront
  <1> QED  BY <1>1, <1>2, <1>3, <1>7

LEMMA BackStores ==
  ASSUME NEW m, NEW n \in Node
  PROVE  LinkBack(m, n) = Store(Store(Store(SetTail(m, n), n, "prev", m.tail), n, "next", NULL),
                                m.tail, "next", n)
  <1>1. PICK b : b = SetTail(m, n)
    OBVIOUS
  <1>2. PICK c : c = Store(b, n, "prev", m.tail)
    OBVIOUS
  <1>3. PICK d : d = Store(c, n, "next", NULL)
    OBVIOUS
  <1>4. b = [m EXCEPT !.tail = n]
    BY <1>1 DEF SetTail
  <1>5. c = [b EXCEPT !.node[n]["prev"] = m.tail]
    BY <1>2, Zenon DEF Store
  <1>6. d = [c EXCEPT !.node[n]["next"] = NULL]
    BY <1>3, Zenon DEF Store
  <1>7. LinkBack(m, n) = Store(d, m.tail, "next", n)
    BY <1>4, <1>5, <1>6, Zenon DEF LinkBack
  <1> QED  BY <1>1, <1>2, <1>3, <1>7

LEMMA HeadStores ==
  \A m : UnlinkHead(m) = IF m.head = m.tail THEN SetTail(SetHead(m, NULL), NULL)
                         ELSE Store(SetHead(m, Go(m, m.head, "next")), Go(m, m.head, "next"), "prev", NULL)
  BY Zenon DEF UnlinkHead, SetHead, SetTail

LEMMA TailStores ==
  \A m : UnlinkTail(m) = Store(SetTail(m, Go(m, m.tail, "prev")), Go(m, m.tail, "prev"), "next", NULL)
  BY Zenon DEF UnlinkTail, SetTail

\* list_insert into an empty list.
AfterFirst(m, n, x, r) ==
  Frame(r, More(m.len), n, n, m.wild, m.used \cup {n}) /\ Field(r, n, "p") = x

\* list_insert into an empty list.
LEMMA InsertedFirst ==
  ASSUME NEW m \in ListType, m.len = 0, NEW n \in Node, NEW x \in Data, NEW index,
         NEW r, r = list_insert(m, n, x, index)
  PROVE  AfterFirst(m, n, x, r)
  <1>1. PICK a : a = NewNode(m, n, x)
    OBVIOUS
  <1>2. PICK b : b = SetHead(a, n)
    OBVIOUS
  <1>3. PICK c : c = SetTail(b, n)
    OBVIOUS
  <1>4. r = FixTail(c)
    BY <1>1, <1>2, <1>3, OnlyStores DEF list_insert
  <1>5. /\ Frame(a, More(m.len), m.head, m.tail, m.wild, m.used \cup {n})
        /\ Field(a, n, "p") = x
    <2>1. AfterNew(m, n, x, a)
      BY <1>1, Allocated
    <2> QED  BY <2>1 DEF AfterNew
  <1>6. n \in Pointer /\ n # NULL
    BY ListAssumption DEF Pointer
  <1>7. a \in ListType
    BY <1>5 DEF Frame
  <1>8. Frame(b, a.len, n, a.tail, a.wild, a.used) /\ \A k, f : Field(b, k, f) = Field(a, k, f)
    BY <1>2, <1>6, <1>7, HeadStored
  <1>9. b \in ListType
    BY <1>8 DEF Frame
  <1>10. Frame(c, b.len, b.head, n, b.wild, b.used) /\ \A k, f : Field(c, k, f) = Field(b, k, f)
    BY <1>3, <1>6, <1>9, TailStored
  <1>11. Frame(c, More(m.len), n, n, m.wild, m.used \cup {n})
    BY <1>5, <1>8, <1>10 DEF Frame
  <1>12. r = c
    BY <1>4, <1>6, <1>11, TailThere DEF Frame
  <1> QED  BY <1>5, <1>8, <1>10, <1>11, <1>12 DEF AfterFirst

\* list_insert with the index 0.
AfterFront(m, n, x, r) ==
  /\ Frame(r, More(m.len), n, m.tail, m.wild, m.used \cup {n})
  /\ Field(r, n, "p") = x /\ Field(r, n, "next") = m.head
  /\ \A k \in Node \ {n}, f \in Fields : Field(r, k, f) = Field(m, k, f)

\* list_insert before the head.
LEMMA InsertedFront ==
  ASSUME NEW m \in ListType, m.len # 0, m.tail # NULL, NEW n \in Node, NEW x \in Data,
         NEW r, r = list_insert(m, n, x, 0)
  PROVE  AfterFront(m, n, x, r)
  <1>1. PICK a : a = NewNode(m, n, x)
    OBVIOUS
  <1>2. PICK b : b = SetHead(a, n)
    OBVIOUS
  <1>3. PICK c : c = Store(b, n, "next", a.head)
    OBVIOUS
  <1>4. PICK d : d = Store(c, n, "prev", NULL)
    OBVIOUS
  <1>5. /\ Frame(a, More(m.len), m.head, m.tail, m.wild, m.used \cup {n})
        /\ Field(a, n, "p") = x
        /\ \A k \in Node \ {n}, f \in Fields : Field(a, k, f) = Field(m, k, f)
    <2>1. AfterNew(m, n, x, a)
      BY <1>1, Allocated
    <2> QED  BY <2>1 DEF AfterNew
  <1>6. r = FixTail(LinkFront(a, n))
    BY <1>1 DEF list_insert
  <1>7. r = FixTail(d)
    BY <1>2, <1>3, <1>4, <1>6, FrontStores
  <1>8. a \in ListType /\ n \in Pointer /\ NULL \in Pointer /\ a.head \in Pointer
    BY <1>5 DEF Pointer, ListType, Frame
  <1>9. Frame(b, a.len, n, a.tail, a.wild, a.used) /\ \A k, f : Field(b, k, f) = Field(a, k, f)
    BY <1>2, <1>8, HeadStored
  <1>10. b \in ListType
    BY <1>9 DEF Frame
  <1>11. /\ Frame(c, b.len, b.head, b.tail, b.wild, b.used)
         /\ Field(c, n, "next") = a.head
         /\ \A f \in Fields \ {"next"} : Field(c, n, f) = Field(b, n, f)
         /\ \A k \in Node \ {n}, f \in Fields : Field(c, k, f) = Field(b, k, f)
    <2>1. AfterStore(b, n, "next", a.head, c)
      BY <1>3, <1>8, <1>10, Stored
    <2> QED  BY <2>1 DEF AfterStore
  <1>12. c \in ListType
    BY <1>11 DEF Frame
  <1>13. /\ Frame(d, c.len, c.head, c.tail, c.wild, c.used)
         /\ \A f \in Fields \ {"prev"} : Field(d, n, f) = Field(c, n, f)
         /\ \A k \in Node \ {n}, f \in Fields : Field(d, k, f) = Field(c, k, f)
    <2>1. AfterStore(c, n, "prev", NULL, d)
      BY <1>4, <1>8, <1>12, Stored
    <2> QED  BY <2>1 DEF AfterStore
  <1>14. Frame(d, More(m.len), n, m.tail, m.wild, m.used \cup {n})
    BY <1>5, <1>9, <1>11, <1>13 DEF Frame
  <1>15. r = d
    BY <1>7, <1>14, TailThere DEF Frame
  <1>16. a.head = m.head
    BY <1>5 DEF Frame
  <1>17. Field(d, n, "p") = x /\ Field(d, n, "next") = m.head
    BY <1>5, <1>9, <1>11, <1>13, <1>16 DEF Fields
  <1>18. \A k \in Node \ {n}, f \in Fields : Field(d, k, f) = Field(m, k, f)
    BY <1>5, <1>9, <1>11, <1>13
  <1> QED  BY <1>14, <1>15, <1>17, <1>18 DEF AfterFront

\* list_insert with an index past the end.
AfterBack(m, n, x, r) ==
  /\ Frame(r, More(m.len), m.head, n, m.wild, m.used \cup {n})
  /\ Field(r, n, "p") = x /\ Field(r, n, "prev") = m.tail
  /\ Field(r, m.tail, "next") = n
  /\ \A f \in Fields \ {"next"} : Field(r, m.tail, f) = Field(m, m.tail, f)
  /\ \A k \in Node \ {n, m.tail}, f \in Fields : Field(r, k, f) = Field(m, k, f)

\* list_insert after the tail.
LEMMA InsertedBack ==
  ASSUME NEW m \in ListType, m.len # 0, NEW n \in Node, m.tail \in Node \ {n}, NEW x \in Data,
         NEW index, index # 0, index >= m.len - 1, NEW r, r = list_insert(m, n, x, index)
  PROVE  AfterBack(m, n, x, r)
  <1>0. PICK t \in Node \ {n} : t = m.tail
    OBVIOUS
  <1>1. PICK a : a = NewNode(m, n, x)
    OBVIOUS
  <1>2. PICK b : b = SetTail(a, n)
    OBVIOUS
  <1>3. PICK c : c = Store(b, n, "prev", t)
    OBVIOUS
  <1>4. PICK d : d = Store(c, n, "next", NULL)
    OBVIOUS
  <1>5. PICK e : e = Store(d, t, "next", n)
    OBVIOUS
  <1>6. /\ Frame(a, More(m.len), m.head, t, m.wild, m.used \cup {n})
        /\ Field(a, n, "p") = x
        /\ \A k \in Node \ {n}, f \in Fields : Field(a, k, f) = Field(m, k, f)
    <2>1. AfterNew(m, n, x, a)
      BY <1>1, Allocated
    <2> QED  BY <1>0, <2>1 DEF AfterNew
  <1>7. r = FixTail(LinkBack(a, n))
    BY <1>1 DEF list_insert
  <1>8. a \in ListType /\ a.tail = t
    BY <1>6 DEF Frame
  <1>9. r = FixTail(e)
    BY <1>2, <1>3, <1>4, <1>5, <1>7, <1>8, BackStores
  <1>10. n \in Pointer /\ NULL \in Pointer /\ t \in Pointer /\ n # NULL
    BY ListAssumption DEF Pointer
  <1>11. Frame(b, a.len, a.head, n, a.wild, a.used) /\ \A k, f : Field(b, k, f) = Field(a, k, f)
    BY <1>2, <1>8, <1>10, TailStored
  <1>12. b \in ListType
    BY <1>11 DEF Frame
  <1>13. /\ Frame(c, b.len, b.head, b.tail, b.wild, b.used)
         /\ Field(c, n, "prev") = t
         /\ \A f \in Fields \ {"prev"} : Field(c, n, f) = Field(b, n, f)
         /\ \A k \in Node \ {n}, f \in Fields : Field(c, k, f) = Field(b, k, f)
    <2>1. AfterStore(b, n, "prev", t, c)
      BY <1>3, <1>10, <1>12, Stored
    <2> QED  BY <2>1 DEF AfterStore
  <1>14. c \in ListType
    BY <1>13 DEF Frame
  <1>15. /\ Frame(d, c.len, c.head, c.tail, c.wild, c.used)
         /\ \A f \in Fields \ {"next"} : Field(d, n, f) = Field(c, n, f)
         /\ \A k \in Node \ {n}, f \in Fields : Field(d, k, f) = Field(c, k, f)
    <2>1. AfterStore(c, n, "next", NULL, d)
      BY <1>4, <1>10, <1>14, Stored
    <2> QED  BY <2>1 DEF AfterStore
  <1>16. d \in ListType
    BY <1>15 DEF Frame
  <1>17. /\ Frame(e, d.len, d.head, d.tail, d.wild, d.used)
         /\ Field(e, t, "next") = n
         /\ \A f \in Fields \ {"next"} : Field(e, t, f) = Field(d, t, f)
         /\ \A k \in Node \ {t}, f \in Fields : Field(e, k, f) = Field(d, k, f)
    <2>1. AfterStore(d, t, "next", n, e)
      BY <1>5, <1>10, <1>16, Stored
    <2> QED  BY <2>1 DEF AfterStore
  <1>18. Frame(e, More(m.len), m.head, n, m.wild, m.used \cup {n})
    BY <1>6, <1>11, <1>13, <1>15, <1>17 DEF Frame
  <1>19. r = e
    BY <1>9, <1>10, <1>18, TailThere DEF Frame
  <1>20. Field(e, n, "p") = x /\ Field(e, n, "prev") = t
    BY <1>6, <1>11, <1>13, <1>15, <1>17 DEF Fields
  <1>21. \A f \in Fields \ {"next"} : Field(e, t, f) = Field(m, t, f)
    BY <1>6, <1>11, <1>13, <1>15, <1>17
  <1>22. \A k \in Node \ {n, t}, f \in Fields : Field(e, k, f) = Field(m, k, f)
    BY <1>6, <1>11, <1>13, <1>15, <1>17
  <1> HIDE DEF Fields
  <1> QED  BY <1>0, <1>17, <1>18, <1>19, <1>20, <1>21, <1>22 DEF AfterBack

\* list_remove of the only node.
LEMMA RemovedOnly ==
  ASSUME NEW m \in ListType, m.len # 0, m.head \in Node, m.head = m.tail,
         NEW r, r = list_remove(m, 0)
  PROVE  Frame(r, Less(m.len), NULL, NULL, m.wild, m.used \ {m.head})
  <1>1. PICK a : a = SetHead(m, NULL)
    OBVIOUS
  <1>2. PICK b : b = SetTail(a, NULL)
    OBVIOUS
  <1>3. r = FreeNode(b, m.head)
    BY <1>1, <1>2, HeadStores DEF list_remove
  <1>4. NULL \in Pointer
    BY DEF Pointer
  <1>5. Frame(a, m.len, NULL, m.tail, m.wild, m.used)
    BY <1>1, <1>4, HeadStored
  <1>6. a \in ListType
    BY <1>5 DEF Frame
  <1>7. Frame(b, a.len, a.head, NULL, a.wild, a.used)
    BY <1>2, <1>4, <1>6, TailStored
  <1>8. b \in ListType /\ b.len = m.len
    BY <1>5, <1>7 DEF Frame
  <1>9. Frame(r, Less(b.len), b.head, b.tail, b.wild, b.used \ {m.head})
    BY <1>3, <1>8, Freed
  <1> QED  BY <1>5, <1>7, <1>9 DEF Frame

\* list_remove of the first node of several.
AfterHead(m, h, s, r) ==
  /\ Frame(r, Less(m.len), s, m.tail, m.wild, m.used \ {h})
  /\ \A f \in Fields \ {"prev"} : Field(r, s, f) = Field(m, s, f)
  /\ \A k \in Node \ {h, s}, f \in Fields : Field(r, k, f) = Field(m, k, f)

\* list_remove of the head.
LEMMA RemovedHead ==
  ASSUME NEW m \in ListType, m.len # 0, NEW h \in Node, h = m.head, h # m.tail,
         NEW s \in Node \ {h}, s = Field(m, h, "next"), NEW r, r = list_remove(m, 0)
  PROVE  AfterHead(m, h, s, r)
  <1>1. PICK a : a = SetHead(m, s)
    OBVIOUS
  <1>2. PICK b : b = Store(a, s, "prev", NULL)
    OBVIOUS
  <1>3. Go(m, h, "next") = s
    BY DEF Go, Field
  <1>4. UnlinkHead(m) = b
    BY <1>1, <1>2, <1>3, HeadStores
  <1>5. r = FreeNode(b, h)
    BY <1>4 DEF list_remove
  <1>6. NULL \in Pointer /\ s \in Pointer
    BY DEF Pointer
  <1>7. Frame(a, m.len, s, m.tail, m.wild, m.used) /\ \A k, f : Field(a, k, f) = Field(m, k, f)
    BY <1>1, <1>6, HeadStored
  <1>8. a \in ListType
    BY <1>7 DEF Frame
  <1>9. /\ Frame(b, a.len, a.head, a.tail, a.wild, a.used)
        /\ \A f \in Fields \ {"prev"} : Field(b, s, f) = Field(a, s, f)
        /\ \A k \in Node \ {s}, f \in Fields : Field(b, k, f) = Field(a, k, f)
    <2>1. AfterStore(a, s, "prev", NULL, b)
      BY <1>2, <1>6, <1>8, Stored
    <2> QED  BY <2>1 DEF AfterStore
  <1>10. b \in ListType /\ b.len = m.len /\ b.len # 0
    BY <1>7, <1>9 DEF Frame
  <1>11. /\ Frame(r, Less(b.len), b.head, b.tail, b.wild, b.used \ {h})
         /\ \A k \in Node \ {h}, f \in Fields : Field(r, k, f) = Field(b, k, f)
    <2>1. Frame(r, Less(b.len), b.head, b.tail, b.wild, b.used \ {h})
      BY <1>5, <1>10, Freed
    <2>2. \A k \in Node \ {h}, f \in Fields : Field(r, k, f) = Field(b, k, f)
      BY <1>5, <1>10, OthersStay
    <2> QED  BY <2>1, <2>2
  <1>12. Frame(r, Less(m.len), s, m.tail, m.wild, m.used \ {h})
    BY <1>7, <1>9, <1>11 DEF Frame
  <1> QED  BY <1>7, <1>9, <1>11, <1>12 DEF AfterHead

\* list_remove of the last node of several.
AfterTail(m, t, s, r) ==
  /\ Frame(r, Less(m.len), m.head, s, m.wild, m.used \ {t})
  /\ \A f \in Fields \ {"next"} : Field(r, s, f) = Field(m, s, f)
  /\ \A k \in Node \ {t, s}, f \in Fields : Field(r, k, f) = Field(m, k, f)

\* list_remove of the tail.
LEMMA RemovedTail ==
  ASSUME NEW m \in ListType, m.len # 0, NEW t \in Node, t = m.tail,
         NEW s \in Node \ {t}, s = Field(m, t, "prev"),
         NEW index, index # 0, index >= m.len - 1, NEW r, r = list_remove(m, index)
  PROVE  AfterTail(m, t, s, r)
  <1>1. PICK a : a = SetTail(m, s)
    OBVIOUS
  <1>2. PICK b : b = Store(a, s, "next", NULL)
    OBVIOUS
  <1>3. Go(m, t, "prev") = s
    BY DEF Go, Field
  <1>4. UnlinkTail(m) = b
    BY <1>1, <1>2, <1>3, TailStores
  <1>5. r = FreeNode(b, t)
    BY <1>4 DEF list_remove
  <1>6. NULL \in Pointer /\ s \in Pointer
    BY DEF Pointer
  <1>7. Frame(a, m.len, m.head, s, m.wild, m.used) /\ \A k, f : Field(a, k, f) = Field(m, k, f)
    BY <1>1, <1>6, TailStored
  <1>8. a \in ListType
    BY <1>7 DEF Frame
  <1>9. /\ Frame(b, a.len, a.head, a.tail, a.wild, a.used)
        /\ \A f \in Fields \ {"next"} : Field(b, s, f) = Field(a, s, f)
        /\ \A k \in Node \ {s}, f \in Fields : Field(b, k, f) = Field(a, k, f)
    <2>1. AfterStore(a, s, "next", NULL, b)
      BY <1>2, <1>6, <1>8, Stored
    <2> QED  BY <2>1 DEF AfterStore
  <1>10. b \in ListType /\ b.len = m.len /\ b.len # 0
    BY <1>7, <1>9 DEF Frame
  <1>11. /\ Frame(r, Less(b.len), b.head, b.tail, b.wild, b.used \ {t})
         /\ \A k \in Node \ {t}, f \in Fields : Field(r, k, f) = Field(b, k, f)
    <2>1. Frame(r, Less(b.len), b.head, b.tail, b.wild, b.used \ {t})
      BY <1>5, <1>10, Freed
    <2>2. \A k \in Node \ {t}, f \in Fields : Field(r, k, f) = Field(b, k, f)
      BY <1>5, <1>10, OthersStay
    <2> QED  BY <2>1, <2>2
  <1>12. Frame(r, Less(m.len), m.head, s, m.wild, m.used \ {t})
    BY <1>7, <1>9, <1>11 DEF Frame
  <1> QED  BY <1>7, <1>9, <1>11, <1>12 DEF AfterTail

\* list_remove of a node with neighbours on both sides.
AfterInside(m, n, a, b, r) ==
  /\ Frame(r, Less(m.len), m.head, m.tail, m.wild, m.used \ {n})
  /\ Field(r, a, "next") = b /\ Field(r, b, "prev") = a
  /\ \A f \in Fields \ {"next"} : Field(r, a, f) = Field(m, a, f)
  /\ \A f \in Fields \ {"prev"} : Field(r, b, f) = Field(m, b, f)
  /\ \A k \in Node \ {n, a, b}, f \in Fields : Field(r, k, f) = Field(m, k, f)

\* list_remove of a node between two others.
LEMMA RemovedInside ==
  ASSUME NEW m \in ListType, m.len # 0, NEW index, index # 0, ~(index >= m.len - 1),
         NEW n \in Node, n = Walk(m, m.head, "next", index),
         NEW a \in Node \ {n}, a = Field(m, n, "prev"),
         NEW b \in Node \ {n, a}, b = Field(m, n, "next"),
         NEW r, r = list_remove(m, index)
  PROVE  AfterInside(m, n, a, b, r)
  <1>1. PICK c : c = Store(m, a, "next", b)
    OBVIOUS
  <1>2. PICK d : d = Store(c, b, "prev", a)
    OBVIOUS
  <1>3. Go(m, n, "prev") = a /\ Go(m, n, "next") = b
    BY DEF Go, Field
  <1>4. UnlinkInside(m, n) = d
    BY <1>1, <1>2, <1>3 DEF UnlinkInside
  <1>5. r = FreeNode(d, n)
    BY <1>4 DEF list_remove
  <1>6. a \in Pointer /\ b \in Pointer
    BY DEF Pointer
  <1>7. /\ Frame(c, m.len, m.head, m.tail, m.wild, m.used)
        /\ Field(c, a, "next") = b
        /\ \A f \in Fields \ {"next"} : Field(c, a, f) = Field(m, a, f)
        /\ \A k \in Node \ {a}, f \in Fields : Field(c, k, f) = Field(m, k, f)
    <2>1. AfterStore(m, a, "next", b, c)
      BY <1>1, <1>6, Stored
    <2> QED  BY <2>1 DEF AfterStore
  <1>8. c \in ListType
    BY <1>7 DEF Frame
  <1>9. /\ Frame(d, c.len, c.head, c.tail, c.wild, c.used)
        /\ Field(d, b, "prev") = a
        /\ \A f \in Fields \ {"prev"} : Field(d, b, f) = Field(c, b, f)
        /\ \A k \in Node \ {b}, f \in Fields : Field(d, k, f) = Field(c, k, f)
    <2>1. AfterStore(c, b, "prev", a, d)
      BY <1>2, <1>6, <1>8, Stored
    <2> QED  BY <2>1 DEF AfterStore
  <1>10. d \in ListType /\ d.len = m.len /\ d.len # 0
    BY <1>7, <1>9 DEF Frame
  <1>11. /\ Frame(r, Less(d.len), d.head, d.tail, d.wild, d.used \ {n})
         /\ \A k \in Node \ {n}, f \in Fields : Field(r, k, f) = Field(d, k, f)
    <2>1. Frame(r, Less(d.len), d.head, d.tail, d.wild, d.used \ {n})
      BY <1>5, <1>10, Freed
    <2>2. \A k \in Node \ {n}, f \in Fields : Field(r, k, f) = Field(d, k, f)
      BY <1>5, <1>10, OthersStay
    <2> QED  BY <2>1, <2>2
  <1>12. Frame(r, Less(m.len), m.head, m.tail, m.wild, m.used \ {n})
    BY <1>7, <1>9, <1>11 DEF Frame
  <1>13. Field(r, a, "next") = b /\ Field(r, b, "prev") = a
    BY <1>7, <1>9, <1>11 DEF Fields
  <1>14. \A f \in Fields \ {"next"} : Field(r, a, f) = Field(m, a, f)
    BY <1>7, <1>9, <1>11
  <1>15. \A f \in Fields \ {"prev"} : Field(r, b, f) = Field(m, b, f)
    BY <1>7, <1>9, <1>11
  <1>16. \A k \in Node \ {n, a, b}, f \in Fields : Field(r, k, f) = Field(m, k, f)
    BY <1>7, <1>9, <1>11
  <1> QED  BY <1>12, <1>13, <1>14, <1>15, <1>16 DEF AfterInside

-----------------------------------------------------------------------------
(* A list, the nodes nd[1] to nd[N] that it has in order, and their data.  *)

Rep(m, N, nd, s, back) ==
  /\ m \in ListType /\ ~m.wild /\ N \in Nat /\ m.len = N
  /\ nd \in [1..N -> Node] /\ \A i, j \in 1..N : nd[i] = nd[j] => i = j
  /\ m.used = {nd[i] : i \in 1..N} /\ Cardinality(m.used) = N
  /\ N = 0 => m.head = NULL /\ m.tail = NULL
  /\ N # 0 => m.head = nd[1] /\ m.tail = nd[N]
  /\ \A i \in 1..N - 1 : Field(m, nd[i], "next") = nd[i + 1]
  /\ back => \A i \in 2..N : Field(m, nd[i], "prev") = nd[i - 1]
  /\ s \in [1..N -> Data] /\ \A i \in 1..N : Field(m, nd[i], "p") = s[i]

\* A set of naturals that is not empty has a least element.
LEMMA LeastNat ==
  ASSUME NEW T, T \subseteq Nat, T # {}
  PROVE  \E x \in T : \A y \in T : x <= y
  <1>1. PICK x \in T : \A y \in T : ~(<<y, x>> \in OpToRel(<, Nat))
    BY NatLessThanWellFounded, WFMin
  <1>2. ASSUME NEW y \in T PROVE x <= y
    <2>1. x \in Nat /\ y \in Nat
      OBVIOUS
    <2>2. ~(y < x)
      BY <1>1, <2>1 DEF OpToRel
    <2> QED  BY <2>1, <2>2
  <1> QED  BY <1>2

\* The loop of list_at and list_remove reaches the node it counts to.
LEMMA WalkIs ==
  ASSUME NEW m, NEW N, NEW nd, NEW s, NEW back, Rep(m, N, nd, s, back), NEW k \in 0..N - 1
  PROVE  Walk(m, m.head, "next", k) = nd[k + 1]
  <1> DEFINE e(f) == [i \in 0..k |-> IF i = 0 THEN m.head ELSE Go(m, f[i - 1], "next")]
             F == CHOOSE f : f = e(f)
             g == [i \in 0..k |-> nd[i + 1]]
  <1>0. N \in Nat /\ k \in Nat /\ k < N
    BY DEF Rep
  <1>1. ASSUME NEW i \in 0..k, i # 0 PROVE Go(m, nd[i], "next") = nd[i + 1]
    <2>1. i \in 1..N - 1 /\ i \in 1..N
      BY <1>0, <1>1
    <2>2. nd[i] \in Node /\ Field(m, nd[i], "next") = nd[i + 1]
      BY <2>1 DEF Rep
    <2> QED  BY <2>2 DEF Go, Field
  <1>2. m.head = nd[1]
    BY <1>0 DEF Rep
  <1>3. g = e(g)
    <2>1. ASSUME NEW i \in 0..k PROVE g[i] = e(g)[i]
      <3>1. CASE i = 0
        BY <1>2, <3>1
      <3>2. CASE i # 0
        <4>1. i - 1 \in 0..k /\ g[i - 1] = nd[i]
          BY <1>0, <3>2
        <4> QED  BY <1>1, <3>2, <4>1
      <3> QED  BY <3>1, <3>2
    <2> QED  BY <2>1
  <1>4. F = e(F)
    BY <1>3
  <1>5. Walk(m, m.head, "next", k) = F[k]
    BY DEF Walk
  <1> HIDE DEF F
  <1> DEFINE T == {i \in 0..k : F[i] # nd[i + 1]}
  <1>6. T = {}
    <2> SUFFICES ASSUME T # {} PROVE FALSE
      OBVIOUS
    <2>0. T \subseteq Nat
      BY <1>0
    <2>1. PICK x \in T : \A y \in T : x <= y
      BY <2>0, LeastNat
    <2>2. x \in 0..k /\ F[x] # nd[x + 1]
      OBVIOUS
    <2>3. F[x] = IF x = 0 THEN m.head ELSE Go(m, F[x - 1], "next")
      BY <1>4, <2>2
    <2>4. CASE x = 0
      BY <1>2, <2>2, <2>3, <2>4
    <2>5. CASE x # 0
      <3>1. x - 1 \in 0..k /\ x - 1 \notin T
        <4> HIDE DEF T
        <4> QED  BY <1>0, <2>1, <2>2, <2>5
      <3>2. F[x - 1] = nd[x]
        BY <1>0, <2>2, <3>1
      <3> QED  BY <1>1, <2>2, <2>3, <2>5, <3>2
    <2> QED  BY <2>4, <2>5
  <1> QED  BY <1>0, <1>5, <1>6

\* list_at shows the data in order.
LEMMA ElementsAre ==
  ASSUME NEW m, NEW N, NEW nd, NEW s, NEW back, Rep(m, N, nd, s, back) PROVE Elements(m) = s
  <1>0. N \in Nat /\ m.len = N /\ s \in [1..N -> Data]
    BY DEF Rep
  <1>1. ASSUME NEW i \in 1..N PROVE list_at(m, i - 1) = s[i]
    <2>1. ~(i - 1 >= m.len) /\ i - 1 \in 0..N - 1 /\ N # 0
      BY <1>0
    <2>2. PICK n : n = IF i - 1 = 0 THEN m.head ELSE IF i - 1 >= m.len - 1 THEN m.tail
                       ELSE Walk(m, m.head, "next", i - 1)
      OBVIOUS
    <2>3. list_at(m, i - 1) = Go(m, n, "p")
      BY <2>1, <2>2 DEF list_at
    <2>4. n = nd[i]
      <3>1. CASE i = 1
        BY <2>1, <2>2, <3>1 DEF Rep
      <3>2. CASE i # 1 /\ i = N
        BY <1>0, <2>1, <2>2, <3>2 DEF Rep
      <3>3. CASE i # 1 /\ i # N
        <4>1. n = Walk(m, m.head, "next", i - 1)
          BY <1>0, <2>2, <3>3
        <4>2. Walk(m, m.head, "next", i - 1) = nd[(i - 1) + 1]
          BY <2>1, WalkIs
        <4> QED  BY <4>1, <4>2
      <3> QED  BY <3>1, <3>2, <3>3
    <2>5. nd[i] \in Node /\ Field(m, nd[i], "p") = s[i]
      BY DEF Rep
    <2> QED  BY <2>3, <2>4, <2>5 DEF Go, Field
  <1> QED  BY <1>0, <1>1 DEF Elements

-----------------------------------------------------------------------------
(* The operations keep the representation.                                 *)

\* A new node is not one of the list's.
LEMMA NewNodeIsNew ==
  ASSUME NEW m, NEW N, NEW nd, NEW s, NEW back, Rep(m, N, nd, s, back), NEW n \in Node \ m.used
  PROVE  \A i \in 1..N : nd[i] \in Node \ {n}
  BY DEF Rep

\* The node counts, when one comes or goes.
LEMMA OneMore ==
  ASSUME NEW m \in ListType, NEW n \in Node \ m.used
  PROVE  Cardinality(m.used \cup {n}) = Cardinality(m.used) + 1
  <1>1. IsFiniteSet(m.used)
    <2>1. m.used \in SUBSET Node
      BY DEF ListType
    <2> QED  BY <2>1, FS_Subset, ListAssumption
  <1> QED  BY <1>1, FS_AddElement

LEMMA OneLess ==
  ASSUME NEW m \in ListType, NEW n \in m.used
  PROVE  Cardinality(m.used \ {n}) = Cardinality(m.used) - 1
  <1>1. IsFiniteSet(m.used)
    <2>1. m.used \in SUBSET Node
      BY DEF ListType
    <2> QED  BY <2>1, FS_Subset, ListAssumption
  <1> QED  BY <1>1, FS_RemoveElement

\* Insertion of a first element.
LEMMA FirstRep ==
  ASSUME NEW m, NEW nd, NEW s, NEW back, Rep(m, 0, nd, s, back), NEW n \in Node \ m.used, NEW x \in Data,
         NEW index, NEW r, r = list_insert(m, n, x, index), NEW z \in [1..1 -> Data], z[1] = x
  PROVE  \E d : Rep(r, 1, d, z, back)
  <1> DEFINE d == [i \in 1..1 |-> n]
  <1>1. m \in ListType /\ m.len = 0 /\ ~m.wild /\ Cardinality(m.used) = 0 /\ m.used = {}
    BY DEF Rep
  <1>2. Frame(r, More(m.len), n, n, m.wild, m.used \cup {n}) /\ Field(r, n, "p") = x
    <2>1. AfterFirst(m, n, x, r)
      BY <1>1, InsertedFirst
    <2> QED  BY <2>1 DEF AfterFirst
  <1>3. Cardinality(m.used \cup {n}) = 1
    <2>1. Cardinality(m.used \cup {n}) = Cardinality(m.used) + 1
      BY <1>1, OneMore
    <2> QED  BY <1>1, <2>1
  <1>4. r.used = {d[i] : i \in 1..1}
    BY <1>1, <1>2 DEF Frame, More
  <1>5. r \in ListType /\ ~r.wild /\ r.len = 1 /\ r.head = n /\ r.tail = n /\ r.used = m.used \cup {n}
    BY <1>1, <1>2 DEF Frame, More
  <1>6. d \in [1..1 -> Node] /\ d[1] = n
    OBVIOUS
  <1> HIDE DEF d
  <1>7. \A i, j \in 1..1 : i = j /\ i = 1
    OBVIOUS
  <1>8. 1..(1 - 1) = {} /\ 2..1 = {}
    OBVIOUS
  <1>9. Rep(r, 1, d, z, back)
    BY <1>2, <1>3, <1>4, <1>5, <1>6, <1>7, <1>8, ZenonT(30) DEF Rep
  <1> QED  BY <1>9

\* z is c after x, c before x, and c without its element i: c has N elements.
Prefixed(z, N, c, x) ==
  z \in [1..N + 1 -> Data] /\ z[1] = x /\ \A i \in 2..N + 1 : z[i] = c[i - 1]

Suffixed(z, N, c, x) ==
  z \in [1..N + 1 -> Data] /\ z[N + 1] = x /\ \A i \in 1..N : z[i] = c[i]

Without(z, N, c, i) ==
  z \in [1..N - 1 -> Data] /\ \A j \in 1..N - 1 : z[j] = IF j < i THEN c[j] ELSE c[j + 1]

\* Insertion at the front, llist.c:72-75: the old head's prev is not set.
LEMMA FrontRep ==
  ASSUME NEW m, NEW N, NEW nd, NEW s, NEW back, Rep(m, N, nd, s, back), N # 0,
         NEW n \in Node \ m.used, NEW x \in Data, NEW r, r = list_insert(m, n, x, 0),
         NEW z, Prefixed(z, N, s, x)
  PROVE  \E d : Rep(r, N + 1, d, z, FALSE)
  <1> USE DEF Prefixed
  <1> DEFINE d == [i \in 1..N + 1 |-> IF i = 1 THEN n ELSE nd[i - 1]]
  <1>1. /\ m \in ListType /\ m.len = N /\ N \in Nat /\ ~m.wild /\ Cardinality(m.used) = N
        /\ m.head = nd[1] /\ m.tail = nd[N] /\ m.used = {nd[i] : i \in 1..N}
        /\ nd \in [1..N -> Node]
    BY DEF Rep
  <1>2. \A i \in 1..N : nd[i] \in Node \ {n}
    BY NewNodeIsNew
  <1>3. m.tail # NULL /\ m.len # 0
    BY <1>1, ListAssumption
  <1>4. /\ Frame(r, More(m.len), n, m.tail, m.wild, m.used \cup {n})
        /\ Field(r, n, "p") = x /\ Field(r, n, "next") = m.head
        /\ \A k \in Node \ {n}, f \in Fields : Field(r, k, f) = Field(m, k, f)
    <2>1. AfterFront(m, n, x, r)
      BY <1>1, <1>3, InsertedFront
    <2> QED  BY <2>1 DEF AfterFront
  <1>5. Cardinality(m.used \cup {n}) = N + 1
    BY <1>1, OneMore
  <1>6. r \in ListType /\ ~r.wild /\ r.len = N + 1 /\ r.head = n /\ r.tail = nd[N] /\ r.used = m.used \cup {n}
    BY <1>1, <1>4 DEF Frame, More
  <1>7. \A i \in 2..N + 1 : i - 1 \in 1..N
    BY <1>1
  <1>8. d \in [1..N + 1 -> Node] /\ d[1] = n /\ \A i \in 2..N + 1 : d[i] = nd[i - 1]
    BY <1>1, <1>7
  <1>9. \A i \in 1..N : i + 1 \in 2..N + 1 /\ d[i + 1] = nd[i]
    BY <1>1
  <1> HIDE DEF d
  <1>10. \A i, j \in 1..N + 1 : d[i] = d[j] => i = j
    <2> SUFFICES ASSUME NEW i \in 1..N + 1, NEW j \in 1..N + 1, d[i] = d[j] PROVE i = j
      OBVIOUS
    <2>1. CASE i = 1 \/ j = 1
      BY <1>1, <1>2, <1>7, <1>8, <2>1
    <2>2. CASE i # 1 /\ j # 1
      <3>1. i \in 2..N + 1 /\ j \in 2..N + 1
        BY <1>1, <2>2
      <3>2. nd[i - 1] = nd[j - 1] /\ i - 1 \in 1..N /\ j - 1 \in 1..N
        BY <1>7, <1>8, <3>1
      <3>3. i - 1 = j - 1
        BY <3>2 DEF Rep
      <3> QED  BY <1>1, <3>3
    <2> QED  BY <2>1, <2>2
  <1>11. r.used = {d[i] : i \in 1..N + 1}
    <2>1. \A e \in r.used : \E i \in 1..N + 1 : e = d[i]
      BY <1>1, <1>6, <1>8, <1>9
    <2>2. \A i \in 1..N + 1 : d[i] \in r.used
      <3> SUFFICES ASSUME NEW i \in 1..N + 1 PROVE d[i] \in r.used
        OBVIOUS
      <3>1. CASE i = 1
        BY <1>6, <1>8, <3>1
      <3>2. CASE i # 1
        <4>1. i \in 2..N + 1
          BY <1>1, <3>2
        <4> QED  BY <1>1, <1>6, <1>7, <1>8, <4>1
      <3> QED  BY <3>1, <3>2
    <2> QED  BY <2>1, <2>2
  <1>12. d[N + 1] = nd[N]
    BY <1>1, <1>9
  <1>13. ASSUME NEW i \in 1..N PROVE Field(r, d[i], "next") = d[i + 1]
    <2>1. CASE i = 1
      BY <1>1, <1>4, <1>8, <1>9, <2>1
    <2>2. CASE i # 1
      <3>1. i \in 2..N + 1 /\ i - 1 \in 1..N /\ i - 1 \in 1..N - 1
        BY <1>1, <2>2
      <3>2. d[i] = nd[i - 1] /\ d[i + 1] = nd[i] /\ nd[i - 1] \in Node \ {n}
        BY <1>2, <1>8, <1>9, <3>1
      <3>3. Field(m, nd[i - 1], "next") = nd[(i - 1) + 1]
        BY <3>1 DEF Rep
      <3>4. Field(r, nd[i - 1], "next") = Field(m, nd[i - 1], "next")
        BY <1>4, <3>2 DEF Fields
      <3> QED  BY <3>1, <3>2, <3>3, <3>4
    <2> QED  BY <2>1, <2>2
  <1>14. ASSUME NEW i \in 1..N + 1 PROVE Field(r, d[i], "p") = z[i]
    <2>1. CASE i = 1
      BY <1>4, <1>8, <2>1
    <2>2. CASE i # 1
      <3>1. i \in 2..N + 1 /\ i - 1 \in 1..N
        BY <1>1, <2>2
      <3>2. d[i] = nd[i - 1] /\ nd[i - 1] \in Node \ {n} /\ z[i] = s[i - 1]
        BY <1>2, <1>8, <3>1
      <3>3. Field(m, nd[i - 1], "p") = s[i - 1]
        BY <3>1 DEF Rep
      <3>4. Field(r, nd[i - 1], "p") = Field(m, nd[i - 1], "p")
        BY <1>4, <3>2 DEF Fields
      <3> QED  BY <3>2, <3>3, <3>4
    <2> QED  BY <2>1, <2>2
  <1>15. N + 1 \in Nat /\ N + 1 # 0 /\ \A i \in 1..(N + 1) - 1 : i \in 1..N
    BY <1>1
  <1>16. Rep(r, N + 1, d, z, FALSE)
    BY <1>5, <1>6, <1>8, <1>10, <1>11, <1>12, <1>13, <1>14, <1>15 DEF Rep
  <1> QED  BY <1>16

\* Insertion at the back.
LEMMA BackRep ==
  ASSUME NEW m, NEW N, NEW nd, NEW s, NEW back, Rep(m, N, nd, s, back), N # 0,
         NEW n \in Node \ m.used, NEW x \in Data,
         NEW r, r = list_insert(m, n, x, 2 * Cardinality(Node)),
         NEW z, Suffixed(z, N, s, x)
  PROVE  \E d : Rep(r, N + 1, d, z, back)
  <1> DEFINE d == [i \in 1..N + 1 |-> IF i = N + 1 THEN n ELSE nd[i]]
  <1>1. /\ m \in ListType /\ m.len = N /\ N \in Nat /\ ~m.wild /\ Cardinality(m.used) = N
        /\ m.head = nd[1] /\ m.tail = nd[N] /\ m.used = {nd[i] : i \in 1..N}
        /\ nd \in [1..N -> Node] /\ m.used \in SUBSET Node
    BY DEF Rep, ListType
  <1>2. \A i \in 1..N : nd[i] \in Node \ {n}
    BY NewNodeIsNew
  <1>3. PICK index : index = 2 * Cardinality(Node)
    OBVIOUS
  <1>4. index # 0 /\ index >= m.len - 1
    <2>1. N <= Cardinality(Node) /\ Cardinality(Node) \in Nat
      <3>1. IsFiniteSet(Node)
        BY ListAssumption
      <3>2. Cardinality(m.used) <= Cardinality(Node)
        BY <1>1, <3>1, FS_Subset
      <3>3. Cardinality(Node) \in Nat
        BY <3>1, FS_CardinalityType
      <3> QED  BY <1>1, <3>2, <3>3
    <2> QED  BY <1>1, <1>3, <2>1
  <1>5. m.tail \in Node \ {n} /\ m.len # 0
    BY <1>1, <1>2
  <1>6. AfterBack(m, n, x, r)
    BY <1>1, <1>3, <1>4, <1>5, InsertedBack
  <1>7. Cardinality(m.used \cup {n}) = N + 1
    BY <1>1, OneMore
  <1>8. r \in ListType /\ ~r.wild /\ r.len = N + 1 /\ r.head = nd[1] /\ r.tail = n /\ r.used = m.used \cup {n}
    BY <1>1, <1>6 DEF AfterBack, Frame, More
  <1>9. d \in [1..N + 1 -> Node] /\ d[N + 1] = n /\ \A i \in 1..N : d[i] = nd[i]
    BY <1>1
  <1> HIDE DEF d
  <1>10. \A i \in 1..N + 1 : i = N + 1 \/ i \in 1..N
    BY <1>1
  <1>11. \A i, j \in 1..N + 1 : d[i] = d[j] => i = j
    <2>1. \A i, j \in 1..N : nd[i] = nd[j] => i = j
      BY DEF Rep
    <2> QED  BY <1>2, <1>9, <1>10, <2>1
  <1>12. r.used = {d[i] : i \in 1..N + 1}
    <2>1. N + 1 \in 1..N + 1 /\ \A i \in 1..N : i \in 1..N + 1
      BY <1>1
    <2>2. \A e \in r.used : \E i \in 1..N + 1 : e = d[i]
      BY <1>1, <1>8, <1>9, <2>1
    <2>3. \A i \in 1..N + 1 : d[i] \in r.used
      BY <1>1, <1>8, <1>9, <1>10
    <2> QED  BY <2>2, <2>3
  <1>13. ASSUME NEW i \in 1..N PROVE /\ d[i] = nd[i] /\ nd[i] \in Node \ {n}
                                     /\ nd[i] # nd[N] <=> i # N
    <2>1. \A a, b \in 1..N : nd[a] = nd[b] => a = b
      BY DEF Rep
    <2>2. N \in 1..N
      BY <1>1
    <2> QED  BY <1>2, <1>9, <2>1, <2>2
  <1>14. ASSUME NEW i \in 1..N PROVE Field(r, d[i], "next") = d[i + 1]
    <2>1. CASE i = N
      BY <1>1, <1>6, <1>9, <2>1 DEF AfterBack
    <2>2. CASE i # N
      <3>1. i \in 1..N - 1 /\ i + 1 \in 1..N
        BY <1>1, <2>2
      <3>2. Field(m, nd[i], "next") = nd[i + 1] /\ d[i + 1] = nd[i + 1]
        BY <1>9, <3>1 DEF Rep
      <3>3. Field(r, nd[i], "next") = Field(m, nd[i], "next")
        BY <1>1, <1>6, <1>13, <2>2 DEF AfterBack, Fields
      <3> QED  BY <1>13, <3>2, <3>3
    <2> QED  BY <2>1, <2>2
  <1>15. ASSUME NEW i \in 1..N, NEW f \in {"p", "prev"} PROVE Field(r, d[i], f) = Field(m, nd[i], f)
    <2>1. CASE i = N
      <3>1. d[i] = m.tail /\ nd[i] = m.tail
        BY <1>1, <1>9, <2>1
      <3>2. Field(r, m.tail, f) = Field(m, m.tail, f)
        BY <1>6, <1>15 DEF AfterBack, Fields
      <3> QED  BY <3>1, <3>2
    <2>2. CASE i # N
      BY <1>1, <1>6, <1>13, <2>2 DEF AfterBack, Fields
    <2> QED  BY <2>1, <2>2
  <1>16. ASSUME back, NEW i \in 2..N + 1 PROVE Field(r, d[i], "prev") = d[i - 1]
    <2>1. i - 1 \in 1..N /\ (i = N + 1 \/ (i \in 1..N /\ i \in 2..N))
      BY <1>1
    <2>2. CASE i = N + 1
      <3>0. i - 1 = N
        BY <1>1, <2>2
      <3>1. d[i - 1] = nd[N]
        BY <1>9, <2>1, <3>0
      <3> QED  BY <1>1, <1>6, <1>9, <2>2, <3>1 DEF AfterBack
    <2>3. CASE i \in 1..N /\ i \in 2..N
      <3>1. Field(m, nd[i], "prev") = nd[i - 1]
        BY <1>16, <2>3 DEF Rep
      <3> QED  BY <1>9, <1>15, <2>1, <2>3, <3>1
    <2> QED  BY <2>1, <2>2, <2>3
  <1>17. ASSUME NEW i \in 1..N + 1 PROVE Field(r, d[i], "p") = z[i]
    <2>1. CASE i = N + 1
      BY <1>6, <1>9, <2>1 DEF AfterBack, Suffixed
    <2>2. CASE i \in 1..N
      <3>1. Field(m, nd[i], "p") = s[i]
        BY <2>2 DEF Rep
      <3> QED  BY <1>15, <2>2, <3>1 DEF Suffixed
    <2> QED  BY <1>10, <2>1, <2>2
  <1>18. N + 1 \in Nat /\ N + 1 # 0 /\ \A i \in 1..(N + 1) - 1 : i \in 1..N
    BY <1>1
  <1>19. r.head = d[1] /\ r.tail = d[N + 1]
    BY <1>1, <1>8, <1>9
  <1>20. Rep(r, N + 1, d, z, back)
    BY <1>7, <1>8, <1>9, <1>11, <1>12, <1>14, <1>16, <1>17, <1>18, <1>19 DEF Rep, Suffixed
  <1> QED  BY <1>20


\* What list_remove of the node nd[i] leaves.
AfterRemove(m, N, nd, i, r) ==
  /\ Frame(r, Less(m.len), IF i # 1 THEN m.head ELSE IF N = 1 THEN NULL ELSE nd[2],
           IF i # N THEN m.tail ELSE IF N = 1 THEN NULL ELSE nd[N - 1], m.wild, m.used \ {nd[i]})
  /\ \A j \in 1..N \ {i} : Field(r, nd[j], "p") = Field(m, nd[j], "p")
  /\ \A j \in 1..N - 1 \ {i, i - 1} : Field(r, nd[j], "next") = Field(m, nd[j], "next")
  /\ \A j \in 2..N \ {i, i + 1} : Field(r, nd[j], "prev") = Field(m, nd[j], "prev")
  /\ i # 1 /\ i # N => Field(r, nd[i - 1], "next") = nd[i + 1] /\ Field(r, nd[i + 1], "prev") = nd[i - 1]

\* list_remove, wherever the node is.
LEMMA RemovedNode ==
  ASSUME NEW m, NEW N, NEW nd, NEW s, Rep(m, N, nd, s, TRUE), NEW i \in 1..N,
         NEW r, r = list_remove(m, i - 1)
  PROVE  AfterRemove(m, N, nd, i, r)
  <1>1. /\ m \in ListType /\ m.len = N /\ N \in Nat /\ N # 0 /\ m.len # 0
        /\ m.head = nd[1] /\ m.tail = nd[N] /\ nd \in [1..N -> Node]
    BY DEF Rep
  <1>2. \A a, b \in 1..N : nd[a] = nd[b] => a = b
    BY DEF Rep
  <1>3. \A a \in 1..N - 1 : Field(m, nd[a], "next") = nd[a + 1]
    BY DEF Rep
  <1>4. \A a \in 2..N : Field(m, nd[a], "prev") = nd[a - 1]
    BY DEF Rep
  <1>5. \A a \in 1..N - 1 \cup 2..N : a \in 1..N
    BY <1>1
  <1>6. CASE N = 1
    <2>1. i = 1 /\ i - 1 = 0 /\ m.head \in Node /\ m.head = m.tail
      BY <1>1, <1>6
    <2>2. Frame(r, Less(m.len), NULL, NULL, m.wild, m.used \ {m.head})
      BY <1>1, <2>1, RemovedOnly
    <2>3. 1..N \ {i} = {} /\ 1..N - 1 = {} /\ 2..N = {}
      BY <1>6, <2>1
    <2> QED  BY <1>1, <1>6, <2>1, <2>2, <2>3 DEF AfterRemove
  <1>7. CASE N # 1 /\ i = 1
    <2>1. 1 \in 1..N /\ 2 \in 1..N /\ N \in 1..N /\ 1 \in 1..N - 1 /\ i - 1 = 0
      BY <1>1, <1>7
    <2>2. /\ nd[1] \in Node /\ nd[2] \in Node /\ nd[2] # nd[1] /\ nd[1] # nd[N]
          /\ nd[2] = Field(m, nd[1], "next")
      BY <1>1, <1>2, <1>3, <1>7, <2>1
    <2>3. AfterHead(m, nd[1], nd[2], r)
      BY <1>1, <2>1, <2>2, RemovedHead
    <2>4. \A j \in 1..N \ {1, 2}, f \in Fields : Field(r, nd[j], f) = Field(m, nd[j], f)
      <3>1. \A j \in 1..N \ {1, 2} : nd[j] \in Node \ {nd[1], nd[2]}
        BY <1>1, <1>2, <2>1
      <3> QED  BY <2>3, <3>1 DEF AfterHead
    <2>5. \A f \in Fields \ {"prev"} : Field(r, nd[2], f) = Field(m, nd[2], f)
      BY <2>3 DEF AfterHead
    <2>6. \A j \in 1..N \ {1} : Field(r, nd[j], "p") = Field(m, nd[j], "p")
      BY <2>4, <2>5 DEF Fields
    <2>7. \A j \in 1..N - 1 \ {1} : Field(r, nd[j], "next") = Field(m, nd[j], "next")
      BY <1>5, <2>4, <2>5 DEF Fields
    <2>8. \A j \in 2..N \ {2} : Field(r, nd[j], "prev") = Field(m, nd[j], "prev")
      BY <1>1, <1>5, <2>4 DEF Fields
    <2>9. Frame(r, Less(m.len), nd[2], m.tail, m.wild, m.used \ {nd[1]})
      BY <2>3 DEF AfterHead
    <2>10. i = 1 /\ i + 1 = 2 /\ i # N /\ N # 1
      BY <1>7
    <2> HIDE DEF Fields
    <2> QED  BY <2>6, <2>7, <2>8, <2>9, <2>10 DEF AfterRemove
  <1>8. CASE N # 1 /\ i = N
    <2>1. 1 \in 1..N /\ N \in 1..N /\ N - 1 \in 1..N /\ N \in 2..N /\ i - 1 # 0 /\ i - 1 >= m.len - 1
      BY <1>1, <1>8
    <2>2. nd[N] \in Node /\ nd[N - 1] \in Node /\ nd[N - 1] # nd[N] /\ nd[N - 1] = Field(m, nd[N], "prev")
      BY <1>1, <1>2, <1>4, <2>1
    <2>3. AfterTail(m, nd[N], nd[N - 1], r)
      <3>1. PICK index : index = i - 1
        OBVIOUS
      <3>2. PICK u : u = nd[N - 1]
        OBVIOUS
      <3>3. AfterTail(m, nd[N], u, r)
        BY <1>1, <2>1, <2>2, <3>1, <3>2, RemovedTail
      <3> QED  BY <3>2, <3>3
    <2>4. \A j \in 1..N \ {N, N - 1}, f \in Fields : Field(r, nd[j], f) = Field(m, nd[j], f)
      <3>1. \A j \in 1..N \ {N, N - 1} : nd[j] \in Node \ {nd[N], nd[N - 1]}
        BY <1>1, <1>2, <2>1
      <3> QED  BY <2>3, <3>1 DEF AfterTail
    <2>5. \A f \in Fields \ {"next"} : Field(r, nd[N - 1], f) = Field(m, nd[N - 1], f)
      BY <2>3 DEF AfterTail
    <2>6. \A j \in 1..N \ {N} : Field(r, nd[j], "p") = Field(m, nd[j], "p")
      BY <2>4, <2>5 DEF Fields
    <2>7. \A j \in 1..N - 1 \ {N, N - 1} : Field(r, nd[j], "next") = Field(m, nd[j], "next")
      BY <1>5, <2>4 DEF Fields
    <2>8. \A j \in 2..N \ {N} : Field(r, nd[j], "prev") = Field(m, nd[j], "prev")
      BY <1>5, <2>4, <2>5 DEF Fields
    <2>9. Frame(r, Less(m.len), m.head, nd[N - 1], m.wild, m.used \ {nd[N]})
      BY <2>3 DEF AfterTail
    <2>10. i = N /\ i # 1 /\ N # 1
      BY <1>8
    <2> HIDE DEF Fields
    <2> QED  BY <2>6, <2>7, <2>8, <2>9, <2>10 DEF AfterRemove
  <1>9. CASE i # 1 /\ i # N
    <2>1. PICK a \in 1..N, b \in 1..N : a = i - 1 /\ b = i + 1
      BY <1>1, <1>9
    <2>2. /\ i \in 1..N - 1 /\ i \in 2..N /\ i - 1 # 0 /\ ~(i - 1 >= m.len - 1) /\ i - 1 \in 0..N - 1
          /\ a # i /\ b # i /\ a # b /\ (i - 1) + 1 = i
      BY <1>1, <1>9, <2>1
    <2>3. /\ nd[i] \in Node /\ nd[a] \in Node \ {nd[i]} /\ nd[b] \in Node \ {nd[i], nd[a]}
          /\ nd[a] = Field(m, nd[i], "prev") /\ nd[b] = Field(m, nd[i], "next")
      BY <1>1, <1>2, <1>3, <1>4, <2>1, <2>2
    <2>4. nd[i] = Walk(m, m.head, "next", i - 1)
      <3>1. PICK k \in 0..N - 1 : k = i - 1
        BY <2>2
      <3>2. Walk(m, m.head, "next", k) = nd[k + 1]
        BY WalkIs, ZenonT(30)
      <3>3. k + 1 = i
        BY <2>2, <3>1
      <3> QED  BY <3>1, <3>2, <3>3
    <2>5. AfterInside(m, nd[i], nd[a], nd[b], r)
      BY <1>1, <2>2, <2>3, <2>4, RemovedInside
    <2>6. \A j \in 1..N \ {i, a, b}, f \in Fields : Field(r, nd[j], f) = Field(m, nd[j], f)
      <3>1. \A j \in 1..N \ {i, a, b} : nd[j] \in Node \ {nd[i], nd[a], nd[b]}
        BY <1>1, <1>2
      <3> QED  BY <2>5, <3>1 DEF AfterInside
    <2>7. /\ \A f \in Fields \ {"next"} : Field(r, nd[a], f) = Field(m, nd[a], f)
          /\ \A f \in Fields \ {"prev"} : Field(r, nd[b], f) = Field(m, nd[b], f)
          /\ Field(r, nd[a], "next") = nd[b] /\ Field(r, nd[b], "prev") = nd[a]
      BY <2>5 DEF AfterInside
    <2>8. \A j \in 1..N \ {i} : Field(r, nd[j], "p") = Field(m, nd[j], "p")
      BY <2>6, <2>7 DEF Fields
    <2>9. \A j \in 1..N - 1 \ {i, a} : Field(r, nd[j], "next") = Field(m, nd[j], "next")
      BY <1>5, <2>6, <2>7 DEF Fields
    <2>10. \A j \in 2..N \ {i, b} : Field(r, nd[j], "prev") = Field(m, nd[j], "prev")
      BY <1>5, <2>6, <2>7 DEF Fields
    <2>11. Frame(r, Less(m.len), m.head, m.tail, m.wild, m.used \ {nd[i]})
      BY <2>5 DEF AfterInside
    <2> HIDE DEF Fields
    <2> QED  BY <1>9, <2>1, <2>7, <2>8, <2>9, <2>10, <2>11 DEF AfterRemove
  <1> QED  BY <1>6, <1>7, <1>8, <1>9

\* Removal of the element i.
LEMMA RemoveRep ==
  ASSUME NEW m, NEW N, NEW nd, NEW s, Rep(m, N, nd, s, TRUE), NEW i \in 1..N,
         NEW r, r = list_remove(m, i - 1), NEW z, Without(z, N, s, i)
  PROVE  \E d : Rep(r, N - 1, d, z, TRUE)
  <1> DEFINE d == [j \in 1..N - 1 |-> IF j < i THEN nd[j] ELSE nd[j + 1]]
  <1>0. N \in Nat /\ N # 0
    <2>1. N \in Nat
      BY Zenon DEF Rep
    <2> QED  BY <2>1
  <1>1. /\ m \in ListType /\ m.len = N /\ N \in Nat /\ ~m.wild /\ Cardinality(m.used) = N /\ N # 0
        /\ m.head = nd[1] /\ m.tail = nd[N] /\ m.used = {nd[j] : j \in 1..N}
        /\ nd \in [1..N -> Node]
    BY <1>0, SMTT(30) DEF Rep
  <1>2. \A a, b \in 1..N : nd[a] = nd[b] => a = b
    BY DEF Rep
  <1>3. AfterRemove(m, N, nd, i, r)
    BY RemovedNode
  <1>4. Cardinality(m.used \ {nd[i]}) = N - 1
    <2>1. nd[i] \in m.used
      BY <1>1
    <2>2. Cardinality(m.used \ {nd[i]}) = Cardinality(m.used) - 1
      BY <1>1, <2>1, OneLess
    <2> QED  BY <1>1, <2>2
  <1>5. r \in ListType /\ ~r.wild /\ r.len = N - 1 /\ r.used = m.used \ {nd[i]}
    BY <1>1, <1>3 DEF AfterRemove, Frame, Less
  <1>6. /\ r.head = IF i # 1 THEN m.head ELSE IF N = 1 THEN NULL ELSE nd[2]
        /\ r.tail = IF i # N THEN m.tail ELSE IF N = 1 THEN NULL ELSE nd[N - 1]
    BY <1>3 DEF AfterRemove, Frame
  <1>7. ASSUME NEW j \in 1..N - 1 PROVE j \in 1..N /\ j + 1 \in 1..N /\ j + 1 \in 2..N
    BY <1>1, <1>7, SMTT(30)
  <1>8. d \in [1..N - 1 -> Node]
    BY <1>1, <1>7
  <1>9. /\ \A j \in 1..N - 1 : j < i => d[j] = nd[j]
        /\ \A j \in 1..N - 1 : ~(j < i) => d[j] = nd[j + 1]
    OBVIOUS
  <1> HIDE DEF d
  <1>10. ASSUME NEW a \in 1..N - 1, NEW b \in 1..N - 1, d[a] = d[b] PROVE a = b
    <2>1. CASE a < i /\ b < i
      BY <1>2, <1>7, <1>9, <1>10, <2>1
    <2>2. CASE a < i /\ ~(b < i)
      <3>1. a = b + 1
        BY <1>2, <1>7, <1>9, <1>10, <2>2
      <3> QED  BY <1>1, <2>2, <3>1
    <2>3. CASE ~(a < i) /\ b < i
      <3>1. a + 1 = b
        BY <1>2, <1>7, <1>9, <1>10, <2>3
      <3> QED  BY <1>1, <2>3, <3>1
    <2>4. CASE ~(a < i) /\ ~(b < i)
      <3>1. a + 1 = b + 1
        BY <1>2, <1>7, <1>9, <1>10, <2>4
      <3> QED  BY <1>1, <3>1
    <2> QED  BY <2>1, <2>2, <2>3, <2>4
  <1>11. r.used = {d[j] : j \in 1..N - 1}
    <2>1. ASSUME NEW e \in r.used PROVE \E j \in 1..N - 1 : e = d[j]
      <3>1. PICK k \in 1..N : e = nd[k] /\ k # i
        BY <1>1, <1>5, <2>1
      <3>2. CASE k < i
        <4>1. k \in 1..N - 1
          BY <1>1, <3>1, <3>2
        <4> QED  BY <1>9, <3>1, <3>2, <4>1
      <3>3. CASE ~(k < i)
        <4>1. PICK j \in 1..N - 1 : k = j + 1 /\ ~(j < i)
          <5>1. k - 1 \in 1..N - 1 /\ k = (k - 1) + 1 /\ ~(k - 1 < i)
            BY <1>1, <3>1, <3>3
          <5> QED  BY <5>1
        <4> QED  BY <1>9, <3>1, <4>1
      <3> QED  BY <3>2, <3>3
    <2>2. ASSUME NEW j \in 1..N - 1 PROVE d[j] \in r.used
      <3>1. PICK k \in 1..N : d[j] = nd[k] /\ k # i
        <4>1. CASE j < i
          <5>1. j # i /\ j \in 1..N
            BY <1>7, <4>1
          <5> QED  BY <1>9, <4>1, <5>1
        <4>2. CASE ~(j < i)
          <5>1. j + 1 # i /\ j + 1 \in 1..N
            BY <1>1, <1>7, <4>2
          <5> QED  BY <1>9, <4>2, <5>1
        <4> QED  BY <4>1, <4>2
      <3> QED  BY <1>1, <1>2, <1>5, <3>1
    <2> QED  BY <2>1, <2>2
  <1>12. N - 1 = 0 => r.head = NULL /\ r.tail = NULL
    <2>1. N - 1 = 0 => N = 1 /\ i = 1
      BY <1>1
    <2> QED  BY <1>6, <2>1
  <1>13. N - 1 # 0 => r.head = d[1] /\ r.tail = d[N - 1]
    <2> SUFFICES ASSUME N - 1 # 0 PROVE r.head = d[1] /\ r.tail = d[N - 1]
      OBVIOUS
    <2>1. N # 1 /\ 1 \in 1..N - 1 /\ N - 1 \in 1..N - 1 /\ (1 < i <=> i # 1) /\ (N - 1 < i <=> i = N)
      BY <1>1
    <2>2. 1 + 1 = 2 /\ (N - 1) + 1 = N
      BY <1>1
    <2>3. r.head = d[1]
      BY <1>1, <1>6, <1>9, <2>1, <2>2
    <2>4. r.tail = d[N - 1]
      BY <1>1, <1>6, <1>9, <2>1, <2>2
    <2> QED  BY <2>3, <2>4
  <1>14. ASSUME NEW j \in 1..(N - 1) - 1 PROVE Field(r, d[j], "next") = d[j + 1]
    <2>1. j \in 1..N - 1 /\ j + 1 \in 1..N - 1 /\ (j + 1) + 1 = j + 2 /\ j \in Int
      BY <1>1
    <2>2. \A k \in 1..N - 1 : Field(m, nd[k], "next") = nd[k + 1]
      BY DEF Rep
    <2>3. \A k \in 1..N - 1 \ {i, i - 1} : Field(r, nd[k], "next") = Field(m, nd[k], "next")
      BY <1>3 DEF AfterRemove
    <2>4. CASE j + 1 < i
      <3>1. j < i /\ j \in 1..N - 1 \ {i, i - 1}
        BY <1>0, <2>1, <2>4
      <3> QED  BY <1>9, <2>1, <2>2, <2>3, <2>4, <3>1
    <2>5. CASE j + 1 = i
      <3>1. j < i /\ ~(j + 1 < i) /\ i # 1 /\ i # N /\ j = i - 1 /\ (j + 1) + 1 = i + 1
        BY <1>0, <2>1, <2>5
      <3>2. Field(r, nd[i - 1], "next") = nd[i + 1]
        BY <1>3, <3>1 DEF AfterRemove
      <3>3. d[j] = nd[i - 1] /\ d[j + 1] = nd[i + 1]
        BY <1>9, <2>1, <3>1
      <3> QED  BY <3>2, <3>3
    <2>6. CASE ~(j < i)
      <3>1. ~(j + 1 < i) /\ j + 1 \in 1..N - 1 \ {i, i - 1}
        BY <1>0, <2>1, <2>6
      <3> QED  BY <1>9, <2>1, <2>2, <2>3, <2>6, <3>1
    <2> QED  BY <2>1, <2>4, <2>5, <2>6
  <1>15. ASSUME NEW j \in 2..N - 1 PROVE Field(r, d[j], "prev") = d[j - 1]
    <2>1. /\ j \in 1..N - 1 /\ j - 1 \in 1..N - 1 /\ j \in 2..N /\ j + 1 \in 2..N
          /\ (j + 1) - 1 = j /\ (j - 1) + 1 = j
      BY <1>0, SMTT(30)
    <2>2. \A k \in 2..N : Field(m, nd[k], "prev") = nd[k - 1]
      BY DEF Rep
    <2>3. \A k \in 2..N \ {i, i + 1} : Field(r, nd[k], "prev") = Field(m, nd[k], "prev")
      BY <1>3 DEF AfterRemove
    <2>4. CASE j < i
      <3>1. j - 1 < i /\ j # i /\ j # i + 1
        BY <1>0, <2>1, <2>4, SMTT(30)
      <3> QED  BY <1>9, <2>1, <2>2, <2>3, <2>4, <3>1
    <2>5. CASE j = i
      <3>1. ~(j < i) /\ j - 1 < i /\ i # 1 /\ i # N
        BY <1>0, <2>1, <2>5
      <3>2. Field(r, nd[i + 1], "prev") = nd[i - 1]
        BY <1>3, <3>1 DEF AfterRemove
      <3>3. d[j] = nd[i + 1] /\ d[j - 1] = nd[i - 1]
        BY <1>9, <2>1, <2>5, <3>1
      <3> QED  BY <3>2, <3>3
    <2>6. CASE i < j
      <3>1. ~(j < i) /\ ~(j - 1 < i) /\ j + 1 # i /\ j + 1 # i + 1
        BY <1>0, <2>1, <2>6, SMTT(30)
      <3> QED  BY <1>9, <2>1, <2>2, <2>3, <3>1
    <2> QED  BY <2>1, <2>4, <2>5, <2>6
  <1>16. ASSUME NEW j \in 1..N - 1 PROVE Field(r, d[j], "p") = z[j]
    <2>1. \A k \in 1..N : Field(m, nd[k], "p") = s[k]
      BY DEF Rep
    <2>2. \A k \in 1..N \ {i} : Field(r, nd[k], "p") = Field(m, nd[k], "p")
      BY <1>3 DEF AfterRemove
    <2>3. CASE j < i
      <3>1. j \in 1..N \ {i} /\ z[j] = s[j] /\ d[j] = nd[j]
        BY <1>7, <1>9, <2>3 DEF Without
      <3> QED  BY <2>1, <2>2, <3>1
    <2>4. CASE ~(j < i)
      <3>1. j + 1 \in 1..N \ {i}
        BY <1>1, <1>7, <2>4
      <3>2. z[j] = s[j + 1] /\ d[j] = nd[j + 1]
        BY <1>9, <2>4 DEF Without
      <3> QED  BY <2>1, <2>2, <3>1, <3>2
    <2> QED  BY <2>3, <2>4
  <1>17. N - 1 \in Nat /\ z \in [1..N - 1 -> Data]
    BY <1>1 DEF Without
  <1>18. Rep(r, N - 1, d, z, TRUE)
    BY <1>4, <1>5, <1>8, <1>10, <1>11, <1>12, <1>13, <1>14, <1>15, <1>16, <1>17 DEF Rep
  <1> QED  BY <1>18

-----------------------------------------------------------------------------
(* The inductive invariant and the theorem.                                *)

\* The list m stands for the sequence c.  Where the list is only added to at the front
\* (llist.c:72-75 does not set the old head's prev) the prev pointers say nothing.
StandsFor(m, c, back) == c \in Seq(Data) /\ \E nd : Rep(m, Len(c), nd, c, back)

ListInv == StandsFor(l, contents, use = "callbacks")

\* create_list is the empty sequence.
LEMMA ListInvInit == ListInit => ListInv
  <1> SUFFICES ASSUME ListInit PROVE ListInv
    OBVIOUS
  <1>1. contents = <<>> /\ contents \in Seq(Data) /\ Len(contents) = 0
    BY DEF ListInit
  <1>2. PICK m : m = l
    OBVIOUS
  <1>3. m = create_list
    BY <1>2 DEF ListInit
  <1>4. /\ m.len = 0 /\ m.head = NULL /\ m.tail = NULL /\ m.wild = FALSE /\ m.used = {}
        /\ m.node = [n \in Node |-> Uninitialised]
    BY <1>3 DEF create_list
  <1>5. m \in ListType
    <2>1. Uninitialised \in NodeType
      BY DEF Uninitialised, NodeType, Pointer
    <2>2. [n \in Node |-> Uninitialised] \in [Node -> NodeType]
      BY <2>1
    <2> QED  BY <1>3, <2>2 DEF create_list, ListType, Pointer
  <1>6. Cardinality(m.used) = 0
    BY <1>4, FS_EmptySet
  <1> DEFINE nd == [i \in 1..0 |-> NULL]
  <1>7. nd \in [1..0 -> Node] /\ contents \in [1..0 -> Data] /\ 1..0 = {} /\ 1..0 - 1 = {} /\ 2..0 = {}
    BY <1>1
  <1> HIDE DEF nd
  <1>8. m.used = {nd[i] : i \in 1..0}
    BY <1>4, <1>7
  <1>9. Rep(m, 0, nd, contents, use = "callbacks")
    BY <1>4, <1>5, <1>6, <1>7, <1>8 DEF Rep
  <1> QED  BY <1>1, <1>2, <1>9 DEF ListInv, StandsFor

\* What the steps do to a sequence, element by element.
HasLength(z, N) == z \in Seq(Data) /\ Len(z) = N /\ N \in Nat /\ z \in [1..N -> Data]

LEMMA SeqHasLength == ASSUME NEW c \in Seq(Data) PROVE HasLength(c, Len(c))
  BY LenProperties DEF HasLength

\* Insertion before a sequence, after it, and removal from it.
LEMMA Prepended ==
  ASSUME NEW c, NEW N, HasLength(c, N), NEW x \in Data, NEW z, z = <<x>> \o c
  PROVE  HasLength(z, N + 1) /\ Prefixed(z, N, c, x)
  <1>1. PICK h : h = <<x>>
    OBVIOUS
  <1>2. h \in Seq(Data) /\ Len(h) = 1 /\ h[1] = x
    BY <1>1
  <1>3. c \in Seq(Data) /\ Len(c) = N /\ N \in Nat
    BY DEF HasLength
  <1>4. /\ z \in Seq(Data) /\ Len(z) = Len(h) + Len(c)
        /\ \A i \in 1..Len(h) + Len(c) : z[i] = IF i <= Len(h) THEN h[i] ELSE c[i - Len(h)]
    <2>1. z = h \o c
      BY <1>1
    <2> QED  BY <1>2, <1>3, <2>1, ConcatProperties
  <1>5. Len(z) = N + 1 /\ N + 1 \in Nat /\ \A i \in 1..N + 1 : z[i] = IF i <= 1 THEN h[i] ELSE c[i - 1]
    <2>1. Len(h) + Len(c) = N + 1 /\ N + 1 \in Nat
      BY <1>2, <1>3
    <2> QED  BY <1>2, <1>4, <2>1
  <1>6. HasLength(z, N + 1)
    BY <1>4, <1>5, SeqHasLength
  <1>7. z[1] = x
    BY <1>2, <1>3, <1>5
  <1>8. ASSUME NEW i \in 2..N + 1 PROVE z[i] = c[i - 1]
    <2>1. i \in 1..N + 1 /\ ~(i <= 1)
      BY <1>3
    <2> QED  BY <1>5, <2>1
  <1>9. z \in [1..N + 1 -> Data]
    BY <1>6 DEF HasLength
  <1> QED  BY <1>6, <1>7, <1>8, <1>9 DEF Prefixed

LEMMA Appended ==
  ASSUME NEW c, NEW N, HasLength(c, N), NEW x \in Data, NEW z, z = Append(c, x)
  PROVE  HasLength(z, N + 1) /\ Suffixed(z, N, c, x)
  <1>1. c \in Seq(Data) /\ Len(c) = N /\ N \in Nat
    BY DEF HasLength
  <1>2. /\ z \in Seq(Data) /\ Len(z) = Len(c) + 1 /\ z[Len(c) + 1] = x
        /\ \A i \in 1..Len(c) : z[i] = c[i]
    BY <1>1, AppendProperties
  <1>3. HasLength(z, N + 1)
    BY <1>1, <1>2, SeqHasLength
  <1>4. z \in [1..N + 1 -> Data]
    BY <1>3 DEF HasLength
  <1> QED  BY <1>1, <1>2, <1>3, <1>4 DEF Suffixed

LEMMA TakenOut ==
  ASSUME NEW c, NEW N, HasLength(c, N), NEW i \in 1..N,
         NEW z, z = SubSeq(c, 1, i - 1) \o SubSeq(c, i + 1, N)
  PROVE  HasLength(z, N - 1) /\ Without(z, N, c, i)
  <1>1. c \in [1..N -> Data] /\ N \in Nat
    BY DEF HasLength
  <1>2. PICK k \in Int, u \in Int : k = i - 1 /\ u = i + 1
    BY <1>1
  <1>3. PICK a, b : a = SubSeq(c, 1, k) /\ b = SubSeq(c, u, N)
    OBVIOUS
  <1>4. z = a \o b
    BY <1>2, <1>3
  <1>5. a \in Seq(Data) /\ Len(a) = k /\ \A j \in 1..k : a[j] = c[j]
    <2>1. \A j \in 1..k : c[j] \in Data
      BY <1>1, <1>2
    <2>2. /\ a \in Seq(Data) /\ Len(a) = IF 1 <= k THEN k - 1 + 1 ELSE 0
          /\ \A j \in 1..k - 1 + 1 : a[j] = c[1 + j - 1]
      BY <1>3, <2>1, SubSeqProperties
    <2>3. (IF 1 <= k THEN k - 1 + 1 ELSE 0) = k /\ k - 1 + 1 = k /\ \A j \in 1..k : 1 + j - 1 = j
      BY <1>1, <1>2
    <2> QED  BY <2>2, <2>3
  <1>6. b \in Seq(Data) /\ Len(b) = N - i /\ \A j \in 1..N - i : b[j] = c[i + j]
    <2>1. \A j \in u..N : c[j] \in Data
      BY <1>1, <1>2
    <2>2. /\ b \in Seq(Data) /\ Len(b) = IF u <= N THEN N - u + 1 ELSE 0
          /\ \A j \in 1..N - u + 1 : b[j] = c[u + j - 1]
      BY <1>1, <1>3, <2>1, SubSeqProperties
    <2>3. /\ (IF u <= N THEN N - u + 1 ELSE 0) = N - i /\ N - u + 1 = N - i
          /\ \A j \in 1..N - i : u + j - 1 = i + j
      BY <1>1, <1>2
    <2> QED  BY <2>2, <2>3
  <1>7. /\ z \in Seq(Data) /\ Len(z) = Len(a) + Len(b)
        /\ \A j \in 1..Len(a) + Len(b) : z[j] = IF j <= Len(a) THEN a[j] ELSE b[j - Len(a)]
    <2>1. a \in Seq(Data) /\ b \in Seq(Data)
      BY <1>5, <1>6
    <2>2. /\ a \o b \in Seq(Data) /\ Len(a \o b) = Len(a) + Len(b)
          /\ \A j \in 1..Len(a) + Len(b) : (a \o b)[j] = IF j <= Len(a) THEN a[j] ELSE b[j - Len(a)]
      BY <2>1, ConcatProperties
    <2> QED  BY <1>4, <2>2
  <1>8. PICK A, B : A = Len(a) /\ B = Len(b)
    OBVIOUS
  <1>9. Len(z) = A + B /\ \A j \in 1..A + B : z[j] = IF j <= A THEN a[j] ELSE b[j - A]
    BY <1>7, <1>8
  <1>10. A = k /\ B = N - i /\ A + B = N - 1
    <2>1. A = k /\ B = N - i
      BY <1>5, <1>6, <1>8
    <2> QED  BY <1>1, <1>2, <2>1
  <1>11. HasLength(z, N - 1)
    BY <1>7, <1>9, <1>10, SeqHasLength
  <1>12. ASSUME NEW j \in 1..N - 1 PROVE z[j] = IF j < i THEN c[j] ELSE c[j + 1]
    <2>1. z[j] = IF j <= k THEN a[j] ELSE b[j - k]
      BY <1>9, <1>10
    <2>2. CASE j < i
      <3>1. j <= k /\ j \in 1..k
        BY <1>1, <1>2, <2>2
      <3> QED  BY <1>5, <2>1, <2>2, <3>1
    <2>3. CASE ~(j < i)
      <3>1. ~(j <= k) /\ j - k \in 1..N - i /\ i + (j - k) = j + 1
        BY <1>1, <1>2, <2>3
      <3> QED  BY <1>6, <2>1, <2>3, <3>1
    <2> QED  BY <2>2, <2>3
  <1>13. z \in [1..N - 1 -> Data]
    BY <1>11 DEF HasLength
  <1> QED  BY <1>11, <1>12, <1>13 DEF Without

\* The three operations keep it.
LEMMA FrontStands ==
  ASSUME NEW m, NEW c, StandsFor(m, c, FALSE), NEW n \in Node \ m.used, NEW x \in Data,
         NEW r, r = list_insert(m, n, x, 0), NEW z, z = <<x>> \o c
  PROVE  StandsFor(r, z, FALSE)
  <1>1. PICK N : N = Len(c)
    OBVIOUS
  <1>2. PICK nd : Rep(m, N, nd, c, FALSE)
    BY <1>1 DEF StandsFor
  <1>3. HasLength(c, N)
    BY <1>1, SeqHasLength DEF StandsFor
  <1>4. HasLength(z, N + 1) /\ Prefixed(z, N, c, x)
    BY <1>3, Prepended
  <1>5. z \in Seq(Data) /\ Len(z) = N + 1
    BY <1>4 DEF HasLength
  <1>6. \E d : Rep(r, N + 1, d, z, FALSE)
    <2>1. CASE N = 0
      <3>1. Rep(m, 0, nd, c, FALSE)
        BY <1>2, <2>1
      <3>2. N + 1 = 1 /\ 1..N + 1 = 1..1
        BY <2>1
      <3>3. z \in [1..1 -> Data] /\ z[1] = x
        BY <1>4, <3>2 DEF Prefixed
      <3>4. \E d : Rep(r, 1, d, z, FALSE)
        BY <3>1, <3>3, FirstRep
      <3> QED  BY <3>2, <3>4
    <2>2. CASE N # 0
      BY <1>2, <1>4, <1>5, <2>2, FrontRep
    <2> QED  BY <2>1, <2>2
  <1> QED  BY <1>5, <1>6 DEF StandsFor

LEMMA BackStands ==
  ASSUME NEW m, NEW c, NEW back, StandsFor(m, c, back), NEW n \in Node \ m.used, NEW x \in Data,
         NEW r, r = list_insert(m, n, x, 2 * Cardinality(Node)), NEW z, z = Append(c, x)
  PROVE  StandsFor(r, z, back)
  <1>1. PICK N : N = Len(c)
    OBVIOUS
  <1>2. PICK nd : Rep(m, N, nd, c, back)
    BY <1>1 DEF StandsFor
  <1>3. HasLength(c, N)
    BY <1>1, SeqHasLength DEF StandsFor
  <1>4. HasLength(z, N + 1) /\ Suffixed(z, N, c, x)
    BY <1>3, Appended
  <1>5. z \in Seq(Data) /\ Len(z) = N + 1
    BY <1>4 DEF HasLength
  <1>6. \E d : Rep(r, N + 1, d, z, back)
    <2>1. CASE N = 0
      <3>1. Rep(m, 0, nd, c, back)
        BY <1>2, <2>1
      <3>2. N + 1 = 1 /\ 1..N + 1 = 1..1
        BY <2>1
      <3>3. z \in [1..1 -> Data] /\ z[1] = x
        BY <1>4, <3>2 DEF Suffixed
      <3>4. PICK index : index = 2 * Cardinality(Node)
        OBVIOUS
      <3>5. \E d : Rep(r, 1, d, z, back)
        BY <3>1, <3>3, <3>4, FirstRep
      <3> QED  BY <3>2, <3>5
    <2>2. CASE N # 0
      BY <1>2, <1>4, <1>5, <2>2, BackRep
    <2> QED  BY <2>1, <2>2
  <1> QED  BY <1>5, <1>6 DEF StandsFor

LEMMA RemovalStands ==
  ASSUME NEW m, NEW c, StandsFor(m, c, TRUE), NEW i \in 1..Len(c), NEW r, r = list_remove(m, i - 1),
         NEW z, z = SubSeq(c, 1, i - 1) \o SubSeq(c, i + 1, Len(c))
  PROVE  StandsFor(r, z, TRUE)
  <1>1. PICK N : N = Len(c)
    OBVIOUS
  <1>2. PICK nd : Rep(m, N, nd, c, TRUE)
    BY <1>1 DEF StandsFor
  <1>3. HasLength(c, N) /\ i \in 1..N
    BY <1>1, SeqHasLength DEF StandsFor
  <1>4. z = SubSeq(c, 1, i - 1) \o SubSeq(c, i + 1, N)
    BY <1>1
  <1>5. HasLength(z, N - 1) /\ Without(z, N, c, i)
    BY <1>3, <1>4, TakenOut
  <1>6. z \in Seq(Data) /\ Len(z) = N - 1
    BY <1>5 DEF HasLength
  <1>7. \E d : Rep(r, N - 1, d, z, TRUE)
    BY <1>2, <1>3, <1>5, <1>6, RemoveRep
  <1> QED  BY <1>6, <1>7 DEF StandsFor

\* Every step keeps the invariant.
LEMMA ListInvNext == ListInv /\ [UNCHANGED use /\ ListStep]_<<use, l, contents>> => ListInv'
  <1> SUFFICES ASSUME ListInv, [UNCHANGED use /\ ListStep]_<<use, l, contents>> PROVE ListInv'
    OBVIOUS
  <1>1. StandsFor(l, contents, use = "callbacks")
    BY DEF ListInv
  <1>2. SUFFICES StandsFor(l', contents', use' = "callbacks")
    BY DEF ListInv
  <1>3. ASSUME NEW n \in Node \ l.used, NEW x \in Data, UNCHANGED use, InsertFront(n, x)
        PROVE  StandsFor(l', contents', use' = "callbacks")
    <2>1. (use = "callbacks") = FALSE /\ (use' = "callbacks") = FALSE
      BY <1>3 DEF InsertFront
    <2>2. l' = list_insert(l, n, x, 0) /\ contents' = <<x>> \o contents
      BY <1>3 DEF InsertFront
    <2>3. StandsFor(l, contents, FALSE)
      BY <1>1, <2>1
    <2>4. StandsFor(l', contents', FALSE)
      BY <2>2, <2>3, FrontStands
    <2> QED  BY <2>1, <2>4
  <1>4. ASSUME NEW n \in Node \ l.used, NEW x \in Data, UNCHANGED use, InsertBack(n, x)
        PROVE  StandsFor(l', contents', use' = "callbacks")
    <2>1. l' = list_insert(l, n, x, 2 * Cardinality(Node)) /\ contents' = Append(contents, x)
      BY <1>4 DEF InsertBack
    <2>2. StandsFor(l', contents', use = "callbacks")
      BY <1>1, <2>1, BackStands
    <2> QED  BY <1>4, <2>2
  <1>5. ASSUME NEW i \in 1..Len(contents), UNCHANGED use, Removal(i)
        PROVE  StandsFor(l', contents', use' = "callbacks")
    <2>1. (use = "callbacks") = TRUE /\ (use' = "callbacks") = TRUE
      BY <1>5 DEF Removal
    <2>2. /\ l' = list_remove(l, i - 1)
          /\ contents' = SubSeq(contents, 1, i - 1) \o SubSeq(contents, i + 1, Len(contents))
      BY <1>5 DEF Removal
    <2>3. StandsFor(l, contents, TRUE)
      BY <1>1, <2>1
    <2>4. StandsFor(l', contents', TRUE)
      BY <2>2, <2>3, RemovalStands
    <2> QED  BY <2>1, <2>4
  <1>6. ASSUME UNCHANGED <<use, l, contents>> PROVE StandsFor(l', contents', use' = "callbacks")
    BY <1>1, <1>6
  <1> QED  BY <1>3, <1>4, <1>5, <1>6 DEF ListStep

\* llist.c, as its callers use it, is the sequence of what was inserted and not
\* removed: list_at shows that sequence after any number of insertions at the
\* front, or of insertions at the back and removals at any index, and no
\* operation goes through a pointer that is not the address of a node.
THEOREM ListIsItsContents == ListSpec => []ListAgrees
  <1>1. ListInv => ListAgrees
    <2> SUFFICES ASSUME ListInv PROVE ListAgrees
      OBVIOUS
    <2>1. PICK N : N = Len(contents)
      OBVIOUS
    <2>2. PICK nd : Rep(l, N, nd, contents, use = "callbacks")
      BY <2>1 DEF ListInv, StandsFor
    <2>3. Elements(l) = contents
      BY <2>2, ElementsAre
    <2>4. ~l.wild
      BY <2>2 DEF Rep
    <2> QED  BY <2>3, <2>4 DEF ListAgrees
  <1> QED  BY <1>1, ListInvInit, ListInvNext, PTL DEF ListSpec

====
