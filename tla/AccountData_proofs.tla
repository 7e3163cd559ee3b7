-------------------------- MODULE AccountData_proofs --------------------------
(***************************************************************************)
(* Proofs about the data of the accounts, for any set of accounts,         *)
(* messages and requests and for any bounds: its type invariant, that no   *)
(* delivered message is lost, that unread messages are signalled, that     *)
(* both sides of a connection agree, and that no login is left without its *)
(* account.  What a deletion leaves is in DeletedAccounts_proofs.          *)
(***************************************************************************)
EXTENDS AccountData, FiniteSetTheorems, SequenceTheorems, TLAPS

-----------------------------------------------------------------------------
(* The keys *)

(* Every combination of a table, an account and what the table needs is a key. *)
LEMMA KeysAre ==
    /\ \A a \in Accounts : /\ Auth(a) \in Keys
                           /\ Key("account", a, None) \in Keys
                           /\ Key("counter", a, None) \in Keys
    /\ \A a, b \in Accounts : a # b => /\ Key("connection", a, b) \in Keys
                                       /\ Key("reference", a, b) \in Keys
    /\ \A m \in Messages : /\ Key("message", Recipient[m], m) \in Keys
                           /\ Key("archive", Recipient[m], m) \in Keys
                           /\ Key("sent", Sender[m], m) \in Keys
<1>1. /\ \A a \in Accounts : /\ Auth(a) \in Keys
                             /\ Key("account", a, None) \in Keys
                             /\ Key("counter", a, None) \in Keys
      /\ \A m \in Messages : /\ Key("message", Recipient[m], m) \in Keys
                             /\ Key("archive", Recipient[m], m) \in Keys
                             /\ Key("sent", Sender[m], m) \in Keys
  BY DEF Keys
<1>2. \A a, b \in Accounts : a # b => /\ Key("connection", a, b) \in Keys
                                      /\ Key("reference", a, b) \in Keys
  BY DEF Keys, Key
<1>3. QED
  BY <1>1, <1>2

(* A key is a record, and its table tells the form it has. *)
LEMMA KeyForms ==
    ASSUME NEW k \in Keys
    PROVE  /\ k = Key(k.t, k.id, k.x)
           /\ k.t = "auth" => \E a \in Accounts : k = Auth(a)
           /\ k.t # "auth" => k.id \in Accounts
           /\ k.t \in {"account", "counter"} => k.x = None
           /\ k.t \in {"connection", "reference"} => k.x \in Accounts /\ k.x # k.id
           /\ k.t \in {"message", "archive"} => k.x \in Messages /\ k.id = Recipient[k.x]
           /\ k.t = "sent" => k.x \in Messages /\ k.id = Sender[k.x]
           /\ k.t \in {"auth", "account", "counter", "connection", "reference", "message", "archive", "sent"}
<1>0. CASE \E a \in Accounts : k = Auth(a)
  BY <1>0 DEF Key, Auth
<1>1. CASE \E t \in {"account", "counter"}, a \in Accounts : k = Key(t, a, None)
  BY <1>1 DEF Key
<1>2. CASE k \in [t : {"connection", "reference"}, id : Accounts, x : Accounts] /\ k.id # k.x
  BY <1>2 DEF Key
<1>3. CASE \E t \in {"message", "archive"}, m \in Messages : k = Key(t, Recipient[m], m)
  <2>1. PICK t \in {"message", "archive"}, m \in Messages : k = Key(t, Recipient[m], m)
    BY <1>3
  <2>2. Recipient[m] \in Accounts
    BY DataAssumption
  <2>3. QED
    BY <2>1, <2>2 DEF Key
<1>4. CASE \E m \in Messages : k = Key("sent", Sender[m], m)
  <2>1. PICK m \in Messages : k = Key("sent", Sender[m], m)
    BY <1>4
  <2>2. Sender[m] \in Accounts
    BY DataAssumption
  <2>3. QED
    BY <2>1, <2>2 DEF Key
<1>5. QED
  BY <1>0, <1>1, <1>2, <1>3, <1>4 DEF Keys

LEMMA NoKeyIsNone == NoKey \notin Keys
<1>1. NoKey.t = "none"
  BY DEF NoKey, Key
<1>2. QED
  BY <1>1, KeyForms

(* The fields of a key. *)
LEMMA KeyFields ==
    ASSUME NEW t, NEW a, NEW x
    PROVE  Key(t, a, x).t = t /\ Key(t, a, x).id = a /\ Key(t, a, x).x = x
BY DEF Key

(* The mirror of a connection is a reference, and the archived form of a message is a key. *)
LEMMA MirrorIs ==
    ASSUME NEW k \in Keys, k.t = "connection"
    PROVE  /\ Mirror(k) = Key("reference", k.x, k.id) /\ Mirror(k) \in Keys
           /\ k.id \in Accounts /\ k.x \in Accounts /\ k.x # k.id /\ k = Key("connection", k.id, k.x)
<1>1. k.id \in Accounts /\ k.x \in Accounts /\ k.x # k.id /\ k = Key("connection", k.id, k.x)
  BY KeyForms
<1>2. QED
  BY <1>1, KeysAre DEF Mirror

LEMMA ArchiveIs ==
    ASSUME NEW k \in Keys, k.t = "message"
    PROVE  /\ [k EXCEPT !.t = "archive"] = Key("archive", k.id, k.x)
           /\ [k EXCEPT !.t = "archive"] \in Keys
           /\ k.x \in Messages /\ k.id = Recipient[k.x] /\ k = Key("message", k.id, k.x)
<1>1. k.x \in Messages /\ k.id = Recipient[k.x] /\ k = Key(k.t, k.id, k.x)
  BY KeyForms
<1>2. [k EXCEPT !.t = "archive"] = Key("archive", k.id, k.x)
  BY <1>1 DEF Key
<1>3. QED
  BY <1>1, <1>2, KeysAre

(* There are finitely many keys. *)
LEMMA KeysFinite == IsFiniteSet(Keys)
<1> DEFINE T == {"auth", "account", "counter", "connection", "reference", "message", "archive", "sent"}
           X == Accounts \cup Messages \cup {None}
           P == T \X (Accounts \X X)
           L(p) == Key(p[1], p[2][1], p[2][2])
           A == {L(p) : p \in P}
           B == {Auth(a) : a \in Accounts}
<1>0. IsFiniteSet(B)
  <2> DEFINE f == [a \in Accounts |-> Auth(a)]
  <2>1. f \in Surjection(Accounts, B)
    BY DEF Surjection
  <2>2. QED
    BY <2>1, DataAssumption, FS_Surjection
<1>1. IsFiniteSet(T)
  <2>1. IsFiniteSet({"auth"} \cup {"account"} \cup {"counter"} \cup {"connection"} \cup {"reference"} \cup {"message"} \cup {"archive"} \cup {"sent"})
    <3> HIDE DEF T
    <3>1. \A S, U : IsFiniteSet(S) /\ IsFiniteSet(U) => IsFiniteSet(S \cup U)
      BY FS_Union
    <3>2. \A x : IsFiniteSet({x})
      BY FS_Singleton
    <3>3. QED
      BY <3>1, <3>2
  <2>2. T = {"auth"} \cup {"account"} \cup {"counter"} \cup {"connection"} \cup {"reference"} \cup {"message"} \cup {"archive"} \cup {"sent"}
    OBVIOUS
  <2>3. QED
    BY <2>1, <2>2
<1>2. IsFiniteSet(X)
  <2>1. IsFiniteSet(Accounts \cup Messages)
    BY DataAssumption, FS_Union
  <2>2. QED
    BY <2>1, FS_AddElement
<1>3. IsFiniteSet(P)
  <2>1. IsFiniteSet(Accounts \X X)
    BY <1>2, DataAssumption, FS_Product
  <2>2. QED
    BY <1>1, <2>1, FS_Product
<1>4. IsFiniteSet(A)
  <2> DEFINE f == [p \in P |-> L(p)]
  <2> HIDE DEF P, L
  <2>1. f \in Surjection(P, A)
    BY DEF Surjection
  <2>2. QED
    BY <1>3, <2>1, FS_Surjection
<1>5. Keys \subseteq A \cup B
  <2> SUFFICES ASSUME NEW k \in Keys, k \notin B PROVE k \in A
    OBVIOUS
  <2>1. k = Key(k.t, k.id, k.x) /\ k.id \in Accounts /\ k.t \in T /\ k.x \in X
    BY KeyForms
  <2> DEFINE p == <<k.t, <<k.id, k.x>>>>
  <2>2. p \in P /\ L(p) = Key(k.t, k.id, k.x)
    BY <2>1
  <2>3. QED
    BY <2>1, <2>2
<1>6. IsFiniteSet(A \cup B)
  <2> HIDE DEF A, B
  <2>1. QED
    BY <1>0, <1>4, FS_Union
<1>7. QED
  BY <1>5, <1>6, FS_Subset

-----------------------------------------------------------------------------
(* Sequences *)

(* The sequence of a finite set has all of its members, and no other. *)
LEMMA SetToSeqIs ==
    ASSUME NEW S, IsFiniteSet(S)
    PROVE  /\ SetToSeq(S) \in Seq(S)
           /\ DOMAIN SetToSeq(S) = 1..Len(SetToSeq(S)) /\ Len(SetToSeq(S)) \in Nat
           /\ \A i \in DOMAIN SetToSeq(S) : SetToSeq(S)[i] \in S
           /\ \A x \in S : \E i \in DOMAIN SetToSeq(S) : SetToSeq(S)[i] = x
<1> DEFINE n == Cardinality(S)
<1>1. n \in Nat /\ ExistsBijection(1..n, S)
  BY FS_CardinalityType
<1>2. \E f \in [1..n -> S] : IsInjective(f)
  BY <1>1 DEF ExistsBijection, Bijection, Injection
<1>3. SetToSeq(S) \in [1..n -> S] /\ IsInjective(SetToSeq(S))
  BY <1>2 DEF SetToSeq
<1> DEFINE s == SetToSeq(S)
<1> HIDE DEF s
<1>4. s \in [1..n -> S] /\ IsInjective(s)
  BY <1>3 DEF s
<1>5. IsFiniteSet(1..n) /\ Cardinality(1..n) = n
  <2> HIDE DEF n
  <2>1. 1 \in Int /\ n \in Int
    BY <1>1
  <2>2. IsFiniteSet(1..n) /\ Cardinality(1..n) = IF 1 > n THEN 0 ELSE n-1+1
    BY <2>1, FS_Interval
  <2>3. QED
    BY <1>1, <2>2
<1>6. s \in Surjection(1..n, S)
  <2>1. s \in Injection(1..n, S)
    BY <1>4 DEF Injection
  <2>2. Cardinality(1..n) = Cardinality(S) <=> s \in Surjection(1..n, S)
    BY <2>1, FS_Injection
  <2>3. QED
    BY <2>2, <1>5
<1>7. s \in Seq(S) /\ DOMAIN s = 1..n /\ Len(s) = n
  <2> HIDE DEF n
  <2>1. QED
    BY <1>1, <1>4
<1>8. QED
  <2> HIDE DEF n
  <2>1. \A x \in S : \E i \in 1..n : s[i] = x
    BY <1>6 DEF Surjection
  <2>2. \A i \in 1..n : s[i] \in S
    BY <1>4
  <2>3. QED
    BY <1>1, <1>7, <2>1, <2>2 DEF s

(* A sequence of groups without its first one. *)
LEMMA TailIs ==
    ASSUME NEW S, NEW s \in Seq(S), s # <<>>
    PROVE  /\ Tail(s) \in Seq(S) /\ Head(s) \in S /\ Head(s) = s[1] /\ Len(s) \in Nat /\ Len(s) >= 1
           /\ Len(Tail(s)) = Len(s) - 1
           /\ DOMAIN s = 1..Len(s) /\ DOMAIN Tail(s) = 1..(Len(s) - 1) /\ 1 \in DOMAIN s
           /\ \A i \in DOMAIN Tail(s) : i + 1 \in DOMAIN s /\ Tail(s)[i] = s[i + 1]
           /\ (Len(s) = 1) <=> (Tail(s) = <<>>)
<1>1. /\ Tail(s) \in Seq(S) /\ Head(s) \in S /\ Head(s) = s[1] /\ Len(s) \in Nat /\ Len(s) >= 1
      /\ Len(Tail(s)) = Len(s) - 1
      /\ DOMAIN s = 1..Len(s) /\ DOMAIN Tail(s) = 1..(Len(s) - 1) /\ 1 \in DOMAIN s
      /\ \A i \in DOMAIN Tail(s) : i + 1 \in DOMAIN s /\ Tail(s)[i] = s[i + 1]
  OBVIOUS
<1>2. ASSUME Len(s) = 1 PROVE Tail(s) = <<>>
  <2>1. Len(Tail(s)) = 0
    BY <1>1, <1>2
  <2>2. QED
    BY <1>1, <2>1, EmptySeq
<1>3. ASSUME Tail(s) = <<>> PROVE Len(s) = 1
  <2>1. Len(<<>>) = 0
    BY EmptySeq
  <2>2. Len(Tail(s)) = 0
    BY <1>3, <2>1
  <2>3. Len(s) \in Nat /\ Len(Tail(s)) = Len(s) - 1
    BY <1>1
  <2> DEFINE n == Len(s)
             m == Len(Tail(s))
  <2> HIDE DEF n, m
  <2>4. n \in Nat /\ m = n - 1 /\ m = 0
    BY <2>2, <2>3 DEF n, m
  <2>5. n = 1
    BY <2>4
  <2>6. QED
    BY <2>5 DEF n
<1>4. QED
  BY <1>1, <1>2, <1>3

(* A sequence with one element more in front. *)
LEMMA ConsIs ==
    ASSUME NEW S, NEW g \in S, NEW s \in Seq(S)
    PROVE  /\ <<g>> \o s \in Seq(S) /\ <<g>> \o s # <<>>
           /\ Len(<<g>> \o s) = Len(s) + 1
           /\ Head(<<g>> \o s) = g /\ Tail(<<g>> \o s) = s /\ (<<g>> \o s)[1] = g
           /\ DOMAIN (<<g>> \o s) = 1..(Len(s) + 1) /\ 1 \in DOMAIN (<<g>> \o s)
           /\ \A i \in DOMAIN (<<g>> \o s) : i = 1 \/ (i - 1 \in DOMAIN s /\ (<<g>> \o s)[i] = s[i - 1])
OBVIOUS

(* Two sequences, one after the other. *)
LEMMA JoinIs ==
    ASSUME NEW S, NEW u \in Seq(S), NEW s \in Seq(S)
    PROVE  /\ u \o s \in Seq(S)
           /\ Len(u \o s) = Len(u) + Len(s)
           /\ DOMAIN (u \o s) = 1..(Len(u) + Len(s))
           /\ \A i \in DOMAIN (u \o s) :
                \/ i \in DOMAIN u /\ (u \o s)[i] = u[i]
                \/ i > Len(u) /\ i - Len(u) \in DOMAIN s /\ (u \o s)[i] = s[i - Len(u)]
           /\ \A i \in DOMAIN u : i \in DOMAIN (u \o s) /\ (u \o s)[i] = u[i]
           /\ \A i \in DOMAIN s : i + Len(u) \in DOMAIN (u \o s) /\ (u \o s)[i + Len(u)] = s[i]
OBVIOUS

-----------------------------------------------------------------------------
(* What requests and their statements can be *)

Account(a) == Key("account", a, None)
Counter(a) == Key("counter", a, None)
Archived(k) == [k EXCEPT !.t = "archive"]
KeysOf(t, a) == {k \in Keys : k.t = t /\ k.id = a}

(* A statement of deleteAccount. *)
Erasure(a, s) ==
    \/ s = Del(Auth(a))
    \/ \E k \in Keys : k.id = a /\ k.t \notin {"auth", "reference"} /\ s = Del(k)
    \/ \E k \in KeysOf("connection", a) : s = SoftDel(Mirror(k))
    \/ s = Update(Account(a), "deleted")

(* The statements of a group that are still to be done, per request. *)
AddBody(a, body) ==
    body \in {<<AddLogin(a), AddOrUndo(Account(a), Auth(a))>>, <<AddOrUndo(Account(a), Auth(a))>>,
              <<SoftDel(Auth(a))>>, <<Put(Counter(a))>>}
MakeBody(k, body) ==
    body \in {<<Put(k), PutOrUndo(Mirror(k), k)>>, <<Add(k), AddOrUndo(Mirror(k), k)>>,
              <<PutOrUndo(Mirror(k), k)>>, <<AddOrUndo(Mirror(k), k)>>, <<SoftDel(k)>>}
UnlinkBody(k, body) == body \in {Unlink(k), <<Del(Mirror(k))>>}
SendBody(m, body) ==
    body \in {<<Add(Key("message", Recipient[m], m)), SoftAdd(Key("sent", Sender[m], m))>>,
              <<SoftAdd(Key("sent", Sender[m], m))>>}
MoveBody(k, body) == body \in {ArchiveRow(k), <<Del(k)>>}

BodyOf(op, a, x, body) ==
    \/ op = "addAccount" /\ AddBody(a, body)
    \/ op = "make" /\ x \in Accounts /\ x # a /\ MakeBody(Key("connection", a, x), body)
    \/ op = "unmake" /\ x \in Accounts /\ x # a /\ UnlinkBody(Key("connection", a, x), body)
    \/ op = "unmakeAll" /\ \E k \in KeysOf("connection", a) : UnlinkBody(k, body)
    \/ op = "send" /\ x \in Messages /\ a = Sender[x] /\ SendBody(x, body)
    \/ op \in {"move", "receive"} /\ \E k \in KeysOf("message", a) : MoveBody(k, body)
    \/ op = "read" /\ \E k \in KeysOf("message", a) : body = <<Update(k, "read")>>
    \/ op = "delete" /\ \E k \in KeysOf("message", a) \cup KeysOf("archive", a) : body = <<Del(k)>>
    \/ op = "deleteSent" /\ \E k \in KeysOf("sent", a) : body = <<Del(k)>>
    \/ op = "deleteAccount" /\ \A i \in DOMAIN body : Erasure(a, body[i])

QueryOf(op, q) ==
    \/ op = "deleteAccount" /\ q \in {"account", "forget", "message", "archive", "sent"}
    \/ op = "unmakeAll" /\ q = "unlink"
    \/ op \in {"move", "receive", "read"} /\ q = op
    \/ op = "delete" /\ q \in {"message", "archive"}
    \/ op = "deleteSent" /\ q = "sentRows"
    \/ op = "unread" /\ q \in {"cache", "count", "store"}

GroupOf(op, a, x, g) ==
    /\ g.query = None => BodyOf(op, a, x, g.body)
    /\ g.query # None => (QueryOf(op, g.query) /\ g.id = a /\ g.body = <<>>)

(* The groups of deleteAccount: the login is removed by the first one, alone, the account by *)
(* the last one, alone; the connections are removed by the first one, each after its mirror.  *)
ErasureOrder(a, gs) ==
    \A i \in DOMAIN gs :
        /\ gs[i].query = "account" => gs = <<Query("account", a)>>
        /\ \A j \in DOMAIN gs[i].body :
             /\ gs[i].body[j] = Del(Auth(a)) => i = 1 /\ gs[i].body = <<Del(Auth(a))>>
             /\ gs[i].body[j] = Del(Account(a)) => i = Len(gs) /\ gs[i].body = <<Del(Account(a))>>
             /\ \A k \in KeysOf("connection", a) :
                  gs[i].body[j] = Del(k) =>
                      i = 1 /\ (j = 1 \/ (j > 1 /\ gs[i].body[j - 1] = SoftDel(Mirror(k))))

Single == {"make", "unmake", "send", "unread"}
UnderWayRequests == [op : Ops, id : Accounts, groups : Seq(Groups) \ {<<>>},
                     x : Accounts \cup Messages \cup {None, "message", "archive"}, clean : BOOLEAN]

(* A request that is under way. *)
ShapedAs(op, a, x, gs) ==
    /\ \A i \in DOMAIN gs : GroupOf(op, a, x, gs[i])
    /\ op \in Single => Len(gs) = 1
    /\ op \in {"make", "unmake", "unread"} => Head(gs).strict
    /\ (op = "make" /\ Head(gs).body = <<SoftDel(Key("connection", a, x))>>) => Head(gs).doomed
    /\ op = "deleteAccount" => ErasureOrder(a, gs)

Shaped(q) == ShapedAs(q.op, q.id, q.x, q.groups)

ShapeInv == \A r \in Requests : UnderWay(r) => Shaped(request[r])

-----------------------------------------------------------------------------
(* Statements *)

LEMMA StatementTypes ==
    ASSUME NEW k \in Keys, NEW u \in Keys, NEW v \in {"no", "new", "read", "deleted"}
    PROVE  /\ Put(k) \in Statements /\ PutOrUndo(k, u) \in Statements /\ Add(k) \in Statements
           /\ AddOrUndo(k, u) \in Statements /\ SoftAdd(k) \in Statements
           /\ Update(k, v) \in Statements /\ Del(k) \in Statements /\ SoftDel(k) \in Statements
BY DEF Put, PutOrUndo, Add, AddOrUndo, SoftAdd, Update, Del, SoftDel, Sql, Statements, Values

LEMMA LoginTypes == \A c \in Accounts : AddLogin(c) \in Statements
<1>1. \A c \in Accounts : Auth(c) \in Keys
  BY KeysAre
<1>2. QED
  BY <1>1 DEF AddLogin, Sql, Statements, Values

(* The fields of the statements. *)
LEMMA StatementFields ==
    ASSUME NEW k, NEW u, NEW v
    PROVE  /\ Put(k).k = k /\ Put(k).v = "new" /\ Put(k).onto = "all" /\ Put(k).soft = FALSE /\ Put(k).undo = NoKey
           /\ PutOrUndo(k, u).k = k /\ PutOrUndo(k, u).v = "new" /\ PutOrUndo(k, u).onto = "all"
           /\ PutOrUndo(k, u).soft = FALSE /\ PutOrUndo(k, u).undo = u
           /\ Add(k).k = k /\ Add(k).v = "new" /\ Add(k).onto = "absent" /\ Add(k).soft = FALSE /\ Add(k).undo = NoKey
           /\ AddOrUndo(k, u).k = k /\ AddOrUndo(k, u).v = "new" /\ AddOrUndo(k, u).onto = "absent"
           /\ AddOrUndo(k, u).soft = FALSE /\ AddOrUndo(k, u).undo = u
           /\ SoftAdd(k).k = k /\ SoftAdd(k).v = "new" /\ SoftAdd(k).onto = "absent" /\ SoftAdd(k).soft = TRUE
           /\ Update(k, v).k = k /\ Update(k, v).v = v /\ Update(k, v).onto = "present" /\ Update(k, v).soft = FALSE
           /\ Update(k, v).undo = NoKey
           /\ Del(k).k = k /\ Del(k).v = "no" /\ Del(k).onto = "all" /\ Del(k).soft = FALSE /\ Del(k).undo = NoKey
           /\ SoftDel(k).k = k /\ SoftDel(k).v = "no" /\ SoftDel(k).onto = "all" /\ SoftDel(k).soft = TRUE
           /\ SoftDel(k).undo = NoKey
           /\ AddLogin(k).k = Auth(k) /\ AddLogin(k).v = k /\ AddLogin(k).onto = "absent" /\ AddLogin(k).soft = FALSE
           /\ AddLogin(k).undo = NoKey
BY DEF AddLogin, Put, PutOrUndo, Add, AddOrUndo, SoftAdd, Update, Del, SoftDel, Sql

(* The fields of the groups. *)
LEMMA GroupFields ==
    ASSUME NEW q, NEW body, NEW a
    PROVE  /\ Group(body).query = None /\ Group(body).body = body /\ Group(body).strict = TRUE
           /\ Group(body).id = None /\ Group(body).bump = 0 /\ Group(body).doomed = FALSE
           /\ Loose(body).query = None /\ Loose(body).body = body /\ Loose(body).strict = FALSE
           /\ Loose(body).id = None /\ Loose(body).bump = 0 /\ Loose(body).doomed = FALSE
           /\ Query(q, a).query = q /\ Query(q, a).body = <<>> /\ Query(q, a).strict = TRUE
           /\ Query(q, a).id = a /\ Query(q, a).bump = 0 /\ Query(q, a).doomed = FALSE
           /\ LooseQuery(q, a).query = q /\ LooseQuery(q, a).body = <<>> /\ LooseQuery(q, a).strict = FALSE
           /\ LooseQuery(q, a).id = a /\ LooseQuery(q, a).bump = 0 /\ LooseQuery(q, a).doomed = FALSE
BY DEF Group, Loose, Query, LooseQuery, Series

LEMMA GroupTypes ==
    ASSUME NEW q \in Queries, NEW body \in Seq(Statements), NEW strict \in BOOLEAN,
           NEW a \in Accounts \cup {None}, NEW bump \in Int, NEW always \in BOOLEAN
    PROVE  /\ Series(q, body, strict, a, bump, always) \in Groups
           /\ Group(body) \in Groups /\ Loose(body) \in Groups
           /\ Query(q, a) \in Groups /\ LooseQuery(q, a) \in Groups
<1>1. Series(q, body, strict, a, bump, always) \in Groups
  BY DEF Series, Groups
<1>2. <<>> \in Seq(Statements) /\ None \in Queries
  BY DEF Queries
<1>3. QED
  BY <1>1, <1>2 DEF Group, Loose, Query, LooseQuery, Series, Groups

-----------------------------------------------------------------------------
(* What follows a query *)

LEMMA MatchingIs ==
    ASSUME NEW q, NEW a
    PROVE  /\ Matching(q, a) \subseteq KeysOf(Table(q), a) /\ IsFiniteSet(Matching(q, a))
           /\ Found(q, a) \subseteq Matching(q, a)
<1>1. Matching(q, a) \subseteq KeysOf(Table(q), a) /\ Matching(q, a) \subseteq Keys
  BY DEF Matching, KeysOf
<1>2. IsFiniteSet(Matching(q, a))
  BY <1>1, KeysFinite, FS_Subset
<1> DEFINE ks == SetToSeq(Matching(q, a))
<1>3. \A i \in DOMAIN ks : ks[i] \in Matching(q, a)
  BY <1>2, SetToSeqIs
<1>4. Found(q, a) = {ks[i] : i \in {j \in DOMAIN ks : Returned(q, j)}}
  BY DEF Found
<1> HIDE DEF ks
<1>5. Found(q, a) \subseteq Matching(q, a)
  BY <1>3, <1>4
<1>6. QED
  BY <1>1, <1>2, <1>5

LEMMA FoundIs ==
    ASSUME NEW q, NEW a
    PROVE  /\ Found(q, a) \subseteq KeysOf(Table(q), a) /\ Found(q, a) \subseteq Keys
           /\ IsFiniteSet(Found(q, a))
           /\ SetToSeq(Found(q, a)) \in Seq(KeysOf(Table(q), a))
           /\ DOMAIN SetToSeq(Found(q, a)) = 1..Len(SetToSeq(Found(q, a))) /\ Len(SetToSeq(Found(q, a))) \in Nat
           /\ \A i \in DOMAIN SetToSeq(Found(q, a)) : SetToSeq(Found(q, a))[i] \in Found(q, a)
           /\ (Found(q, a) = Matching(q, a) /\ q # "read") =>
                \A k \in KeysOf(Table(q), a) : rows[k] # "no" =>
                    \E i \in DOMAIN SetToSeq(Found(q, a)) : SetToSeq(Found(q, a))[i] = k
           /\ \A k \in Found(q, a) : rows[k] # "no"
<1>1. Found(q, a) \subseteq KeysOf(Table(q), a) /\ Found(q, a) \subseteq Keys
  BY MatchingIs DEF KeysOf
<1>2. IsFiniteSet(Found(q, a))
  BY <1>1, KeysFinite, FS_Subset
<1>3. /\ SetToSeq(Found(q, a)) \in Seq(Found(q, a))
      /\ DOMAIN SetToSeq(Found(q, a)) = 1..Len(SetToSeq(Found(q, a))) /\ Len(SetToSeq(Found(q, a))) \in Nat
      /\ \A i \in DOMAIN SetToSeq(Found(q, a)) : SetToSeq(Found(q, a))[i] \in Found(q, a)
      /\ \A x \in Found(q, a) : \E i \in DOMAIN SetToSeq(Found(q, a)) : SetToSeq(Found(q, a))[i] = x
  BY <1>2, SetToSeqIs
<1>4. SetToSeq(Found(q, a)) \in Seq(KeysOf(Table(q), a))
  BY <1>1, <1>3, SeqMonotonic
<1>5. ASSUME Found(q, a) = Matching(q, a), q # "read"
      PROVE  \A k \in KeysOf(Table(q), a) : rows[k] # "no" => k \in Found(q, a)
  BY <1>5 DEF Matching, KeysOf
<1>6. \A k \in Found(q, a) : rows[k] # "no"
  BY MatchingIs DEF Matching
<1>7. QED
  BY <1>1, <1>2, <1>3, <1>4, <1>5, <1>6

(* The tables of the queries. *)
LEMMA TablesAre ==
    /\ Table("move") = "message" /\ Table("receive") = "message" /\ Table("read") = "message"
    /\ Table("message") = "message" /\ Table("archive") = "archive"
    /\ Table("sentRows") = "sent" /\ Table("sent") = "sent"
    /\ Table("unlink") = "connection" /\ Table("forget") = "connection"
BY DEF Table

(* The statements of a group are a sequence of statements. *)
LEMMA BodyTypes ==
    ASSUME NEW k \in Keys
    PROVE  /\ k.t = "message" => ArchiveRow(k) \in Seq(Statements)
           /\ k.t = "connection" => Unlink(k) \in Seq(Statements)
           /\ <<Del(k)>> \in Seq(Statements)
           /\ <<Update(k, "read")>> \in Seq(Statements)
           /\ <<Update(k, "deleted")>> \in Seq(Statements)
           /\ <<SoftDel(k)>> \in Seq(Statements)
           /\ <<>> \in Seq(Statements)
<1>1. ASSUME k.t = "message" PROVE ArchiveRow(k) \in Seq(Statements)
  BY <1>1, ArchiveIs, StatementTypes DEF ArchiveRow
<1>2. ASSUME k.t = "connection" PROVE Unlink(k) \in Seq(Statements)
  BY <1>2, MirrorIs, StatementTypes DEF Unlink
<1>3. <<>> \in Seq(Statements)
  OBVIOUS
<1>4. Del(k) \in Statements /\ Update(k, "read") \in Statements /\ Update(k, "deleted") \in Statements
      /\ SoftDel(k) \in Statements
  BY StatementTypes
<1>5. QED
  BY <1>1, <1>2, <1>3, <1>4

LEMMA MoveRowsAre ==
    ASSUME NEW a \in Accounts, NEW ks \in Seq(KeysOf("message", a)), NEW strict \in BOOLEAN
    PROVE  /\ MoveRows(ks, a, strict) \in Seq(Groups)
           /\ \A i \in DOMAIN MoveRows(ks, a, strict) : \E k \in KeysOf("message", a) :
                MoveRows(ks, a, strict)[i].query = None /\ MoveRows(ks, a, strict)[i].body = ArchiveRow(k)
<1>1. \A i \in DOMAIN ks : ks[i] \in KeysOf("message", a)
  OBVIOUS
<1>2. \A i \in DOMAIN ks : Series(None, ArchiveRow(ks[i]), strict, a, Seen(ks[i]), ~strict) \in Groups
  <2> SUFFICES ASSUME NEW i \in DOMAIN ks
               PROVE  Series(None, ArchiveRow(ks[i]), strict, a, Seen(ks[i]), ~strict) \in Groups
    OBVIOUS
  <2>1. ks[i] \in Keys /\ ks[i].t = "message"
    BY <1>1 DEF KeysOf
  <2>2. ArchiveRow(ks[i]) \in Seq(Statements)
    BY <2>1, BodyTypes
  <2>3. Seen(ks[i]) \in Int /\ None \in Queries
    BY DEF Seen, Queries
  <2>4. (~strict) \in BOOLEAN
    OBVIOUS
  <2>5. a \in Accounts \cup {None}
    OBVIOUS
  <2>6. QED
    BY <2>2, <2>3, <2>4, <2>5, GroupTypes
<1>3. DOMAIN MoveRows(ks, a, strict) = DOMAIN ks
      /\ \A i \in DOMAIN ks : MoveRows(ks, a, strict)[i] = Series(None, ArchiveRow(ks[i]), strict, a, Seen(ks[i]), ~strict)
  BY DEF MoveRows
<1>4. DOMAIN ks = 1..Len(ks) /\ Len(ks) \in Nat
  OBVIOUS
<1>5. MoveRows(ks, a, strict) \in [1..Len(ks) -> Groups]
  <2>1. MoveRows(ks, a, strict) \in [DOMAIN ks -> Groups]
    BY <1>2 DEF MoveRows
  <2>2. QED
    BY <2>1, <1>4
<1>6. MoveRows(ks, a, strict) \in Seq(Groups)
  BY <1>4, <1>5
<1>7. ASSUME NEW i \in DOMAIN MoveRows(ks, a, strict)
      PROVE  MoveRows(ks, a, strict)[i].query = None /\ MoveRows(ks, a, strict)[i].body = ArchiveRow(ks[i]) /\ ks[i] \in KeysOf("message", a)
  <2>1. MoveRows(ks, a, strict)[i] = Series(None, ArchiveRow(ks[i]), strict, a, Seen(ks[i]), ~strict) /\ ks[i] \in KeysOf("message", a)
    BY <1>1, <1>3
  <2>2. QED
    BY <2>1 DEF Series
<1>8. QED
  BY <1>6, <1>7

LEMMA ReadRowsAre ==
    ASSUME NEW a \in Accounts, NEW ks \in Seq(KeysOf("message", a))
    PROVE  /\ ReadRows(ks, a) \in Seq(Groups)
           /\ \A i \in DOMAIN ReadRows(ks, a) : \E k \in KeysOf("message", a) :
                ReadRows(ks, a)[i].query = None /\ ReadRows(ks, a)[i].body = <<Update(k, "read")>>
<1>1. \A i \in DOMAIN ks : ks[i] \in KeysOf("message", a)
  OBVIOUS
<1>2. \A i \in DOMAIN ks : Series(None, <<Update(ks[i], "read")>>, TRUE, a, -1, TRUE) \in Groups
  <2> SUFFICES ASSUME NEW i \in DOMAIN ks
               PROVE  Series(None, <<Update(ks[i], "read")>>, TRUE, a, -1, TRUE) \in Groups
    OBVIOUS
  <2>1. ks[i] \in Keys
    BY <1>1 DEF KeysOf
  <2>2. <<Update(ks[i], "read")>> \in Seq(Statements)
    BY <2>1, BodyTypes
  <2>3. -1 \in Int /\ None \in Queries
    BY DEF Queries
  <2>4. QED
    BY <2>2, <2>3, GroupTypes
<1>3. DOMAIN ReadRows(ks, a) = DOMAIN ks
      /\ \A i \in DOMAIN ks : ReadRows(ks, a)[i] = Series(None, <<Update(ks[i], "read")>>, TRUE, a, -1, TRUE)
  BY DEF ReadRows
<1>4. DOMAIN ks = 1..Len(ks) /\ Len(ks) \in Nat
  OBVIOUS
<1>5. ReadRows(ks, a) \in [1..Len(ks) -> Groups]
  <2>1. ReadRows(ks, a) \in [DOMAIN ks -> Groups]
    BY <1>2 DEF ReadRows
  <2>2. QED
    BY <2>1, <1>4
<1>6. ReadRows(ks, a) \in Seq(Groups)
  BY <1>4, <1>5
<1>7. ASSUME NEW i \in DOMAIN ReadRows(ks, a)
      PROVE  ReadRows(ks, a)[i].query = None /\ ReadRows(ks, a)[i].body = <<Update(ks[i], "read")>> /\ ks[i] \in KeysOf("message", a)
  <2>1. ReadRows(ks, a)[i] = Series(None, <<Update(ks[i], "read")>>, TRUE, a, -1, TRUE) /\ ks[i] \in KeysOf("message", a)
    BY <1>1, <1>3
  <2>2. QED
    BY <2>1 DEF Series
<1>8. QED
  BY <1>6, <1>7

LEMMA DeleteRowsAre ==
    ASSUME NEW a \in Accounts, NEW q
    PROVE  /\ DeleteRows(q, a) \in Seq(Groups)
           /\ \A i \in DOMAIN DeleteRows(q, a) : \E k \in KeysOf(Table(q), a) :
                DeleteRows(q, a)[i].query = None /\ DeleteRows(q, a)[i].body = <<Del(k)>>
<1> DEFINE ks == SetToSeq(Found(q, a))
<1>0. DOMAIN DeleteRows(q, a) = DOMAIN ks
      /\ \A i \in DOMAIN ks : DeleteRows(q, a)[i] = Series(None, <<Del(ks[i])>>, FALSE, a, Seen(ks[i]), TRUE)
  BY DEF DeleteRows
<1>1. ks \in Seq(KeysOf(Table(q), a))
  BY FoundIs
<1>2. DeleteRows(q, a) = [i \in DOMAIN ks |-> Series(None, <<Del(ks[i])>>, FALSE, a, Seen(ks[i]), TRUE)]
  BY DEF DeleteRows
<1> HIDE DEF ks
<1>3. \A i \in DOMAIN ks : ks[i] \in KeysOf(Table(q), a)
  BY <1>1
<1>4. \A i \in DOMAIN ks : Series(None, <<Del(ks[i])>>, FALSE, a, Seen(ks[i]), TRUE) \in Groups
  <2> SUFFICES ASSUME NEW i \in DOMAIN ks
               PROVE  Series(None, <<Del(ks[i])>>, FALSE, a, Seen(ks[i]), TRUE) \in Groups
    OBVIOUS
  <2>1. ks[i] \in Keys
    BY <1>3 DEF KeysOf
  <2>2. <<Del(ks[i])>> \in Seq(Statements)
    BY <2>1, BodyTypes
  <2>3. Seen(ks[i]) \in Int /\ None \in Queries
    BY DEF Seen, Queries
  <2>4. QED
    BY <2>2, <2>3, GroupTypes
<1>5. DOMAIN ks = 1..Len(ks) /\ Len(ks) \in Nat
  BY <1>1
<1>6. DeleteRows(q, a) \in [1..Len(ks) -> Groups]
  <2>1. DeleteRows(q, a) \in [DOMAIN ks -> Groups]
    BY <1>2, <1>4
  <2>2. QED
    BY <2>1, <1>5
<1>7. DeleteRows(q, a) \in Seq(Groups)
  BY <1>5, <1>6
<1>8. ASSUME NEW i \in DOMAIN DeleteRows(q, a)
      PROVE  DeleteRows(q, a)[i].query = None /\ DeleteRows(q, a)[i].body = <<Del(ks[i])>> /\ ks[i] \in KeysOf(Table(q), a)
  <2>1. DeleteRows(q, a)[i] = Series(None, <<Del(ks[i])>>, FALSE, a, Seen(ks[i]), TRUE) /\ ks[i] \in KeysOf(Table(q), a)
    BY <1>3, <1>0
  <2>2. QED
    BY <2>1 DEF Series
<1>9. QED
  BY <1>7, <1>8

LEMMA DelRowsAre ==
    ASSUME NEW t, NEW a, NEW ks \in Seq(KeysOf(t, a))
    PROVE  /\ DelRows(ks) \in Seq(Statements) /\ DOMAIN DelRows(ks) = DOMAIN ks
           /\ \A i \in DOMAIN DelRows(ks) : ks[i] \in KeysOf(t, a) /\ DelRows(ks)[i] = Del(ks[i])
<1>1. \A i \in DOMAIN ks : ks[i] \in KeysOf(t, a)
  OBVIOUS
<1>2. \A i \in DOMAIN ks : Del(ks[i]) \in Statements
  BY <1>1, StatementTypes DEF KeysOf
<1>3. DOMAIN ks = 1..Len(ks) /\ Len(ks) \in Nat
  OBVIOUS
<1>4. DelRows(ks) \in [1..Len(ks) -> Statements]
  BY <1>2, <1>3 DEF DelRows
<1>5. DelRows(ks) \in Seq(Statements)
  BY <1>3, <1>4
<1>6. QED
  BY <1>1, <1>5 DEF DelRows

LEMMA UnlinkRowsAre ==
    ASSUME NEW a \in Accounts, NEW ks \in Seq(KeysOf("connection", a))
    PROVE  /\ UnlinkRows(ks) \in Seq(Groups)
           /\ \A i \in DOMAIN UnlinkRows(ks) : \E k \in KeysOf("connection", a) :
                UnlinkRows(ks)[i].query = None /\ UnlinkRows(ks)[i].body = Unlink(k)
<1>1. \A i \in DOMAIN ks : ks[i] \in KeysOf("connection", a)
  OBVIOUS
<1>2. \A i \in DOMAIN ks : Group(Unlink(ks[i])) \in Groups
  <2> SUFFICES ASSUME NEW i \in DOMAIN ks PROVE Group(Unlink(ks[i])) \in Groups
    OBVIOUS
  <2>1. ks[i] \in Keys /\ ks[i].t = "connection"
    BY <1>1 DEF KeysOf
  <2>2. Unlink(ks[i]) \in Seq(Statements)
    BY <2>1, BodyTypes
  <2>3. None \in Queries /\ TRUE \in BOOLEAN /\ 0 \in Int /\ a \in Accounts \cup {None}
    BY DEF Queries
  <2>4. QED
    BY <2>2, <2>3, GroupTypes
<1>3. DOMAIN UnlinkRows(ks) = DOMAIN ks /\ \A i \in DOMAIN ks : UnlinkRows(ks)[i] = Group(Unlink(ks[i]))
  BY DEF UnlinkRows
<1>4. DOMAIN ks = 1..Len(ks) /\ Len(ks) \in Nat
  OBVIOUS
<1>5. UnlinkRows(ks) \in [1..Len(ks) -> Groups]
  BY <1>2, <1>4 DEF UnlinkRows
<1>6. UnlinkRows(ks) \in Seq(Groups)
  BY <1>4, <1>5
<1>7. ASSUME NEW i \in DOMAIN UnlinkRows(ks)
      PROVE  UnlinkRows(ks)[i].query = None /\ UnlinkRows(ks)[i].body = Unlink(ks[i]) /\ ks[i] \in KeysOf("connection", a)
  <2>1. UnlinkRows(ks)[i] = Group(Unlink(ks[i])) /\ ks[i] \in KeysOf("connection", a)
    BY <1>1, <1>3
  <2>2. QED
    BY <2>1 DEF Group, Series
<1>8. QED
  BY <1>6, <1>7

(* The statements of the connections of an account that is deleted: each mirror, then the row. *)
LEMMA ForgetIs ==
    ASSUME NEW a \in Accounts, NEW ks \in Seq(KeysOf("connection", a))
    PROVE  /\ Forget(ks) \in Seq(Statements)
           /\ \A j \in DOMAIN Forget(ks) :
                \/ \E k \in KeysOf("connection", a) : Forget(ks)[j] = SoftDel(Mirror(k))
                \/ \E k \in KeysOf("connection", a) :
                      Forget(ks)[j] = Del(k) /\ j > 1 /\ Forget(ks)[j - 1] = SoftDel(Mirror(k))
           /\ \A i \in DOMAIN ks : 2 * i \in DOMAIN Forget(ks) /\ Forget(ks)[2 * i] = Del(ks[i])
<1> DEFINE n == Len(ks)
           m == 2 * n
<1>1. n \in Nat /\ DOMAIN ks = 1..n /\ m \in Nat
  OBVIOUS
<1>2. \A i \in 1..n : ks[i] \in KeysOf("connection", a)
  OBVIOUS
<1>3. /\ DOMAIN Forget(ks) = 1..m
      /\ \A j \in 1..m : Forget(ks)[j] = IF j % 2 = 1 THEN SoftDel(Mirror(ks[(j + 1) \div 2])) ELSE Del(ks[j \div 2])
      /\ Forget(ks) = [j \in 1..m |-> Forget(ks)[j]]
  BY DEF Forget
<1> HIDE DEF n, m
<1>4. \A j \in 1..m : j % 2 = 1 => (j + 1) \div 2 \in 1..n
  BY <1>1 DEF m
<1>5. \A j \in 1..m : j % 2 # 1 => j \div 2 \in 1..n /\ j > 1 /\ j - 1 \in 1..m /\ (j - 1) % 2 = 1
                                   /\ ((j - 1) + 1) \div 2 = j \div 2
  BY <1>1 DEF m
<1>6. \A j \in 1..m : j % 2 = 1 => Forget(ks)[j] = SoftDel(Mirror(ks[(j + 1) \div 2]))
  BY <1>3
<1>7. \A j \in 1..m : j % 2 # 1 => Forget(ks)[j] = Del(ks[j \div 2])
  BY <1>3
<1>8. \A j \in 1..m : j % 2 = 1 => \E k \in KeysOf("connection", a) : Forget(ks)[j] = SoftDel(Mirror(k))
  BY <1>2, <1>4, <1>6
<1>9. ASSUME NEW j \in 1..m, j % 2 # 1
      PROVE  \E k \in KeysOf("connection", a) :
                Forget(ks)[j] = Del(k) /\ j > 1 /\ Forget(ks)[j - 1] = SoftDel(Mirror(k))
  <2>1. Forget(ks)[j] = Del(ks[j \div 2]) /\ j > 1 /\ ks[j \div 2] \in KeysOf("connection", a)
    BY <1>2, <1>5, <1>7, <1>9
  <2>2. j - 1 \in 1..m /\ (j - 1) % 2 = 1 /\ ((j - 1) + 1) \div 2 = j \div 2
    BY <1>5, <1>9
  <2>3. Forget(ks)[j - 1] = SoftDel(Mirror(ks[((j - 1) + 1) \div 2]))
    BY <1>6, <2>2
  <2>4. QED
    BY <2>1, <2>2, <2>3
<1>10. \A j \in 1..m : Forget(ks)[j] \in Statements
  <2> SUFFICES ASSUME NEW j \in 1..m PROVE Forget(ks)[j] \in Statements
    OBVIOUS
  <2>1. \A k \in KeysOf("connection", a) : k \in Keys /\ Mirror(k) \in Keys
    BY MirrorIs DEF KeysOf
  <2>2. \A k \in KeysOf("connection", a) : SoftDel(Mirror(k)) \in Statements /\ Del(k) \in Statements
    BY <2>1, StatementTypes
  <2>3. QED
    BY <1>8, <1>9, <2>2
<1>11. Forget(ks) \in Seq(Statements)
  <2>1. Forget(ks) \in [1..m -> Statements]
    BY <1>3, <1>10
  <2>2. QED
    BY <1>1, <2>1
<1>12. \A i \in 1..n : 2 * i \in 1..m /\ (2 * i) % 2 # 1 /\ (2 * i) \div 2 = i
  BY <1>1 DEF m
<1>13. \A i \in 1..n : 2 * i \in 1..m /\ Forget(ks)[2 * i] = Del(ks[i])
  BY <1>7, <1>12
<1>14. QED
  BY <1>1, <1>3, <1>8, <1>9, <1>11, <1>13

(* The groups of deleteAccount, one by one. *)
LEMMA EraseAccountIs ==
    ASSUME NEW a \in Accounts
    PROVE  LET e == EraseAccount(a)
           IN  /\ e \in Seq(Groups) /\ Len(e) = 8 /\ DOMAIN e = 1..8
               /\ e[1] = Group(<<Del(Auth(a))>>) /\ e[2] = Group(<<Update(Account(a), "deleted")>>)
               /\ e[3] = LooseQuery("forget", a) /\ e[4] = Loose(<<Del(Counter(a))>>)
               /\ e[5] = LooseQuery("message", a) /\ e[6] = LooseQuery("archive", a)
               /\ e[7] = LooseQuery("sent", a) /\ e[8] = Group(<<Del(Account(a))>>)
<1> DEFINE g1 == Group(<<Del(Auth(a))>>)
           g2 == Group(<<Update(Account(a), "deleted")>>)
           g3 == LooseQuery("forget", a)
           g4 == Loose(<<Del(Counter(a))>>)
           g5 == LooseQuery("message", a)
           g6 == LooseQuery("archive", a)
           g7 == LooseQuery("sent", a)
           g8 == Group(<<Del(Account(a))>>)
<1>1. EraseAccount(a) = (<<g1, g2>> \o <<g3, g4, g5, g6, g7>>) \o <<g8>>
  BY DEF EraseAccount, ForgetAccount, Auth, Account, Counter
<1>2. Auth(a) \in Keys /\ Account(a) \in Keys /\ Counter(a) \in Keys
  BY KeysAre DEF Auth, Account, Counter
<1>3. /\ <<Del(Auth(a))>> \in Seq(Statements) /\ <<Update(Account(a), "deleted")>> \in Seq(Statements)
      /\ <<Del(Counter(a))>> \in Seq(Statements) /\ <<Del(Account(a))>> \in Seq(Statements)
  BY <1>2, BodyTypes
<1>4. \A b \in Seq(Statements) : Group(b) \in Groups /\ Loose(b) \in Groups
  <2>1. None \in Queries /\ TRUE \in BOOLEAN /\ 0 \in Int /\ a \in Accounts \cup {None}
    BY DEF Queries
  <2>2. QED
    BY <2>1, GroupTypes
<1>5. \A q \in Queries : LooseQuery(q, a) \in Groups
  <2>1. <<>> \in Seq(Statements) /\ TRUE \in BOOLEAN /\ 0 \in Int /\ a \in Accounts \cup {None}
    OBVIOUS
  <2>2. QED
    BY <2>1, GroupTypes
<1>6. g1 \in Groups /\ g2 \in Groups /\ g4 \in Groups /\ g8 \in Groups
  BY <1>3, <1>4
<1>7. g3 \in Groups /\ g5 \in Groups /\ g6 \in Groups /\ g7 \in Groups
  BY <1>5 DEF Queries
<1> HIDE DEF g1, g2, g3, g4, g5, g6, g7, g8
<1> DEFINE u == <<g1, g2>>
           w == <<g3, g4, g5, g6, g7>>
           z == <<g8>>
<1>8. /\ u \in Seq(Groups) /\ Len(u) = 2 /\ DOMAIN u = 1..2 /\ u[1] = g1 /\ u[2] = g2
      /\ w \in Seq(Groups) /\ Len(w) = 5 /\ DOMAIN w = 1..5
      /\ w[1] = g3 /\ w[2] = g4 /\ w[3] = g5 /\ w[4] = g6 /\ w[5] = g7
      /\ z \in Seq(Groups) /\ Len(z) = 1 /\ DOMAIN z = 1..1 /\ z[1] = g8
  BY <1>6, <1>7
<1> HIDE DEF u, w, z
<1>9. /\ u \o w \in Seq(Groups) /\ Len(u \o w) = 7 /\ DOMAIN (u \o w) = 1..7
      /\ (u \o w)[1] = g1 /\ (u \o w)[2] = g2 /\ (u \o w)[1 + 2] = g3 /\ (u \o w)[2 + 2] = g4
      /\ (u \o w)[3 + 2] = g5 /\ (u \o w)[4 + 2] = g6 /\ (u \o w)[5 + 2] = g7
  <2>1. /\ u \o w \in Seq(Groups) /\ Len(u \o w) = Len(u) + Len(w) /\ DOMAIN (u \o w) = 1..(Len(u) + Len(w))
        /\ \A i \in DOMAIN u : (u \o w)[i] = u[i]
        /\ \A i \in DOMAIN w : (u \o w)[i + Len(u)] = w[i]
    <3>1. u \in Seq(Groups) /\ w \in Seq(Groups)
      BY <1>8
    <3>2. QED
      BY ONLY <3>1, JoinIs
  <2>2. 1 \in 1..2 /\ 2 \in 1..2 /\ 1 \in 1..5 /\ 2 \in 1..5 /\ 3 \in 1..5 /\ 4 \in 1..5 /\ 5 \in 1..5
    OBVIOUS
  <2>3. QED
    BY <1>8, <2>1, <2>2
<1> DEFINE e == u \o w
<1>10. /\ e \in Seq(Groups) /\ Len(e) = 7 /\ DOMAIN e = 1..7
       /\ e[1] = g1 /\ e[2] = g2 /\ e[3] = g3 /\ e[4] = g4 /\ e[5] = g5 /\ e[6] = g6 /\ e[7] = g7
  BY <1>9
<1> HIDE DEF e
<1>11. /\ e \o z \in Seq(Groups) /\ Len(e \o z) = 8 /\ DOMAIN (e \o z) = 1..8
       /\ (e \o z)[1] = g1 /\ (e \o z)[2] = g2 /\ (e \o z)[3] = g3 /\ (e \o z)[4] = g4
       /\ (e \o z)[5] = g5 /\ (e \o z)[6] = g6 /\ (e \o z)[7] = g7 /\ (e \o z)[8] = g8
  <2>1. /\ e \o z \in Seq(Groups) /\ Len(e \o z) = Len(e) + Len(z) /\ DOMAIN (e \o z) = 1..(Len(e) + Len(z))
        /\ \A i \in DOMAIN e : (e \o z)[i] = e[i]
        /\ \A i \in DOMAIN z : (e \o z)[i + Len(e)] = z[i]
    <3>1. e \in Seq(Groups) /\ z \in Seq(Groups)
      BY <1>8, <1>10
    <3>2. QED
      BY ONLY <3>1, JoinIs
  <2>2. 1 \in 1..7 /\ 2 \in 1..7 /\ 3 \in 1..7 /\ 4 \in 1..7 /\ 5 \in 1..7 /\ 6 \in 1..7 /\ 7 \in 1..7
        /\ 1 \in 1..1 /\ 1 + 7 = 8
    OBVIOUS
  <2>3. (e \o z)[1 + 7] = g8
    BY <1>8, <1>10, <2>1, <2>2
  <2>4. (e \o z)[1] = g1 /\ (e \o z)[2] = g2 /\ (e \o z)[3] = g3 /\ (e \o z)[4] = g4
        /\ (e \o z)[5] = g5 /\ (e \o z)[6] = g6 /\ (e \o z)[7] = g7
    BY <1>10, <2>1, <2>2
  <2>5. /\ e \o z \in Seq(Groups) /\ Len(e \o z) = 8 /\ DOMAIN (e \o z) = 1..8
    BY <1>8, <1>10, <2>1, <2>2
  <2>6. QED
    BY <2>2, <2>3, <2>4, <2>5
<1>12. EraseAccount(a) = e \o z
  BY <1>1 DEF e, u, w, z
<1>13. QED
  BY <1>11, <1>12 DEF g1, g2, g3, g4, g5, g6, g7, g8

(* The queries that a request can have for its rows. *)
RowQueries == Queries \ {None, "cache", "count", "store"}

(* What follows a query, per query. *)
LEMMA Expansions ==
    ASSUME NEW a \in Accounts
    PROVE  /\ Expand("move", a) = MoveRows(SetToSeq(Found("move", a)), a, TRUE)
           /\ Expand("receive", a) = MoveRows(SetToSeq(Found("receive", a)), a, FALSE)
           /\ Expand("read", a) = ReadRows(SetToSeq(Found("read", a)), a)
           /\ Expand("message", a) = DeleteRows("message", a)
           /\ Expand("archive", a) = DeleteRows("archive", a)
           /\ Expand("sentRows", a) = DeleteRows("sentRows", a)
           /\ Expand("sent", a) = <<Loose(DelRows(SetToSeq(Found("sent", a))))>>
           /\ Expand("unlink", a) = UnlinkRows(SetToSeq(Found("unlink", a)))
           /\ Expand("forget", a) = <<Loose(Forget(SetToSeq(Found("forget", a))))>>
           /\ Expand("account", a) = EraseAccount(a)
BY DEF Expand

LEMMA ExpandTypes ==
    ASSUME NEW a \in Accounts, NEW q \in RowQueries
    PROVE  Expand(q, a) \in Seq(Groups)
<1>1. q \in {"move", "receive", "read", "message", "archive", "sentRows", "sent", "unlink", "forget", "account"}
  BY DEF RowQueries, Queries
<1>2. /\ SetToSeq(Found("move", a)) \in Seq(KeysOf("message", a))
      /\ SetToSeq(Found("receive", a)) \in Seq(KeysOf("message", a))
      /\ SetToSeq(Found("read", a)) \in Seq(KeysOf("message", a))
      /\ SetToSeq(Found("sent", a)) \in Seq(KeysOf("sent", a))
      /\ SetToSeq(Found("unlink", a)) \in Seq(KeysOf("connection", a))
      /\ SetToSeq(Found("forget", a)) \in Seq(KeysOf("connection", a))
  BY FoundIs, TablesAre
<1>3. \A b \in Seq(Statements) : Loose(b) \in Groups
  <2>1. None \in Queries /\ TRUE \in BOOLEAN /\ 0 \in Int /\ a \in Accounts \cup {None}
    BY DEF Queries
  <2>2. QED
    BY <2>1, GroupTypes
<1>4. CASE q \in {"move", "receive"}
  <2>1. TRUE \in BOOLEAN /\ FALSE \in BOOLEAN
    OBVIOUS
  <2>2. QED
    BY <1>2, <1>4, <2>1, MoveRowsAre, Expansions
<1>5. CASE q = "read"
  BY <1>2, <1>5, ReadRowsAre, Expansions
<1>6. CASE q \in {"message", "archive", "sentRows"}
  BY <1>6, DeleteRowsAre, Expansions
<1>7. CASE q = "sent"
  <2>1. DelRows(SetToSeq(Found("sent", a))) \in Seq(Statements)
    BY <1>2, DelRowsAre
  <2>2. Loose(DelRows(SetToSeq(Found("sent", a)))) \in Groups
    BY <1>3, <2>1
  <2>3. <<Loose(DelRows(SetToSeq(Found("sent", a))))>> \in Seq(Groups)
    BY <2>2
  <2>4. QED
    BY <1>7, <2>3, Expansions
<1>8. CASE q = "unlink"
  BY <1>2, <1>8, UnlinkRowsAre, Expansions
<1>9. CASE q = "forget"
  <2>1. Forget(SetToSeq(Found("forget", a))) \in Seq(Statements)
    BY <1>2, ForgetIs
  <2>2. Loose(Forget(SetToSeq(Found("forget", a)))) \in Groups
    BY <1>3, <2>1
  <2>3. <<Loose(Forget(SetToSeq(Found("forget", a))))>> \in Seq(Groups)
    BY <2>2
  <2>4. QED
    BY <1>9, <2>3, Expansions
<1>10. CASE q = "account"
  BY <1>10, EraseAccountIs, Expansions
<1>11. QED
  BY <1>1, <1>4, <1>5, <1>6, <1>7, <1>8, <1>9, <1>10

(* The rows of a deletion's group are statements of the deletion. *)
LEMMA ErasureIs ==
    ASSUME NEW a \in Accounts
    PROVE  /\ \A k \in Keys : k.id = a /\ k.t \notin {"auth", "reference"} => Erasure(a, Del(k))
           /\ \A k \in KeysOf("connection", a) : Erasure(a, SoftDel(Mirror(k)))
           /\ Erasure(a, Update(Account(a), "deleted"))
           /\ Erasure(a, Del(Auth(a))) /\ Erasure(a, Del(Account(a))) /\ Erasure(a, Del(Counter(a)))
<1>1. /\ \A k \in Keys : k.id = a /\ k.t \notin {"auth", "reference"} => Erasure(a, Del(k))
      /\ \A k \in KeysOf("connection", a) : Erasure(a, SoftDel(Mirror(k)))
      /\ Erasure(a, Update(Account(a), "deleted")) /\ Erasure(a, Del(Auth(a)))
  BY DEF Erasure
<1>2. /\ Account(a) \in Keys /\ Account(a).t = "account" /\ Account(a).id = a
      /\ Counter(a) \in Keys /\ Counter(a).t = "counter" /\ Counter(a).id = a
  BY KeysAre, KeyFields DEF Account, Counter
<1>3. QED
  BY <1>1, <1>2

(* What follows a query of a request belongs to the request. *)
LEMMA ExpandShape ==
    ASSUME NEW a \in Accounts, NEW q \in RowQueries, NEW op, NEW x, QueryOf(op, q)
    PROVE  \A i \in DOMAIN Expand(q, a) : GroupOf(op, a, x, Expand(q, a)[i])
<1>1. /\ SetToSeq(Found("move", a)) \in Seq(KeysOf("message", a))
      /\ SetToSeq(Found("receive", a)) \in Seq(KeysOf("message", a))
      /\ SetToSeq(Found("read", a)) \in Seq(KeysOf("message", a))
      /\ SetToSeq(Found("sent", a)) \in Seq(KeysOf("sent", a))
      /\ SetToSeq(Found("unlink", a)) \in Seq(KeysOf("connection", a))
      /\ SetToSeq(Found("forget", a)) \in Seq(KeysOf("connection", a))
  BY FoundIs, TablesAre
<1>2. CASE op \in {"move", "receive"}
  <2>1. TRUE \in BOOLEAN /\ FALSE \in BOOLEAN /\ q = op
    BY <1>2 DEF QueryOf
  <2>2. \E strict \in BOOLEAN : Expand(q, a) = MoveRows(SetToSeq(Found(q, a)), a, strict)
    BY <1>2, <2>1, Expansions
  <2>3. \A i \in DOMAIN Expand(q, a) : \E k \in KeysOf("message", a) :
            Expand(q, a)[i].query = None /\ Expand(q, a)[i].body = ArchiveRow(k)
    <3>1. PICK strict \in BOOLEAN : Expand(q, a) = MoveRows(SetToSeq(Found(q, a)), a, strict)
      BY <2>2
    <3> DEFINE f == MoveRows(SetToSeq(Found(q, a)), a, strict)
    <3>2. \A i \in DOMAIN f : \E k \in KeysOf("message", a) : f[i].query = None /\ f[i].body = ArchiveRow(k)
      <4>1. SetToSeq(Found(q, a)) \in Seq(KeysOf("message", a))
        BY <1>1, <1>2, <2>1
      <4>2. QED
        BY <4>1, MoveRowsAre
    <3> HIDE DEF f
    <3>3. Expand(q, a) = f
      BY <3>1 DEF f
    <3>4. QED
      BY <3>2, <3>3
  <2>4. \A k \in KeysOf("message", a) : BodyOf(op, a, x, ArchiveRow(k))
    BY <1>2 DEF BodyOf, MoveBody
  <2>5. QED
    BY <2>3, <2>4 DEF GroupOf
<1>3. CASE op = "read"
  <2>1. q = "read"
    BY <1>3 DEF QueryOf
  <2>2. \A i \in DOMAIN Expand(q, a) : \E k \in KeysOf("message", a) :
            Expand(q, a)[i].query = None /\ Expand(q, a)[i].body = <<Update(k, "read")>>
    <3> DEFINE f == ReadRows(SetToSeq(Found("read", a)), a)
    <3>1. \A i \in DOMAIN f : \E k \in KeysOf("message", a) : f[i].query = None /\ f[i].body = <<Update(k, "read")>>
      BY <1>1, ReadRowsAre
    <3>2. Expand(q, a) = f
      BY <2>1, Expansions
    <3> HIDE DEF f
    <3>3. QED
      BY <3>1, <3>2
  <2>3. \A k \in KeysOf("message", a) : BodyOf(op, a, x, <<Update(k, "read")>>)
    BY <1>3 DEF BodyOf
  <2>4. QED
    BY <2>2, <2>3 DEF GroupOf
<1>4. CASE op \in {"delete", "deleteSent"}
  <2> DEFINE t == Table(q)
  <2>1. /\ Expand(q, a) = DeleteRows(q, a)
        /\ (t \in {"message", "archive"} /\ op = "delete") \/ (t = "sent" /\ op = "deleteSent")
    BY <1>4, Expansions, TablesAre DEF QueryOf
  <2> HIDE DEF t
  <2>2. \A i \in DOMAIN Expand(q, a) : \E k \in KeysOf(t, a) :
            Expand(q, a)[i].query = None /\ Expand(q, a)[i].body = <<Del(k)>>
    BY <2>1, DeleteRowsAre DEF t
  <2>3. \A k \in KeysOf(t, a) : BodyOf(op, a, x, <<Del(k)>>)
    BY <2>1 DEF BodyOf
  <2>4. QED
    BY <2>2, <2>3 DEF GroupOf
<1>5. CASE op = "unmakeAll"
  <2>1. q = "unlink"
    BY <1>5 DEF QueryOf
  <2>2. \A i \in DOMAIN Expand(q, a) : \E k \in KeysOf("connection", a) :
            Expand(q, a)[i].query = None /\ Expand(q, a)[i].body = Unlink(k)
    <3> DEFINE f == UnlinkRows(SetToSeq(Found("unlink", a)))
    <3>1. \A i \in DOMAIN f : \E k \in KeysOf("connection", a) : f[i].query = None /\ f[i].body = Unlink(k)
      BY <1>1, UnlinkRowsAre
    <3>2. Expand(q, a) = f
      BY <2>1, Expansions
    <3> HIDE DEF f
    <3>3. QED
      BY <3>1, <3>2
  <2>3. \A k \in KeysOf("connection", a) : BodyOf(op, a, x, Unlink(k))
    BY <1>5 DEF BodyOf, UnlinkBody
  <2>4. QED
    BY <2>2, <2>3 DEF GroupOf
<1>6. CASE op = "deleteAccount"
  <2>1. q \in {"account", "forget", "message", "archive", "sent"}
    BY <1>6 DEF QueryOf
  <2>2. \A body : (\A j \in DOMAIN body : Erasure(a, body[j])) => BodyOf(op, a, x, body)
    BY <1>6 DEF BodyOf
  <2>3. \A s : Erasure(a, s) => BodyOf(op, a, x, <<s>>)
    <3> SUFFICES ASSUME NEW s, Erasure(a, s) PROVE BodyOf(op, a, x, <<s>>)
      OBVIOUS
    <3>1. \A j \in DOMAIN <<s>> : <<s>>[j] = s
      OBVIOUS
    <3>2. QED
      BY <2>2, <3>1
  <2>4. CASE q = "account"
    <3> DEFINE e == EraseAccount(a)
    <3>1. /\ Expand(q, a) = e /\ DOMAIN e = 1..8
          /\ e[1] = Group(<<Del(Auth(a))>>) /\ e[2] = Group(<<Update(Account(a), "deleted")>>)
          /\ e[3] = LooseQuery("forget", a) /\ e[4] = Loose(<<Del(Counter(a))>>)
          /\ e[5] = LooseQuery("message", a) /\ e[6] = LooseQuery("archive", a)
          /\ e[7] = LooseQuery("sent", a) /\ e[8] = Group(<<Del(Account(a))>>)
      BY <2>4, EraseAccountIs, Expansions
    <3> HIDE DEF e
    <3>2. \A s : Erasure(a, s) => GroupOf(op, a, x, Group(<<s>>)) /\ GroupOf(op, a, x, Loose(<<s>>))
      <4> SUFFICES ASSUME NEW s, Erasure(a, s)
                   PROVE  GroupOf(op, a, x, Group(<<s>>)) /\ GroupOf(op, a, x, Loose(<<s>>))
        OBVIOUS
      <4>1. /\ Group(<<s>>).query = None /\ Group(<<s>>).body = <<s>>
            /\ Loose(<<s>>).query = None /\ Loose(<<s>>).body = <<s>>
        BY DEF Group, Loose, Series
      <4>2. BodyOf(op, a, x, <<s>>)
        BY <2>3
      <4>3. QED
        BY <4>1, <4>2 DEF GroupOf
    <3>3. /\ GroupOf(op, a, x, e[1]) /\ GroupOf(op, a, x, e[2])
          /\ GroupOf(op, a, x, e[4]) /\ GroupOf(op, a, x, e[8])
      BY <3>1, <3>2, ErasureIs
    <3>4. \A p : p # None /\ QueryOf(op, p) => GroupOf(op, a, x, LooseQuery(p, a))
      <4> SUFFICES ASSUME NEW p, p # None, QueryOf(op, p) PROVE GroupOf(op, a, x, LooseQuery(p, a))
        OBVIOUS
      <4>1. LooseQuery(p, a).query = p /\ LooseQuery(p, a).id = a /\ LooseQuery(p, a).body = <<>>
        BY DEF LooseQuery, Series
      <4>2. QED
        BY <4>1 DEF GroupOf
    <3>5. /\ GroupOf(op, a, x, e[3]) /\ GroupOf(op, a, x, e[5])
          /\ GroupOf(op, a, x, e[6]) /\ GroupOf(op, a, x, e[7])
      BY <1>6, <3>1, <3>4 DEF QueryOf, None
    <3>6. QED
      BY <3>1, <3>3, <3>5
  <2>5. CASE q \in {"message", "archive"}
    <3>1. \A i \in DOMAIN Expand(q, a) : \E k \in KeysOf(q, a) :
              Expand(q, a)[i].query = None /\ Expand(q, a)[i].body = <<Del(k)>>
      <4> DEFINE f == DeleteRows(q, a)
      <4>1. \A i \in DOMAIN f : \E k \in KeysOf(q, a) : f[i].query = None /\ f[i].body = <<Del(k)>>
        BY <2>5, DeleteRowsAre, TablesAre
      <4>2. Expand(q, a) = f
        BY <2>5, Expansions
      <4> HIDE DEF f
      <4>3. QED
        BY <4>1, <4>2
    <3>2. \A k \in KeysOf(q, a) : BodyOf(op, a, x, <<Del(k)>>)
      BY <2>3, <2>5, ErasureIs DEF KeysOf
    <3>3. QED
      BY <3>1, <3>2 DEF GroupOf
  <2>6. CASE q = "sent"
    <3> DEFINE ks == SetToSeq(Found("sent", a))
    <3>1. \A i \in DOMAIN DelRows(ks) : ks[i] \in KeysOf("sent", a) /\ DelRows(ks)[i] = Del(ks[i])
      BY <1>1, DelRowsAre
    <3>2. \A i \in DOMAIN DelRows(ks) : Erasure(a, DelRows(ks)[i])
      BY <3>1, ErasureIs DEF KeysOf
    <3>3. BodyOf(op, a, x, DelRows(ks))
      BY <2>2, <3>2
    <3>4. GroupOf(op, a, x, Loose(DelRows(ks)))
      BY <3>3, GroupFields DEF GroupOf
    <3>5. Expand(q, a) = <<Loose(DelRows(ks))>>
      BY <2>6, Expansions
    <3>6. QED
      BY <3>4, <3>5
  <2>7. CASE q = "forget"
    <3> DEFINE ks == SetToSeq(Found("forget", a))
    <3>1. \A j \in DOMAIN Forget(ks) :
                \/ \E k \in KeysOf("connection", a) : Forget(ks)[j] = SoftDel(Mirror(k))
                \/ \E k \in KeysOf("connection", a) : Forget(ks)[j] = Del(k)
      BY <1>1, ForgetIs
    <3>2. \A i \in DOMAIN Forget(ks) : Erasure(a, Forget(ks)[i])
      BY <3>1, ErasureIs DEF KeysOf
    <3>3. BodyOf(op, a, x, Forget(ks))
      BY <2>2, <3>2
    <3>4. GroupOf(op, a, x, Loose(Forget(ks)))
      BY <3>3, GroupFields DEF GroupOf
    <3>5. Expand(q, a) = <<Loose(Forget(ks))>>
      BY <2>7, Expansions
    <3>6. QED
      BY <3>4, <3>5
  <2>8. QED
    BY <2>1, <2>4, <2>5, <2>6, <2>7
<1>7. QED
  BY <1>2, <1>3, <1>4, <1>5, <1>6 DEF QueryOf, RowQueries

-----------------------------------------------------------------------------
(* How the groups of a request change *)

(* A request without its first group is still what its operation does. *)
LEMMA TailShape ==
    ASSUME NEW op, NEW a, NEW x, NEW gs \in Seq(Groups), gs # <<>>, ShapedAs(op, a, x, gs), Tail(gs) # <<>>
    PROVE  ShapedAs(op, a, x, Tail(gs)) /\ op \notin Single
<1>1. /\ Len(gs) \in Nat /\ Len(Tail(gs)) = Len(gs) - 1
      /\ DOMAIN gs = 1..Len(gs) /\ DOMAIN Tail(gs) = 1..(Len(gs) - 1)
      /\ \A i \in DOMAIN Tail(gs) : i + 1 \in DOMAIN gs /\ Tail(gs)[i] = gs[i + 1]
      /\ Len(gs) = 1 <=> Tail(gs) = <<>>
  BY TailIs
<1>2. op \notin Single
  <2>1. op \in Single => Len(gs) = 1
    BY DEF ShapedAs
  <2>2. QED
    BY <1>1, <2>1
<1>3. op \notin {"make", "unmake", "unread"} /\ op # "make"
  BY <1>2 DEF Single
<1>4. \A i \in DOMAIN Tail(gs) : GroupOf(op, a, x, Tail(gs)[i])
  BY <1>1 DEF ShapedAs
<1>5. ASSUME op = "deleteAccount" PROVE ErasureOrder(a, Tail(gs))
  <2>1. ErasureOrder(a, gs)
    BY <1>5 DEF ShapedAs
  <2> SUFFICES ASSUME NEW i \in DOMAIN Tail(gs)
               PROVE  /\ Tail(gs)[i].query # "account"
                      /\ \A j \in DOMAIN Tail(gs)[i].body :
                           /\ Tail(gs)[i].body[j] # Del(Auth(a))
                           /\ Tail(gs)[i].body[j] = Del(Account(a)) =>
                                i = Len(Tail(gs)) /\ Tail(gs)[i].body = <<Del(Account(a))>>
                           /\ \A k \in KeysOf("connection", a) : Tail(gs)[i].body[j] # Del(k)
    BY DEF ErasureOrder
  <2>2. i \in Nat /\ i >= 1 /\ i + 1 \in DOMAIN gs /\ Tail(gs)[i] = gs[i + 1] /\ i + 1 # 1
    BY <1>1
  <2>3. i + 1 = Len(gs) => i = Len(Tail(gs))
    <3> DEFINE n == Len(gs)
               m == Len(Tail(gs))
    <3>1. n \in Nat /\ m = n - 1 /\ i \in Nat
      BY <1>1, <2>2
    <3> HIDE DEF n, m
    <3>2. i + 1 = n => i = m
      BY <3>1
    <3>3. QED
      BY <3>2 DEF n, m
  <2>4. gs[i + 1].query # "account"
    <3>1. gs # <<Query("account", a)>>
      <4>1. Len(<<Query("account", a)>>) = 1
        OBVIOUS
      <4>2. QED
        BY <1>1, <4>1
    <3>2. QED
      BY <2>1, <2>2, <3>1 DEF ErasureOrder
  <2>5. \A j \in DOMAIN gs[i + 1].body :
             /\ gs[i + 1].body[j] # Del(Auth(a))
             /\ gs[i + 1].body[j] = Del(Account(a)) => i + 1 = Len(gs) /\ gs[i + 1].body = <<Del(Account(a))>>
             /\ \A k \in KeysOf("connection", a) : gs[i + 1].body[j] # Del(k)
    BY <2>1, <2>2 DEF ErasureOrder
  <2>6. QED
    BY <2>2, <2>3, <2>4, <2>5
<1>6. QED
  BY <1>2, <1>3, <1>4, <1>5 DEF ShapedAs

(* Pairs and single statements. *)
LEMMA PairIs ==
    ASSUME NEW s, NEW u
    PROVE  /\ Len(<<s, u>>) = 2 /\ Head(<<s, u>>) = s /\ Tail(<<s, u>>) = <<u>> /\ DOMAIN <<s, u>> = 1..2
           /\ Len(<<s>>) = 1 /\ Head(<<s>>) = s /\ Tail(<<s>>) = <<>> /\ DOMAIN <<s>> = 1..1
           /\ <<s>>[1] = s /\ <<s, u>> # <<>> /\ <<s>> # <<>>
OBVIOUS

(* The second statement of a pair is what is left of it. *)
LEMMA BodyTail ==
    ASSUME NEW op, NEW a, NEW x, NEW body \in Seq(Statements), BodyOf(op, a, x, body), body # <<>>, Len(body) # 1
    PROVE  /\ BodyOf(op, a, x, Tail(body))
           /\ op = "make" => Tail(body) # <<SoftDel(Key("connection", a, x))>>
<1>1. CASE op = "addAccount"
  <2>1. body = <<AddLogin(a), AddOrUndo(Account(a), Auth(a))>>
    BY <1>1, PairIs DEF BodyOf, AddBody
  <2>2. Tail(body) = <<AddOrUndo(Account(a), Auth(a))>>
    BY <2>1, PairIs
  <2>3. QED
    BY <1>1, <2>2 DEF BodyOf, AddBody
<1>2. CASE op = "make"
  <2> DEFINE k == Key("connection", a, x)
  <2>0. x \in Accounts /\ x # a /\ MakeBody(k, body)
    BY <1>2 DEF BodyOf
  <2> HIDE DEF k
  <2>1. body = <<Put(k), PutOrUndo(Mirror(k), k)>> \/ body = <<Add(k), AddOrUndo(Mirror(k), k)>>
    <3>1. \A s : Len(<<s>>) = 1
      BY PairIs
    <3>2. body \notin {<<PutOrUndo(Mirror(k), k)>>, <<AddOrUndo(Mirror(k), k)>>, <<SoftDel(k)>>}
      BY <3>1
    <3>3. QED
      BY <2>0, <3>2 DEF MakeBody
  <2>2. Tail(body) = <<PutOrUndo(Mirror(k), k)>> \/ Tail(body) = <<AddOrUndo(Mirror(k), k)>>
    <3>1. \A s, u : Tail(<<s, u>>) = <<u>>
      BY PairIs
    <3>2. QED
      BY <2>1, <3>1
  <2>3. PutOrUndo(Mirror(k), k) # SoftDel(k) /\ AddOrUndo(Mirror(k), k) # SoftDel(k)
    <3>1. PutOrUndo(Mirror(k), k).soft = FALSE /\ AddOrUndo(Mirror(k), k).soft = FALSE /\ SoftDel(k).soft = TRUE
      BY DEF PutOrUndo, AddOrUndo, SoftDel, Sql
    <3>2. QED
      BY <3>1
  <2>4. Tail(body) # <<SoftDel(k)>>
    BY <2>2, <2>3, PairIs
  <2>5. MakeBody(k, Tail(body))
    BY <2>2 DEF MakeBody
  <2>6. QED
    BY <1>2, <2>0, <2>4, <2>5 DEF BodyOf, k
<1>3. CASE op \in {"unmake", "unmakeAll"}
  <2>1. \A k : UnlinkBody(k, body) => UnlinkBody(k, Tail(body))
    <3> SUFFICES ASSUME NEW k, UnlinkBody(k, body) PROVE UnlinkBody(k, Tail(body))
      OBVIOUS
    <3>1. body = <<Del(k), Del(Mirror(k))>>
      BY PairIs DEF UnlinkBody, Unlink
    <3>2. Tail(body) = <<Del(Mirror(k))>>
      BY <3>1, PairIs
    <3>3. QED
      BY <3>2 DEF UnlinkBody
  <2>2. QED
    BY <1>3, <2>1 DEF BodyOf
<1>4. CASE op = "send"
  <2>1. x \in Messages /\ a = Sender[x] /\ SendBody(x, body)
    BY <1>4 DEF BodyOf
  <2>2. body = <<Add(Key("message", Recipient[x], x)), SoftAdd(Key("sent", Sender[x], x))>>
    BY <2>1, PairIs DEF SendBody
  <2>3. Tail(body) = <<SoftAdd(Key("sent", Sender[x], x))>>
    BY <2>2, PairIs
  <2>4. SendBody(x, Tail(body))
    BY <2>3 DEF SendBody
  <2>5. QED
    BY <1>4, <2>1, <2>4 DEF BodyOf
<1>5. CASE op \in {"move", "receive"}
  <2>1. \A k : MoveBody(k, body) => MoveBody(k, Tail(body))
    <3> SUFFICES ASSUME NEW k, MoveBody(k, body) PROVE MoveBody(k, Tail(body))
      OBVIOUS
    <3>1. body = <<Put([k EXCEPT !.t = "archive"]), Del(k)>>
      BY PairIs DEF MoveBody, ArchiveRow
    <3>2. Tail(body) = <<Del(k)>>
      BY <3>1, PairIs
    <3>3. QED
      BY <3>2 DEF MoveBody
  <2>2. QED
    BY <1>5, <2>1 DEF BodyOf
<1>6. CASE op \in {"read", "delete", "deleteSent"}
  <2>1. \E s : body = <<s>>
    BY <1>6 DEF BodyOf
  <2>2. QED
    BY <2>1, PairIs
<1>7. CASE op = "deleteAccount"
  <2>1. \A i \in DOMAIN body : Erasure(a, body[i])
    BY <1>7 DEF BodyOf
  <2>2. \A i \in DOMAIN Tail(body) : i + 1 \in DOMAIN body /\ Tail(body)[i] = body[i + 1]
    BY TailIs
  <2>3. \A i \in DOMAIN Tail(body) : Erasure(a, Tail(body)[i])
    BY <2>1, <2>2
  <2>4. QED
    BY <1>7, <2>3 DEF BodyOf
<1>8. QED
  BY <1>1, <1>2, <1>3, <1>4, <1>5, <1>6, <1>7 DEF BodyOf

(* The current group without its first statement. *)
Popped(gs) == <<[Head(gs) EXCEPT !.body = Tail(@)]>> \o Tail(gs)

(* The current group after an error: it undoes what it did, and has failed. *)
Undoing(gs, k) == <<[Head(gs) EXCEPT !.body = <<SoftDel(k)>>, !.doomed = TRUE]>> \o Tail(gs)

LEMMA PoppedIs ==
    ASSUME NEW gs \in Seq(Groups), gs # <<>>, Head(gs).body # <<>>
    PROVE  /\ Popped(gs) \in Seq(Groups) /\ Popped(gs) # <<>> /\ Tail(Popped(gs)) = Tail(gs)
           /\ Len(Popped(gs)) = Len(gs) /\ DOMAIN Popped(gs) = DOMAIN gs
           /\ Head(Popped(gs)) = Popped(gs)[1]
           /\ Head(Popped(gs)).query = Head(gs).query /\ Head(Popped(gs)).strict = Head(gs).strict
           /\ Head(Popped(gs)).id = Head(gs).id /\ Head(Popped(gs)).bump = Head(gs).bump
           /\ Head(Popped(gs)).always = Head(gs).always
           /\ Head(Popped(gs)).doomed = Head(gs).doomed /\ Head(Popped(gs)).body = Tail(Head(gs).body)
           /\ \A i \in DOMAIN gs : i # 1 => Popped(gs)[i] = gs[i]
<1> DEFINE g == Head(gs)
           h == [g EXCEPT !.body = Tail(@)]
<1>1. /\ Tail(gs) \in Seq(Groups) /\ g \in Groups /\ Len(gs) \in Nat /\ Len(Tail(gs)) = Len(gs) - 1
      /\ DOMAIN gs = 1..Len(gs) /\ DOMAIN Tail(gs) = 1..(Len(gs) - 1)
      /\ \A i \in DOMAIN Tail(gs) : i + 1 \in DOMAIN gs /\ Tail(gs)[i] = gs[i + 1]
  BY TailIs
<1>2. Tail(g.body) \in Seq(Statements)
  <2>1. g.body \in Seq(Statements)
    BY <1>1 DEF Groups
  <2>2. QED
    BY <2>1, TailIs
<1>3. h \in Groups /\ h.query = g.query /\ h.strict = g.strict /\ h.doomed = g.doomed /\ h.body = Tail(g.body)
      /\ h.id = g.id /\ h.bump = g.bump /\ h.always = g.always
  BY <1>1, <1>2 DEF Groups
<1> HIDE DEF h, g
<1>4. /\ <<h>> \o Tail(gs) \in Seq(Groups) /\ <<h>> \o Tail(gs) # <<>>
      /\ Len(<<h>> \o Tail(gs)) = Len(Tail(gs)) + 1
      /\ Head(<<h>> \o Tail(gs)) = h /\ Tail(<<h>> \o Tail(gs)) = Tail(gs) /\ (<<h>> \o Tail(gs))[1] = h
      /\ DOMAIN (<<h>> \o Tail(gs)) = 1..(Len(Tail(gs)) + 1)
      /\ \A i \in DOMAIN (<<h>> \o Tail(gs)) :
            i = 1 \/ (i - 1 \in DOMAIN Tail(gs) /\ (<<h>> \o Tail(gs))[i] = Tail(gs)[i - 1])
  <2>1. h \in Groups /\ Tail(gs) \in Seq(Groups)
    BY <1>1, <1>3
  <2>2. QED
    BY ONLY <2>1, ConsIs
<1>5. Popped(gs) = <<h>> \o Tail(gs)
  BY DEF Popped, h, g
<1> DEFINE p == Popped(gs)
           t == Tail(gs)
<1> HIDE DEF p, t
<1>6. /\ p \in Seq(Groups) /\ p # <<>> /\ Len(p) = Len(t) + 1 /\ Head(p) = h /\ Tail(p) = t /\ p[1] = h
      /\ DOMAIN p = 1..(Len(t) + 1) /\ \A i \in DOMAIN p : i = 1 \/ (i - 1 \in DOMAIN t /\ p[i] = t[i - 1])
  BY <1>4, <1>5 DEF p, t
<1>7. /\ Len(gs) \in Nat /\ Len(t) = Len(gs) - 1 /\ DOMAIN gs = 1..Len(gs)
      /\ \A i \in DOMAIN t : i + 1 \in DOMAIN gs /\ t[i] = gs[i + 1]
  BY <1>1 DEF t
<1>8. Len(p) = Len(gs) /\ DOMAIN p = DOMAIN gs
  BY <1>6, <1>7
<1>9. \A i \in DOMAIN gs : i # 1 => p[i] = gs[i]
  <2> SUFFICES ASSUME NEW i \in DOMAIN gs, i # 1 PROVE p[i] = gs[i]
    OBVIOUS
  <2>1. i - 1 \in DOMAIN t /\ p[i] = t[i - 1]
    BY <1>6, <1>8
  <2>2. t[i - 1] = gs[(i - 1) + 1] /\ (i - 1) + 1 = i
    BY <1>7, <2>1
  <2>3. QED
    BY <2>1, <2>2
<1>10. QED
  BY <1>3, <1>6, <1>8, <1>9 DEF p, t, g

LEMMA UndoingIs ==
    ASSUME NEW gs \in Seq(Groups), gs # <<>>, NEW k \in Keys
    PROVE  /\ Undoing(gs, k) \in Seq(Groups) /\ Undoing(gs, k) # <<>> /\ Tail(Undoing(gs, k)) = Tail(gs)
           /\ Len(Undoing(gs, k)) = Len(gs) /\ DOMAIN Undoing(gs, k) = DOMAIN gs
           /\ Head(Undoing(gs, k)) = Undoing(gs, k)[1]
           /\ Head(Undoing(gs, k)).query = Head(gs).query /\ Head(Undoing(gs, k)).strict = Head(gs).strict
           /\ Head(Undoing(gs, k)).doomed = TRUE /\ Head(Undoing(gs, k)).body = <<SoftDel(k)>>
           /\ \A i \in DOMAIN gs : i # 1 => Undoing(gs, k)[i] = gs[i]
<1> DEFINE g == Head(gs)
           h == [g EXCEPT !.body = <<SoftDel(k)>>, !.doomed = TRUE]
<1>1. /\ Tail(gs) \in Seq(Groups) /\ g \in Groups /\ Len(gs) \in Nat /\ Len(Tail(gs)) = Len(gs) - 1
      /\ DOMAIN gs = 1..Len(gs) /\ DOMAIN Tail(gs) = 1..(Len(gs) - 1)
      /\ \A i \in DOMAIN Tail(gs) : i + 1 \in DOMAIN gs /\ Tail(gs)[i] = gs[i + 1]
  BY TailIs
<1>2. <<SoftDel(k)>> \in Seq(Statements)
  BY BodyTypes
<1>3. h \in Groups /\ h.query = g.query /\ h.strict = g.strict /\ h.doomed = TRUE /\ h.body = <<SoftDel(k)>>
  BY <1>1, <1>2 DEF Groups
<1> HIDE DEF h, g
<1>4. /\ <<h>> \o Tail(gs) \in Seq(Groups) /\ <<h>> \o Tail(gs) # <<>>
      /\ Len(<<h>> \o Tail(gs)) = Len(Tail(gs)) + 1
      /\ Head(<<h>> \o Tail(gs)) = h /\ Tail(<<h>> \o Tail(gs)) = Tail(gs) /\ (<<h>> \o Tail(gs))[1] = h
      /\ DOMAIN (<<h>> \o Tail(gs)) = 1..(Len(Tail(gs)) + 1)
      /\ \A i \in DOMAIN (<<h>> \o Tail(gs)) :
            i = 1 \/ (i - 1 \in DOMAIN Tail(gs) /\ (<<h>> \o Tail(gs))[i] = Tail(gs)[i - 1])
  <2>1. h \in Groups /\ Tail(gs) \in Seq(Groups)
    BY <1>1, <1>3
  <2>2. QED
    BY ONLY <2>1, ConsIs
<1>5. Undoing(gs, k) = <<h>> \o Tail(gs)
  BY DEF Undoing, h, g
<1> DEFINE p == Undoing(gs, k)
           t == Tail(gs)
<1> HIDE DEF p, t
<1>6. /\ p \in Seq(Groups) /\ p # <<>> /\ Len(p) = Len(t) + 1 /\ Head(p) = h /\ Tail(p) = t /\ p[1] = h
      /\ DOMAIN p = 1..(Len(t) + 1) /\ \A i \in DOMAIN p : i = 1 \/ (i - 1 \in DOMAIN t /\ p[i] = t[i - 1])
  BY <1>4, <1>5 DEF p, t
<1>7. /\ Len(gs) \in Nat /\ Len(t) = Len(gs) - 1 /\ DOMAIN gs = 1..Len(gs)
      /\ \A i \in DOMAIN t : i + 1 \in DOMAIN gs /\ t[i] = gs[i + 1]
  BY <1>1 DEF t
<1>8. Len(p) = Len(gs) /\ DOMAIN p = DOMAIN gs
  BY <1>6, <1>7
<1>9. \A i \in DOMAIN gs : i # 1 => p[i] = gs[i]
  <2> SUFFICES ASSUME NEW i \in DOMAIN gs, i # 1 PROVE p[i] = gs[i]
    OBVIOUS
  <2>1. i - 1 \in DOMAIN t /\ p[i] = t[i - 1]
    BY <1>6, <1>8
  <2>2. t[i - 1] = gs[(i - 1) + 1] /\ (i - 1) + 1 = i
    BY <1>7, <2>1
  <2>3. QED
    BY <2>1, <2>2
<1>10. QED
  BY <1>3, <1>6, <1>8, <1>9 DEF p, t, g

(* Statements that remove rows are told apart by their rows. *)
LEMMA DelIsOne ==
    ASSUME NEW k, NEW h
    PROVE  /\ Del(k) = Del(h) <=> k = h
           /\ Del(k) # SoftDel(h)
           /\ Del(k) # Update(h, "deleted")
<1>1. Del(k).k = k /\ Del(h).k = h
  BY DEF Del, Sql
<1>2. Del(k).soft = FALSE /\ SoftDel(h).soft = TRUE
  BY DEF Del, SoftDel, Sql
<1>3. Del(k).onto = "all" /\ Update(h, "deleted").onto = "present"
  BY DEF Del, Update, Sql
<1>4. QED
  BY <1>1, <1>2, <1>3

LEMMA PoppedShape ==
    ASSUME NEW op, NEW a, NEW x, NEW gs \in Seq(Groups), gs # <<>>, ShapedAs(op, a, x, gs),
           Head(gs).query = None, Head(gs).body # <<>>, Len(Head(gs).body) # 1
    PROVE  ShapedAs(op, a, x, Popped(gs))
<1> DEFINE p == Popped(gs)
           g == Head(gs)
<1>1. /\ Len(p) = Len(gs) /\ DOMAIN p = DOMAIN gs /\ Head(p) = p[1]
      /\ Head(p).query = g.query /\ Head(p).strict = g.strict /\ Head(p).body = Tail(g.body)
      /\ \A i \in DOMAIN gs : i # 1 => p[i] = gs[i]
  BY PoppedIs
<1>2. 1 \in DOMAIN gs /\ g = gs[1] /\ g \in Groups /\ DOMAIN gs = 1..Len(gs) /\ Len(gs) \in Nat
  BY TailIs
<1>3. g.body \in Seq(Statements)
  BY <1>2 DEF Groups
<1> HIDE DEF p, g
<1>4. BodyOf(op, a, x, g.body)
  BY <1>2 DEF ShapedAs, GroupOf, g
<1>5. BodyOf(op, a, x, Tail(g.body)) /\ (op = "make" => Tail(g.body) # <<SoftDel(Key("connection", a, x))>>)
  BY <1>3, <1>4, BodyTail DEF g
<1>6. \A i \in DOMAIN p : GroupOf(op, a, x, p[i])
  <2> SUFFICES ASSUME NEW i \in DOMAIN p PROVE GroupOf(op, a, x, p[i])
    OBVIOUS
  <2>1. CASE i = 1
    <3>1. p[1].query = None /\ p[1].body = Tail(g.body)
      BY <1>1 DEF g
    <3>2. QED
      BY <1>5, <2>1, <3>1 DEF GroupOf
  <2>2. CASE i # 1
    BY <1>1, <2>2 DEF ShapedAs
  <2>3. QED
    BY <2>1, <2>2
<1>7. ASSUME op = "deleteAccount" PROVE ErasureOrder(a, p)
  <2>1. ErasureOrder(a, gs)
    BY <1>7 DEF ShapedAs
  <2>2. /\ Tail(g.body) \in Seq(Statements) /\ g.body # <<>> /\ Len(g.body) # 1
        /\ \A j \in DOMAIN Tail(g.body) : j \in Nat /\ j >= 1 /\ j + 1 \in DOMAIN g.body /\ Tail(g.body)[j] = g.body[j + 1]
        /\ \A j \in DOMAIN Tail(g.body) : j > 1 => j - 1 \in DOMAIN Tail(g.body)
    <3>1. g.body # <<>> /\ Len(g.body) # 1
      BY DEF g
    <3>2. /\ Tail(g.body) \in Seq(Statements) /\ DOMAIN Tail(g.body) = 1..(Len(g.body) - 1) /\ Len(g.body) \in Nat
          /\ \A j \in DOMAIN Tail(g.body) : j + 1 \in DOMAIN g.body /\ Tail(g.body)[j] = g.body[j + 1]
      BY <1>3, <3>1, TailIs
    <3>3. QED
      BY <3>1, <3>2
  <2> SUFFICES ASSUME NEW i \in DOMAIN p
               PROVE  /\ p[i].query = "account" => p = <<Query("account", a)>>
                      /\ \A j \in DOMAIN p[i].body :
                         /\ p[i].body[j] = Del(Auth(a)) => i = 1 /\ p[i].body = <<Del(Auth(a))>>
                         /\ p[i].body[j] = Del(Account(a)) => i = Len(p) /\ p[i].body = <<Del(Account(a))>>
                         /\ \A k \in KeysOf("connection", a) :
                              p[i].body[j] = Del(k) =>
                                  i = 1 /\ (j = 1 \/ (j > 1 /\ p[i].body[j - 1] = SoftDel(Mirror(k))))
    BY DEF ErasureOrder
  <2>3. gs # <<Query("account", a)>>
    <3>1. Head(<<Query("account", a)>>) = Query("account", a) /\ Query("account", a).query = "account"
      BY DEF Query, Series
    <3>2. g.query = None
      BY DEF g
    <3>3. QED
      BY <3>1, <3>2 DEF g, None
  <2>4. CASE i = 1
    <3>1. p[1].query = None /\ p[1].body = Tail(g.body)
      BY <1>1 DEF g
    <3>2. ASSUME NEW j \in DOMAIN Tail(g.body)
          PROVE  /\ Tail(g.body)[j] # Del(Auth(a)) /\ Tail(g.body)[j] # Del(Account(a))
                 /\ \A k \in KeysOf("connection", a) :
                      Tail(g.body)[j] = Del(k) => j = 1 \/ (j > 1 /\ Tail(g.body)[j - 1] = SoftDel(Mirror(k)))
      <4>1. j \in Nat /\ j >= 1 /\ j + 1 \in DOMAIN g.body /\ Tail(g.body)[j] = g.body[j + 1]
        BY <2>2
      <4>2. \A s : Len(<<s>>) = 1
        OBVIOUS
      <4>3. Tail(g.body)[j] # Del(Auth(a)) /\ Tail(g.body)[j] # Del(Account(a))
        BY <1>2, <2>1, <2>2, <4>1, <4>2 DEF ErasureOrder
      <4>4. \A k \in KeysOf("connection", a) : g.body[j + 1] = Del(k) => g.body[(j + 1) - 1] = SoftDel(Mirror(k))
        <5>1. j + 1 # 1
          BY <4>1
        <5>2. QED
          BY <1>2, <2>1, <4>1, <5>1 DEF ErasureOrder
      <4>5. (j + 1) - 1 = j
        BY <4>1
      <4>6. j > 1 => j - 1 \in DOMAIN Tail(g.body) /\ Tail(g.body)[j - 1] = g.body[(j - 1) + 1] /\ (j - 1) + 1 = j
        BY <2>2, <4>1
      <4>7. j = 1 \/ j > 1
        BY <4>1
      <4>8. QED
        BY <4>1, <4>3, <4>4, <4>5, <4>6, <4>7
    <3>3. QED
      BY <2>4, <3>1, <3>2 DEF None
  <2>5. CASE i # 1
    <3>1. p[i] = gs[i] /\ i \in DOMAIN gs /\ Len(p) = Len(gs)
      BY <1>1, <2>5
    <3>2. gs[i].query # "account"
      BY <2>1, <2>3, <3>1 DEF ErasureOrder
    <3>3. QED
      BY <2>1, <2>5, <3>1, <3>2 DEF ErasureOrder
  <2>6. QED
    BY <2>4, <2>5
<1>8. op \in Single => Len(p) = 1
  BY <1>1 DEF ShapedAs
<1>9. op \in {"make", "unmake", "unread"} => Head(p).strict
  BY <1>1 DEF ShapedAs, g
<1>10. (op = "make" /\ Head(p).body = <<SoftDel(Key("connection", a, x))>>) => Head(p).doomed
  BY <1>1, <1>5
<1>11. QED
  BY <1>6, <1>7, <1>8, <1>9, <1>10 DEF ShapedAs, p

(* A statement of a request is undone only when an account or a connection is made. *)
LEMMA UndoOf ==
    ASSUME NEW op, NEW a \in Accounts, NEW x, NEW body, BodyOf(op, a, x, body), body \in Seq(Statements), body # <<>>,
           Head(body).undo # NoKey
    PROVE  \/ op = "addAccount" /\ Head(body).undo = Auth(a) /\ body = <<AddOrUndo(Account(a), Auth(a))>>
           \/ /\ op = "make" /\ x \in Accounts /\ x # a /\ Head(body).undo = Key("connection", a, x)
              /\ body \in {<<PutOrUndo(Mirror(Key("connection", a, x)), Key("connection", a, x))>>,
                           <<AddOrUndo(Mirror(Key("connection", a, x)), Key("connection", a, x))>>}
<1>0. \A s, u : Head(<<s, u>>) = s /\ Head(<<s>>) = s
  BY PairIs
<1>00. \A k, v : /\ Put(k).undo = NoKey /\ Add(k).undo = NoKey /\ Del(k).undo = NoKey /\ SoftDel(k).undo = NoKey
                 /\ SoftAdd(k).undo = NoKey /\ Update(k, v).undo = NoKey /\ AddLogin(k).undo = NoKey
  BY DEF AddLogin, Put, Add, Del, SoftDel, SoftAdd, Update, Sql
<1>000. \A k, u : AddOrUndo(k, u).undo = u /\ PutOrUndo(k, u).undo = u
  BY DEF AddOrUndo, PutOrUndo, Sql
<1>1. CASE op = "addAccount"
  BY <1>0, <1>00, <1>000, <1>1 DEF BodyOf, AddBody
<1>2. CASE op = "make"
  BY <1>0, <1>00, <1>000, <1>2 DEF BodyOf, MakeBody
<1>3. CASE op \in {"unmake", "unmakeAll"}
  <2>1. \E k : UnlinkBody(k, body)
    BY <1>3 DEF BodyOf
  <2>2. QED
    BY <1>0, <1>00, <2>1 DEF UnlinkBody, Unlink
<1>4. CASE op = "send"
  <2>1. SendBody(x, body)
    BY <1>4 DEF BodyOf
  <2>2. QED
    BY <1>0, <1>00, <2>1 DEF SendBody
<1>5. CASE op \in {"move", "receive"}
  <2>1. \E k : MoveBody(k, body)
    BY <1>5 DEF BodyOf
  <2>2. QED
    BY <1>0, <1>00, <2>1 DEF MoveBody, ArchiveRow
<1>6. CASE op \in {"read", "delete", "deleteSent"}
  <2>1. \E k : body = <<Update(k, "read")>> \/ body = <<Del(k)>>
    BY <1>6 DEF BodyOf
  <2>2. QED
    BY <1>0, <1>00, <2>1
<1>7. CASE op = "deleteAccount"
  <2>1. Erasure(a, body[1]) /\ Head(body) = body[1]
    BY <1>7, TailIs DEF BodyOf
  <2>2. QED
    BY <1>00, <2>1 DEF Erasure
<1>8. QED
  BY <1>1, <1>2, <1>3, <1>4, <1>5, <1>6, <1>7 DEF BodyOf

LEMMA UndoingShape ==
    ASSUME NEW op, NEW a \in Accounts, NEW x, NEW gs \in Seq(Groups), gs # <<>>, ShapedAs(op, a, x, gs),
           Head(gs).query = None, Head(gs).body # <<>>, Head(Head(gs).body).undo # NoKey
    PROVE  /\ Head(Head(gs).body).undo \in Keys
           /\ ShapedAs(op, a, x, Undoing(gs, Head(Head(gs).body).undo))
<1> DEFINE g == Head(gs)
           k == Head(g.body).undo
           p == Undoing(gs, k)
<1>1. 1 \in DOMAIN gs /\ g = gs[1] /\ g \in Groups
  BY TailIs
<1>2. g.body \in Seq(Statements) /\ BodyOf(op, a, x, g.body)
  BY <1>1 DEF Groups, ShapedAs, GroupOf
<1>3. \/ op = "addAccount" /\ k = Auth(a)
      \/ op = "make" /\ x \in Accounts /\ x # a /\ k = Key("connection", a, x)
  BY <1>2, UndoOf
<1>4. k \in Keys
  BY <1>3, KeysAre DEF Auth
<1>5. /\ Len(p) = Len(gs) /\ DOMAIN p = DOMAIN gs /\ Head(p) = p[1]
      /\ Head(p).query = g.query /\ Head(p).strict = g.strict /\ Head(p).doomed = TRUE /\ Head(p).body = <<SoftDel(k)>>
      /\ \A i \in DOMAIN gs : i # 1 => p[i] = gs[i]
  BY <1>4, UndoingIs
<1> HIDE DEF p
<1>6. BodyOf(op, a, x, <<SoftDel(k)>>)
  BY <1>3 DEF BodyOf, AddBody, MakeBody
<1>7. \A i \in DOMAIN p : GroupOf(op, a, x, p[i])
  <2> SUFFICES ASSUME NEW i \in DOMAIN p PROVE GroupOf(op, a, x, p[i])
    OBVIOUS
  <2>1. CASE i = 1
    BY <1>5, <1>6, <2>1 DEF GroupOf
  <2>2. CASE i # 1
    BY <1>5, <2>2 DEF ShapedAs
  <2>3. QED
    BY <2>1, <2>2
<1>8. op \in Single => Len(p) = 1
  BY <1>5 DEF ShapedAs
<1>9. op \in {"make", "unmake", "unread"} => Head(p).strict
  BY <1>5 DEF ShapedAs
<1>10. Head(p).doomed /\ op # "deleteAccount"
  BY <1>3, <1>5
<1>11. ShapedAs(op, a, x, p)
  BY <1>7, <1>8, <1>9, <1>10 DEF ShapedAs
<1>12. QED
  BY <1>4, <1>11 DEF p

(* What the expansion of a query of deleteAccount removes, and where. *)
ExpansionOrder(a, q, u) ==
    \A i \in DOMAIN u :
        /\ u[i].query # "account"
        /\ \A j \in DOMAIN u[i].body :
             /\ u[i].body[j] = Del(Auth(a)) => q = "account" /\ i = 1 /\ u[i].body = <<Del(Auth(a))>>
             /\ u[i].body[j] = Del(Account(a)) => q = "account" /\ i = Len(u) /\ u[i].body = <<Del(Account(a))>>
             /\ \A k \in KeysOf("connection", a) :
                  u[i].body[j] = Del(k) =>
                      i = 1 /\ (j = 1 \/ (j > 1 /\ u[i].body[j - 1] = SoftDel(Mirror(k))))

(* Rows of different tables are different. *)
LEMMA OtherTables ==
    ASSUME NEW a
    PROVE  /\ Auth(a).t = "auth" /\ Account(a).t = "account" /\ Counter(a).t = "counter"
           /\ \A t : \A k \in KeysOf(t, a) : k.t = t /\ k \in Keys /\ k.id = a
BY KeyFields DEF Auth, Account, Counter, KeysOf

LEMMA ExpandOrder ==
    ASSUME NEW a \in Accounts, NEW q, QueryOf("deleteAccount", q)
    PROVE  ExpansionOrder(a, q, Expand(q, a))
<1>0. q \in {"account", "forget", "message", "archive", "sent"}
  BY DEF QueryOf
<1>1. SetToSeq(Found("sent", a)) \in Seq(KeysOf("sent", a))
      /\ SetToSeq(Found("forget", a)) \in Seq(KeysOf("connection", a))
  BY FoundIs, TablesAre
<1>2. ASSUME NEW s, NEW body, body = <<s>>
      PROVE  DOMAIN body = {1} /\ body[1] = s
  BY <1>2
<1>3. CASE q = "account"
  <2> DEFINE e == EraseAccount(a)
  <2>1. /\ Expand(q, a) = e /\ DOMAIN e = 1..8 /\ Len(e) = 8
        /\ e[1] = Group(<<Del(Auth(a))>>) /\ e[2] = Group(<<Update(Account(a), "deleted")>>)
        /\ e[3] = LooseQuery("forget", a) /\ e[4] = Loose(<<Del(Counter(a))>>)
        /\ e[5] = LooseQuery("message", a) /\ e[6] = LooseQuery("archive", a)
        /\ e[7] = LooseQuery("sent", a) /\ e[8] = Group(<<Del(Account(a))>>)
    BY <1>3, EraseAccountIs, Expansions
  <2> HIDE DEF e
  <2>2. /\ e[1].query = None /\ e[1].body = <<Del(Auth(a))>>
        /\ e[2].query = None /\ e[2].body = <<Update(Account(a), "deleted")>>
        /\ e[3].query = "forget" /\ e[3].body = <<>>
        /\ e[4].query = None /\ e[4].body = <<Del(Counter(a))>>
        /\ e[5].query = "message" /\ e[5].body = <<>>
        /\ e[6].query = "archive" /\ e[6].body = <<>>
        /\ e[7].query = "sent" /\ e[7].body = <<>>
        /\ e[8].query = None /\ e[8].body = <<Del(Account(a))>>
    BY <2>1 DEF Group, Loose, LooseQuery, Series
  <2>3. \A i \in 1..8 : e[i].query # "account"
    BY <2>2 DEF None
  <2>4. /\ Del(Auth(a)) # Del(Account(a)) /\ Del(Counter(a)) # Del(Account(a)) /\ Del(Counter(a)) # Del(Auth(a))
        /\ Update(Account(a), "deleted") # Del(Auth(a)) /\ Update(Account(a), "deleted") # Del(Account(a))
        /\ \A k \in KeysOf("connection", a) : /\ Del(k) # Del(Auth(a)) /\ Del(k) # Del(Account(a))
                                              /\ Del(k) # Del(Counter(a)) /\ Del(k) # Update(Account(a), "deleted")
    BY DelIsOne, OtherTables
  <2>5. DOMAIN <<>> = {}
    OBVIOUS
  <2>6. \A i \in 1..8 : \A j \in DOMAIN e[i].body :
             /\ e[i].body[j] = Del(Auth(a)) => i = 1 /\ e[i].body = <<Del(Auth(a))>>
             /\ e[i].body[j] = Del(Account(a)) => i = 8 /\ e[i].body = <<Del(Account(a))>>
             /\ \A k \in KeysOf("connection", a) : e[i].body[j] # Del(k)
    <3> SUFFICES ASSUME NEW i \in 1..8, NEW j \in DOMAIN e[i].body
                 PROVE  /\ e[i].body[j] = Del(Auth(a)) => i = 1 /\ e[i].body = <<Del(Auth(a))>>
                        /\ e[i].body[j] = Del(Account(a)) => i = 8 /\ e[i].body = <<Del(Account(a))>>
                        /\ \A k \in KeysOf("connection", a) : e[i].body[j] # Del(k)
      OBVIOUS
    <3>1. i \in {1, 2, 4, 8}
      BY <2>2, <2>5
    <3>2. \A s : e[i].body = <<s>> => e[i].body[j] = s
      BY <1>2
    <3>3. CASE i = 1
      BY <2>2, <2>4, <3>2, <3>3
    <3>4. CASE i = 2
      BY <2>2, <2>4, <3>2, <3>4
    <3>5. CASE i = 4
      BY <2>2, <2>4, <3>2, <3>5
    <3>6. CASE i = 8
      BY <2>2, <2>4, <3>2, <3>6
    <3>7. QED
      BY <3>1, <3>3, <3>4, <3>5, <3>6
  <2>7. ExpansionOrder(a, "account", e)
    BY <2>1, <2>3, <2>6 DEF ExpansionOrder
  <2>8. QED
    BY <1>3, <2>1, <2>7
<1>4. CASE q \in {"message", "archive"}
  <2> DEFINE e == DeleteRows(q, a)
  <2>1. Expand(q, a) = e
    BY <1>4, Expansions
  <2>2. \A i \in DOMAIN e : \E k \in KeysOf(q, a) : e[i].query = None /\ e[i].body = <<Del(k)>>
    <3>1. Table(q) = q
      BY <1>4, TablesAre
    <3>2. \A i \in DOMAIN DeleteRows(q, a) : \E k \in KeysOf(Table(q), a) :
             DeleteRows(q, a)[i].query = None /\ DeleteRows(q, a)[i].body = <<Del(k)>>
      BY DeleteRowsAre
    <3>3. QED
      BY <3>1, <3>2
  <2> HIDE DEF e
  <2>3. \A k \in KeysOf(q, a) : Del(k) # Del(Auth(a)) /\ Del(k) # Del(Account(a))
                                /\ \A h \in KeysOf("connection", a) : Del(k) # Del(h)
    BY <1>4, DelIsOne, OtherTables
  <2>4. ASSUME NEW i \in DOMAIN e
        PROVE  /\ e[i].query # "account"
               /\ \A j \in DOMAIN e[i].body : /\ e[i].body[j] # Del(Auth(a)) /\ e[i].body[j] # Del(Account(a))
                                              /\ \A h \in KeysOf("connection", a) : e[i].body[j] # Del(h)
    <3>1. PICK k \in KeysOf(q, a) : e[i].query = None /\ e[i].body = <<Del(k)>>
      BY <2>2
    <3>2. \A j \in DOMAIN e[i].body : e[i].body[j] = Del(k)
      BY <1>2, <3>1
    <3>3. QED
      BY <2>3, <3>1, <3>2 DEF None
  <2>5. QED
    BY <2>1, <2>4 DEF ExpansionOrder
<1>5. CASE q = "sent"
  <2> DEFINE ks == SetToSeq(Found("sent", a))
             b == DelRows(ks)
             e == <<Loose(b)>>
  <2>1. Expand(q, a) = e
    BY <1>5, Expansions
  <2>2. \A j \in DOMAIN b : ks[j] \in KeysOf("sent", a) /\ b[j] = Del(ks[j])
    BY <1>1, DelRowsAre
  <2> HIDE DEF b, ks
  <2>3. \A k \in KeysOf("sent", a) : Del(k) # Del(Auth(a)) /\ Del(k) # Del(Account(a))
                                     /\ \A h \in KeysOf("connection", a) : Del(k) # Del(h)
    BY DelIsOne, OtherTables
  <2>4. Loose(b).query = None /\ Loose(b).body = b
    BY DEF Loose, Series
  <2>5. \A i \in DOMAIN e : e[i] = Loose(b)
    OBVIOUS
  <2> HIDE DEF e
  <2>6. \A i \in DOMAIN e : e[i].query = None /\ e[i].body = b
    BY <2>4, <2>5
  <2>7. QED
    BY <2>1, <2>2, <2>3, <2>6 DEF ExpansionOrder, None
<1>6. CASE q = "forget"
  <2> DEFINE b == Forget(SetToSeq(Found("forget", a)))
             e == <<Loose(b)>>
  <2>1. Expand(q, a) = e
    BY <1>6, Expansions
  <2>2. \A j \in DOMAIN b :
          \/ \E k \in KeysOf("connection", a) : b[j] = SoftDel(Mirror(k))
          \/ \E k \in KeysOf("connection", a) : b[j] = Del(k) /\ j > 1 /\ b[j - 1] = SoftDel(Mirror(k))
    BY <1>1, ForgetIs
  <2> HIDE DEF b
  <2>3. \A k \in KeysOf("connection", a) : /\ Del(k) # Del(Auth(a)) /\ Del(k) # Del(Account(a))
                                           /\ SoftDel(Mirror(k)) # Del(Auth(a)) /\ SoftDel(Mirror(k)) # Del(Account(a))
                                           /\ \A h \in KeysOf("connection", a) :
                                                 SoftDel(Mirror(k)) # Del(h) /\ (Del(k) = Del(h) => k = h)
    BY DelIsOne, OtherTables
  <2>4. Loose(b).query = None /\ Loose(b).body = b
    BY DEF Loose, Series
  <2>5. \A i \in DOMAIN e : i = 1 /\ e[i] = Loose(b)
    OBVIOUS
  <2> HIDE DEF e
  <2>6. \A i \in DOMAIN e : i = 1 /\ e[i].query = None /\ e[i].body = b
    BY <2>4, <2>5
  <2>7. ASSUME NEW j \in DOMAIN b
        PROVE  /\ b[j] # Del(Auth(a)) /\ b[j] # Del(Account(a))
               /\ \A k \in KeysOf("connection", a) : b[j] = Del(k) => j > 1 /\ b[j - 1] = SoftDel(Mirror(k))
    <3>1. CASE \E k \in KeysOf("connection", a) : b[j] = SoftDel(Mirror(k))
      BY <2>3, <3>1
    <3>2. CASE \E k \in KeysOf("connection", a) : b[j] = Del(k) /\ j > 1 /\ b[j - 1] = SoftDel(Mirror(k))
      <4>1. PICK h \in KeysOf("connection", a) : b[j] = Del(h) /\ j > 1 /\ b[j - 1] = SoftDel(Mirror(h))
        BY <3>2
      <4>2. QED
        BY <2>3, <4>1
    <3>3. QED
      BY <2>2, <3>1, <3>2
  <2>8. QED
    BY <2>1, <2>6, <2>7 DEF ExpansionOrder, None
<1>7. QED
  BY <1>0, <1>3, <1>4, <1>5, <1>6

(* A request whose query has been answered is still what its operation does. *)
LEMMA ExpandedShape ==
    ASSUME NEW op, NEW a \in Accounts, NEW x, NEW gs \in Seq(Groups), gs # <<>>, ShapedAs(op, a, x, gs),
           Head(gs).query \in RowQueries
    PROVE  /\ Head(gs).id = a /\ QueryOf(op, Head(gs).query) /\ op \notin Single
           /\ Expand(Head(gs).query, a) \in Seq(Groups)
           /\ Expand(Head(gs).query, a) \o Tail(gs) \in Seq(Groups)
           /\ ShapedAs(op, a, x, Expand(Head(gs).query, a) \o Tail(gs))
<1> DEFINE q == Head(gs).query
           u == Expand(q, a)
           t == Tail(gs)
           p == u \o t
<1>1. /\ t \in Seq(Groups) /\ Head(gs) = gs[1] /\ 1 \in DOMAIN gs /\ Len(gs) \in Nat /\ Len(t) = Len(gs) - 1
      /\ DOMAIN t = 1..Len(t) /\ \A i \in DOMAIN t : i + 1 \in DOMAIN gs /\ t[i] = gs[i + 1]
  BY TailIs
<1>2. GroupOf(op, a, x, Head(gs)) /\ q # None
  BY <1>1 DEF ShapedAs, RowQueries
<1>3. QueryOf(op, q) /\ Head(gs).id = a
  BY <1>2 DEF GroupOf
<1>4. op \notin Single
  BY <1>3 DEF QueryOf, Single, RowQueries
<1>5. u \in Seq(Groups) /\ \A i \in DOMAIN u : GroupOf(op, a, x, u[i])
  <2>1. q \in RowQueries
    OBVIOUS
  <2> HIDE DEF q
  <2>2. QED
    BY <1>3, <2>1, ExpandTypes, ExpandShape
<1>6. op = "deleteAccount" => ExpansionOrder(a, q, u)
  BY <1>3, ExpandOrder
<1> HIDE DEF u, t, p
<1>7. /\ p \in Seq(Groups) /\ Len(p) = Len(u) + Len(t) /\ DOMAIN p = 1..(Len(u) + Len(t))
      /\ \A i \in DOMAIN p : \/ i \in DOMAIN u /\ p[i] = u[i]
                             \/ i > Len(u) /\ i - Len(u) \in DOMAIN t /\ p[i] = t[i - Len(u)]
  <2>1. u \in Seq(Groups) /\ t \in Seq(Groups)
    BY <1>1, <1>5
  <2>2. p = u \o t
    BY DEF p
  <2>3. QED
    BY ONLY <2>1, <2>2, JoinIs
<1>8. \A i \in DOMAIN t : GroupOf(op, a, x, t[i])
  BY <1>1 DEF ShapedAs
<1>9. \A i \in DOMAIN p : GroupOf(op, a, x, p[i])
  BY <1>5, <1>7, <1>8
<1>10. ASSUME op = "deleteAccount" PROVE ErasureOrder(a, p)
  <2>1. ErasureOrder(a, gs)
    BY <1>10 DEF ShapedAs
  <2>2. ASSUME q = "account" PROVE t = <<>>
    <3>1. gs = <<Query("account", a)>>
      BY <1>1, <2>1, <2>2 DEF ErasureOrder
    <3>2. QED
      BY <3>1 DEF t
  <2>3. ASSUME NEW i \in DOMAIN t
        PROVE  /\ t[i].query # "account"
               /\ \A j \in DOMAIN t[i].body :
                    /\ t[i].body[j] # Del(Auth(a))
                    /\ t[i].body[j] = Del(Account(a)) => i = Len(t) /\ t[i].body = <<Del(Account(a))>>
                    /\ \A k \in KeysOf("connection", a) : t[i].body[j] # Del(k)
    <3>1. t # <<>>
      BY <2>3
    <3>2. ShapedAs(op, a, x, t)
      BY <3>1, TailShape DEF t
    <3>3. i + 1 \in DOMAIN gs /\ t[i] = gs[i + 1] /\ i \in Nat /\ i >= 1
      BY <1>1, <2>3
    <3>4. i + 1 # 1
      BY <3>3
    <3>5. \A j \in DOMAIN t[i].body :
              /\ t[i].body[j] # Del(Auth(a))
              /\ \A k \in KeysOf("connection", a) : t[i].body[j] # Del(k)
      BY <2>1, <3>3, <3>4 DEF ErasureOrder
    <3>6. ErasureOrder(a, t)
      BY <1>10, <3>2 DEF ShapedAs
    <3>7. t[i].query # "account"
      <4>1. ASSUME t[i].query = "account" PROVE FALSE
        <5>1. gs = <<Query("account", a)>>
          BY <2>1, <3>3, <4>1 DEF ErasureOrder
        <5>2. t = <<>>
          BY <5>1 DEF t
        <5>3. QED
          BY <3>1, <5>2
      <4>2. QED
        BY <4>1
    <3>8. QED
      BY <2>3, <3>5, <3>6, <3>7 DEF ErasureOrder
  <2>4. ExpansionOrder(a, q, u)
    BY <1>6, <1>10
  <2> SUFFICES ASSUME NEW i \in DOMAIN p
               PROVE  /\ p[i].query # "account"
                      /\ \A j \in DOMAIN p[i].body :
                         /\ p[i].body[j] = Del(Auth(a)) => i = 1 /\ p[i].body = <<Del(Auth(a))>>
                         /\ p[i].body[j] = Del(Account(a)) => i = Len(p) /\ p[i].body = <<Del(Account(a))>>
                         /\ \A k \in KeysOf("connection", a) :
                              p[i].body[j] = Del(k) =>
                                  i = 1 /\ (j = 1 \/ (j > 1 /\ p[i].body[j - 1] = SoftDel(Mirror(k))))
    BY DEF ErasureOrder
  <2>5. CASE i \in DOMAIN u /\ p[i] = u[i]
    <3>1. q = "account" => Len(p) = Len(u)
      <4>1. ASSUME q = "account" PROVE Len(p) = Len(u)
        <5>1. p = u
          <6>1. p = u \o <<>>
            BY <2>2, <4>1 DEF p
          <6>2. QED
            BY <1>5, <6>1, ConcatEmptySeq
        <5>2. QED
          BY <5>1
      <4>2. QED
        BY <4>1
    <3>2. /\ u[i].query # "account"
          /\ \A j \in DOMAIN u[i].body :
             /\ u[i].body[j] = Del(Auth(a)) => q = "account" /\ i = 1 /\ u[i].body = <<Del(Auth(a))>>
             /\ u[i].body[j] = Del(Account(a)) => q = "account" /\ i = Len(u) /\ u[i].body = <<Del(Account(a))>>
             /\ \A k \in KeysOf("connection", a) :
                  u[i].body[j] = Del(k) =>
                      i = 1 /\ (j = 1 \/ (j > 1 /\ u[i].body[j - 1] = SoftDel(Mirror(k))))
      BY <2>4, <2>5 DEF ExpansionOrder
    <3>3. QED
      BY <2>5, <3>1, <3>2
  <2>6. CASE i > Len(u) /\ i - Len(u) \in DOMAIN t /\ p[i] = t[i - Len(u)]
    <3>1. i - Len(u) = Len(t) => i = Len(p)
      <4> DEFINE n == Len(u)
                 m == Len(t)
                 l == Len(p)
      <4>1. n \in Nat /\ m \in Nat /\ l = n + m /\ i \in Nat
        <5>1. Len(u) \in Nat /\ Len(t) \in Nat
          BY <1>1, <1>5, LenProperties
        <5>2. i \in 1..(Len(u) + Len(t))
          BY <1>7
        <5>3. QED
          BY <1>7, <5>1, <5>2
      <4> HIDE DEF n, m, l
      <4>2. i - n = m => i = l
        BY <4>1
      <4>3. QED
        BY <4>2 DEF n, m, l
    <3>2. QED
      BY <2>3, <2>6, <3>1
  <2>7. QED
    BY <1>7, <2>5, <2>6
<1>11. ShapedAs(op, a, x, p)
  <2>1. op \notin {"make", "unmake", "unread"} /\ op # "make"
    BY <1>4 DEF Single
  <2>2. QED
    BY <1>4, <1>9, <1>10, <2>1 DEF ShapedAs
<1>12. QED
  BY <1>3, <1>4, <1>5, <1>7, <1>11 DEF p, u, t

-----------------------------------------------------------------------------
(* The steps of a request *)

Quits(r) == request' = [request EXCEPT ![r] = NoRequest]
Says(r, ok, n) == last' = [op |-> request[r].op, id |-> request[r].id, x |-> request[r].x, ok |-> ok,
                           clean |-> request[r].clean, count |-> n]
Goes(r, gs) == gs # <<>> /\ request' = [request EXCEPT ![r].groups = gs] /\ last' = last

RequestTypeOK == request \in [Requests -> UnderWayRequests \cup {NoRequest}]

LEMMA ContinueIs ==
    ASSUME NEW r, NEW gs, Continue(r, gs)
    PROVE  (gs = <<>> /\ Quits(r) /\ Says(r, TRUE, 0)) \/ Goes(r, gs)
BY DEF Continue, Answer, Quits, Says, Goes

LEMMA EndGroupIs ==
    ASSUME NEW r, NEW ok, EndGroup(r, ok)
    PROVE  /\ unread' = Bumped(Current(r), ok)
           /\ \/ ~ok /\ Current(r).strict /\ Quits(r) /\ Says(r, FALSE, 0)
              \/ (ok \/ ~Current(r).strict) /\ Others(r) = <<>> /\ Quits(r) /\ Says(r, TRUE, 0)
              \/ (ok \/ ~Current(r).strict) /\ Goes(r, Others(r))
<1>1. unread' = Bumped(Current(r), ok)
  BY DEF EndGroup
<1>2. CASE ~ok /\ Current(r).strict
  BY <1>2 DEF EndGroup, Answer, Quits, Says
<1>3. CASE ok \/ ~Current(r).strict
  <2>1. Continue(r, Others(r))
    BY <1>3 DEF EndGroup
  <2>2. QED
    BY <1>1, <1>3, <2>1, ContinueIs
<1>4. QED
  BY <1>1, <1>2, <1>3

LEMMA ProceedIs ==
    ASSUME NEW r, Proceed(r)
    PROVE  \/ Len(Current(r).body) = 1 /\ EndGroup(r, ~Current(r).doomed)
           \/ Len(Current(r).body) # 1 /\ unread' = unread /\ Goes(r, Popped(request[r].groups))
<1>1. CASE Len(Current(r).body) = 1
  BY <1>1 DEF Proceed
<1>2. CASE Len(Current(r).body) # 1
  <2>1. unread' = unread /\ Continue(r, Popped(request[r].groups))
    BY <1>2 DEF Proceed, Popped, Current, Others
  <2>2. Popped(request[r].groups) # <<>>
    BY <2>1, ContinueIs DEF Popped
  <2>3. QED
    BY <1>2, <2>1, <2>2, ContinueIs
<1>3. QED
  BY <1>1, <1>2

LEMMA GiveUpIs ==
    ASSUME NEW r, NEW s, GiveUp(r, s)
    PROVE  \/ s.undo = NoKey /\ EndGroup(r, FALSE)
           \/ s.undo # NoKey /\ unread' = unread /\ Continue(r, Undoing(request[r].groups, s.undo))
BY DEF GiveUp, Undoing, Current, Others

(* A request under way. *)
LEMMA UnderWayIs ==
    ASSUME RequestTypeOK, NEW r \in Requests, UnderWay(r)
    PROVE  /\ request[r] \in UnderWayRequests
           /\ request[r].groups \in Seq(Groups) /\ request[r].groups # <<>>
           /\ request[r].id \in Accounts /\ request[r].op \in Ops /\ request[r].clean \in BOOLEAN
           /\ request[r].x \in Accounts \cup Messages \cup {None, "message", "archive"}
           /\ Current(r) = request[r].groups[1] /\ Current(r) \in Groups /\ 1 \in DOMAIN request[r].groups
           /\ Current(r).body \in Seq(Statements) /\ Current(r).query \in Queries
           /\ Others(r) \in Seq(Groups)
<1>1. request[r] \in UnderWayRequests
  BY DEF RequestTypeOK, UnderWay, NoRequest
<1>2. request[r].groups \in Seq(Groups) /\ request[r].groups # <<>>
      /\ request[r].id \in Accounts /\ request[r].op \in Ops /\ request[r].clean \in BOOLEAN
      /\ request[r].x \in Accounts \cup Messages \cup {None, "message", "archive"}
  BY <1>1 DEF UnderWayRequests
<1>3. /\ Current(r) = request[r].groups[1] /\ Current(r) \in Groups /\ 1 \in DOMAIN request[r].groups
      /\ Others(r) \in Seq(Groups)
  BY <1>2, TailIs DEF Current, Others
<1>4. Current(r).body \in Seq(Statements) /\ Current(r).query \in Queries
  BY <1>3 DEF Groups
<1>5. QED
  BY <1>1, <1>2, <1>3, <1>4

LEMMA OpsAre == "none" \notin Ops /\ NoRequest.op = "none" /\ NoRequest.groups = <<>> /\ NoRequest.clean = FALSE
BY DEF Ops, NoRequest

(* A request that ends, and one that goes on. *)
LEMMA QuitsWell ==
    ASSUME RequestTypeOK, NEW r \in Requests, Quits(r)
    PROVE  /\ RequestTypeOK' /\ request'[r] = NoRequest
           /\ \A p \in Requests : p # r => request'[p] = request[p]
BY DEF RequestTypeOK, Quits

LEMMA GoesWell ==
    ASSUME RequestTypeOK, NEW r \in Requests, UnderWay(r), NEW gs \in Seq(Groups), Goes(r, gs)
    PROVE  /\ RequestTypeOK' /\ request'[r].groups = gs /\ request'[r].op = request[r].op
           /\ request'[r].id = request[r].id /\ request'[r].x = request[r].x /\ request'[r].clean = request[r].clean
           /\ request'[r] \in UnderWayRequests
           /\ \A p \in Requests : p # r => request'[p] = request[p]
<1>1. request[r] \in UnderWayRequests
  BY UnderWayIs
<1>2. request'[r] = [request[r] EXCEPT !.groups = gs] /\ \A p \in Requests : p # r => request'[p] = request[p]
  BY DEF RequestTypeOK, Goes
<1>3. gs \in Seq(Groups) \ {<<>>}
  BY DEF Goes
<1> DEFINE q == request[r]
           w == [q EXCEPT !.groups = gs]
<1>4. q \in UnderWayRequests
  BY <1>1
<1> HIDE DEF q
<1>5. w \in UnderWayRequests /\ w.groups = gs /\ w.op = q.op /\ w.id = q.id /\ w.x = q.x /\ w.clean = q.clean
  BY <1>3, <1>4 DEF UnderWayRequests
<1>6. request' \in [Requests -> UnderWayRequests \cup {NoRequest}]
  <2>1. request' = [request EXCEPT ![r] = w]
    BY DEF Goes, RequestTypeOK, q
  <2> HIDE DEF w
  <2>2. QED
    BY <1>5, <2>1 DEF RequestTypeOK
<1>7. QED
  BY <1>2, <1>5, <1>6 DEF RequestTypeOK, q

(* The requests that can arrive, and when. *)
Begins(op, a, x, gs) ==
    LET k == Key("connection", a, x)
    IN  \/ op = "addAccount" /\ a \notin ids /\ x = None /\ gs = AddAccountGroups(a)
        \/ /\ Login(a)
           /\ \/ op = "deleteAccount" /\ x = None /\ gs = <<Query("account", a)>>
              \/ /\ op = "make" /\ x \in Accounts /\ x # a
                 /\ gs \in {<<Group(<<Put(k), PutOrUndo(Mirror(k), k)>>)>>, <<Group(<<Add(k), AddOrUndo(Mirror(k), k)>>)>>}
              \/ op = "unmake" /\ x \in Accounts /\ x # a /\ gs = <<Group(Unlink(k))>>
              \/ op = "unmakeAll" /\ x = None /\ gs = <<Query("unlink", a)>>
              \/ /\ op = "send" /\ x \in Messages /\ a = Sender[x] /\ x \notin sent
                 /\ gs = <<Series(None, <<Add(Key("message", Recipient[x], x)), SoftAdd(Key("sent", Sender[x], x))>>,
                                  FALSE, Recipient[x], 1, FALSE)>>
              \/ op \in {"move", "receive", "read"} /\ x = None /\ gs = <<Query(op, a)>>
              \/ op = "delete" /\ x \in {"message", "archive"} /\ gs = <<Query(x, a)>>
              \/ op = "deleteSent" /\ x = None /\ gs = <<Query("sentRows", a)>>
              \/ op = "unread" /\ x = None /\ gs = <<Query("cache", a)>>

LEMMA ArrivesIs ==
    ASSUME NEW r \in Requests, Arrives(r)
    PROVE  \E op \in Ops, a \in Accounts, x \in Accounts \cup Messages \cup {None, "message", "archive"} : \E gs :
              /\ Start(r, op, a, x, gs) /\ Begins(op, a, x, gs)
              /\ sent' = IF op = "send" THEN sent \cup {x} ELSE sent
<1>1. ASSUME NEW a \in Accounts, AddAccount(r, a)
      PROVE  \E gs : Start(r, "addAccount", a, None, gs) /\ Begins("addAccount", a, None, gs) /\ sent' = sent
  BY <1>1 DEF AddAccount, Begins
<1>2. ASSUME NEW a \in Accounts, DeleteAccount(r, a)
      PROVE  \E gs : Start(r, "deleteAccount", a, None, gs) /\ Begins("deleteAccount", a, None, gs) /\ sent' = sent
  BY <1>2 DEF DeleteAccount, Begins
<1>3. ASSUME NEW a \in Accounts, GetUnread(r, a)
      PROVE  \E gs : Start(r, "unread", a, None, gs) /\ Begins("unread", a, None, gs) /\ sent' = sent
  BY <1>3 DEF GetUnread, Begins
<1>4. ASSUME NEW a \in Accounts, NEW b \in Accounts, MakeConnection(r, a, b)
      PROVE  \E gs : Start(r, "make", a, b, gs) /\ Begins("make", a, b, gs) /\ sent' = sent
  BY <1>4 DEF MakeConnection, Begins
<1>5. ASSUME NEW a \in Accounts, NEW b \in Accounts, DeleteConnection(r, a, b)
      PROVE  \/ \E gs : Start(r, "unmake", a, b, gs) /\ Begins("unmake", a, b, gs) /\ sent' = sent
             \/ \E gs : Start(r, "unmakeAll", a, None, gs) /\ Begins("unmakeAll", a, None, gs) /\ sent' = sent
  BY <1>5 DEF DeleteConnection, Begins
<1>6. ASSUME NEW m \in Messages, AddMessage(r, m)
      PROVE  \E gs : Start(r, "send", Sender[m], m, gs) /\ Begins("send", Sender[m], m, gs) /\ sent' = sent \cup {m}
  BY <1>6 DEF AddMessage, Begins
<1>7. ASSUME NEW a \in Accounts, HandleMessages(r, a)
      PROVE  \/ \E q \in {"move", "receive", "read"} : \E gs : Start(r, q, a, None, gs) /\ Begins(q, a, None, gs) /\ sent' = sent
             \/ \E q \in {"message", "archive"} : \E gs : Start(r, "delete", a, q, gs) /\ Begins("delete", a, q, gs) /\ sent' = sent
             \/ \E gs : Start(r, "deleteSent", a, None, gs) /\ Begins("deleteSent", a, None, gs) /\ sent' = sent
  BY <1>7 DEF HandleMessages, Begins
<1>8. {"addAccount", "deleteAccount", "unread", "make", "unmake", "unmakeAll", "send", "move", "receive", "read",
       "delete", "deleteSent"} \subseteq Ops
  BY DEF Ops
<1>9. \A m \in Messages : Sender[m] \in Accounts
  BY DataAssumption
<1> DEFINE X == Accounts \cup Messages \cup {None, "message", "archive"}
           Goal == \E op \in Ops, a \in Accounts, x \in X : \E gs :
                      /\ Start(r, op, a, x, gs) /\ Begins(op, a, x, gs)
                      /\ sent' = IF op = "send" THEN sent \cup {x} ELSE sent
<1>10. ASSUME NEW op \in Ops, op # "send", NEW a \in Accounts, NEW x \in X, NEW gs,
              Start(r, op, a, x, gs), Begins(op, a, x, gs), sent' = sent
       PROVE  Goal
  <2>1. sent' = IF op = "send" THEN sent \cup {x} ELSE sent
    BY <1>10
  <2>2. QED
    BY <1>10, <2>1
<1>11. None \in X /\ "message" \in X /\ "archive" \in X /\ Accounts \subseteq X /\ Messages \subseteq X
  OBVIOUS
<1>12. ASSUME NEW m \in Messages, AddMessage(r, m) PROVE Goal
  <2>1. PICK gs : Start(r, "send", Sender[m], m, gs) /\ Begins("send", Sender[m], m, gs) /\ sent' = sent \cup {m}
    BY <1>6, <1>12
  <2>2. "send" \in Ops /\ Sender[m] \in Accounts /\ m \in X
    BY <1>8, <1>9, <1>11
  <2>3. QED
    BY <2>1, <2>2
<1> HIDE DEF X, Goal
<1>13. ASSUME \E a \in Accounts : AddAccount(r, a) PROVE Goal
  BY <1>1, <1>8, <1>10, <1>11, <1>13
<1>14. ASSUME \E a \in Accounts : DeleteAccount(r, a) PROVE Goal
  BY <1>2, <1>8, <1>10, <1>11, <1>14
<1>15. ASSUME \E a \in Accounts : GetUnread(r, a) PROVE Goal
  BY <1>3, <1>8, <1>10, <1>11, <1>15
<1>16. ASSUME \E a, b \in Accounts : MakeConnection(r, a, b) PROVE Goal
  BY <1>4, <1>8, <1>10, <1>11, <1>16
<1>17. ASSUME \E a, b \in Accounts : DeleteConnection(r, a, b) PROVE Goal
  BY <1>5, <1>8, <1>10, <1>11, <1>17
<1>18. ASSUME \E a \in Accounts : HandleMessages(r, a) PROVE Goal
  <2>1. PICK a \in Accounts : HandleMessages(r, a)
    BY <1>18
  <2>2. CASE \E q \in {"move", "receive", "read"} : \E gs : Start(r, q, a, None, gs) /\ Begins(q, a, None, gs) /\ sent' = sent
    BY <1>8, <1>10, <1>11, <2>2
  <2>3. CASE \E q \in {"message", "archive"} : \E gs : Start(r, "delete", a, q, gs) /\ Begins("delete", a, q, gs) /\ sent' = sent
    BY <1>8, <1>10, <1>11, <2>3
  <2>4. CASE \E gs : Start(r, "deleteSent", a, None, gs) /\ Begins("deleteSent", a, None, gs) /\ sent' = sent
    BY <1>8, <1>10, <1>11, <2>4
  <2>5. QED
    BY <1>7, <2>1, <2>2, <2>3, <2>4
<1>19. Goal
  <2>1. \/ \E a \in Accounts : AddAccount(r, a)
        \/ \E a \in Accounts : DeleteAccount(r, a)
        \/ \E a \in Accounts : GetUnread(r, a)
        \/ \E a, b \in Accounts : MakeConnection(r, a, b)
        \/ \E a, b \in Accounts : DeleteConnection(r, a, b)
        \/ \E a \in Accounts : HandleMessages(r, a)
        \/ \E m \in Messages : AddMessage(r, m)
    BY Zenon DEF Arrives
  <2>2. QED
    BY <1>12, <1>13, <1>14, <1>15, <1>16, <1>17, <1>18, <2>1
<1>20. QED
  BY <1>19 DEF Goal, X

-----------------------------------------------------------------------------
(* Requests that arrive *)

LEMMA BeginsTypes ==
    ASSUME NEW op \in Ops, NEW a \in Accounts, NEW x, NEW gs, Begins(op, a, x, gs)
    PROVE  gs \in Seq(Groups) /\ gs # <<>>
<1>1. \A b \in Seq(Statements) : Group(b) \in Groups /\ Loose(b) \in Groups
  <2>1. None \in Queries /\ TRUE \in BOOLEAN /\ 0 \in Int /\ a \in Accounts \cup {None}
    BY DEF Queries
  <2>2. QED
    BY <2>1, GroupTypes
<1>2. \A q \in Queries : Query(q, a) \in Groups
  <2>1. <<>> \in Seq(Statements) /\ TRUE \in BOOLEAN /\ 0 \in Int /\ a \in Accounts \cup {None}
    OBVIOUS
  <2>2. QED
    BY <2>1, GroupTypes
<1>3. \A s, u \in Statements : <<s, u>> \in Seq(Statements) /\ <<s>> \in Seq(Statements)
  OBVIOUS
<1>4. \A g \in Groups : <<g>> \in Seq(Groups) /\ <<g>> # <<>>
  OBVIOUS
<1>5. CASE op = "addAccount"
  <2>1. Auth(a) \in Keys /\ Account(a) \in Keys /\ Counter(a) \in Keys
    BY KeysAre DEF Auth, Account, Counter
  <2>2. AddLogin(a) \in Statements /\ AddOrUndo(Account(a), Auth(a)) \in Statements /\ Put(Counter(a)) \in Statements
    BY <2>1, StatementTypes, LoginTypes
  <2> DEFINE g == Group(<<AddLogin(a), AddOrUndo(Account(a), Auth(a))>>)
             h == Loose(<<Put(Counter(a))>>)
  <2>3. g \in Groups /\ h \in Groups
    BY <1>1, <1>3, <2>2
  <2>4. gs = <<g, h>>
    BY <1>5 DEF Begins, AddAccountGroups, Auth, Account, Counter
  <2> HIDE DEF g, h
  <2>5. QED
    BY <2>3, <2>4
<1>6. CASE op = "make"
  <2> DEFINE k == Key("connection", a, x)
  <2>1. x \in Accounts /\ x # a
        /\ gs \in {<<Group(<<Put(k), PutOrUndo(Mirror(k), k)>>)>>, <<Group(<<Add(k), AddOrUndo(Mirror(k), k)>>)>>}
    BY <1>6 DEF Begins
  <2>2. k \in Keys /\ k.t = "connection"
    BY <2>1, KeysAre, KeyFields
  <2> HIDE DEF k
  <2>3. Mirror(k) \in Keys
    BY <2>2, MirrorIs
  <2>4. Put(k) \in Statements /\ PutOrUndo(Mirror(k), k) \in Statements
        /\ Add(k) \in Statements /\ AddOrUndo(Mirror(k), k) \in Statements
    BY <2>2, <2>3, StatementTypes
  <2>5. Group(<<Put(k), PutOrUndo(Mirror(k), k)>>) \in Groups /\ Group(<<Add(k), AddOrUndo(Mirror(k), k)>>) \in Groups
    BY <1>1, <1>3, <2>4
  <2>6. QED
    BY <1>4, <2>1, <2>5
<1>7. CASE op = "unmake"
  <2> DEFINE k == Key("connection", a, x)
  <2>1. x \in Accounts /\ x # a /\ gs = <<Group(Unlink(k))>>
    BY <1>7 DEF Begins
  <2>2. k \in Keys /\ k.t = "connection"
    BY <2>1, KeysAre, KeyFields
  <2> HIDE DEF k
  <2>3. Unlink(k) \in Seq(Statements)
    BY <2>2, BodyTypes
  <2>4. QED
    BY <1>1, <1>4, <2>1, <2>3
<1>8. CASE op = "send"
  <2> DEFINE b == <<Add(Key("message", Recipient[x], x)), SoftAdd(Key("sent", Sender[x], x))>>
  <2>1. x \in Messages /\ gs = <<Series(None, b, FALSE, Recipient[x], 1, FALSE)>>
    BY <1>8 DEF Begins
  <2>2. Recipient[x] \in Accounts \cup {None} /\ FALSE \in BOOLEAN /\ 1 \in Int /\ None \in Queries
    BY <2>1, DataAssumption DEF Queries
  <2>3. Key("message", Recipient[x], x) \in Keys /\ Key("sent", Sender[x], x) \in Keys
    BY <2>1, KeysAre
  <2>4. Add(Key("message", Recipient[x], x)) \in Statements /\ SoftAdd(Key("sent", Sender[x], x)) \in Statements
    BY <2>3, StatementTypes
  <2>5. b \in Seq(Statements)
    BY <1>3, <2>4
  <2> HIDE DEF b
  <2>6. Series(None, b, FALSE, Recipient[x], 1, FALSE) \in Groups
    BY <2>2, <2>5, GroupTypes
  <2>7. QED
    BY <1>4, <2>1, <2>6
<1>9. CASE op \notin {"addAccount", "make", "unmake", "send"}
  <2>1. \E q \in Queries : gs = <<Query(q, a)>>
    BY <1>9 DEF Begins, Queries
  <2>2. QED
    BY <1>2, <1>4, <2>1
<1>10. QED
  BY <1>5, <1>6, <1>7, <1>8, <1>9

LEMMA BeginsShape ==
    ASSUME NEW op \in Ops, NEW a \in Accounts, NEW x, NEW gs, Begins(op, a, x, gs)
    PROVE  ShapedAs(op, a, x, gs)
<1>2. \A g : /\ \A i \in DOMAIN <<g>> : i = 1 /\ <<g>>[i] = g
             /\ Len(<<g>>) = 1 /\ Head(<<g>>) = g
  OBVIOUS
<1>3. \A s, u, v : <<s, u>> # <<v>>
  OBVIOUS
<1>4. \A b : /\ Group(b).query = None /\ Group(b).body = b /\ Group(b).strict = TRUE
             /\ Loose(b).query = None /\ Loose(b).body = b
  BY DEF Group, Loose, Series
<1>5. \A q : /\ Query(q, a).query = q /\ Query(q, a).body = <<>> /\ Query(q, a).id = a /\ Query(q, a).strict = TRUE
  BY DEF Query, Series
<1>6. CASE op = "addAccount"
  <2> DEFINE g == Group(<<AddLogin(a), AddOrUndo(Account(a), Auth(a))>>)
             h == Loose(<<Put(Counter(a))>>)
  <2>1. gs = <<g, h>>
    BY <1>6 DEF Begins, AddAccountGroups, Auth, Account, Counter
  <2>2. GroupOf(op, a, x, g) /\ GroupOf(op, a, x, h)
    BY <1>4, <1>6 DEF GroupOf, BodyOf, AddBody
  <2> HIDE DEF g, h
  <2>3. \A i \in DOMAIN gs : gs[i] = g \/ gs[i] = h
    BY <2>1
  <2>4. op \notin Single /\ op \notin {"make", "unmake", "unread"} /\ op # "make" /\ op # "deleteAccount"
    BY <1>6 DEF Single
  <2>5. QED
    BY <2>2, <2>3, <2>4 DEF ShapedAs
<1>7. ASSUME NEW g, gs = <<g>>, GroupOf(op, a, x, g), op \in {"make", "unmake", "unread"} => g.strict,
             op = "make" => g.body # <<SoftDel(Key("connection", a, x))>>, op # "deleteAccount"
      PROVE  ShapedAs(op, a, x, gs)
  BY <1>2, <1>7 DEF ShapedAs
<1>8. CASE op = "make"
  <2> DEFINE k == Key("connection", a, x)
  <2>1. x \in Accounts /\ x # a
        /\ gs \in {<<Group(<<Put(k), PutOrUndo(Mirror(k), k)>>)>>, <<Group(<<Add(k), AddOrUndo(Mirror(k), k)>>)>>}
    BY <1>8 DEF Begins
  <2>2. PICK b : /\ gs = <<Group(b)>> /\ b \in {<<Put(k), PutOrUndo(Mirror(k), k)>>, <<Add(k), AddOrUndo(Mirror(k), k)>>}
    BY <2>1
  <2>3. b # <<SoftDel(k)>>
    BY <1>3, <2>2
  <2>4. MakeBody(k, b)
    BY <2>2 DEF MakeBody
  <2>5. GroupOf(op, a, x, Group(b))
    BY <1>4, <1>8, <2>1, <2>4 DEF GroupOf, BodyOf
  <2>6. QED
    BY <1>4, <1>7, <1>8, <2>2, <2>3, <2>5
<1>9. CASE op = "unmake"
  <2> DEFINE k == Key("connection", a, x)
  <2>1. x \in Accounts /\ x # a /\ gs = <<Group(Unlink(k))>>
    BY <1>9 DEF Begins
  <2>2. GroupOf(op, a, x, Group(Unlink(k)))
    BY <1>4, <1>9, <2>1 DEF GroupOf, BodyOf, UnlinkBody
  <2>3. QED
    BY <1>4, <1>7, <1>9, <2>1, <2>2
<1>10. CASE op = "send"
  <2> DEFINE b == <<Add(Key("message", Recipient[x], x)), SoftAdd(Key("sent", Sender[x], x))>>
             g == Series(None, b, FALSE, Recipient[x], 1, FALSE)
  <2>1. x \in Messages /\ gs = <<g>> /\ a = Sender[x]
    BY <1>10 DEF Begins
  <2>2. SendBody(x, b)
    BY DEF SendBody
  <2> HIDE DEF b
  <2>3. g.query = None /\ g.body = b
    BY DEF Series
  <2>4. GroupOf(op, a, x, g)
    BY <1>10, <2>1, <2>2, <2>3 DEF GroupOf, BodyOf
  <2>5. QED
    BY <1>7, <1>10, <2>1, <2>4
<1>11. CASE op \notin {"addAccount", "make", "unmake", "send", "deleteAccount"}
  <2>1. PICK q \in Queries : gs = <<Query(q, a)>> /\ QueryOf(op, q) /\ q # None
    BY <1>11 DEF Begins, Queries, QueryOf, None
  <2>2. GroupOf(op, a, x, Query(q, a))
    BY <1>5, <2>1 DEF GroupOf
  <2>3. QED
    BY <1>5, <1>7, <1>11, <2>1, <2>2
<1>12. CASE op = "deleteAccount"
  <2>1. gs = <<Query("account", a)>>
    BY <1>12 DEF Begins
  <2>2. QueryOf(op, "account")
    BY <1>12 DEF QueryOf
  <2>3. GroupOf(op, a, x, Query("account", a))
    BY <1>5, <2>2 DEF GroupOf, None
  <2>4. ErasureOrder(a, gs)
    <3>1. \A i \in DOMAIN gs : gs[i].body = <<>>
      BY <1>2, <1>5, <2>1
    <3>2. DOMAIN <<>> = {}
      OBVIOUS
    <3>3. \A i \in DOMAIN gs : DOMAIN gs[i].body = {}
      BY <3>1, <3>2
    <3>4. QED
      BY <2>1, <3>3 DEF ErasureOrder
  <2>5. op \notin Single /\ op \notin {"make", "unmake", "unread"} /\ op # "make"
    BY <1>12 DEF Single
  <2>6. QED
    BY <1>2, <2>1, <2>3, <2>4, <2>5 DEF ShapedAs
<1>13. QED
  BY <1>6, <1>8, <1>9, <1>10, <1>11, <1>12

(* The requests after one has arrived. *)
LEMMA StartIs ==
    ASSUME RequestTypeOK, NEW r \in Requests, NEW op, NEW a, NEW x, NEW gs, Start(r, op, a, x, gs)
    PROVE  /\ ~UnderWay(r) /\ budget > 0 /\ budget' = budget - 1
           /\ request'[r].op = op /\ request'[r].id = a /\ request'[r].x = x /\ request'[r].groups = gs
           /\ rows' = rows /\ unread' = unread /\ mishaps' = mishaps /\ last' = NoReply
           /\ kept' \subseteq kept
<1> DEFINE w == [op |-> op, id |-> a, x |-> x, groups |-> gs, clean |-> {q \in Requests : UnderWay(q)} = {}]
<1>1. /\ ~UnderWay(r) /\ budget > 0 /\ budget' = budget - 1
      /\ request' = [q \in Requests |-> IF q = r THEN w ELSE [request[q] EXCEPT !.clean = FALSE]]
      /\ last' = NoReply /\ rows' = rows /\ unread' = unread /\ mishaps' = mishaps
      /\ kept' \subseteq kept
  BY DEF Start
<1>2. w.op = op /\ w.id = a /\ w.x = x /\ w.groups = gs
  OBVIOUS
<1> HIDE DEF w
<1>3. request'[r] = w
  BY <1>1
<1>4. QED
  BY <1>1, <1>2, <1>3

LEMMA StartKeeps ==
    ASSUME NEW r \in Requests, NEW op, NEW a, NEW x, NEW gs, Start(r, op, a, x, gs)
    PROVE  op \in Erasing => \A m \in kept' : m \in kept /\ Recipient[m] # a
<1>1. kept' = IF op \in Erasing THEN {m \in kept : Recipient[m] # a} ELSE kept
  BY DEF Start
<1>2. QED
  BY <1>1

(* What the histories say of a request that arrives while others are under way. *)
LEMMA StartTorn ==
    ASSUME NEW r \in Requests, NEW op, NEW a, NEW x, NEW gs, Start(r, op, a, x, gs)
    PROVE  torn' \subseteq torn \cup {"overlap"} /\ torn \subseteq torn'
<1>1. torn' = torn \/ torn' = torn \cup {"overlap"}
  BY DEF Start
<1>2. QED
  BY <1>1

LEMMA StartAlone ==
    ASSUME RequestTypeOK, NEW r \in Requests, NEW op, NEW a, NEW x, NEW gs, Start(r, op, a, x, gs)
    PROVE  /\ (request'[r].clean \/ ("overlap" \notin torn')) => \A p \in Requests : ~UnderWay(p)
           /\ ("overlap" \notin torn') => ("overlap" \notin torn)
<1> DEFINE others == {q \in Requests : UnderWay(q)}
           w == [op |-> op, id |-> a, x |-> x, groups |-> gs, clean |-> others = {}]
<1>1. /\ request' = [q \in Requests |-> IF q = r THEN w ELSE [request[q] EXCEPT !.clean = FALSE]]
      /\ torn' = IF others = {} THEN torn ELSE torn \cup {"overlap"}
  BY DEF Start
<1>2. w.clean => others = {}
  OBVIOUS
<1>3. others = {} => \A p \in Requests : ~UnderWay(p)
  OBVIOUS
<1> HIDE DEF w, others
<1>4. request'[r] = w
  BY <1>1
<1>5. "overlap" \notin torn' => others = {} /\ "overlap" \notin torn
  BY <1>1
<1>6. request'[r].clean => \A p \in Requests : ~UnderWay(p)
  BY <1>2, <1>3, <1>4
<1>7. QED
  BY <1>3, <1>5, <1>6

(* The other requests are the same, but not alone. *)
LEMMA StartOthers ==
    ASSUME RequestTypeOK, NEW r \in Requests, NEW op, NEW a, NEW x, NEW gs, Start(r, op, a, x, gs),
           NEW p \in Requests, p # r
    PROVE  /\ request'[p].op = request[p].op /\ request'[p].id = request[p].id /\ request'[p].x = request[p].x
           /\ request'[p].groups = request[p].groups /\ request'[p].clean = FALSE
<1> DEFINE w == [op |-> op, id |-> a, x |-> x, groups |-> gs, clean |-> {q \in Requests : UnderWay(q)} = {}]
<1>1. request' = [q \in Requests |-> IF q = r THEN w ELSE [request[q] EXCEPT !.clean = FALSE]]
  BY DEF Start
<1> HIDE DEF w
<1>2. request'[p] = [request[p] EXCEPT !.clean = FALSE]
  BY <1>1
<1>3. ASSUME NEW q \in UnderWayRequests \cup {NoRequest}
      PROVE  LET v == [q EXCEPT !.clean = FALSE]
             IN v.op = q.op /\ v.id = q.id /\ v.x = q.x /\ v.groups = q.groups /\ v.clean = FALSE
  <2>1. CASE q \in UnderWayRequests
    BY <2>1 DEF UnderWayRequests
  <2>2. CASE q = NoRequest
    BY <2>2 DEF NoRequest
  <2>3. QED
    BY <1>3, <2>1, <2>2
<1>4. request[p] \in UnderWayRequests \cup {NoRequest}
  BY DEF RequestTypeOK
<1>5. QED
  BY <1>2, <1>3, <1>4

-----------------------------------------------------------------------------
(* Types and shapes *)

SentInv == \A r \in Requests : request[r].op = "send" => request[r].x \in sent
TypeInv == DataTypeOK /\ ShapeInv /\ SentInv

LEMMA TypeIs ==
    ASSUME TypeInv
    PROVE  RequestTypeOK /\ ShapeInv /\ SentInv /\ DataTypeOK
BY DEF TypeInv, DataTypeOK, RequestTypeOK, UnderWayRequests

(* What a request becomes. *)
Goings(r) ==
    \/ Quits(r)
    \/ \E gs \in Seq(Groups) : Goes(r, gs) /\ ShapedAs(request[r].op, request[r].id, request[r].x, gs)

LEMMA EndGroupGoes ==
    ASSUME RequestTypeOK, ShapeInv, NEW r \in Requests, UnderWay(r), NEW ok, EndGroup(r, ok)
    PROVE  Goings(r)
<1>1. request[r].groups \in Seq(Groups) /\ request[r].groups # <<>> /\ Others(r) \in Seq(Groups)
  BY UnderWayIs
<1>2. ShapedAs(request[r].op, request[r].id, request[r].x, request[r].groups)
  BY DEF ShapeInv, Shaped
<1>3. Others(r) # <<>> => ShapedAs(request[r].op, request[r].id, request[r].x, Others(r))
  BY <1>1, <1>2, TailShape DEF Others
<1>4. Goes(r, Others(r)) => Others(r) # <<>>
  BY DEF Goes
<1>5. Quits(r) \/ Goes(r, Others(r))
  BY EndGroupIs
<1>6. QED
  BY <1>1, <1>3, <1>4, <1>5 DEF Goings

LEMMA ProceedGoes ==
    ASSUME RequestTypeOK, ShapeInv, NEW r \in Requests, Statement(r), Proceed(r)
    PROVE  Goings(r)
<1>0. UnderWay(r) /\ Current(r).query = None /\ Current(r).body # <<>>
  BY DEF Statement
<1>1. request[r].groups \in Seq(Groups) /\ request[r].groups # <<>>
  BY <1>0, UnderWayIs
<1>2. ShapedAs(request[r].op, request[r].id, request[r].x, request[r].groups)
  BY <1>0 DEF ShapeInv, Shaped
<1>3. CASE Len(Current(r).body) = 1 /\ EndGroup(r, ~Current(r).doomed)
  BY <1>0, <1>3, EndGroupGoes
<1>4. CASE Len(Current(r).body) # 1 /\ Goes(r, Popped(request[r].groups))
  <2>1. Popped(request[r].groups) \in Seq(Groups)
    BY <1>0, <1>1, PoppedIs DEF Current
  <2>2. ShapedAs(request[r].op, request[r].id, request[r].x, Popped(request[r].groups))
    BY <1>0, <1>1, <1>2, <1>4, PoppedShape DEF Current
  <2>3. QED
    BY <1>4, <2>1, <2>2 DEF Goings
<1>5. QED
  BY <1>3, <1>4, ProceedIs

LEMMA GiveUpGoes ==
    ASSUME RequestTypeOK, ShapeInv, NEW r \in Requests, Statement(r), GiveUp(r, Head(Current(r).body))
    PROVE  /\ Goings(r)
           /\ Head(Current(r).body).undo # NoKey =>
                 Undoing(request[r].groups, Head(Current(r).body).undo) # <<>> /\ Head(Current(r).body).undo \in Keys
<1> DEFINE s == Head(Current(r).body)
           gs == Undoing(request[r].groups, s.undo)
<1>0. UnderWay(r) /\ Current(r).query = None /\ Current(r).body # <<>>
  BY DEF Statement
<1>1. request[r].groups \in Seq(Groups) /\ request[r].groups # <<>> /\ request[r].id \in Accounts
  BY <1>0, UnderWayIs
<1>2. ShapedAs(request[r].op, request[r].id, request[r].x, request[r].groups)
  BY <1>0 DEF ShapeInv, Shaped
<1>3. ASSUME s.undo # NoKey
      PROVE  /\ gs \in Seq(Groups) /\ gs # <<>> /\ ShapedAs(request[r].op, request[r].id, request[r].x, gs) /\ s.undo \in Keys
  <2>1. s.undo \in Keys /\ ShapedAs(request[r].op, request[r].id, request[r].x, gs)
    BY <1>0, <1>1, <1>2, <1>3, UndoingShape DEF Current
  <2>2. QED
    BY <1>1, <2>1, UndoingIs
<1>4. CASE s.undo = NoKey /\ EndGroup(r, FALSE)
  BY <1>0, <1>4, EndGroupGoes
<1>5. CASE s.undo # NoKey /\ Continue(r, gs)
  <2>1. Goes(r, gs)
    BY <1>3, <1>5, ContinueIs
  <2>2. QED
    BY <1>3, <1>5, <2>1 DEF Goings
<1>6. QED
  BY <1>3, <1>4, <1>5, GiveUpIs

LEMMA RunQueryGoes ==
    ASSUME RequestTypeOK, ShapeInv, NEW r \in Requests, RunQuery(r)
    PROVE  /\ Goings(r) /\ UnderWay(r) /\ Current(r).query \in RowQueries /\ Current(r).id = request[r].id
           /\ QueryOf(request[r].op, Current(r).query) /\ request[r].op \notin Single
           /\ Expand(Current(r).query, request[r].id) \in Seq(Groups)
<1>0. UnderWay(r)
  BY DEF RunQuery
<1>1. request[r].groups \in Seq(Groups) /\ request[r].groups # <<>> /\ request[r].id \in Accounts
      /\ Current(r).query \in Queries
  BY <1>0, UnderWayIs
<1>2. Current(r).query \in RowQueries
  BY <1>1 DEF RunQuery, RowQueries
<1>3. ShapedAs(request[r].op, request[r].id, request[r].x, request[r].groups)
  BY <1>0 DEF ShapeInv, Shaped
<1> DEFINE gs == Expand(Current(r).query, request[r].id) \o Others(r)
<1>4. /\ Current(r).id = request[r].id /\ gs \in Seq(Groups)
      /\ ShapedAs(request[r].op, request[r].id, request[r].x, gs)
      /\ QueryOf(request[r].op, Current(r).query) /\ request[r].op \notin Single
      /\ Expand(Current(r).query, request[r].id) \in Seq(Groups)
  BY <1>1, <1>2, <1>3, ExpandedShape DEF Current, Others
<1>5. Answer(r, FALSE, 0) \/ Continue(r, gs)
  BY <1>4 DEF RunQuery
<1>6. Quits(r) \/ Goes(r, gs)
  <2>1. CASE Answer(r, FALSE, 0)
    BY <2>1 DEF Answer, Quits
  <2>2. CASE Continue(r, gs)
    BY <2>2, ContinueIs
  <2>3. QED
    BY <1>5, <2>1, <2>2
<1> HIDE DEF gs
<1>7. Goings(r)
  BY <1>4, <1>6 DEF Goings
<1>8. QED
  BY <1>0, <1>2, <1>4, <1>7

(* The groups of the request for the unread messages. *)
LEMMA UnreadGroups ==
    ASSUME RequestTypeOK, ShapeInv, NEW r \in Requests, UnderWay(r), Current(r).query \in {"cache", "count", "store"}
    PROVE  /\ request[r].op = "unread" /\ Current(r).strict /\ Current(r).id = request[r].id
           /\ Len(request[r].groups) = 1 /\ Others(r) = <<>>
<1>1. request[r].groups \in Seq(Groups) /\ request[r].groups # <<>>
      /\ Current(r) = request[r].groups[1] /\ 1 \in DOMAIN request[r].groups
  BY UnderWayIs
<1>2. ShapedAs(request[r].op, request[r].id, request[r].x, request[r].groups)
  BY DEF ShapeInv, Shaped
<1>3. GroupOf(request[r].op, request[r].id, request[r].x, Current(r)) /\ Current(r).query # None
  BY <1>1, <1>2 DEF ShapedAs, None
<1>4. request[r].op = "unread" /\ Current(r).id = request[r].id
  BY <1>3 DEF GroupOf, QueryOf
<1>5. Current(r).strict /\ Len(request[r].groups) = 1
  BY <1>2, <1>4 DEF ShapedAs, Single, Current
<1>6. Others(r) = <<>>
  BY <1>1, <1>5, TailIs DEF Others
<1>7. QED
  BY <1>4, <1>5, <1>6

LEMMA UnreadShape ==
    ASSUME NEW a \in Accounts, NEW x, NEW q \in {"count", "store"}, NEW n \in Int
    PROVE  LET gs == <<Series(q, <<>>, TRUE, a, n, FALSE)>>
           IN gs \in Seq(Groups) /\ gs # <<>> /\ ShapedAs("unread", a, x, gs) /\ Head(gs).query = q /\ Head(gs).bump = n
<1> DEFINE g == Series(q, <<>>, TRUE, a, n, FALSE)
           gs == <<g>>
<1>1. g.query = q /\ g.body = <<>> /\ g.id = a /\ g.strict = TRUE /\ g.bump = n
  BY DEF Series
<1>2. g \in Groups
  <2>1. q \in Queries /\ <<>> \in Seq(Statements) /\ TRUE \in BOOLEAN /\ FALSE \in BOOLEAN /\ a \in Accounts \cup {None}
    BY DEF Queries
  <2>2. QED
    BY <2>1, GroupTypes
<1>3. GroupOf("unread", a, x, g)
  BY <1>1 DEF GroupOf, QueryOf, None
<1> HIDE DEF g
<1>4. gs \in Seq(Groups) /\ gs # <<>> /\ Len(gs) = 1 /\ Head(gs) = g /\ \A i \in DOMAIN gs : gs[i] = g
  BY <1>2
<1>5. ShapedAs("unread", a, x, gs)
  BY <1>1, <1>3, <1>4 DEF ShapedAs
<1>6. QED
  BY <1>1, <1>4, <1>5 DEF g

LEMMA UnreadIsFinite ==
    ASSUME NEW a
    PROVE  Cardinality(Unread(a)) \in Nat /\ IsFiniteSet(Unread(a)) /\ (Unread(a) # {} => Cardinality(Unread(a)) > 0)
<1>1. IsFiniteSet(Unread(a))
  BY DataAssumption, FS_Subset DEF Unread
<1>2. Cardinality(Unread(a)) \in Nat
  BY <1>1, FS_CardinalityType
<1>3. Unread(a) # {} => Cardinality(Unread(a)) # 0
  BY <1>1, FS_EmptySet
<1>4. QED
  BY <1>1, <1>2, <1>3

LEMMA QueryIsSeries ==
    ASSUME NEW q, NEW a
    PROVE  Query(q, a) = Series(q, <<>>, TRUE, a, 0, FALSE)
BY DEF Query

LEMMA ReadCacheGoes ==
    ASSUME RequestTypeOK, ShapeInv, NEW r \in Requests, ReadCache(r)
    PROVE  /\ Goings(r) /\ UnderWay(r) /\ request[r].op = "unread"
           /\ \/ Quits(r) /\ Known(unread[request[r].id]) /\ Says(r, TRUE, unread[request[r].id])
              \/ Goes(r, <<Query("count", request[r].id)>>)
<1>0. UnderWay(r) /\ Current(r).query = "cache"
  BY DEF ReadCache
<1>1. request[r].op = "unread" /\ request[r].id \in Accounts
  BY <1>0, UnreadGroups, UnderWayIs
<1> DEFINE gs == <<Query("count", request[r].id)>>
<1>2. gs \in Seq(Groups) /\ gs # <<>> /\ ShapedAs("unread", request[r].id, request[r].x, gs)
  <2>1. 0 \in Int
    OBVIOUS
  <2>2. QED
    BY <1>1, <2>1, UnreadShape, QueryIsSeries
<1>3. \/ Known(unread[request[r].id]) /\ Answer(r, TRUE, unread[request[r].id])
      \/ Continue(r, gs)
  BY DEF ReadCache
<1>4. \/ Quits(r) /\ Known(unread[request[r].id]) /\ Says(r, TRUE, unread[request[r].id])
      \/ Goes(r, gs)
  <2>1. CASE Known(unread[request[r].id]) /\ Answer(r, TRUE, unread[request[r].id])
    BY <2>1 DEF Answer, Quits, Says
  <2>2. CASE Continue(r, gs)
    BY <1>2, <2>2, ContinueIs
  <2>3. QED
    BY <1>3, <2>1, <2>2
<1> HIDE DEF gs
<1>5. Goings(r)
  BY <1>1, <1>2, <1>4 DEF Goings
<1>6. QED
  BY <1>0, <1>1, <1>4, <1>5 DEF gs

LEMMA CountUnreadGoes ==
    ASSUME RequestTypeOK, ShapeInv, NEW r \in Requests, CountUnread(r)
    PROVE  /\ Goings(r) /\ UnderWay(r) /\ request[r].op = "unread"
           /\ LET gs == <<Series("store", <<>>, TRUE, request[r].id, Cardinality(Unread(request[r].id)), FALSE)>>
              IN Goes(r, gs) /\ gs \in Seq(Groups) /\ Head(gs).query = "store" /\ Head(gs).bump = Cardinality(Unread(request[r].id))
<1>0. UnderWay(r) /\ Current(r).query = "count"
  BY DEF CountUnread
<1>1. request[r].op = "unread" /\ request[r].id \in Accounts
  BY <1>0, UnreadGroups, UnderWayIs
<1> DEFINE n == Cardinality(Unread(request[r].id))
           gs == <<Series("store", <<>>, TRUE, request[r].id, n, FALSE)>>
<1>2. n \in Int
  BY UnreadIsFinite
<1>3. gs \in Seq(Groups) /\ gs # <<>> /\ ShapedAs("unread", request[r].id, request[r].x, gs)
      /\ Head(gs).query = "store" /\ Head(gs).bump = n
  <2> HIDE DEF n
  <2>1. QED
    BY <1>1, <1>2, UnreadShape
<1>4. Continue(r, gs)
  BY DEF CountUnread
<1>5. Goes(r, gs)
  BY <1>3, <1>4, ContinueIs
<1> HIDE DEF gs
<1>6. Goings(r)
  BY <1>1, <1>3, <1>5 DEF Goings
<1>7. QED
  BY <1>0, <1>1, <1>3, <1>5, <1>6 DEF gs

(* Every step of a request ends it or leaves it with groups that fit. *)
LEMMA AdvanceGoes ==
    ASSUME RequestTypeOK, ShapeInv, NEW r \in Requests, Advances(r)
    PROVE  UnderWay(r) /\ Goings(r) /\ sent' = sent /\ budget' = budget
<1>1. CASE Execute(r)
  <2>1. Statement(r) /\ (Proceed(r) \/ GiveUp(r, Head(Current(r).body))) /\ sent' = sent /\ budget' = budget
    BY <1>1 DEF Execute
  <2>2. QED
    BY <2>1, ProceedGoes, GiveUpGoes DEF Statement
<1>2. CASE Fail(r)
  <2>1. Statement(r) /\ (Proceed(r) \/ GiveUp(r, Head(Current(r).body))) /\ sent' = sent /\ budget' = budget
    BY <1>2 DEF Fail
  <2>2. QED
    BY <2>1, ProceedGoes, GiveUpGoes DEF Statement
<1>3. CASE NothingToDo(r)
  BY <1>3, EndGroupGoes DEF NothingToDo
<1>4. CASE RunQuery(r)
  BY <1>4, RunQueryGoes DEF RunQuery
<1>5. CASE FailQuery(r)
  BY <1>5, EndGroupGoes DEF FailQuery
<1>6. CASE ReadCache(r)
  BY <1>6, ReadCacheGoes DEF ReadCache
<1>7. CASE CountUnread(r)
  BY <1>7, CountUnreadGoes DEF CountUnread
<1>8. CASE StoreCount(r)
  BY <1>8 DEF StoreCount, Answer, Quits, Goings
<1>9. CASE Crash(r)
  BY <1>9 DEF Crash, Quits, Goings
<1>10. QED
  BY <1>1, <1>2, <1>3, <1>4, <1>5, <1>6, <1>7, <1>8, <1>9 DEF Advances

(* The requests after such a step: one has ended or has other groups, the others are as before. *)
LEMMA GoingsAre ==
    ASSUME RequestTypeOK, NEW r \in Requests, UnderWay(r), Goings(r)
    PROVE  /\ RequestTypeOK'
           /\ \A p \in Requests : p # r => request'[p] = request[p]
           /\ \/ request'[r] = NoRequest
              \/ /\ request'[r].op = request[r].op /\ request'[r].id = request[r].id /\ request'[r].x = request[r].x
                 /\ request'[r].clean = request[r].clean /\ request'[r].groups # <<>>
                 /\ ShapedAs(request[r].op, request[r].id, request[r].x, request'[r].groups)
                 /\ last' = last
<1>1. CASE Quits(r)
  BY <1>1, QuitsWell
<1>2. CASE \E gs \in Seq(Groups) : Goes(r, gs) /\ ShapedAs(request[r].op, request[r].id, request[r].x, gs)
  <2>1. PICK gs \in Seq(Groups) : Goes(r, gs) /\ ShapedAs(request[r].op, request[r].id, request[r].x, gs)
    BY <1>2
  <2>2. gs # <<>> /\ last' = last
    BY <2>1 DEF Goes
  <2>3. QED
    BY <2>1, <2>2, GoesWell
<1>3. QED
  BY <1>1, <1>2 DEF Goings

LEMMA ShapeStep ==
    ASSUME RequestTypeOK, ShapeInv, NEW r \in Requests, Advances(r)
    PROVE  RequestTypeOK' /\ ShapeInv'
<1>1. UnderWay(r) /\ Goings(r)
  BY AdvanceGoes
<1>2. /\ RequestTypeOK'
      /\ \A p \in Requests : p # r => request'[p] = request[p]
      /\ \/ request'[r] = NoRequest
         \/ /\ request'[r].op = request[r].op /\ request'[r].id = request[r].id /\ request'[r].x = request[r].x
            /\ ShapedAs(request[r].op, request[r].id, request[r].x, request'[r].groups)
  BY <1>1, GoingsAre
<1>3. ASSUME NEW p \in Requests, request'[p].op # "none"
      PROVE  ShapedAs(request'[p].op, request'[p].id, request'[p].x, request'[p].groups)
  <2>1. CASE p # r
    BY <1>2, <1>3, <2>1 DEF ShapeInv, Shaped, UnderWay
  <2>2. CASE p = r
    BY <1>2, <1>3, <2>2, OpsAre
  <2>3. QED
    BY <2>1, <2>2
<1>4. ShapeInv'
  BY <1>3 DEF ShapeInv, Shaped, UnderWay
<1>5. QED
  BY <1>2, <1>4

LEMMA SameRecord ==
    ASSUME NEW o, NEW i, NEW x, NEW g, NEW c
    PROVE  [[op |-> o, id |-> i, x |-> x, groups |-> g, clean |-> c] EXCEPT !.clean = c]
           = [op |-> o, id |-> i, x |-> x, groups |-> g, clean |-> c]
OBVIOUS

LEMMA ShapeStart ==
    ASSUME RequestTypeOK, ShapeInv, NEW r \in Requests, NEW op \in Ops, NEW a \in Accounts,
           NEW x \in Accounts \cup Messages \cup {None, "message", "archive"}, NEW gs,
           Start(r, op, a, x, gs), Begins(op, a, x, gs)
    PROVE  RequestTypeOK' /\ ShapeInv'
<1>1. gs \in Seq(Groups) /\ gs # <<>> /\ ShapedAs(op, a, x, gs)
  BY BeginsTypes, BeginsShape
<1> DEFINE w == [op |-> op, id |-> a, x |-> x, groups |-> gs, clean |-> {q \in Requests : UnderWay(q)} = {}]
<1>2. /\ request'[r].op = op /\ request'[r].id = a /\ request'[r].x = x /\ request'[r].groups = gs
      /\ \A p \in Requests : p # r =>
                /\ request'[p].op = request[p].op /\ request'[p].id = request[p].id /\ request'[p].x = request[p].x
                /\ request'[p].groups = request[p].groups
  <2> HIDE DEF w
  <2>1. request'[r].op = op /\ request'[r].id = a /\ request'[r].x = x /\ request'[r].groups = gs
    BY StartIs
  <2>2. QED
    BY <2>1, StartOthers
<1>3. request' = [p \in Requests |-> IF p = r THEN w ELSE [request[p] EXCEPT !.clean = FALSE]]
  BY DEF Start
<1>4. w \in UnderWayRequests
  <2>1. gs \in Seq(Groups) \ {<<>>} /\ ({q \in Requests : UnderWay(q)} = {}) \in BOOLEAN
    BY <1>1
  <2>2. QED
    BY <2>1 DEF UnderWayRequests
<1>5. ASSUME NEW q \in UnderWayRequests \cup {NoRequest}
      PROVE  [q EXCEPT !.clean = FALSE] \in UnderWayRequests \cup {NoRequest}
  <2>1. CASE q \in UnderWayRequests
    BY <2>1 DEF UnderWayRequests
  <2>2. CASE q = NoRequest
    <3>1. [NoRequest EXCEPT !.clean = FALSE] = NoRequest
      <4> DEFINE n == "none"
                 e == <<>>
                 f == FALSE
                 v == [op |-> n, id |-> None, x |-> None, groups |-> e, clean |-> f]
      <4>1. NoRequest = v
        BY DEF NoRequest
      <4> HIDE DEF n, e, f
      <4>2. [v EXCEPT !.clean = f] = v
        BY SameRecord
      <4> HIDE DEF v
      <4>3. [NoRequest EXCEPT !.clean = f] = NoRequest
        BY <4>1, <4>2
      <4>4. QED
        BY <4>3 DEF f
    <3>2. QED
      BY <2>2, <3>1
  <2>3. QED
    BY <1>5, <2>1, <2>2
<1> HIDE DEF w
<1>6. \A p \in Requests : (IF p = r THEN w ELSE [request[p] EXCEPT !.clean = FALSE]) \in UnderWayRequests \cup {NoRequest}
  BY <1>4, <1>5 DEF RequestTypeOK
<1>7. RequestTypeOK'
  BY <1>3, <1>6 DEF RequestTypeOK
<1>8. ASSUME NEW p \in Requests, request'[p].op # "none"
      PROVE  ShapedAs(request'[p].op, request'[p].id, request'[p].x, request'[p].groups)
  <2>1. CASE p # r
    BY <1>2, <1>8, <2>1 DEF ShapeInv, Shaped, UnderWay
  <2>2. CASE p = r
    BY <1>1, <1>2, <2>2
  <2>3. QED
    BY <2>1, <2>2
<1>9. ShapeInv'
  BY <1>8 DEF ShapeInv, Shaped, UnderWay
<1>10. QED
  BY <1>7, <1>9

(* The statement that a request does next. *)
HeadOf(op, a, x, s) ==
    LET k == Key("connection", a, x)
    IN  \/ op = "addAccount" /\ s \in {AddLogin(a), AddOrUndo(Account(a), Auth(a)), SoftDel(Auth(a)), Put(Counter(a))}
        \/ /\ op = "make" /\ x \in Accounts /\ x # a
           /\ s \in {Put(k), Add(k), PutOrUndo(Mirror(k), k), AddOrUndo(Mirror(k), k), SoftDel(k)}
        \/ op \in {"unmake", "unmakeAll"} /\ \E h \in KeysOf("connection", a) : s \in {Del(h), Del(Mirror(h))}
        \/ /\ op = "send" /\ x \in Messages /\ a = Sender[x]
           /\ s \in {Add(Key("message", Recipient[x], x)), SoftAdd(Key("sent", Sender[x], x))}
        \/ op \in {"move", "receive"} /\ \E h \in KeysOf("message", a) : s \in {Put(Archived(h)), Del(h)}
        \/ op = "read" /\ \E h \in KeysOf("message", a) : s = Update(h, "read")
        \/ op = "delete" /\ \E h \in KeysOf("message", a) \cup KeysOf("archive", a) : s = Del(h)
        \/ op = "deleteSent" /\ \E h \in KeysOf("sent", a) : s = Del(h)
        \/ op = "deleteAccount" /\ Erasure(a, s)

LEMMA HeadIs ==
    ASSUME NEW op, NEW a \in Accounts, NEW x, NEW body \in Seq(Statements), body # <<>>, BodyOf(op, a, x, body)
    PROVE  HeadOf(op, a, x, Head(body)) /\ Head(body) \in Statements
<1>0. \A s, u : Head(<<s, u>>) = s /\ Head(<<s>>) = s
  BY PairIs
<1>1. Head(body) \in Statements /\ Head(body) = body[1] /\ 1 \in DOMAIN body
  BY TailIs
<1>2. CASE op = "addAccount"
  BY <1>0, <1>1, <1>2 DEF BodyOf, AddBody, HeadOf
<1>3. CASE op = "make"
  <2>1. x \in Accounts /\ x # a /\ MakeBody(Key("connection", a, x), body)
    BY <1>3 DEF BodyOf
  <2>2. QED
    BY <1>0, <1>1, <1>3, <2>1 DEF MakeBody, HeadOf
<1>4. CASE op \in {"unmake", "unmakeAll"}
  <2>1. PICK k \in KeysOf("connection", a) : UnlinkBody(k, body)
    <3>1. CASE op = "unmake"
      <4>1. x \in Accounts /\ x # a /\ UnlinkBody(Key("connection", a, x), body)
        BY <3>1 DEF BodyOf
      <4>2. Key("connection", a, x) \in KeysOf("connection", a)
        BY <4>1, KeysAre, KeyFields DEF KeysOf
      <4>3. QED
        BY <4>1, <4>2
    <3>2. CASE op = "unmakeAll"
      BY <3>2 DEF BodyOf
    <3>3. QED
      BY <1>4, <3>1, <3>2
  <2>2. Head(body) \in {Del(k), Del(Mirror(k))}
    BY <1>0, <2>1 DEF UnlinkBody, Unlink
  <2>3. QED
    BY <1>1, <1>4, <2>1, <2>2 DEF HeadOf
<1>5. CASE op = "send"
  <2>1. x \in Messages /\ a = Sender[x] /\ SendBody(x, body)
    BY <1>5 DEF BodyOf
  <2>2. QED
    BY <1>0, <1>1, <1>5, <2>1 DEF SendBody, HeadOf
<1>6. CASE op \in {"move", "receive"}
  <2>1. PICK k \in KeysOf("message", a) : MoveBody(k, body)
    BY <1>6 DEF BodyOf
  <2>2. Head(body) \in {Put(Archived(k)), Del(k)}
    BY <1>0, <2>1 DEF MoveBody, ArchiveRow, Archived
  <2>3. QED
    BY <1>1, <1>6, <2>1, <2>2 DEF HeadOf
<1>7. CASE op \in {"read", "delete", "deleteSent"}
  BY <1>0, <1>1, <1>7 DEF BodyOf, HeadOf
<1>8. CASE op = "deleteAccount"
  BY <1>1, <1>8 DEF BodyOf, HeadOf
<1>9. QED
  BY <1>2, <1>3, <1>4, <1>5, <1>6, <1>7, <1>8 DEF BodyOf

(* Which request writes which table, and how. *)
LEMMA TablesOf ==
    ASSUME NEW op, NEW a \in Accounts, NEW x, NEW s, HeadOf(op, a, x, s)
    PROVE  /\ (s.k.t \in {"auth", "account", "counter"}) => op \in {"addAccount", "deleteAccount"}
           /\ s.k.t = "auth" => s.k = Auth(a)
           /\ (s.k.t \in {"account", "counter"}) => s.k.id = a
           /\ (s.k.t = "connection") => op \in {"make", "unmake", "unmakeAll", "deleteAccount"} /\ s.k.id = a
           /\ (s.k.t = "reference") => op \in {"make", "unmake", "unmakeAll", "deleteAccount"} /\ s.k.x = a
           /\ (s.k.t = "message") => \/ op = "send" /\ x \in Messages /\ s = Add(Key("message", Recipient[x], x))
                                     \/ op \in {"move", "receive", "delete", "deleteAccount"} /\ s = Del(s.k) /\ s.k.id = a
                                     \/ op = "read" /\ s = Update(s.k, "read") /\ s.k.id = a
           /\ (s.k.t = "archive") => \/ /\ op \in {"move", "receive"} /\ s = Put(s.k)
                                        /\ \E h \in KeysOf("message", a) : s.k = Archived(h)
                                     \/ op \in {"delete", "deleteAccount"} /\ s = Del(s.k) /\ s.k.id = a
           /\ (s.k.t = "sent") => op \in {"send", "deleteSent", "deleteAccount"}
           /\ s.k \in Keys
<1> DEFINE k == Key("connection", a, x)
<1>0. \A h, u, v : /\ Put(h).k = h /\ Add(h).k = h /\ PutOrUndo(h, u).k = h /\ AddOrUndo(h, u).k = h
                   /\ SoftAdd(h).k = h /\ Update(h, v).k = h /\ Del(h).k = h /\ SoftDel(h).k = h
                   /\ AddLogin(h).k = Auth(h)
  BY DEF AddLogin, Put, Add, PutOrUndo, AddOrUndo, SoftAdd, Update, Del, SoftDel, Sql
<1>1. /\ Auth(a).t = "auth" /\ Account(a).t = "account" /\ Account(a).id = a
      /\ Counter(a).t = "counter" /\ Counter(a).id = a
      /\ Auth(a) \in Keys /\ Account(a) \in Keys /\ Counter(a) \in Keys
  BY KeysAre, KeyFields DEF Auth, Account, Counter
<1>2. \A h \in KeysOf("connection", a) : /\ h \in Keys /\ h.t = "connection" /\ h.id = a
                                         /\ Mirror(h) \in Keys /\ Mirror(h).t = "reference" /\ Mirror(h).x = a
  BY MirrorIs, KeyFields DEF KeysOf
<1>3. x \in Accounts /\ x # a => k \in KeysOf("connection", a)
  BY KeysAre, KeyFields DEF KeysOf
<1>4. CASE op = "addAccount"
  BY <1>0, <1>1, <1>4 DEF HeadOf
<1>5. CASE op = "make"
  <2>1. k \in KeysOf("connection", a)
        /\ s \in {Put(k), Add(k), PutOrUndo(Mirror(k), k), AddOrUndo(Mirror(k), k), SoftDel(k)}
    BY <1>3, <1>5 DEF HeadOf
  <2> HIDE DEF k
  <2>2. s.k = k \/ s.k = Mirror(k)
    BY <1>0, <2>1
  <2>3. QED
    BY <1>2, <1>5, <2>1, <2>2
<1>6. CASE op \in {"unmake", "unmakeAll"}
  <2>1. PICK h \in KeysOf("connection", a) : s \in {Del(h), Del(Mirror(h))}
    BY <1>6 DEF HeadOf
  <2>2. s.k = h \/ s.k = Mirror(h)
    BY <1>0, <2>1
  <2>3. QED
    BY <1>2, <1>6, <2>1, <2>2
<1>7. CASE op = "send"
  <2>1. x \in Messages /\ s \in {Add(Key("message", Recipient[x], x)), SoftAdd(Key("sent", Sender[x], x))}
    BY <1>7 DEF HeadOf
  <2>2. Key("message", Recipient[x], x).t = "message" /\ Key("sent", Sender[x], x).t = "sent"
        /\ Key("message", Recipient[x], x) \in Keys /\ Key("sent", Sender[x], x) \in Keys
    BY <2>1, KeyFields, KeysAre
  <2>3. CASE s = Add(Key("message", Recipient[x], x))
    <3>1. s.k = Key("message", Recipient[x], x)
      BY <1>0, <2>3
    <3>2. QED
      BY <1>7, <2>1, <2>2, <2>3, <3>1
  <2>4. CASE s = SoftAdd(Key("sent", Sender[x], x))
    <3>1. s.k = Key("sent", Sender[x], x)
      BY <1>0, <2>4
    <3>2. QED
      BY <1>7, <2>1, <2>2, <3>1
  <2>5. QED
    BY <2>1, <2>3, <2>4
<1>8. CASE op \in {"move", "receive"}
  <2>1. PICK h \in KeysOf("message", a) : s \in {Put(Archived(h)), Del(h)}
    BY <1>8 DEF HeadOf
  <2>2. h \in Keys /\ h.t = "message" /\ h.id = a
    BY DEF KeysOf
  <2>3. Archived(h) \in Keys /\ Archived(h).t = "archive"
    BY <2>2, ArchiveIs, KeyFields DEF Archived
  <2>4. CASE s = Put(Archived(h))
    <3>1. s.k = Archived(h)
      BY <1>0, <2>4
    <3>2. QED
      BY <1>8, <2>1, <2>3, <2>4, <3>1
  <2>5. CASE s = Del(h)
    <3>1. s.k = h
      BY <1>0, <2>5
    <3>2. QED
      BY <1>8, <2>2, <2>5, <3>1
  <2>6. QED
    BY <2>1, <2>4, <2>5
<1>9. CASE op = "read"
  <2>1. PICK h \in KeysOf("message", a) : s = Update(h, "read")
    BY <1>9 DEF HeadOf
  <2>2. h \in Keys /\ h.t = "message" /\ h.id = a /\ s.k = h
    BY <1>0, <2>1 DEF KeysOf
  <2>3. QED
    BY <1>9, <2>1, <2>2
<1>10. CASE op = "delete"
  <2>1. PICK h \in KeysOf("message", a) \cup KeysOf("archive", a) : s = Del(h)
    BY <1>10 DEF HeadOf
  <2>2. h \in Keys /\ h.t \in {"message", "archive"} /\ h.id = a /\ s.k = h
    BY <1>0, <2>1 DEF KeysOf
  <2>3. QED
    BY <1>10, <2>1, <2>2
<1>11. CASE op = "deleteSent"
  <2>1. PICK h \in KeysOf("sent", a) : s = Del(h)
    BY <1>11 DEF HeadOf
  <2>2. h \in Keys /\ h.t = "sent" /\ h.id = a /\ s.k = h
    BY <1>0, <2>1 DEF KeysOf
  <2>3. QED
    BY <1>11, <2>2
<1>12. CASE op = "deleteAccount"
  <2>1. Erasure(a, s)
    BY <1>12 DEF HeadOf
  <2>2. CASE \E h \in Keys : h.id = a /\ h.t \notin {"auth", "reference"} /\ s = Del(h)
    <3>1. PICK h \in Keys : h.id = a /\ h.t \notin {"auth", "reference"} /\ s = Del(h)
      BY <2>2
    <3>2. s.k = h
      BY <1>0, <3>1
    <3>3. QED
      BY <1>12, <3>1, <3>2
  <2>3. CASE \E h \in KeysOf("connection", a) : s = SoftDel(Mirror(h))
    <3>1. PICK h \in KeysOf("connection", a) : s = SoftDel(Mirror(h))
      BY <2>3
    <3>2. s.k = Mirror(h)
      BY <1>0, <3>1
    <3>3. QED
      BY <1>2, <1>12, <3>2
  <2>4. CASE s = Update(Account(a), "deleted")
    <3>1. s.k = Account(a)
      BY <1>0, <2>4
    <3>2. QED
      BY <1>1, <1>12, <3>1
  <2>5. CASE s = Del(Auth(a))
    <3>1. s.k = Auth(a)
      BY <1>0, <2>5
    <3>2. QED
      BY <1>1, <1>12, <3>1
  <2>6. QED
    BY <2>1, <2>2, <2>3, <2>4, <2>5 DEF Erasure
<1>13. QED
  BY <1>4, <1>5, <1>6, <1>7, <1>8, <1>9, <1>10, <1>11, <1>12 DEF HeadOf

LEMMA StatementIs ==
    ASSUME RequestTypeOK, ShapeInv, NEW r \in Requests, Statement(r)
    PROVE  /\ HeadOf(request[r].op, request[r].id, request[r].x, Head(Current(r).body))
           /\ BodyOf(request[r].op, request[r].id, request[r].x, Current(r).body)
           /\ Head(Current(r).body) \in Statements
           /\ UnderWay(r) /\ Current(r).query = None /\ Current(r).body # <<>> /\ Current(r).body \in Seq(Statements)
<1>0. UnderWay(r) /\ Current(r).query = None /\ Current(r).body # <<>>
  BY DEF Statement
<1>1. /\ request[r].groups \in Seq(Groups) /\ request[r].id \in Accounts
      /\ Current(r) = request[r].groups[1] /\ 1 \in DOMAIN request[r].groups /\ Current(r).body \in Seq(Statements)
  BY <1>0, UnderWayIs
<1>2. BodyOf(request[r].op, request[r].id, request[r].x, Current(r).body)
  BY <1>0, <1>1 DEF ShapeInv, Shaped, ShapedAs, GroupOf
<1>3. QED
  BY <1>0, <1>1, <1>2, HeadIs

LEMMA UnreadTypes ==
    ASSUME unread \in [Accounts -> Int \cup {NoCount}], NEW g \in Groups, NEW ok
    PROVE  Bumped(g, ok) \in [Accounts -> Int \cup {NoCount}]
<1>1. g.bump \in Int
  BY DEF Groups
<1>2. ASSUME NEW b \in Accounts PROVE (IF unread[b] = NoCount THEN 0 ELSE unread[b]) + g.bump \in Int
  <2>1. unread[b] \in Int \cup {NoCount}
    OBVIOUS
  <2>2. (IF unread[b] = NoCount THEN 0 ELSE unread[b]) \in Int
    BY <2>1
  <2>3. QED
    BY <1>1, <2>2
<1> DEFINE v == (IF unread[g.id] = NoCount THEN 0 ELSE unread[g.id]) + g.bump
<1>3. Bumped(g, ok) = unread \/ Bumped(g, ok) = [unread EXCEPT ![g.id] = v]
  BY DEF Bumped
<1>4. g.id \in Accounts => v \in Int
  BY <1>2
<1> HIDE DEF v
<1>5. [unread EXCEPT ![g.id] = v] \in [Accounts -> Int \cup {NoCount}]
  BY <1>4
<1>6. QED
  BY <1>3, <1>5

LEMMA WriteTypes ==
    ASSUME DataTypeOK, ShapeInv, SentInv, NEW r \in Requests, Statement(r), Write(Head(Current(r).body))
    PROVE  /\ rows' \in [Keys -> Values]
           /\ kept' \subseteq sent
<1> DEFINE s == Head(Current(r).body)
<1>1. RequestTypeOK
  BY DEF DataTypeOK, RequestTypeOK, UnderWayRequests
<1>2. HeadOf(request[r].op, request[r].id, request[r].x, s) /\ s \in Statements /\ request[r].id \in Accounts
  BY <1>1, StatementIs, UnderWayIs
<1> HIDE DEF s
<1>3. s.v \in Values /\ s.k \in Keys
  BY <1>2 DEF Statements
<1>4. rows' \in [Keys -> Values]
  <2>1. rows \in [Keys -> Values]
    BY DEF DataTypeOK
  <2>2. rows' = rows \/ rows' = [rows EXCEPT ![s.k] = s.v]
    BY DEF Write, s
  <2>3. QED
    BY <1>3, <2>1, <2>2
<1>5. kept' = kept \/ (s.k.t = "message" /\ s.onto = "absent" /\ kept' = kept \cup {s.k.x})
  BY DEF Write, s
<1>6. ASSUME s.k.t = "message", s.onto = "absent" PROVE s.k.x \in sent
  <2>1. \A h : Del(h).onto = "all" /\ Update(h, "read").onto = "present"
    BY DEF Del, Update, Sql
  <2>2. request[r].op = "send" /\ s = Add(Key("message", Recipient[request[r].x], request[r].x))
    BY <1>2, <1>6, <2>1, TablesOf
  <2>3. s.k.x = request[r].x
    <3>1. \A h : Add(h).k = h
      BY DEF Add, Sql
    <3>2. QED
      BY <2>2, <3>1, KeyFields
  <2>4. QED
    BY <2>2, <2>3 DEF SentInv
<1>7. kept \subseteq sent
  BY DEF DataTypeOK
<1>8. QED
  BY <1>4, <1>5, <1>6, <1>7

LEMMA TypeAdvance ==
    ASSUME TypeInv, NEW r \in Requests, Advances(r)
    PROVE  TypeInv'
<1>0. RequestTypeOK /\ ShapeInv /\ SentInv /\ DataTypeOK
  BY TypeIs
<1>1. RequestTypeOK' /\ ShapeInv'
  BY <1>0, ShapeStep
<1>2. UnderWay(r) /\ Goings(r) /\ sent' = sent /\ budget' = budget
  BY <1>0, AdvanceGoes
<1>3. /\ \A p \in Requests : p # r => request'[p] = request[p]
      /\ request'[r] = NoRequest \/ (request'[r].op = request[r].op /\ request'[r].x = request[r].x)
  BY <1>0, <1>2, GoingsAre
<1>4. SentInv'
  <2> SUFFICES ASSUME NEW p \in Requests, request'[p].op = "send" PROVE request'[p].x \in sent
    BY <1>2 DEF SentInv
  <2>1. request'[p].op = request[p].op /\ request'[p].x = request[p].x
    BY <1>3, OpsAre
  <2>2. QED
    BY <1>0, <2>1 DEF SentInv
<1>5. Current(r) \in Groups /\ request[r].id \in Accounts
  BY <1>0, <1>2, UnderWayIs
<1>6. /\ rows \in [Keys -> Values] /\ unread \in [Accounts -> Int \cup {NoCount}]
      /\ mishaps \in 0..Mishaps /\ torn \subseteq {"crash", "effect", "overlap"}
      /\ kept \subseteq sent /\ Mishaps \in Nat /\ ids \subseteq Accounts /\ partial \in BOOLEAN
  BY <1>0, DataAssumption DEF DataTypeOK
<1>7. /\ rows' \in [Keys -> Values] /\ kept' \subseteq sent
  <2>1. CASE rows' = rows /\ kept' = kept
    BY <1>6, <2>1
  <2>2. CASE Statement(r) /\ Write(Head(Current(r).body))
    BY <1>0, <2>2, WriteTypes
  <2>3. (rows' = rows /\ kept' = kept) \/ (Statement(r) /\ Write(Head(Current(r).body)))
    <3>1. CASE Execute(r)
      BY <3>1 DEF Execute
    <3>2. CASE Fail(r)
      BY <3>2 DEF Fail
    <3>3. CASE Crash(r)
      BY <3>3 DEF Crash
    <3>4. CASE NothingToDo(r) \/ RunQuery(r) \/ FailQuery(r) \/ ReadCache(r) \/ CountUnread(r) \/ StoreCount(r)
      BY <3>4 DEF NothingToDo, RunQuery, FailQuery, ReadCache, CountUnread, StoreCount
    <3>5. QED
      BY <3>1, <3>2, <3>3, <3>4 DEF Advances
  <2>4. QED
    BY <2>1, <2>2, <2>3
<1>8. mishaps' \in 0..Mishaps /\ torn' \subseteq {"crash", "effect", "overlap"}
  <2>1. mishaps' = mishaps \/ (mishaps > 0 /\ mishaps' = mishaps - 1)
    <3>1. CASE Execute(r) \/ NothingToDo(r) \/ RunQuery(r) \/ ReadCache(r) \/ CountUnread(r) \/ StoreCount(r)
      BY <3>1 DEF Execute, NothingToDo, RunQuery, ReadCache, CountUnread, StoreCount
    <3>2. CASE Fail(r) \/ FailQuery(r) \/ Crash(r)
      BY <3>2 DEF Fail, FailQuery, Crash
    <3>3. QED
      BY <3>1, <3>2 DEF Advances
  <2>2. torn' = torn \/ torn' = torn \cup {"effect"} \/ torn' = torn \cup {"crash"}
    <3>1. CASE Execute(r) \/ NothingToDo(r) \/ RunQuery(r) \/ ReadCache(r) \/ CountUnread(r) \/ StoreCount(r)
      BY <3>1 DEF Execute, NothingToDo, RunQuery, ReadCache, CountUnread, StoreCount
    <3>2. CASE Fail(r) \/ FailQuery(r) \/ Crash(r)
      BY <3>2 DEF Fail, FailQuery, Crash
    <3>3. QED
      BY <3>1, <3>2 DEF Advances
  <2>3. mishaps' \in 0..Mishaps
    <3>1. mishaps \in 0..Mishaps /\ Mishaps \in Nat
      BY <1>6
    <3>2. QED
      BY <2>1, <3>1
  <2>4. torn' \subseteq {"crash", "effect", "overlap"}
    <3>1. torn \subseteq {"crash", "effect", "overlap"}
      BY <1>6
    <3>2. QED
      BY <2>2, <3>1
  <2>5. QED
    BY <2>3, <2>4
<1>9. unread' \in [Accounts -> Int \cup {NoCount}]
  <2>1. ASSUME NEW ok, EndGroup(r, ok) PROVE unread' \in [Accounts -> Int \cup {NoCount}]
    <3>1. unread' = Bumped(Current(r), ok)
      BY <2>1 DEF EndGroup
    <3>2. Bumped(Current(r), ok) \in [Accounts -> Int \cup {NoCount}]
      BY <1>5, <1>6, UnreadTypes
    <3>3. QED
      BY <3>1, <3>2
  <2>2. Proceed(r) => unread' \in [Accounts -> Int \cup {NoCount}]
    BY <1>6, <2>1, ProceedIs
  <2>3. \A s : GiveUp(r, s) => unread' \in [Accounts -> Int \cup {NoCount}]
    BY <1>6, <2>1, GiveUpIs
  <2>4. CASE Execute(r)
    <3>1. Proceed(r) \/ GiveUp(r, Head(Current(r).body))
      BY <2>4 DEF Execute
    <3>2. QED
      BY <2>2, <2>3, <3>1
  <2>5. CASE Fail(r)
    <3>1. Proceed(r) \/ GiveUp(r, Head(Current(r).body))
      BY <2>5 DEF Fail
    <3>2. QED
      BY <2>2, <2>3, <3>1
  <2>6. CASE NothingToDo(r) \/ FailQuery(r)
    <3>1. EndGroup(r, TRUE) \/ EndGroup(r, FALSE)
      BY <2>6 DEF NothingToDo, FailQuery
    <3>2. QED
      BY <2>1, <3>1
  <2>7. CASE RunQuery(r) \/ ReadCache(r) \/ CountUnread(r) \/ Crash(r)
    BY <1>6, <2>7 DEF RunQuery, ReadCache, CountUnread, Crash
  <2>8. CASE StoreCount(r)
    <3>1. unread' = [unread EXCEPT ![request[r].id] = Current(r).bump]
      BY <2>8 DEF StoreCount
    <3>2. Current(r).bump \in Int
      BY <1>5 DEF Groups
    <3>3. QED
      BY <1>6, <3>1, <3>2
  <2>9. QED
    BY <2>4, <2>5, <2>6, <2>7, <2>8 DEF Advances
<1>10. ids' \subseteq Accounts /\ partial' \in BOOLEAN
  <2>1. ids' = ids
    BY DEF Advances, Execute, Fail, NothingToDo, RunQuery, FailQuery, ReadCache, CountUnread, StoreCount, Crash
  <2>2. CASE RunQuery(r)
    BY <1>6, <2>1, <2>2 DEF RunQuery
  <2>3. CASE ~RunQuery(r)
    <3>1. partial' = partial
      BY <2>3 DEF Advances, Execute, Fail, NothingToDo, FailQuery, ReadCache, CountUnread, StoreCount, Crash
    <3>2. QED
      BY <1>6, <2>1, <3>1
  <2>4. QED
    BY <2>2, <2>3
<1>11. DataTypeOK'
  BY <1>0, <1>1, <1>2, <1>7, <1>8, <1>9, <1>10 DEF DataTypeOK, RequestTypeOK, UnderWayRequests
<1>12. QED
  BY <1>1, <1>4, <1>11 DEF TypeInv

LEMMA TypeArrive ==
    ASSUME TypeInv, NEW r \in Requests, Arrives(r)
    PROVE  TypeInv'
<1>0. RequestTypeOK /\ ShapeInv /\ SentInv /\ DataTypeOK
  BY TypeIs
<1>1. PICK op \in Ops, a \in Accounts, x \in Accounts \cup Messages \cup {None, "message", "archive"} : \E gs :
              /\ Start(r, op, a, x, gs) /\ Begins(op, a, x, gs)
              /\ sent' = IF op = "send" THEN sent \cup {x} ELSE sent
  BY ArrivesIs
<1>2. PICK gs : /\ Start(r, op, a, x, gs) /\ Begins(op, a, x, gs)
                /\ sent' = IF op = "send" THEN sent \cup {x} ELSE sent
  BY <1>1
<1>3. RequestTypeOK' /\ ShapeInv'
  BY <1>0, <1>2, ShapeStart
<1>4. /\ request'[r].op = op /\ request'[r].x = x /\ budget > 0 /\ budget' = budget - 1
      /\ rows' = rows /\ unread' = unread /\ mishaps' = mishaps
      /\ torn' \subseteq torn \cup {"overlap"}
  BY <1>0, <1>2, StartIs, StartTorn
<1>5. \A p \in Requests : p # r => request'[p].op = request[p].op /\ request'[p].x = request[p].x
  BY <1>0, <1>2, StartOthers
<1>6. sent \subseteq sent' /\ (op = "send" => x \in sent') /\ sent' \subseteq Messages
  <2>1. op = "send" => x \in Messages
    BY <1>2 DEF Begins
  <2>2. sent \subseteq Messages
    BY <1>0 DEF DataTypeOK
  <2>3. QED
    BY <1>2, <2>1, <2>2
<1>7. SentInv'
  <2> SUFFICES ASSUME NEW p \in Requests, request'[p].op = "send" PROVE request'[p].x \in sent'
    BY DEF SentInv
  <2>1. CASE p = r
    BY <1>4, <1>6, <2>1
  <2>2. CASE p # r
    BY <1>0, <1>5, <1>6, <2>2 DEF SentInv
  <2>3. QED
    BY <2>1, <2>2
<1>8. DataTypeOK'
  <2>1. kept' \subseteq kept
    BY <1>2 DEF Start
  <2>2. /\ rows \in [Keys -> Values] /\ unread \in [Accounts -> Int \cup {NoCount}]
        /\ mishaps \in 0..Mishaps /\ torn \subseteq {"crash", "effect", "overlap"}
        /\ kept \subseteq sent /\ Budget \in Nat /\ budget \in 0..Budget
    BY <1>0, DataAssumption DEF DataTypeOK
  <2>3. budget' \in 0..Budget
    BY <1>4, <2>2
  <2>4. torn' \subseteq {"crash", "effect", "overlap"} /\ kept' \subseteq sent'
    BY <1>4, <1>6, <2>1, <2>2
  <2>5. ids' \subseteq Accounts /\ partial' \in BOOLEAN
    BY <1>2, <1>0 DEF Start, DataTypeOK
  <2>6. QED
    BY <1>3, <1>4, <1>6, <2>5, <2>2, <2>3, <2>4 DEF DataTypeOK, RequestTypeOK, UnderWayRequests
<1>9. QED
  BY <1>3, <1>7, <1>8 DEF TypeInv

LEMMA TypeEvict ==
    ASSUME TypeInv, NEW a \in Accounts, Evict(a)
    PROVE  TypeInv'
<1>0. ShapeInv /\ SentInv /\ DataTypeOK
  BY TypeIs
<1>1. /\ unread' = [unread EXCEPT ![a] = NoCount] /\ mishaps > 0 /\ mishaps' = mishaps - 1
      /\ rows' = rows /\ request' = request /\ budget' = budget /\ torn' = torn /\ sent' = sent /\ kept' = kept
      /\ ids' = ids /\ partial' = partial
  BY DEF Evict
<1>2. mishaps' \in 0..Mishaps
  BY <1>0, <1>1, DataAssumption DEF DataTypeOK
<1>3. unread' \in [Accounts -> Int \cup {NoCount}]
  BY <1>0, <1>1 DEF DataTypeOK
<1>4. DataTypeOK'
  BY <1>0, <1>1, <1>2, <1>3 DEF DataTypeOK
<1>5. ShapeInv' /\ SentInv'
  BY <1>0, <1>1 DEF ShapeInv, SentInv, UnderWay
<1>6. QED
  BY <1>4, <1>5 DEF TypeInv

LEMMA TypeStutter ==
    ASSUME TypeInv, UNCHANGED dataVars
    PROVE  TypeInv'
<1>1. /\ rows' = rows /\ unread' = unread /\ request' = request /\ budget' = budget /\ mishaps' = mishaps
      /\ torn' = torn /\ sent' = sent /\ kept' = kept /\ ids' = ids /\ partial' = partial
  BY DEF dataVars
<1>2. ShapeInv /\ SentInv /\ DataTypeOK
  BY TypeIs
<1>3. DataTypeOK'
  BY <1>1, <1>2 DEF DataTypeOK
<1>4. ShapeInv' /\ SentInv'
  BY <1>1, <1>2 DEF ShapeInv, SentInv, UnderWay
<1>5. QED
  BY <1>3, <1>4 DEF TypeInv

LEMMA TypeInit ==
    ASSUME DataInit
    PROVE  TypeInv
<1>1. DataTypeOK
  <2>1. rows \in [Keys -> Values]
    <3>1. ids \subseteq Accounts
      BY DEF DataInit
    <3>2. rows = [k \in Keys |-> IF k.t \in {"account", "counter"} /\ k.id \in ids THEN "new"
                              ELSE IF \E a \in ids : k = Auth(a) THEN CHOOSE a \in ids : k = Auth(a) ELSE "no"]
      BY DEF DataInit
    <3>3. ASSUME NEW k \in Keys PROVE rows[k] \in Values
      <4>1. CASE \E a \in ids : k = Auth(a)
        <5>1. (CHOOSE a \in ids : k = Auth(a)) \in ids
          BY <4>1
        <5>2. rows[k] = "new" \/ rows[k] = (CHOOSE a \in ids : k = Auth(a))
          BY <3>2, <4>1
        <5>3. QED
          BY <3>1, <5>1, <5>2 DEF Values
      <4>2. CASE ~\E a \in ids : k = Auth(a)
        BY <3>2, <4>2 DEF Values
      <4>3. QED
        BY <4>1, <4>2
    <3>4. QED
      BY <3>2, <3>3
  <2>2. unread \in [Accounts -> Int \cup {NoCount}]
    BY DEF DataInit
  <2>3. request \in [Requests -> UnderWayRequests \cup {NoRequest}]
    BY DEF DataInit
  <2>4. budget \in 0..Budget /\ mishaps \in 0..Mishaps /\ torn = {} /\ sent = {} /\ kept = {}
        /\ ids \subseteq Accounts /\ partial = FALSE
    BY DataAssumption DEF DataInit
  <2>5. QED
    BY <2>1, <2>2, <2>3, <2>4 DEF DataTypeOK, UnderWayRequests
<1>2. \A r \in Requests : request[r] = NoRequest
  BY DEF DataInit
<1>3. ShapeInv /\ SentInv
  BY <1>2, OpsAre DEF ShapeInv, SentInv, UnderWay
<1>4. QED
  BY <1>1, <1>3 DEF TypeInv

LEMMA TypeNext ==
    ASSUME TypeInv, [DataNext]_dataVars
    PROVE  TypeInv'
<1>1. CASE \E r \in Requests : Arrives(r)
  BY <1>1, TypeArrive
<1>2. CASE \E r \in Requests : Advances(r)
  BY <1>2, TypeAdvance
<1>3. CASE \E a \in Accounts : Evict(a)
  BY <1>3, TypeEvict
<1>4. CASE UNCHANGED dataVars
  BY <1>4, TypeStutter
<1>5. QED
  BY <1>1, <1>2, <1>3, <1>4 DEF DataNext

LEMMA TypeAlways == DataSpec => []TypeInv
<1>1. DataInit => TypeInv
  BY TypeInit
<1>2. TypeInv /\ [DataNext]_dataVars => TypeInv'
  BY TypeNext
<1>3. QED
  BY <1>1, <1>2, PTL DEF DataSpec

(* The rows, the counters, and the requests with the statements they have still to do have  *)
(* their types in every state.                                                              *)
THEOREM DataTypeCorrect == DataSpec => []DataTypeOK
<1>1. TypeInv => DataTypeOK
  BY TypeIs
<1>2. QED
  BY <1>1, TypeAlways, PTL

-----------------------------------------------------------------------------
(* Requests that run alone *)

(* What a step of a request says of failures. *)
LEMMA MishapsAre ==
    ASSUME NEW r, Advances(r)
    PROVE  \/ mishaps' = mishaps /\ torn' = torn
           \/ /\ mishaps > 0 /\ mishaps' = mishaps - 1
              /\ \/ torn' = torn \/ torn' = torn \cup {"effect"} \/ torn' = torn \cup {"crash"}
<1>1. CASE Execute(r) \/ NothingToDo(r) \/ RunQuery(r) \/ ReadCache(r) \/ CountUnread(r) \/ StoreCount(r)
  BY <1>1 DEF Execute, NothingToDo, RunQuery, ReadCache, CountUnread, StoreCount
<1>2. CASE Fail(r) \/ FailQuery(r) \/ Crash(r)
  BY <1>2 DEF Fail, FailQuery, Crash
<1>3. QED
  BY <1>1, <1>2 DEF Advances

(* A reply is given by the request that ends, and says what it was. *)
Replies(r) == Quits(r) /\ \E ok : \E n : Says(r, ok, n)

LEMMA EndGroupReplies ==
    ASSUME NEW r, NEW ok, EndGroup(r, ok)
    PROVE  last' = last \/ Replies(r)
BY EndGroupIs DEF Replies, Goes

LEMMA ProceedReplies ==
    ASSUME NEW r, Proceed(r)
    PROVE  last' = last \/ Replies(r)
BY ProceedIs, EndGroupReplies DEF Goes

LEMMA GiveUpReplies ==
    ASSUME NEW r, NEW s, GiveUp(r, s)
    PROVE  last' = last \/ Replies(r)
<1>1. CASE EndGroup(r, FALSE)
  BY <1>1, EndGroupReplies
<1>2. ASSUME NEW gs, Continue(r, gs) PROVE last' = last \/ Replies(r)
  BY <1>2, ContinueIs DEF Replies, Goes
<1>3. QED
  BY <1>1, <1>2, GiveUpIs

LEMMA AdvanceReplies ==
    ASSUME RequestTypeOK, ShapeInv, NEW r \in Requests, Advances(r)
    PROVE  last' = last \/ Replies(r)
<1>1. CASE Execute(r)
  <2>1. Proceed(r) \/ GiveUp(r, Head(Current(r).body))
    BY <1>1 DEF Execute
  <2>2. QED
    BY <2>1, ProceedReplies, GiveUpReplies
<1>2. CASE Fail(r)
  <2>1. Proceed(r) \/ GiveUp(r, Head(Current(r).body))
    BY <1>2 DEF Fail
  <2>2. QED
    BY <2>1, ProceedReplies, GiveUpReplies
<1>3. CASE NothingToDo(r) \/ FailQuery(r)
  <2>1. EndGroup(r, TRUE) \/ EndGroup(r, FALSE)
    BY <1>3 DEF NothingToDo, FailQuery
  <2>2. QED
    BY <2>1, EndGroupReplies
<1>4. CASE RunQuery(r)
  <2>1. Answer(r, FALSE, 0) \/ Continue(r, Expand(Current(r).query, Current(r).id) \o Others(r))
    BY <1>4 DEF RunQuery
  <2>2. CASE Answer(r, FALSE, 0)
    BY <2>2 DEF Answer, Replies, Quits, Says
  <2>3. ASSUME NEW gs, Continue(r, gs) PROVE last' = last \/ Replies(r)
    BY <2>3, ContinueIs DEF Replies, Goes
  <2>4. QED
    BY <2>1, <2>2, <2>3
<1>5. CASE ReadCache(r) \/ CountUnread(r)
  BY <1>5, ReadCacheGoes, CountUnreadGoes DEF Replies, Goes
<1>6. CASE StoreCount(r)
  BY <1>6 DEF StoreCount, Answer, Replies, Quits, Says
<1>7. CASE Crash(r)
  BY <1>7 DEF Crash
<1>8. QED
  BY <1>1, <1>2, <1>3, <1>4, <1>5, <1>6, <1>7 DEF Advances

(* A request that runs alone is the only one, and so is every request as long as no two ran *)
(* at the same time; a reply of a request that ran alone is the last thing that happened.    *)
AloneInv ==
    /\ \A r \in Requests : \A q \in Requests :
          UnderWay(r) /\ UnderWay(q) /\ (request[r].clean \/ ("overlap" \notin torn)) => r = q
    /\ last.clean => \A q \in Requests : ~UnderWay(q)
    /\ ("crash" \in torn \/ "effect" \in torn) => mishaps < Mishaps

LEMMA AloneAdvance ==
    ASSUME TypeInv, AloneInv, NEW r \in Requests, Advances(r)
    PROVE  AloneInv'
<1>0. RequestTypeOK /\ ShapeInv /\ DataTypeOK
  BY TypeIs
<1>1. UnderWay(r) /\ Goings(r)
  BY <1>0, AdvanceGoes
<1>2. /\ \A p \in Requests : p # r => request'[p] = request[p]
      /\ \/ request'[r] = NoRequest
         \/ request'[r].op = request[r].op /\ request'[r].clean = request[r].clean
  BY <1>0, <1>1, GoingsAre
<1>3. /\ ("overlap" \in torn') <=> ("overlap" \in torn)
      /\ ("crash" \in torn' \/ "effect" \in torn') => (mishaps' < mishaps \/ "crash" \in torn \/ "effect" \in torn)
      /\ mishaps' <= mishaps
  <2>1. mishaps \in Int
    BY <1>0, DataAssumption DEF DataTypeOK
  <2>2. CASE mishaps' = mishaps /\ torn' = torn
    BY <2>1, <2>2
  <2>3. CASE /\ mishaps > 0 /\ mishaps' = mishaps - 1
             /\ \/ torn' = torn \/ torn' = torn \cup {"effect"} \/ torn' = torn \cup {"crash"}
    <3>1. mishaps' < mishaps /\ mishaps' <= mishaps
      BY <2>1, <2>3
    <3>2. /\ ("overlap" \in torn') <=> ("overlap" \in torn)
      BY <2>3
    <3>3. QED
      BY <3>1, <3>2
  <2>4. QED
    BY <2>2, <2>3, MishapsAre
<1>4. \A q \in Requests : UnderWay(q)' => UnderWay(q)
  BY <1>1, <1>2 DEF UnderWay
<1>5. \A q \in Requests : UnderWay(q)' => request'[q].clean = request[q].clean
  BY <1>2, OpsAre DEF UnderWay
<1>6. ASSUME NEW p \in Requests, NEW q \in Requests,
             UnderWay(p)', UnderWay(q)', request'[p].clean \/ ("overlap" \notin torn')
      PROVE  p = q
  BY <1>3, <1>4, <1>5, <1>6 DEF AloneInv
<1>7. ASSUME last'.clean, NEW q \in Requests PROVE ~UnderWay(q)'
  <2>1. CASE last' = last
    BY <1>1, <1>7, <2>1 DEF AloneInv
  <2>2. CASE Replies(r)
    <3>1. request'[r] = NoRequest
      BY <1>0, <2>2, QuitsWell DEF Replies
    <3>2. last'.clean = request[r].clean
      BY <2>2 DEF Replies, Says
    <3>3. request[r].clean
      BY <1>7, <3>2
    <3>4. QED
      BY <1>1, <1>4, <3>1, <3>3, OpsAre DEF AloneInv, UnderWay
  <2>3. QED
    BY <1>0, <2>1, <2>2, AdvanceReplies
<1>9. ("crash" \in torn' \/ "effect" \in torn') => mishaps' < Mishaps
  <2>1. mishaps \in Int /\ mishaps <= Mishaps /\ Mishaps \in Int /\ mishaps' \in Int
    <3>1. DataTypeOK'
      BY TypeAdvance DEF TypeInv
    <3>2. QED
      BY <1>0, <3>1, DataAssumption DEF DataTypeOK
  <2>2. ("crash" \in torn \/ "effect" \in torn) => mishaps < Mishaps
    BY DEF AloneInv
  <2>3. CASE "crash" \in torn \/ "effect" \in torn
    <3>1. mishaps < Mishaps /\ mishaps' <= mishaps
      BY <1>3, <2>2, <2>3
    <3>2. QED
      BY <2>1, <3>1
  <2>4. CASE mishaps' < mishaps
    BY <2>1, <2>4
  <2>5. QED
    BY <1>3, <2>3, <2>4
<1>10. QED
  BY <1>6, <1>7, <1>9 DEF AloneInv, UnderWay

LEMMA AloneArrive ==
    ASSUME TypeInv, AloneInv, NEW r \in Requests, Arrives(r)
    PROVE  AloneInv'
<1>0. RequestTypeOK /\ ShapeInv /\ DataTypeOK
  BY TypeIs
<1>1. PICK op \in Ops, a \in Accounts, x \in Accounts \cup Messages \cup {None, "message", "archive"} : \E gs :
              Start(r, op, a, x, gs)
  BY ArrivesIs
<1>2. PICK gs : Start(r, op, a, x, gs)
  BY <1>1
<1>3. ~UnderWay(r) /\ mishaps' = mishaps /\ last' = NoReply
  BY <1>0, <1>2, StartIs
<1>4. torn' \subseteq torn \cup {"overlap"}
  BY <1>2, StartTorn
<1>5. \A p \in Requests : p # r => request'[p].op = request[p].op /\ request'[p].clean = FALSE
  BY <1>0, <1>2, StartOthers
<1>6. /\ (request'[r].clean \/ ("overlap" \notin torn')) => \A p \in Requests : ~UnderWay(p)
      /\ ("overlap" \notin torn') => ("overlap" \notin torn)
  BY <1>0, <1>2, StartAlone
<1>7. ASSUME NEW p \in Requests, NEW q \in Requests,
             UnderWay(p)', UnderWay(q)', request'[p].clean \/ ("overlap" \notin torn')
      PROVE  p = q
  <2>1. CASE p = r
    BY <1>5, <1>6, <1>7, <2>1 DEF UnderWay
  <2>2. CASE p # r
    BY <1>5, <1>6, <1>7, <2>2 DEF UnderWay
  <2>3. QED
    BY <2>1, <2>2
<1>8. ~last'.clean
  BY <1>3 DEF NoReply
<1>9. ("crash" \in torn' \/ "effect" \in torn') => mishaps' < Mishaps
  BY <1>3, <1>4 DEF AloneInv
<1>11. QED
  BY <1>7, <1>8, <1>9 DEF AloneInv, UnderWay

LEMMA AloneEvict ==
    ASSUME TypeInv, AloneInv, NEW a \in Accounts, Evict(a)
    PROVE  AloneInv'
<1>1. mishaps > 0 /\ mishaps' = mishaps - 1 /\ request' = request /\ torn' = torn /\ last' = last
  BY DEF Evict
<1>2. mishaps \in Int /\ Mishaps \in Int /\ mishaps <= Mishaps
  BY TypeIs, DataAssumption DEF DataTypeOK
<1>3. mishaps' < Mishaps
  BY <1>1, <1>2
<1>4. QED
  BY <1>1, <1>3 DEF AloneInv, UnderWay

LEMMA AloneInit ==
    ASSUME DataInit
    PROVE  AloneInv
<1>1. \A r \in Requests : ~UnderWay(r)
  BY OpsAre DEF DataInit, UnderWay
<1>2. torn = {} /\ ~last.clean
  BY DEF DataInit, NoReply
<1>3. QED
  BY <1>1, <1>2 DEF AloneInv

LEMMA AloneNext ==
    ASSUME TypeInv, AloneInv, [DataNext]_dataVars
    PROVE  AloneInv'
<1>1. CASE \E r \in Requests : Arrives(r)
  BY <1>1, AloneArrive
<1>2. CASE \E r \in Requests : Advances(r)
  BY <1>2, AloneAdvance
<1>3. CASE \E a \in Accounts : Evict(a)
  BY <1>3, AloneEvict
<1>4. CASE UNCHANGED dataVars
  BY <1>4 DEF dataVars, AloneInv, UnderWay
<1>5. QED
  BY <1>1, <1>2, <1>3, <1>4 DEF DataNext

-----------------------------------------------------------------------------
(* The counter of unread messages *)

(* Who asks for the counter runs a query of its own. *)
LEMMA UnreadSteps ==
    ASSUME RequestTypeOK, ShapeInv, NEW r \in Requests, Advances(r), request[r].op = "unread"
    PROVE  FailQuery(r) \/ ReadCache(r) \/ CountUnread(r) \/ StoreCount(r) \/ Crash(r)
<1>1. UnderWay(r)
  BY AdvanceGoes
<1>2. GroupOf(request[r].op, request[r].id, request[r].x, Current(r))
  BY <1>1, UnderWayIs DEF ShapeInv, Shaped, ShapedAs
<1>3. Current(r).query # None
  BY <1>2 DEF GroupOf, BodyOf
<1>4. ~Execute(r) /\ ~Fail(r) /\ ~NothingToDo(r)
  BY <1>3 DEF Execute, Fail, NothingToDo, Statement
<1>5. ~RunQuery(r)
  BY RunQueryGoes DEF Single
<1>6. QED
  BY <1>4, <1>5 DEF Advances

(* Only the request itself can be alone after its step, or have been alone before it. *)
LEMMA AloneIsMe ==
    ASSUME RequestTypeOK, ShapeInv, AloneInv, NEW r \in Requests, Advances(r), NEW p \in Requests,
           UnderWay(p)', request'[p].clean
    PROVE  p = r /\ request[r].clean
<1>1. UnderWay(r) /\ Goings(r)
  BY AdvanceGoes
<1>2. /\ \A q \in Requests : q # r => request'[q] = request[q]
      /\ \/ request'[r] = NoRequest
         \/ request'[r].op = request[r].op /\ request'[r].clean = request[r].clean
  BY <1>1, GoingsAre
<1>3. CASE p = r
  BY <1>2, <1>3, OpsAre
<1>4. CASE p # r
  BY <1>1, <1>2, <1>4 DEF AloneInv, UnderWay
<1>5. QED
  BY <1>3, <1>4

LEMMA SaysWhat ==
    ASSUME NEW r, NEW ok, NEW n, Says(r, ok, n)
    PROVE  last'.ok = ok /\ last'.count = n /\ last'.id = request[r].id /\ last'.op = request[r].op
           /\ last'.x = request[r].x /\ last'.clean = request[r].clean
BY DEF Says

LEMMA LastIsMine ==
    ASSUME RequestTypeOK, ShapeInv, AloneInv, NEW r \in Requests, Advances(r), last'.clean
    PROVE  Replies(r) /\ request[r].clean /\ last'.op = request[r].op /\ last'.id = request[r].id /\ last'.x = request[r].x
<1>1. UnderWay(r)
  BY AdvanceGoes
<1>2. last' # last
  BY <1>1 DEF AloneInv
<1>3. Replies(r)
  BY <1>2, AdvanceReplies
<1>4. last'.clean = request[r].clean /\ last'.op = request[r].op /\ last'.id = request[r].id /\ last'.x = request[r].x
  BY <1>3, SaysWhat DEF Replies
<1>5. QED
  BY <1>3, <1>4

(* What is about to be stored is the number of unread messages, if nothing else ran. *)
CountInv ==
    /\ \A r \in Requests : request[r].clean /\ request[r].op = "unread" /\ Current(r).query = "store" =>
          Current(r).bump = Cardinality(Unread(request[r].id))
    /\ UnreadIsSignalled

LEMMA UnreadSame ==
    ASSUME rows' = rows
    PROVE  \A a : Unread(a)' = Unread(a)
BY DEF Unread, Countable

LEMMA CountAdvance ==
    ASSUME TypeInv, AloneInv, CountInv, NEW r \in Requests, Advances(r)
    PROVE  CountInv'
<1>0. RequestTypeOK /\ ShapeInv /\ DataTypeOK
  BY TypeIs
<1>1. UnderWay(r) /\ Goings(r)
  BY <1>0, AdvanceGoes
<1>2. ASSUME NEW p \in Requests, request'[p].clean, request'[p].op = "unread", Head(request'[p].groups).query = "store",
             NEW a, a = request'[p].id
      PROVE  Head(request'[p].groups).bump = Cardinality(Unread(a)')
  <2>1. p = r
    BY <1>0, <1>2, AloneIsMe DEF UnderWay
  <2>2. request'[r] # NoRequest
    BY <1>2, <2>1, OpsAre
  <2>3. request[r].op = "unread" /\ request'[r].id = request[r].id
    BY <1>0, <1>1, <1>2, <2>1, <2>2, GoingsAre
  <2>4. ~Quits(r)
    BY <1>0, <2>2, QuitsWell
  <2>5. CASE FailQuery(r)
    <3>1. request[r].op = "unread" => Current(r).strict
      BY <1>0, <1>1 DEF ShapeInv, Shaped, ShapedAs, Current
    <3>2. Quits(r)
      BY <2>3, <2>5, <3>1, EndGroupIs DEF FailQuery
    <3>3. QED
      BY <2>4, <3>2
  <2>6. CASE ReadCache(r)
    <3>1. Goes(r, <<Query("count", request[r].id)>>)
      BY <1>0, <2>4, <2>6, ReadCacheGoes
    <3>2. Query("count", request[r].id) \in Groups
      <4>1. request[r].id \in Accounts
        BY <1>0, <1>1, UnderWayIs
      <4>2. "count" \in Queries /\ <<>> \in Seq(Statements) /\ 0 \in Int
        BY DEF Queries
      <4>3. QED
        BY <4>1, <4>2, GroupTypes
    <3> DEFINE g == Query("count", request[r].id)
    <3>3. g.query = "count"
      BY DEF Query, Series
    <3> HIDE DEF g
    <3>6. <<g>> \in Seq(Groups)
      BY <3>2 DEF g
    <3>7. Goes(r, <<g>>)
      BY <3>1 DEF g
    <3>8. request'[r].groups = <<g>>
      BY <1>0, <1>1, <3>6, <3>7, GoesWell
    <3>4. Head(request'[r].groups).query = "count"
      BY <3>3, <3>8, PairIs
    <3>5. QED
      BY <1>2, <2>1, <3>4
  <2>7. CASE CountUnread(r)
    <3> DEFINE gs == <<Series("store", <<>>, TRUE, request[r].id, Cardinality(Unread(request[r].id)), FALSE)>>
    <3>1. Goes(r, gs) /\ gs \in Seq(Groups) /\ Head(gs).bump = Cardinality(Unread(request[r].id))
      BY <1>0, <2>7, CountUnreadGoes
    <3> HIDE DEF gs
    <3>2. request'[r].groups = gs
      BY <1>0, <1>1, <3>1, GoesWell
    <3>3. rows' = rows
      BY <2>7 DEF CountUnread
    <3>4. QED
      BY <1>2, <2>1, <2>3, <3>1, <3>2, <3>3, UnreadSame
  <2>8. CASE StoreCount(r) \/ Crash(r)
    BY <2>4, <2>8 DEF StoreCount, Crash, Answer, Quits
  <2>9. QED
    BY <1>0, <2>3, <2>5, <2>6, <2>7, <2>8, UnreadSteps
<1>3. ASSUME last'.op = "unread", last'.ok, last'.clean, NEW a, a = last'.id, Unread(a)' # {}
      PROVE  last'.count > 0
  <2>1. Replies(r) /\ request[r].clean /\ request[r].op = "unread" /\ last'.id = request[r].id
    BY <1>0, <1>3, LastIsMine
  <2>2. CASE FailQuery(r)
    <3>1. Current(r).strict
      BY <1>0, <1>1, <2>1 DEF ShapeInv, Shaped, ShapedAs, Current
    <3>2. Says(r, FALSE, 0)
      BY <2>2, <3>1, EndGroupIs DEF FailQuery
    <3>3. ~last'.ok
      BY <3>2, SaysWhat
    <3>4. QED
      BY <1>3, <3>3
  <2>3. CASE ReadCache(r)
    <3>1. CASE Known(unread[request[r].id]) /\ Says(r, TRUE, unread[request[r].id])
      <4>1. last'.count = unread[request[r].id]
        BY <3>1, SaysWhat
      <4>2. QED
        BY <3>1, <4>1 DEF Known
    <3>2. CASE Goes(r, <<Query("count", request[r].id)>>)
      BY <1>1, <1>3, <3>2 DEF Goes, AloneInv
    <3>3. QED
      BY <1>0, <2>3, <3>1, <3>2, ReadCacheGoes
  <2>4. CASE CountUnread(r)
    <3>1. last' = last
      BY <1>0, <2>4, CountUnreadGoes DEF Goes
    <3>2. QED
      BY <1>1, <1>3, <3>1 DEF AloneInv
  <2>5. CASE StoreCount(r)
    <3>1. Says(r, TRUE, Current(r).bump) /\ rows' = rows /\ Current(r).query = "store"
      BY <2>5 DEF StoreCount, Answer, Says
    <3>2. Current(r).bump = Cardinality(Unread(request[r].id))
      BY <2>1, <3>1 DEF CountInv
    <3>3. Unread(request[r].id) # {}
      BY <1>3, <2>1, <3>1, UnreadSame
    <3>4. last'.count = Current(r).bump
      BY <3>1, SaysWhat
    <3>5. QED
      BY <3>2, <3>3, <3>4, UnreadIsFinite
  <2>6. CASE Crash(r)
    BY <1>1, <1>3, <2>6 DEF Crash, AloneInv
  <2>7. QED
    BY <1>0, <2>1, <2>2, <2>3, <2>4, <2>5, <2>6, UnreadSteps
<1>4. QED
  BY <1>2, <1>3 DEF CountInv, UnreadIsSignalled, Current, Unread

LEMMA CountArrive ==
    ASSUME TypeInv, NEW r \in Requests, Arrives(r)
    PROVE  CountInv'
<1>0. RequestTypeOK
  BY TypeIs
<1>1. PICK op \in Ops, a \in Accounts, x \in Accounts \cup Messages \cup {None, "message", "archive"} : \E gs :
              Start(r, op, a, x, gs) /\ Begins(op, a, x, gs)
  BY ArrivesIs
<1>2. PICK gs : Start(r, op, a, x, gs) /\ Begins(op, a, x, gs)
  BY <1>1
<1>3. request'[r].op = op /\ request'[r].groups = gs /\ last' = NoReply
  BY <1>0, <1>2, StartIs
<1>4. \A p \in Requests : p # r => request'[p].clean = FALSE
  BY <1>0, <1>2, StartOthers
<1>5. op = "unread" => Head(gs).query = "cache"
  <2>1. op = "unread" => gs = <<Query("cache", a)>>
    BY <1>2 DEF Begins
  <2>2. Query("cache", a).query = "cache"
    BY DEF Query, Series
  <2>3. QED
    BY <2>1, <2>2, PairIs
<1>6. ~last'.ok
  BY <1>3 DEF NoReply
<1>7. QED
  BY <1>3, <1>4, <1>5, <1>6 DEF CountInv, UnreadIsSignalled, Current

LEMMA CountOther ==
    ASSUME CountInv, rows' = rows, request' = request, last' = last
    PROVE  CountInv'
BY UnreadSame DEF CountInv, UnreadIsSignalled, Current

LEMMA CountInit ==
    ASSUME DataInit
    PROVE  CountInv
<1>1. \A r \in Requests : request[r].op = "none"
  BY OpsAre DEF DataInit
<1>2. ~last.ok
  BY DEF DataInit, NoReply
<1>3. QED
  BY <1>1, <1>2 DEF CountInv, UnreadIsSignalled

LEMMA CountNext ==
    ASSUME TypeInv, AloneInv, CountInv, [DataNext]_dataVars
    PROVE  CountInv'
<1>1. CASE \E r \in Requests : Arrives(r)
  BY <1>1, CountArrive
<1>2. CASE \E r \in Requests : Advances(r)
  BY <1>2, CountAdvance
<1>3. CASE \E a \in Accounts : Evict(a)
  BY <1>3, CountOther DEF Evict
<1>4. CASE UNCHANGED dataVars
  BY <1>4, CountOther DEF dataVars
<1>5. QED
  BY <1>1, <1>2, <1>3, <1>4 DEF DataNext

(* An account that has unread messages, and asks while nothing else runs, is not told that it *)
(* has none, whatever the counter in the cache has come to.                                   *)
THEOREM Signalled == DataSpec => []UnreadIsSignalled
<1>1. DataInit => TypeInv /\ AloneInv /\ CountInv
  BY TypeInit, AloneInit, CountInit
<1>2. TypeInv /\ AloneInv /\ CountInv /\ [DataNext]_dataVars => TypeInv' /\ AloneInv' /\ CountInv'
  BY TypeNext, AloneNext, CountNext
<1>3. CountInv => UnreadIsSignalled
  BY DEF CountInv
<1>4. QED
  BY <1>1, <1>2, <1>3, PTL DEF DataSpec

-----------------------------------------------------------------------------
(* What one statement does *)

LEMMA WriteIs ==
    ASSUME DataTypeOK, NEW s \in Statements, Write(s)
    PROVE  /\ \A k \in Keys : k # s.k => rows'[k] = rows[k]
           /\ s.onto = "all" => rows'[s.k] = s.v
           /\ (s.onto = "absent" /\ rows[s.k] = "no") => rows'[s.k] = s.v
           /\ (s.onto = "absent" /\ rows[s.k] # "no") => rows'[s.k] = rows[s.k]
           /\ (s.onto = "present" /\ rows[s.k] # "no") => rows'[s.k] = s.v
           /\ (s.onto = "present" /\ rows[s.k] = "no") => rows'[s.k] = rows[s.k]
           /\ s.k \in Keys
<1>1. rows' = rows \/ rows' = [rows EXCEPT ![s.k] = s.v]
  BY DEF Write
<1>2. Affects(s) => rows' = [rows EXCEPT ![s.k] = s.v]
  BY DEF Write
<1>3. ~Affects(s) => rows' = rows
  BY DEF Write
<1>4. s.k \in Keys
  BY DEF Statements
<1>5. rows \in [Keys -> Values]
  BY DEF DataTypeOK
<1>6. Affects(s) => rows'[s.k] = s.v
  BY <1>2, <1>4, <1>5
<1>7. ~Affects(s) => rows'[s.k] = rows[s.k]
  BY <1>3
<1>8. /\ s.onto = "all" => Affects(s)
      /\ s.onto = "absent" => (Affects(s) <=> rows[s.k] = "no")
      /\ s.onto = "present" => (Affects(s) <=> rows[s.k] # "no")
  BY DEF Affects
<1>9. \A k \in Keys : k # s.k => rows'[k] = rows[k]
  BY <1>1, <1>5
<1>10. QED
  BY <1>4, <1>6, <1>7, <1>8, <1>9

(* A statement is done, or refused as its row is there. *)
LEMMA ExecuteIs ==
    ASSUME NEW r, Execute(r), NEW s, s = Head(Current(r).body)
    PROVE  \/ Write(s) /\ Proceed(r) /\ (s.onto = "absent" => rows[s.k] = "no")
           \/ /\ rows' = rows /\ kept' = kept /\ s.onto = "absent" /\ rows[s.k] # "no"
              /\ (s.soft /\ Proceed(r)) \/ (~s.soft /\ GiveUp(r, s))
<1>1. CASE s.onto = "absent" /\ rows[s.k] # "no"
  BY <1>1 DEF Execute
<1>2. CASE ~(s.onto = "absent" /\ rows[s.k] # "no")
  BY <1>2 DEF Execute
<1>3. QED
  BY <1>1, <1>2

LEMMA FailIs ==
    ASSUME NEW r, Fail(r), NEW s, s = Head(Current(r).body)
    PROVE  /\ Write(s) \/ (rows' = rows /\ kept' = kept)
           /\ (s.soft /\ Proceed(r)) \/ (~s.soft /\ GiveUp(r, s))
<1>1. s.soft => Proceed(r)
  BY DEF Fail
<1>2. ~s.soft => GiveUp(r, s)
  BY DEF Fail
<1>3. Write(s) \/ (rows' = rows /\ kept' = kept)
  BY DEF Fail
<1>4. QED
  BY <1>1, <1>2, <1>3

LEMMA CrashIs ==
    ASSUME NEW r, Crash(r)
    PROVE  /\ Quits(r) /\ last' = last /\ unread' = unread
           /\ (Statement(r) /\ Write(Head(Current(r).body))) \/ (rows' = rows /\ kept' = kept)
BY DEF Crash, Quits

(* The steps of a request whose group has statements. *)
LEMMA StatementSteps ==
    ASSUME NEW r, Advances(r), Statement(r)
    PROVE  Execute(r) \/ Fail(r) \/ Crash(r)
<1>1. Current(r).query = None /\ Current(r).body # <<>>
  BY DEF Statement
<1>2. ~(NothingToDo(r) \/ RunQuery(r) \/ FailQuery(r))
  BY <1>1 DEF NothingToDo, RunQuery, FailQuery
<1>3. ~(ReadCache(r) \/ CountUnread(r) \/ StoreCount(r))
  <2>1. None # "cache" /\ None # "count" /\ None # "store"
    BY DEF None
  <2>2. QED
    BY <1>1, <2>1 DEF ReadCache, CountUnread, StoreCount
<1>4. QED
  BY <1>2, <1>3 DEF Advances

-----------------------------------------------------------------------------
(* Both sides of a connection *)

(* Making and deleting a connection is one group, an error of which is the answer. *)
LEMMA PairShape ==
    ASSUME RequestTypeOK, ShapeInv, NEW r \in Requests, UnderWay(r), request[r].op \in {"make", "unmake"}
    PROVE  /\ request[r].x \in Accounts /\ request[r].x # request[r].id /\ Statement(r)
           /\ Current(r).strict /\ Others(r) = <<>>
           /\ LET k == Key("connection", request[r].id, request[r].x)
              IN  /\ k \in Keys /\ k.t = "connection" /\ Mirror(k) \in Keys /\ Mirror(k).t = "reference"
                  /\ request[r].op = "make" =>
                        /\ MakeBody(k, Current(r).body)
                        /\ Current(r).body = <<SoftDel(k)>> => Current(r).doomed
                  /\ request[r].op = "unmake" => UnlinkBody(k, Current(r).body)
<1> DEFINE k == Key("connection", request[r].id, request[r].x)
<1>1. ShapedAs(request[r].op, request[r].id, request[r].x, request[r].groups)
  BY DEF ShapeInv, Shaped
<1>2. GroupOf(request[r].op, request[r].id, request[r].x, Current(r))
  BY <1>1, UnderWayIs DEF ShapedAs
<1>3. Current(r).query = None
  BY <1>2 DEF GroupOf, QueryOf
<1>4. BodyOf(request[r].op, request[r].id, request[r].x, Current(r).body)
  BY <1>2, <1>3 DEF GroupOf
<1>5. /\ request[r].x \in Accounts /\ request[r].x # request[r].id
      /\ request[r].op = "make" => MakeBody(k, Current(r).body)
      /\ request[r].op = "unmake" => UnlinkBody(k, Current(r).body)
  BY <1>4 DEF BodyOf
<1>6. Current(r).body # <<>>
  <2>1. \A s, u : <<s, u>> # <<>> /\ <<s>> # <<>>
    BY PairIs
  <2>2. QED
    BY <1>5, <2>1 DEF MakeBody, UnlinkBody, Unlink
<1>7. Current(r).strict /\ Len(request[r].groups) = 1
  BY <1>1 DEF ShapedAs, Single, Current
<1>8. Others(r) = <<>>
  BY <1>7, UnderWayIs, TailIs DEF Others
<1>9. (request[r].op = "make" /\ Current(r).body = <<SoftDel(k)>>) => Current(r).doomed
  BY <1>1 DEF ShapedAs, Current
<1>10. k \in Keys /\ k.t = "connection"
  BY <1>5, UnderWayIs, KeysAre, KeyFields
<1>11. Mirror(k) \in Keys /\ Mirror(k).t = "reference"
  BY <1>10, MirrorIs, KeyFields
<1>12. QED
  BY <1>3, <1>5, <1>6, <1>7, <1>8, <1>9, <1>10, <1>11 DEF Statement

(* The end of such a group is the end of the request. *)
LEMMA PairEnds ==
    ASSUME NEW r, Current(r).strict, Others(r) = <<>>, NEW ok, EndGroup(r, ok)
    PROVE  Quits(r) /\ (ok => Says(r, TRUE, 0)) /\ (~ok => Says(r, FALSE, 0))
<1>1. \/ ~ok /\ Current(r).strict /\ Quits(r) /\ Says(r, FALSE, 0)
      \/ (ok \/ ~Current(r).strict) /\ Others(r) = <<>> /\ Quits(r) /\ Says(r, TRUE, 0)
      \/ (ok \/ ~Current(r).strict) /\ Goes(r, Others(r))
  BY EndGroupIs
<1>2. ~Goes(r, Others(r))
  BY DEF Goes
<1>3. CASE ok
  BY <1>1, <1>2, <1>3
<1>4. CASE ~ok
  BY <1>1, <1>2, <1>4
<1>5. QED
  BY <1>3, <1>4

(* The ways such a request can go on. *)
LEMMA PairSteps ==
    ASSUME RequestTypeOK, ShapeInv, NEW r \in Requests, Advances(r), request[r].op \in {"make", "unmake"},
           NEW s, s = Head(Current(r).body)
    PROVE  \/ /\ Write(s) /\ (s.onto = "absent" => rows[s.k] = "no")
              /\ Len(Current(r).body) # 1 /\ Goes(r, Popped(request[r].groups))
           \/ /\ Write(s) /\ (s.onto = "absent" => rows[s.k] = "no")
              /\ Len(Current(r).body) = 1 /\ ~Current(r).doomed /\ Quits(r) /\ Says(r, TRUE, 0)
           \/ Quits(r) /\ (last' = last \/ Says(r, FALSE, 0))
           \/ s.undo # NoKey /\ s.undo \in Keys /\ Goes(r, Undoing(request[r].groups, s.undo))
<1> DEFINE k == Key("connection", request[r].id, request[r].x)
           Goal == \/ /\ Write(s) /\ (s.onto = "absent" => rows[s.k] = "no")
                      /\ Len(Current(r).body) # 1 /\ Goes(r, Popped(request[r].groups))
                   \/ /\ Write(s) /\ (s.onto = "absent" => rows[s.k] = "no")
                      /\ Len(Current(r).body) = 1 /\ ~Current(r).doomed /\ Quits(r) /\ Says(r, TRUE, 0)
                   \/ Quits(r) /\ (last' = last \/ Says(r, FALSE, 0))
                   \/ s.undo # NoKey /\ s.undo \in Keys /\ Goes(r, Undoing(request[r].groups, s.undo))
<1>1. UnderWay(r)
  BY AdvanceGoes
<1>2. /\ Statement(r) /\ Current(r).strict /\ Others(r) = <<>>
      /\ request[r].op = "make" => (MakeBody(k, Current(r).body) /\ (Current(r).body = <<SoftDel(k)>> => Current(r).doomed))
      /\ request[r].op = "unmake" => UnlinkBody(k, Current(r).body)
  BY <1>1, PairShape
<1> HIDE DEF k
<1>3. s.soft => Len(Current(r).body) = 1 /\ Current(r).doomed
  <2>1. \A t, u : Head(<<t, u>>) = t /\ Head(<<t>>) = t /\ Len(<<t>>) = 1
    BY PairIs
  <2>2. /\ ~Put(k).soft /\ ~Add(k).soft /\ ~Del(k).soft /\ ~Del(Mirror(k)).soft
        /\ ~PutOrUndo(Mirror(k), k).soft /\ ~AddOrUndo(Mirror(k), k).soft
    BY DEF Put, Add, Del, PutOrUndo, AddOrUndo, Sql
  <2>3. CASE request[r].op = "make"
    BY <1>2, <2>1, <2>2, <2>3 DEF MakeBody
  <2>4. CASE request[r].op = "unmake"
    BY <1>2, <2>1, <2>2, <2>4 DEF UnlinkBody, Unlink
  <2>5. QED
    BY <2>3, <2>4
<1>4. ASSUME s.soft, Proceed(r) PROVE Quits(r) /\ Says(r, FALSE, 0)
  <2>1. EndGroup(r, ~Current(r).doomed)
    BY <1>3, <1>4, ProceedIs
  <2>2. QED
    BY <1>2, <1>3, <1>4, <2>1, PairEnds
<1>5. ASSUME GiveUp(r, s) PROVE Goal
  <2>1. CASE EndGroup(r, FALSE)
    BY <1>2, <2>1, PairEnds
  <2>2. CASE s.undo # NoKey /\ Continue(r, Undoing(request[r].groups, s.undo))
    <3>1. Undoing(request[r].groups, s.undo) # <<>> /\ s.undo \in Keys
      BY <1>2, <1>5, <2>2, GiveUpGoes
    <3>2. Goes(r, Undoing(request[r].groups, s.undo))
      BY <2>2, <3>1, ContinueIs
    <3>3. QED
      BY <2>2, <3>1, <3>2
  <2>3. QED
    BY <1>5, <2>1, <2>2, GiveUpIs
<1>6. ASSUME Write(s), Proceed(r), s.onto = "absent" => rows[s.k] = "no" PROVE Goal
  <2>1. CASE Len(Current(r).body) = 1 /\ EndGroup(r, ~Current(r).doomed)
    BY <1>2, <1>6, <2>1, PairEnds
  <2>2. CASE Len(Current(r).body) # 1 /\ Goes(r, Popped(request[r].groups))
    BY <1>6, <2>2
  <2>3. QED
    BY <1>6, <2>1, <2>2, ProceedIs
<1>7. CASE Execute(r)
  BY <1>4, <1>5, <1>6, <1>7, ExecuteIs
<1>8. CASE Fail(r)
  BY <1>4, <1>5, <1>8, FailIs
<1>9. CASE Crash(r)
  BY <1>9, CrashIs
<1>10. QED
  BY <1>2, <1>7, <1>8, <1>9, StatementSteps

(* The first side of a connection is written, or removed, before the second one. *)
MirrorInv ==
    /\ \A r \in Requests : (request[r].clean /\ request[r].op = "make" /\ Len(Current(r).body) = 1 /\ ~Current(r).doomed) =>
          rows[Key("connection", request[r].id, request[r].x)] # "no"
    /\ \A r \in Requests : (request[r].clean /\ request[r].op = "unmake" /\ Len(Current(r).body) = 1) =>
          rows[Key("connection", request[r].id, request[r].x)] = "no"
    /\ MirrorsAgree

(* The statements of both. *)
LEMMA PairBodies ==
    ASSUME NEW k, NEW body, NEW s, s = Head(body)
    PROVE  /\ MakeBody(k, body) =>
                \/ Len(body) # 1 /\ s \in {Put(k), Add(k)} /\ s.undo = NoKey
                \/ Len(body) = 1 /\ s \in {PutOrUndo(Mirror(k), k), AddOrUndo(Mirror(k), k)} /\ s.undo = k
                \/ Len(body) = 1 /\ body = <<SoftDel(k)>> /\ s.undo = NoKey
           /\ UnlinkBody(k, body) =>
                \/ Len(body) # 1 /\ s = Del(k) /\ s.undo = NoKey
                \/ Len(body) = 1 /\ s = Del(Mirror(k)) /\ s.undo = NoKey
<1>1. \A t, u : Head(<<t, u>>) = t /\ Head(<<t>>) = t /\ Len(<<t>>) = 1 /\ Len(<<t, u>>) # 1
  BY PairIs
<1>2. /\ Put(k).undo = NoKey /\ Add(k).undo = NoKey /\ Del(k).undo = NoKey /\ Del(Mirror(k)).undo = NoKey
      /\ SoftDel(k).undo = NoKey /\ PutOrUndo(Mirror(k), k).undo = k /\ AddOrUndo(Mirror(k), k).undo = k
  BY DEF Put, Add, Del, SoftDel, PutOrUndo, AddOrUndo, Sql
<1>3. MakeBody(k, body) =>
                \/ Len(body) # 1 /\ s \in {Put(k), Add(k)} /\ s.undo = NoKey
                \/ Len(body) = 1 /\ s \in {PutOrUndo(Mirror(k), k), AddOrUndo(Mirror(k), k)} /\ s.undo = k
                \/ Len(body) = 1 /\ body = <<SoftDel(k)>> /\ s.undo = NoKey
  BY <1>1, <1>2 DEF MakeBody
<1>4. UnlinkBody(k, body) =>
                \/ Len(body) # 1 /\ s = Del(k) /\ s.undo = NoKey
                \/ Len(body) = 1 /\ s = Del(Mirror(k)) /\ s.undo = NoKey
  BY <1>1, <1>2 DEF UnlinkBody, Unlink
<1>5. QED
  BY <1>3, <1>4

(* What writing one of their statements does to the rows. *)
LEMMA PairWrites ==
    ASSUME DataTypeOK, NEW k \in Keys, Mirror(k) \in Keys, Mirror(k) # k, NEW s \in Statements, Write(s),
           s.onto = "absent" => rows[s.k] = "no"
    PROVE  /\ s \in {Put(k), Add(k)} => rows'[k] # "no"
           /\ s \in {PutOrUndo(Mirror(k), k), AddOrUndo(Mirror(k), k)} => rows'[Mirror(k)] # "no" /\ rows'[k] = rows[k]
           /\ s = Del(k) => rows'[k] = "no"
           /\ s = Del(Mirror(k)) => rows'[Mirror(k)] = "no" /\ rows'[k] = rows[k]
<1>1. /\ \A h \in Keys : h # s.k => rows'[h] = rows[h]
      /\ s.onto = "all" => rows'[s.k] = s.v
      /\ (s.onto = "absent" /\ rows[s.k] = "no") => rows'[s.k] = s.v
  BY WriteIs
<1> DEFINE m == Mirror(k)
<1> HIDE DEF m
<1>2. /\ Put(k).k = k /\ Put(k).v = "new" /\ Put(k).onto = "all"
      /\ Add(k).k = k /\ Add(k).v = "new" /\ Add(k).onto = "absent"
      /\ Del(k).k = k /\ Del(k).v = "no" /\ Del(k).onto = "all"
      /\ Del(m).k = m /\ Del(m).v = "no" /\ Del(m).onto = "all"
      /\ PutOrUndo(m, k).k = m /\ PutOrUndo(m, k).v = "new" /\ PutOrUndo(m, k).onto = "all"
      /\ AddOrUndo(m, k).k = m /\ AddOrUndo(m, k).v = "new" /\ AddOrUndo(m, k).onto = "absent"
  BY DEF Put, Add, Del, PutOrUndo, AddOrUndo, Sql
<1>3. m # k
  BY DEF m
<1>4. /\ s \in {Put(k), Add(k)} => rows'[k] # "no"
      /\ s \in {PutOrUndo(m, k), AddOrUndo(m, k)} => rows'[m] # "no" /\ rows'[k] = rows[k]
      /\ s = Del(k) => rows'[k] = "no"
      /\ s = Del(m) => rows'[m] = "no" /\ rows'[k] = rows[k]
  BY <1>1, <1>2, <1>3
<1>5. QED
  BY <1>4 DEF m

LEMMA MirrorAdvance ==
    ASSUME TypeInv, AloneInv, MirrorInv, NEW r \in Requests, Advances(r)
    PROVE  MirrorInv'
<1>0. RequestTypeOK /\ ShapeInv /\ DataTypeOK
  BY TypeIs
<1>1. UnderWay(r) /\ Goings(r)
  BY <1>0, AdvanceGoes
<1> DEFINE k == Key("connection", request[r].id, request[r].x)
           s == Head(Current(r).body)
           gs == request[r].groups
<1>2. /\ gs \in Seq(Groups) /\ gs # <<>> /\ Current(r) = Head(gs) /\ Current(r) \in Groups
      /\ request'[r].op # "none" =>
            request'[r].op = request[r].op /\ request'[r].id = request[r].id /\ request'[r].x = request[r].x
  BY <1>0, <1>1, UnderWayIs, GoingsAre, OpsAre DEF Current
<1>3. ASSUME request[r].op \in {"make", "unmake"}
      PROVE  /\ k \in Keys /\ Mirror(k) \in Keys /\ Mirror(k) # k /\ s \in Statements /\ Current(r).body # <<>>
             /\ request[r].op = "make" =>
                   (MakeBody(k, Current(r).body) /\ (Current(r).body = <<SoftDel(k)>> => Current(r).doomed))
             /\ request[r].op = "unmake" => UnlinkBody(k, Current(r).body)
  <2>1. Statement(r)
    BY <1>0, <1>1, <1>3, PairShape
  <2>2. s \in Statements /\ Current(r).body # <<>>
    BY <1>0, <2>1, StatementIs
  <2>3. k \in Keys /\ k.t = "connection" /\ Mirror(k) \in Keys /\ Mirror(k).t = "reference"
    BY <1>0, <1>1, <1>3, PairShape
  <2>4. Mirror(k) # k
    BY <2>3
  <2> HIDE DEF k, s
  <2>5. /\ request[r].op = "make" =>
              (MakeBody(k, Current(r).body) /\ (Current(r).body = <<SoftDel(k)>> => Current(r).doomed))
        /\ request[r].op = "unmake" => UnlinkBody(k, Current(r).body)
    BY <1>0, <1>1, <1>3, PairShape DEF k
  <2>6. QED
    BY <2>2, <2>3, <2>4, <2>5
<1> HIDE DEF k, s, gs
<1>4. ASSUME request[r].op \in {"make", "unmake"}
      PROVE  \/ /\ Write(s) /\ (s.onto = "absent" => rows[s.k] = "no")
                /\ Len(Current(r).body) # 1 /\ Goes(r, Popped(gs))
             \/ /\ Write(s) /\ (s.onto = "absent" => rows[s.k] = "no")
                /\ Len(Current(r).body) = 1 /\ ~Current(r).doomed /\ Quits(r) /\ Says(r, TRUE, 0)
             \/ Quits(r) /\ (last' = last \/ Says(r, FALSE, 0))
             \/ s.undo # NoKey /\ s.undo \in Keys /\ Goes(r, Undoing(gs, s.undo))
  BY <1>0, <1>4, PairSteps DEF s, gs
(* A request that has still to write the second side has just written the first one. *)
<1>5. ASSUME request[r].op \in {"make", "unmake"}, request'[r] # NoRequest, NEW g, g = Head(request'[r].groups),
             Len(g.body) = 1, request[r].op = "make" => ~g.doomed
      PROVE  /\ request[r].op = "make" => rows'[k] # "no"
             /\ request[r].op = "unmake" => rows'[k] = "no"
  <2>1. ~Quits(r)
    BY <1>0, <1>5, QuitsWell
  <2>2. CASE /\ Write(s) /\ (s.onto = "absent" => rows[s.k] = "no")
             /\ Len(Current(r).body) # 1 /\ Goes(r, Popped(gs))
    <3>1. /\ request[r].op = "make" => s \in {Put(k), Add(k)}
          /\ request[r].op = "unmake" => s = Del(k)
      BY <1>3, <1>5, <2>2, PairBodies DEF s
    <3>2. /\ s \in {Put(k), Add(k)} => rows'[k] # "no"
          /\ s = Del(k) => rows'[k] = "no"
      BY <1>0, <1>3, <1>5, <2>2, PairWrites
    <3>3. QED
      BY <3>1, <3>2
  <2>3. CASE s.undo # NoKey /\ s.undo \in Keys /\ Goes(r, Undoing(gs, s.undo))
    <3>1. request[r].op = "make"
      BY <1>3, <1>5, <2>3, PairBodies DEF s
    <3>2. Undoing(gs, s.undo) \in Seq(Groups) /\ Head(Undoing(gs, s.undo)).doomed
      BY <1>2, <2>3, UndoingIs
    <3>3. request'[r].groups = Undoing(gs, s.undo)
      BY <1>0, <1>1, <2>3, <3>2, GoesWell
    <3>4. QED
      BY <1>5, <3>1, <3>2, <3>3
  <2>4. QED
    BY <1>4, <1>5, <2>1, <2>2, <2>3
<1>6. ASSUME last'.ok, last'.clean, last'.op \in {"make", "unmake"}
      PROVE  /\ last'.op = request[r].op /\ last'.id = request[r].id /\ last'.x = request[r].x
             /\ request[r].op = "make" => rows'[k] # "no" /\ rows'[Mirror(k)] # "no"
             /\ request[r].op = "unmake" => rows'[k] = "no" /\ rows'[Mirror(k)] = "no"
  <2>1. request[r].clean /\ last'.op = request[r].op /\ last'.id = request[r].id /\ last'.x = request[r].x
    BY <1>0, <1>6, LastIsMine
  <2>2. last' # last
    BY <1>1, <1>6 DEF AloneInv
  <2>3. ~Says(r, FALSE, 0)
    BY <1>6, SaysWhat
  <2>4. /\ Write(s) /\ (s.onto = "absent" => rows[s.k] = "no")
        /\ Len(Current(r).body) = 1 /\ ~Current(r).doomed
    BY <1>4, <1>6, <2>1, <2>2, <2>3 DEF Goes
  <2>5. /\ s \in {PutOrUndo(Mirror(k), k), AddOrUndo(Mirror(k), k)} => rows'[Mirror(k)] # "no" /\ rows'[k] = rows[k]
        /\ s = Del(Mirror(k)) => rows'[Mirror(k)] = "no" /\ rows'[k] = rows[k]
    BY <1>0, <1>3, <1>6, <2>1, <2>4, PairWrites
  <2>6. CASE request[r].op = "make"
    <3>1. rows[k] # "no"
      BY <2>1, <2>4, <2>6 DEF MirrorInv, k
    <3>2. s \in {PutOrUndo(Mirror(k), k), AddOrUndo(Mirror(k), k)}
      BY <1>3, <2>4, <2>6, PairBodies DEF s
    <3>3. QED
      BY <2>1, <2>5, <2>6, <3>1, <3>2
  <2>7. CASE request[r].op = "unmake"
    <3>1. rows[k] = "no"
      BY <2>1, <2>4, <2>7 DEF MirrorInv, k
    <3>2. s = Del(Mirror(k))
      BY <1>3, <2>4, <2>7, PairBodies DEF s
    <3>3. QED
      BY <2>1, <2>5, <2>7, <3>1, <3>2
  <2>8. QED
    BY <1>6, <2>1, <2>6, <2>7
<1>7. ASSUME NEW p \in Requests, request'[p].clean, request'[p].op \in {"make", "unmake"},
             Len(Head(request'[p].groups).body) = 1, request'[p].op = "make" => ~Head(request'[p].groups).doomed,
             NEW h, h = Key("connection", request'[p].id, request'[p].x)
      PROVE  /\ request'[p].op = "make" => rows'[h] # "no"
             /\ request'[p].op = "unmake" => rows'[h] = "no"
  <2>1. p = r
    BY <1>0, <1>7, AloneIsMe DEF UnderWay
  <2>2. request'[r] # NoRequest
    BY <1>7, <2>1, OpsAre
  <2>3. request'[r].op = request[r].op /\ h = k
    BY <1>2, <1>7, <2>1 DEF k
  <2>4. QED
    BY <1>5, <1>7, <2>1, <2>2, <2>3
<1>8. MirrorsAgree'
  <2>1. ASSUME last'.ok, last'.clean, last'.op \in {"make", "unmake"}
        PROVE  /\ Key("connection", last'.id, last'.x) = k
               /\ Key("reference", last'.x, last'.id) = Mirror(k)
    BY <1>6, <2>1, KeyFields DEF k, Mirror
  <2>2. QED
    BY <1>6, <2>1 DEF MirrorsAgree, Present
<1>9. QED
  BY <1>7, <1>8 DEF MirrorInv, Current

LEMMA MirrorArrive ==
    ASSUME TypeInv, NEW r \in Requests, Arrives(r)
    PROVE  MirrorInv'
<1>0. RequestTypeOK
  BY TypeIs
<1>1. PICK op \in Ops, a \in Accounts, x \in Accounts \cup Messages \cup {None, "message", "archive"} : \E gs :
              Start(r, op, a, x, gs) /\ Begins(op, a, x, gs)
  BY ArrivesIs
<1>2. PICK gs : Start(r, op, a, x, gs) /\ Begins(op, a, x, gs)
  BY <1>1
<1>3. request'[r].op = op /\ request'[r].groups = gs /\ last' = NoReply
  BY <1>0, <1>2, StartIs
<1>4. \A p \in Requests : p # r => request'[p].clean = FALSE
  BY <1>0, <1>2, StartOthers
<1>5. ASSUME op \in {"make", "unmake"} PROVE Len(Head(gs).body) # 1
  <2>1. \A s, u : Len(<<s, u>>) # 1 /\ \A g : Head(<<g>>) = g
    BY PairIs
  <2>2. \E s, u : gs = <<Group(<<s, u>>)>>
    BY <1>2, <1>5 DEF Begins, Unlink
  <2>3. \A b : Group(b).body = b
    BY DEF Group, Series
  <2>4. QED
    BY <2>1, <2>2, <2>3
<1>6. ~last'.ok
  BY <1>3 DEF NoReply
<1>7. QED
  BY <1>3, <1>4, <1>5, <1>6 DEF MirrorInv, MirrorsAgree, Current

LEMMA MirrorOther ==
    ASSUME MirrorInv, rows' = rows, request' = request, last' = last
    PROVE  MirrorInv'
BY DEF MirrorInv, MirrorsAgree, Current, Present

LEMMA MirrorInit ==
    ASSUME DataInit
    PROVE  MirrorInv
<1>1. \A r \in Requests : request[r].op = "none"
  BY OpsAre DEF DataInit
<1>2. ~last.ok
  BY DEF DataInit, NoReply
<1>3. QED
  BY <1>1, <1>2 DEF MirrorInv, MirrorsAgree

LEMMA MirrorNext ==
    ASSUME TypeInv, AloneInv, MirrorInv, [DataNext]_dataVars
    PROVE  MirrorInv'
<1>1. CASE \E r \in Requests : Arrives(r)
  BY <1>1, MirrorArrive
<1>2. CASE \E r \in Requests : Advances(r)
  BY <1>2, MirrorAdvance
<1>3. CASE \E a \in Accounts : Evict(a)
  BY <1>3, MirrorOther DEF Evict
<1>4. CASE UNCHANGED dataVars
  BY <1>4, MirrorOther DEF dataVars
<1>5. QED
  BY <1>1, <1>2, <1>3, <1>4 DEF DataNext

(* When a connection was made or deleted with success, and nothing else ran at the time, both *)
(* accounts see the same.                                                                     *)
THEOREM Mirrored == DataSpec => []MirrorsAgree
<1>1. DataInit => TypeInv /\ AloneInv /\ MirrorInv
  BY TypeInit, AloneInit, MirrorInit
<1>2. TypeInv /\ AloneInv /\ MirrorInv /\ [DataNext]_dataVars => TypeInv' /\ AloneInv' /\ MirrorInv'
  BY TypeNext, AloneNext, MirrorNext
<1>3. MirrorInv => MirrorsAgree
  BY DEF MirrorInv
<1>4. QED
  BY <1>1, <1>2, <1>3, PTL DEF DataSpec

-----------------------------------------------------------------------------
(* What a request has still to do after its step *)

LEMMA EndGroupGroups ==
    ASSUME RequestTypeOK, NEW r \in Requests, UnderWay(r), NEW ok, EndGroup(r, ok), request'[r] # NoRequest
    PROVE  request'[r].groups = Others(r)
<1>1. ~Quits(r)
  BY QuitsWell
<1>2. Goes(r, Others(r))
  BY <1>1, EndGroupIs
<1>3. QED
  BY <1>2, GoesWell, UnderWayIs

LEMMA ProceedGroups ==
    ASSUME RequestTypeOK, NEW r \in Requests, Statement(r), Proceed(r), request'[r] # NoRequest
    PROVE  \/ request'[r].groups = Others(r)
           \/ Len(Current(r).body) # 1 /\ request'[r].groups = Popped(request[r].groups)
<1>1. UnderWay(r)
  BY DEF Statement
<1>2. CASE EndGroup(r, ~Current(r).doomed)
  BY <1>1, <1>2, EndGroupGroups
<1>3. CASE Len(Current(r).body) # 1 /\ Goes(r, Popped(request[r].groups))
  <2>1. Popped(request[r].groups) \in Seq(Groups)
    BY <1>1, UnderWayIs, PoppedIs DEF Statement, Current
  <2>2. QED
    BY <1>1, <1>3, <2>1, GoesWell
<1>4. QED
  BY <1>2, <1>3, ProceedIs

LEMMA GiveUpGroups ==
    ASSUME RequestTypeOK, ShapeInv, NEW r \in Requests, Statement(r), NEW s, s = Head(Current(r).body),
           GiveUp(r, s), request'[r] # NoRequest
    PROVE  \/ request'[r].groups = Others(r)
           \/ s.undo # NoKey /\ s.undo \in Keys /\ request'[r].groups = Undoing(request[r].groups, s.undo)
<1>1. UnderWay(r)
  BY DEF Statement
<1>2. CASE EndGroup(r, FALSE)
  BY <1>1, <1>2, EndGroupGroups
<1>3. CASE s.undo # NoKey /\ Continue(r, Undoing(request[r].groups, s.undo))
  <2>1. Undoing(request[r].groups, s.undo) # <<>> /\ s.undo \in Keys
    BY <1>3, GiveUpGoes
  <2>2. Goes(r, Undoing(request[r].groups, s.undo))
    BY <1>3, <2>1, ContinueIs
  <2>3. Undoing(request[r].groups, s.undo) \in Seq(Groups)
    BY <1>1, <2>1, UnderWayIs, UndoingIs
  <2>4. request'[r].groups = Undoing(request[r].groups, s.undo)
    BY <1>1, <2>2, <2>3, GoesWell
  <2>5. QED
    BY <1>3, <2>1, <2>4
<1>4. QED
  BY <1>2, <1>3, GiveUpIs

LEMMA QueryGroups ==
    ASSUME RequestTypeOK, ShapeInv, NEW r \in Requests, RunQuery(r), request'[r] # NoRequest
    PROVE  request'[r].groups = Expand(Current(r).query, request[r].id) \o Others(r)
<1> DEFINE gs == Expand(Current(r).query, request[r].id) \o Others(r)
<1>1. UnderWay(r) /\ Current(r).id = request[r].id /\ Expand(Current(r).query, request[r].id) \in Seq(Groups)
  BY RunQueryGoes
<1>2. gs \in Seq(Groups)
  <2>1. Others(r) \in Seq(Groups)
    BY <1>1, UnderWayIs
  <2>2. \A u \in Seq(Groups) : u \o Others(r) \in Seq(Groups)
    BY <2>1, JoinIs
  <2>3. QED
    BY <1>1, <2>2
<1>3. Answer(r, FALSE, 0) \/ Continue(r, gs)
  BY <1>1 DEF RunQuery
<1> HIDE DEF gs
<1>4. ~Quits(r)
  BY QuitsWell
<1>5. ~Answer(r, FALSE, 0)
  BY <1>4 DEF Answer, Quits
<1>6. Goes(r, gs)
  BY <1>3, <1>4, <1>5, ContinueIs
<1>7. request'[r].groups = gs
  BY <1>1, <1>2, <1>6, GoesWell
<1>8. QED
  BY <1>7 DEF gs

(* The next group, the rest of this one, the removal of what was written, or what follows a query. *)
LEMMA GroupsAfter ==
    ASSUME RequestTypeOK, ShapeInv, NEW r \in Requests, Advances(r), request'[r] # NoRequest,
           request[r].op # "unread", NEW s, s = Head(Current(r).body)
    PROVE  \/ request'[r].groups = Others(r)
           \/ /\ Statement(r) /\ Len(Current(r).body) # 1 /\ request'[r].groups = Popped(request[r].groups)
              /\ s.soft \/ (Write(s) /\ (s.onto = "absent" => rows[s.k] = "no"))
           \/ /\ Statement(r) /\ s.undo # NoKey /\ s.undo \in Keys
              /\ request'[r].groups = Undoing(request[r].groups, s.undo)
           \/ RunQuery(r) /\ request'[r].groups = Expand(Current(r).query, request[r].id) \o Others(r)
<1>0. UnderWay(r)
  BY AdvanceGoes
<1>1. CASE Execute(r)
  <2>1. Statement(r)
    BY <1>1 DEF Execute
  <2>2. CASE Write(s) /\ Proceed(r) /\ (s.onto = "absent" => rows[s.k] = "no")
    BY <2>1, <2>2, ProceedGroups
  <2>3. CASE s.soft /\ Proceed(r)
    BY <2>1, <2>3, ProceedGroups
  <2>4. CASE GiveUp(r, s)
    BY <2>1, <2>4, GiveUpGroups
  <2>5. QED
    BY <1>1, <2>2, <2>3, <2>4, ExecuteIs
<1>2. CASE Fail(r)
  <2>1. Statement(r)
    BY <1>2 DEF Fail
  <2>2. CASE s.soft /\ Proceed(r)
    BY <2>1, <2>2, ProceedGroups
  <2>3. CASE GiveUp(r, s)
    BY <2>1, <2>3, GiveUpGroups
  <2>4. QED
    BY <1>2, <2>2, <2>3, FailIs
<1>3. CASE NothingToDo(r) \/ FailQuery(r)
  <2>1. EndGroup(r, TRUE) \/ EndGroup(r, FALSE)
    BY <1>3 DEF NothingToDo, FailQuery
  <2>2. QED
    BY <1>0, <2>1, EndGroupGroups
<1>4. CASE RunQuery(r)
  BY <1>4, QueryGroups
<1>5. CASE ReadCache(r) \/ CountUnread(r)
  BY <1>5, ReadCacheGoes, CountUnreadGoes
<1>6. CASE StoreCount(r)
  <2>1. Current(r).query = "store"
    BY <1>6 DEF StoreCount
  <2>2. QED
    BY <1>0, <2>1, UnreadGroups
<1>7. CASE Crash(r)
  BY <1>7, CrashIs, QuitsWell
<1>8. QED
  BY <1>1, <1>2, <1>3, <1>4, <1>5, <1>6, <1>7 DEF Advances

(* What a step does to the rows: nothing, or one statement, the next one of the request. *)
LEMMA RowsAfter ==
    ASSUME NEW r, Advances(r)
    PROVE  (rows' = rows /\ kept' = kept) \/ (Statement(r) /\ Write(Head(Current(r).body)))
<1>1. CASE Execute(r)
  BY <1>1, ExecuteIs DEF Execute
<1>2. CASE Fail(r)
  BY <1>2, FailIs DEF Fail
<1>3. CASE Crash(r)
  BY <1>3, CrashIs
<1>4. CASE NothingToDo(r) \/ RunQuery(r) \/ FailQuery(r) \/ ReadCache(r) \/ CountUnread(r) \/ StoreCount(r)
  BY <1>4 DEF NothingToDo, RunQuery, FailQuery, ReadCache, CountUnread, StoreCount
<1>5. QED
  BY <1>1, <1>2, <1>3, <1>4 DEF Advances

(* A message that is being sent has two rows, one after the other. *)
LEMMA SendShape ==
    ASSUME RequestTypeOK, ShapeInv, NEW r \in Requests, UnderWay(r), request[r].op = "send"
    PROVE  /\ request[r].x \in Messages /\ Others(r) = <<>> /\ SendBody(request[r].x, Current(r).body)
           /\ Current(r).query = None
<1>1. ShapedAs(request[r].op, request[r].id, request[r].x, request[r].groups)
  BY DEF ShapeInv, Shaped
<1>2. GroupOf(request[r].op, request[r].id, request[r].x, Current(r))
  BY <1>1, UnderWayIs DEF ShapedAs
<1>3. Current(r).query = None
  BY <1>2 DEF GroupOf, QueryOf
<1>4. BodyOf(request[r].op, request[r].id, request[r].x, Current(r).body)
  BY <1>2, <1>3 DEF GroupOf
<1>5. Len(request[r].groups) = 1
  BY <1>1 DEF ShapedAs, Single
<1>6. Others(r) = <<>>
  BY <1>5, UnderWayIs, TailIs DEF Others
<1>7. QED
  BY <1>3, <1>4, <1>6 DEF BodyOf

LEMMA SendSteps ==
    ASSUME RequestTypeOK, ShapeInv, NEW r \in Requests, Advances(r), request[r].op = "send", request'[r] # NoRequest
    PROVE  Len(Head(request'[r].groups).body) = 1
<1>1. UnderWay(r) /\ Goings(r)
  BY AdvanceGoes
<1>2. request[r].x \in Messages /\ Others(r) = <<>> /\ SendBody(request[r].x, Current(r).body)
  BY <1>1, SendShape
<1>3. request'[r].groups # Others(r)
  BY <1>1, <1>2, GoingsAre
<1> DEFINE s == Head(Current(r).body)
<1>4. /\ Len(Current(r).body) # 1 => Len(Tail(Current(r).body)) = 1
      /\ s.undo = NoKey
  <2>1. \A t, u : /\ Head(<<t, u>>) = t /\ Head(<<t>>) = t /\ Len(<<t>>) = 1
                  /\ Tail(<<t, u>>) = <<u>>
    BY PairIs
  <2>2. \A k : Add(k).undo = NoKey /\ SoftAdd(k).undo = NoKey
    BY DEF Add, SoftAdd, Sql
  <2>3. QED
    BY <1>2, <2>1, <2>2 DEF SendBody
<1>5. ~RunQuery(r)
  BY RunQueryGoes DEF Single
<1> HIDE DEF s
<1>6. Statement(r) /\ Len(Current(r).body) # 1 /\ request'[r].groups = Popped(request[r].groups)
  BY <1>3, <1>4, <1>5, GroupsAfter DEF s
<1>7. Head(Popped(request[r].groups)).body = Tail(Current(r).body)
  BY <1>1, <1>6, UnderWayIs, PoppedIs DEF Statement, Current
<1>8. QED
  BY <1>4, <1>6, <1>7

(* The messages that archiving finds are rows of the inbox. *)
LEMMA MovesFound ==
    ASSUME NEW a \in Accounts, NEW q, q = "move" \/ q = "receive", NEW i \in DOMAIN Expand(q, a)
    PROVE  \E k \in Found(q, a) : Expand(q, a)[i].body = ArchiveRow(k)
<1> DEFINE ks == SetToSeq(Found(q, a))
<1>1. \A j \in DOMAIN ks : ks[j] \in Found(q, a)
  BY FoundIs, SetToSeqIs
<1> HIDE DEF ks
<1>2. ASSUME NEW strict, NEW j \in DOMAIN MoveRows(ks, a, strict)
      PROVE  j \in DOMAIN ks /\ MoveRows(ks, a, strict)[j].body = ArchiveRow(ks[j])
  <2>1. DOMAIN MoveRows(ks, a, strict) = DOMAIN ks
    BY DEF MoveRows
  <2>2. MoveRows(ks, a, strict)[j] = Series(None, ArchiveRow(ks[j]), strict, a, Seen(ks[j]), ~strict)
    BY <2>1 DEF MoveRows
  <2> DEFINE b == ArchiveRow(ks[j])
             v == Seen(ks[j])
             w == ~strict
  <2> HIDE DEF b, v, w
  <2>3. MoveRows(ks, a, strict)[j] = Series(None, b, strict, a, v, w)
    BY <2>2 DEF b, v, w
  <2>4. MoveRows(ks, a, strict)[j].body = b
    BY <2>3 DEF Series
  <2>5. QED
    BY <2>1, <2>4 DEF b
<1>3. Expand(q, a) = MoveRows(ks, a, TRUE) \/ Expand(q, a) = MoveRows(ks, a, FALSE)
  BY Expansions DEF ks
<1>4. QED
  BY <1>1, <1>2, <1>3

-----------------------------------------------------------------------------
(* Delivered messages *)

Inbox(m) == Key("message", Recipient[m], m)
Archive(m) == Key("archive", Recipient[m], m)
Sending(r, m) == request[r].op = "send" /\ request[r].x = m /\ Len(Current(r).body) = 2
Unborn(m) == m \notin sent \/ \E r \in Requests : Sending(r, m)
Moving(r) == request[r].op = "move" \/ request[r].op = "receive"

LEMMA BoxesAre ==
    ASSUME NEW m \in Messages
    PROVE  /\ Inbox(m) \in Keys /\ Archive(m) \in Keys /\ Inbox(m).t = "message" /\ Archive(m).t = "archive"
           /\ Inbox(m).x = m /\ Archive(m).x = m /\ Inbox(m).id = Recipient[m] /\ Archive(m).id = Recipient[m]
           /\ Inbox(m) # Archive(m) /\ Archived(Inbox(m)) = Archive(m)
<1>1. Inbox(m) \in Keys /\ Archive(m) \in Keys
  BY KeysAre DEF Inbox, Archive
<1>2. /\ Inbox(m).t = "message" /\ Archive(m).t = "archive"
      /\ Inbox(m).x = m /\ Archive(m).x = m /\ Inbox(m).id = Recipient[m] /\ Archive(m).id = Recipient[m]
  BY KeyFields DEF Inbox, Archive
<1>3. Archived(Inbox(m)) = Archive(m)
  <2>1. [Inbox(m) EXCEPT !.t = "archive"] = Key("archive", Inbox(m).id, Inbox(m).x)
    BY <1>1, <1>2, ArchiveIs
  <2>2. QED
    BY <1>2, <2>1 DEF Archived, Archive
<1>4. QED
  BY <1>1, <1>2, <1>3

LEMMA BoxOf ==
    ASSUME NEW k \in Keys
    PROVE  /\ k.t = "message" => k.x \in Messages /\ k = Inbox(k.x) /\ Archived(k) = Archive(k.x)
           /\ k.t = "archive" => k.x \in Messages /\ k = Archive(k.x)
<1>1. k = Key(k.t, k.id, k.x) /\ (k.t \in {"message", "archive"} => k.x \in Messages /\ k.id = Recipient[k.x])
  BY KeyForms
<1>2. k.t = "message" => k.x \in Messages /\ k = Inbox(k.x)
  BY <1>1 DEF Inbox
<1>3. k.t = "archive" => k.x \in Messages /\ k = Archive(k.x)
  BY <1>1 DEF Archive
<1>4. QED
  BY <1>2, <1>3, BoxesAre

(* While a message is moved it has been sent, and it is in the archive before it leaves the  *)
(* inbox; a message that is still to be written is nowhere; a message whose owner is deleting *)
(* messages is not one that nobody has asked to delete.                                      *)
MoveOk(m, body) ==
    /\ (body = <<Del(Inbox(m))>> /\ m \in kept) => rows[Archive(m)] # "no"
    /\ (body = <<Del(Inbox(m))>> \/ body = ArchiveRow(Inbox(m))) => ~Unborn(m)
MovesWell(gs) == \A i \in DOMAIN gs : \A m \in Messages : MoveOk(m, gs[i].body)

SafeInv ==
    /\ NothingLost
    /\ \A r \in Requests : request[r].op \in Erasing => \A m \in kept : Recipient[m] # request[r].id
    /\ \A r \in Requests : Moving(r) => MovesWell(request[r].groups)
    /\ \A m \in Messages : Unborn(m) => rows[Inbox(m)] = "no" /\ rows[Archive(m)] = "no" /\ m \notin kept
    /\ \A r \in Requests : \A q \in Requests :
          (request[r].op = "send" /\ request[q].op = "send" /\ request[r].x = request[q].x) => r = q

LEMMA ArchiveRowIs ==
    ASSUME NEW m \in Messages
    PROVE  /\ ArchiveRow(Inbox(m)) = <<Put(Archive(m)), Del(Inbox(m))>>
           /\ Head(ArchiveRow(Inbox(m))) = Put(Archive(m)) /\ Tail(ArchiveRow(Inbox(m))) = <<Del(Inbox(m))>>
           /\ Len(ArchiveRow(Inbox(m))) = 2 /\ ArchiveRow(Inbox(m)) # <<>>
<1>1. [Inbox(m) EXCEPT !.t = "archive"] = Archive(m)
  BY BoxesAre DEF Archived
<1>2. ArchiveRow(Inbox(m)) = <<Put(Archive(m)), Del(Inbox(m))>>
  BY <1>1 DEF ArchiveRow
<1>3. QED
  BY <1>2, PairIs

(* The statements of a request that archives. *)
LEMMA MoveBodies ==
    ASSUME RequestTypeOK, ShapeInv, NEW r \in Requests, Statement(r), Moving(r)
    PROVE  \E m \in Messages : /\ request[r].id = Recipient[m]
                               /\ Current(r).body = ArchiveRow(Inbox(m)) \/ Current(r).body = <<Del(Inbox(m))>>
<1>1. BodyOf(request[r].op, request[r].id, request[r].x, Current(r).body)
  BY StatementIs
<1>2. PICK h \in KeysOf("message", request[r].id) : MoveBody(h, Current(r).body)
  BY <1>1 DEF BodyOf, Moving
<1>3. h \in Keys /\ h.t = "message" /\ h.id = request[r].id
  BY DEF KeysOf
<1>4. h.x \in Messages /\ h = Inbox(h.x)
  BY <1>3, BoxOf
<1>5. QED
  BY <1>2, <1>3, <1>4, BoxesAre DEF MoveBody

(* Who writes the inbox and the archive. *)
LEMMA BoxStatements ==
    ASSUME RequestTypeOK, ShapeInv, NEW r \in Requests, Statement(r), NEW s, s = Head(Current(r).body),
           NEW m \in Messages
    PROVE  /\ s.k = Inbox(m) =>
                \/ request[r].op = "send" /\ request[r].x = m /\ s = Add(Inbox(m)) /\ Sending(r, m)
                \/ Moving(r) /\ s = Del(Inbox(m)) /\ Current(r).body = <<Del(Inbox(m))>>
                \/ request[r].op \in Erasing /\ request[r].id = Recipient[m] /\ s = Del(Inbox(m))
                \/ request[r].op = "read" /\ s = Update(Inbox(m), "read")
           /\ s.k = Archive(m) =>
                \/ Moving(r) /\ s = Put(Archive(m)) /\ Current(r).body = ArchiveRow(Inbox(m))
                \/ request[r].op \in Erasing /\ request[r].id = Recipient[m] /\ s = Del(Archive(m))
<1>1. HeadOf(request[r].op, request[r].id, request[r].x, s) /\ UnderWay(r)
  BY StatementIs
<1>2. request[r].id \in Accounts
  BY <1>1, UnderWayIs
<1>3. /\ (s.k.t = "message") => \/ /\ request[r].op = "send" /\ request[r].x \in Messages
                                   /\ s = Add(Key("message", Recipient[request[r].x], request[r].x))
                                \/ /\ request[r].op \in {"move", "receive", "delete", "deleteAccount"}
                                   /\ s = Del(s.k) /\ s.k.id = request[r].id
                                \/ request[r].op = "read" /\ s = Update(s.k, "read") /\ s.k.id = request[r].id
      /\ (s.k.t = "archive") => \/ request[r].op \in {"move", "receive"} /\ s = Put(s.k)
                                \/ /\ request[r].op \in {"delete", "deleteAccount"}
                                   /\ s = Del(s.k) /\ s.k.id = request[r].id
  BY <1>1, <1>2, TablesOf
<1>4. /\ Inbox(m).t = "message" /\ Archive(m).t = "archive" /\ Inbox(m).id = Recipient[m]
      /\ Archive(m).id = Recipient[m] /\ Inbox(m).x = m /\ Archive(m).x = m
  BY BoxesAre
(* Archiving writes the archive first. *)
<1>5. ASSUME Moving(r)
      PROVE  /\ s.k = Inbox(m) => Current(r).body = <<Del(Inbox(m))>>
             /\ s.k = Archive(m) => Current(r).body = ArchiveRow(Inbox(m))
  <2>1. PICK n \in Messages : Current(r).body = ArchiveRow(Inbox(n)) \/ Current(r).body = <<Del(Inbox(n))>>
    BY <1>5, MoveBodies
  <2>2. CASE Current(r).body = ArchiveRow(Inbox(n))
    <3>1. s = Put(Archive(n))
      BY <2>2, ArchiveRowIs
    <3>2. s.k = Archive(n)
      BY <3>1 DEF Put, Sql
    <3>3. Archive(n).t = "archive" /\ Archive(n).x = n
      BY BoxesAre
    <3>4. QED
      BY <1>4, <2>2, <3>2, <3>3
  <2>3. CASE Current(r).body = <<Del(Inbox(n))>>
    <3>1. s = Del(Inbox(n))
      BY <2>3, PairIs
    <3>2. s.k = Inbox(n)
      BY <3>1 DEF Del, Sql
    <3>3. Inbox(n).t = "message" /\ Inbox(n).x = n
      BY BoxesAre
    <3>4. QED
      BY <1>4, <2>3, <3>2, <3>3
  <2>4. QED
    BY <2>1, <2>2, <2>3
<1>6. ASSUME request[r].op = "send", request[r].x \in Messages,
             s = Add(Key("message", Recipient[request[r].x], request[r].x)), s.k = Inbox(m)
      PROVE  request[r].x = m /\ s = Add(Inbox(m)) /\ Sending(r, m)
  <2>1. \A h : Add(h).k = h /\ Add(h).soft = FALSE /\ SoftAdd(h).soft = TRUE
    BY DEF Add, SoftAdd, Sql
  <2>2. request[r].x = m /\ s = Add(Inbox(m))
    BY <1>4, <1>6, <2>1, KeyFields DEF Inbox
  <2>3. SendBody(m, Current(r).body)
    BY <1>1, <1>6, <2>2, SendShape
  <2>4. \A t, u : Head(<<t>>) = t /\ Len(<<t, u>>) = 2
    BY PairIs
  <2>5. Len(Current(r).body) = 2
    BY <2>1, <2>2, <2>3, <2>4 DEF SendBody
  <2>6. QED
    BY <1>6, <2>2, <2>5 DEF Sending
<1>7. s.k = Inbox(m) =>
                \/ request[r].op = "send" /\ request[r].x = m /\ s = Add(Inbox(m)) /\ Sending(r, m)
                \/ Moving(r) /\ s = Del(Inbox(m)) /\ Current(r).body = <<Del(Inbox(m))>>
                \/ request[r].op \in Erasing /\ request[r].id = Recipient[m] /\ s = Del(Inbox(m))
                \/ request[r].op = "read" /\ s = Update(Inbox(m), "read")
  BY <1>3, <1>4, <1>5, <1>6 DEF Moving, Erasing
<1>8. s.k = Archive(m) =>
                \/ Moving(r) /\ s = Put(Archive(m)) /\ Current(r).body = ArchiveRow(Inbox(m))
                \/ request[r].op \in Erasing /\ request[r].id = Recipient[m] /\ s = Del(Archive(m))
  BY <1>3, <1>4, <1>5 DEF Moving, Erasing
<1>9. QED
  BY <1>7, <1>8

(* Nothing becomes unborn by a step. *)
LEMMA UnbornAfter ==
    ASSUME RequestTypeOK, ShapeInv, NEW r \in Requests, Advances(r), NEW m
    PROVE  /\ Unborn(m)' => Unborn(m)
           /\ ~Sending(r, m)'
<1>1. UnderWay(r) /\ Goings(r) /\ sent' = sent
  BY AdvanceGoes
<1>2. /\ \A p \in Requests : p # r => request'[p] = request[p]
      /\ \/ request'[r] = NoRequest
         \/ request'[r].op = request[r].op
  BY <1>1, GoingsAre
<1>3. ~Sending(r, m)'
  <2>1. ASSUME request'[r].op = "send", Len(Head(request'[r].groups).body) = 2 PROVE FALSE
    <3>1. request'[r] # NoRequest /\ request[r].op = "send"
      BY <1>2, <2>1, OpsAre
    <3>2. Len(Head(request'[r].groups).body) = 1
      BY <3>1, SendSteps
    <3>3. QED
      BY <2>1, <3>2
  <2>2. QED
    BY <2>1 DEF Sending, Current
<1>4. QED
  BY <1>1, <1>2, <1>3 DEF Unborn, Sending, Current

(* A message is kept when its row is added, unless its owner is deleting messages. *)
LEMMA KeptAfter ==
    ASSUME RequestTypeOK, ShapeInv, NEW r \in Requests, Advances(r), NEW s, s = Head(Current(r).body)
    PROVE  /\ kept \subseteq kept'
           /\ \A m \in kept' : m \notin kept =>
                 /\ Statement(r) /\ Write(s) /\ Sending(r, m) /\ s = Add(Inbox(m)) /\ rows[Inbox(m)] = "no"
                 /\ m \in Messages
                 /\ \A q \in Requests : ~(request[q].op \in Erasing /\ request[q].id = Recipient[m])
<1>1. CASE kept' = kept
  BY <1>1
<1>2. CASE Statement(r) /\ Write(s)
  <2>1. /\ kept \subseteq kept'
        /\ \A m \in kept' : m \notin kept => m = s.k.x /\ s.k.t = "message" /\ s.onto = "absent" /\ Affects(s)
              /\ ~\E q \in Requests : request[q].op \in Erasing /\ request[q].id = s.k.id
    BY <1>2 DEF Write
  <2>2. s.k \in Keys
    BY <1>2, StatementIs DEF Statements
  <2>3. ASSUME NEW m \in kept', m \notin kept
        PROVE  /\ Sending(r, m) /\ s = Add(Inbox(m)) /\ rows[Inbox(m)] = "no" /\ m \in Messages
               /\ \A q \in Requests : ~(request[q].op \in Erasing /\ request[q].id = Recipient[m])
    <3>1. m = s.k.x /\ s.k.t = "message" /\ s.onto = "absent" /\ Affects(s)
      BY <2>1, <2>3
    <3>2. m \in Messages /\ s.k = Inbox(m)
      BY <2>2, <3>1, BoxOf
    <3>3. \A h : Del(h).onto = "all" /\ Update(h, "read").onto = "present"
      BY DEF Del, Update, Sql
    <3>4. Sending(r, m) /\ s = Add(Inbox(m))
      BY <1>2, <3>1, <3>2, <3>3, BoxStatements
    <3>5. rows[Inbox(m)] = "no"
      BY <3>1, <3>2 DEF Affects
    <3>6. s.k.id = Recipient[m]
      BY <3>2, BoxesAre
    <3>7. \A q \in Requests : ~(request[q].op \in Erasing /\ request[q].id = Recipient[m])
      BY <2>1, <2>3, <3>6
    <3>8. QED
      BY <3>2, <3>4, <3>5, <3>7
  <2>4. QED
    BY <1>2, <2>1, <2>3
<1>3. QED
  BY <1>1, <1>2, RowsAfter

(* What becomes of the two rows of a message. *)
LEMMA BoxesAfter ==
    ASSUME TypeInv, SafeInv, NEW r \in Requests, Advances(r), NEW m \in Messages
    PROVE  /\ (m \in kept /\ rows[Archive(m)] # "no") => rows'[Archive(m)] # "no"
           /\ (m \in kept /\ rows[Inbox(m)] # "no" /\ rows'[Inbox(m)] = "no") => rows[Archive(m)] # "no"
           /\ (~Sending(r, m) /\ rows[Inbox(m)] = "no") => rows'[Inbox(m)] = "no"
           /\ (Unborn(m) /\ rows[Archive(m)] = "no") => rows'[Archive(m)] = "no"
<1>0. RequestTypeOK /\ ShapeInv /\ DataTypeOK
  BY TypeIs
<1>1. CASE rows' = rows
  BY <1>1
<1>2. CASE Statement(r) /\ Write(Head(Current(r).body))
  <2> DEFINE s == Head(Current(r).body)
  <2>1. s \in Statements /\ UnderWay(r) /\ Current(r).query = None
    BY <1>0, <1>2, StatementIs
  <2>2. /\ \A k \in Keys : k # s.k => rows'[k] = rows[k]
        /\ s.onto = "all" => rows'[s.k] = s.v
        /\ (s.onto = "present" /\ rows[s.k] # "no") => rows'[s.k] = s.v
        /\ (s.onto = "present" /\ rows[s.k] = "no") => rows'[s.k] = rows[s.k]
    BY <1>0, <1>2, <2>1, WriteIs
  <2> HIDE DEF s
  <2>3. Inbox(m) \in Keys /\ Archive(m) \in Keys
    BY BoxesAre
  <2>4. /\ s.k = Inbox(m) =>
                \/ request[r].op = "send" /\ request[r].x = m /\ s = Add(Inbox(m)) /\ Sending(r, m)
                \/ Moving(r) /\ s = Del(Inbox(m)) /\ Current(r).body = <<Del(Inbox(m))>>
                \/ request[r].op \in Erasing /\ request[r].id = Recipient[m] /\ s = Del(Inbox(m))
                \/ request[r].op = "read" /\ s = Update(Inbox(m), "read")
        /\ s.k = Archive(m) =>
                \/ Moving(r) /\ s = Put(Archive(m)) /\ Current(r).body = ArchiveRow(Inbox(m))
                \/ request[r].op \in Erasing /\ request[r].id = Recipient[m] /\ s = Del(Archive(m))
    BY <1>0, <1>2, BoxStatements DEF s
  <2>5. \A h : /\ Del(h).onto = "all" /\ Del(h).v = "no" /\ Put(h).onto = "all" /\ Put(h).v = "new"
               /\ Update(h, "read").onto = "present" /\ Update(h, "read").v = "read"
    BY DEF Del, Put, Update, Sql
  <2>6. (request[r].op \in Erasing /\ request[r].id = Recipient[m]) => m \notin kept
    BY DEF SafeInv
  <2>7. Moving(r) => MoveOk(m, Current(r).body)
    BY <1>0, <2>1, UnderWayIs DEF SafeInv, MovesWell
  <2>8. (m \in kept /\ rows[Archive(m)] # "no") => rows'[Archive(m)] # "no"
    <3>1. CASE s.k = Archive(m)
      BY <2>2, <2>4, <2>5, <2>6, <3>1
    <3>2. CASE s.k # Archive(m)
      BY <2>2, <2>3, <3>2
    <3>3. QED
      BY <3>1, <3>2
  <2>9. (m \in kept /\ rows[Inbox(m)] # "no" /\ rows'[Inbox(m)] = "no") => rows[Archive(m)] # "no"
    <3>1. CASE s.k = Inbox(m) /\ Moving(r) /\ Current(r).body = <<Del(Inbox(m))>>
      BY <2>7, <3>1 DEF MoveOk
    <3>2. CASE s.k = Inbox(m) /\ request[r].op \in Erasing /\ request[r].id = Recipient[m]
      BY <2>6, <3>2
    <3>3. CASE s.k = Inbox(m) /\ s = Update(Inbox(m), "read")
      BY <2>2, <2>5, <3>3
    <3>4. CASE s.k = Inbox(m) /\ s = Add(Inbox(m))
      <4>1. s.onto = "absent" /\ s.v = "new"
        BY <3>4 DEF Add, Sql
      <4>2. rows[s.k] # "no" => rows'[s.k] = rows[s.k]
        BY <1>0, <1>2, <2>1, <4>1, WriteIs DEF s
      <4>3. QED
        BY <3>4, <4>2
    <3>5. CASE s.k # Inbox(m)
      BY <2>2, <2>3, <3>5
    <3>6. QED
      BY <2>4, <3>1, <3>2, <3>3, <3>4, <3>5
  <2>10. (~Sending(r, m) /\ rows[Inbox(m)] = "no") => rows'[Inbox(m)] = "no"
    <3>1. CASE s.k = Inbox(m)
      BY <2>2, <2>4, <2>5, <3>1
    <3>2. CASE s.k # Inbox(m)
      BY <2>2, <2>3, <3>2
    <3>3. QED
      BY <3>1, <3>2
  <2>11. (Unborn(m) /\ rows[Archive(m)] = "no") => rows'[Archive(m)] = "no"
    <3>1. CASE s.k = Archive(m)
      BY <2>2, <2>4, <2>5, <2>7, <3>1 DEF MoveOk
    <3>2. CASE s.k # Archive(m)
      BY <2>2, <2>3, <3>2
    <3>3. QED
      BY <3>1, <3>2
  <2>12. QED
    BY <2>8, <2>9, <2>10, <2>11
<1>3. QED
  BY <1>1, <1>2, RowsAfter

(* The groups of a request that archives, after its step. *)
LEMMA MovesAfter ==
    ASSUME TypeInv, SafeInv, NEW r \in Requests, Advances(r), Moving(r), request'[r] # NoRequest,
           NEW m \in Messages, NEW i \in DOMAIN request'[r].groups,
           NEW body, body = request'[r].groups[i].body, NEW ks, ks = Inbox(m)
    PROVE  \/ \E j \in DOMAIN request[r].groups : request[r].groups[j].body = body
           \/ /\ body = <<Del(ks)>> => rows'[Archive(m)] # "no" /\ ~Unborn(m)
              /\ body = ArchiveRow(ks) => ~Unborn(m)
<1>0. RequestTypeOK /\ ShapeInv /\ DataTypeOK
  BY TypeIs
<1>1. UnderWay(r)
  BY <1>0, AdvanceGoes
<1> DEFINE gs == request[r].groups
           s == Head(Current(r).body)
<1>2. gs \in Seq(Groups) /\ gs # <<>> /\ Current(r) = gs[1] /\ 1 \in DOMAIN gs /\ Current(r) = Head(gs)
  BY <1>0, <1>1, UnderWayIs DEF Current
<1>3. \A j \in DOMAIN Others(r) : \E h \in DOMAIN gs : gs[h] = Others(r)[j]
  BY <1>2, TailIs DEF Others
<1>4. request[r].op # "unread"
  BY DEF Moving
<1> HIDE DEF gs, s
<1>5. CASE request'[r].groups = Others(r)
  BY <1>3, <1>5 DEF gs
<1>6. CASE /\ Statement(r) /\ Len(Current(r).body) # 1 /\ request'[r].groups = Popped(gs)
           /\ s.soft \/ (Write(s) /\ (s.onto = "absent" => rows[s.k] = "no"))
  <2>1. PICK n \in Messages : Current(r).body = ArchiveRow(Inbox(n)) \/ Current(r).body = <<Del(Inbox(n))>>
    BY <1>0, <1>6, MoveBodies
  <2>2. Current(r).body = ArchiveRow(Inbox(n))
    BY <1>6, <2>1, PairIs
  <2>3. s = Put(Archive(n)) /\ Tail(Current(r).body) = <<Del(Inbox(n))>> /\ Current(r).body # <<>>
    BY <2>2, ArchiveRowIs DEF s
  <2>4. ~s.soft /\ s.onto = "all" /\ s.k = Archive(n) /\ s.v = "new"
    BY <2>3 DEF Put, Sql
  <2>5. s \in Statements
    BY <1>0, <1>6, StatementIs DEF s
  <2>6. rows'[Archive(n)] # "no"
    BY <1>0, <1>6, <2>4, <2>5, WriteIs
  <2>7. ~Unborn(n)
    BY <1>2, <2>2 DEF SafeInv, MovesWell, MoveOk, gs
  <2>8. /\ DOMAIN Popped(gs) = DOMAIN gs /\ Popped(gs)[1].body = <<Del(Inbox(n))>>
        /\ \A j \in DOMAIN gs : j # 1 => Popped(gs)[j] = gs[j]
    <3>1. Head(gs).body # <<>> /\ Tail(Head(gs).body) = <<Del(Inbox(n))>>
      BY <1>2, <2>3
    <3>2. /\ DOMAIN Popped(gs) = DOMAIN gs /\ Head(Popped(gs)) = Popped(gs)[1]
          /\ Head(Popped(gs)).body = Tail(Head(gs).body)
      BY <1>2, <3>1, PoppedIs
    <3>3. \A j \in DOMAIN gs : j # 1 => Popped(gs)[j] = gs[j]
      BY <1>2, <3>1, PoppedIs
    <3>4. QED
      BY <3>1, <3>2, <3>3
  <2>9. CASE i = 1
    <3>1. body = <<Del(Inbox(n))>>
      BY <1>6, <2>8, <2>9
    <3>2. ASSUME body = <<Del(ks)>> PROVE m = n
      <4>1. \A t : Head(<<t>>) = t
        BY PairIs
      <4>2. Del(ks) = Del(Inbox(n))
        BY <3>1, <3>2, <4>1
      <4>3. ks = Inbox(n)
        BY <4>2, DelIsOne
      <4>4. QED
        BY <4>3, KeyFields DEF Inbox
    <3>3. body # ArchiveRow(ks)
      BY <3>1, ArchiveRowIs, PairIs
    <3>4. QED
      BY <2>6, <2>7, <3>2, <3>3
  <2>10. CASE i # 1
    BY <1>6, <2>8, <2>10 DEF gs
  <2>11. QED
    BY <2>9, <2>10
<1>7. ~(Statement(r) /\ s.undo # NoKey)
  <2>1. ASSUME Statement(r) PROVE s.undo = NoKey
    <3>1. PICK n \in Messages : Current(r).body = ArchiveRow(Inbox(n)) \/ Current(r).body = <<Del(Inbox(n))>>
      BY <1>0, <2>1, MoveBodies
    <3>2. s = Put(Archive(n)) \/ s = Del(Inbox(n))
      BY <3>1, ArchiveRowIs, PairIs DEF s
    <3>3. QED
      BY <3>2 DEF Put, Del, Sql
  <2>2. QED
    BY <2>1
<1>8. CASE RunQuery(r) /\ request'[r].groups = Expand(Current(r).query, request[r].id) \o Others(r)
  <2> DEFINE q == Current(r).query
             a == request[r].id
             u == Expand(q, a)
  <2>1. QueryOf(request[r].op, q) /\ u \in Seq(Groups) /\ a \in Accounts /\ Others(r) \in Seq(Groups)
    BY <1>0, <1>1, <1>8, RunQueryGoes, UnderWayIs
  <2>2. q = "move" \/ q = "receive"
    BY <2>1 DEF QueryOf, Moving
  <2>3. \A j \in DOMAIN u : \E k \in Found(q, a) : u[j].body = ArchiveRow(k)
    BY <2>1, <2>2, MovesFound
  <2> HIDE DEF q, a, u
  <2>4. \A j \in DOMAIN (u \o Others(r)) :
                \/ j \in DOMAIN u /\ (u \o Others(r))[j] = u[j]
                \/ j - Len(u) \in DOMAIN Others(r) /\ (u \o Others(r))[j] = Others(r)[j - Len(u)]
    BY <2>1, JoinIs
  <2>5. request'[r].groups = u \o Others(r)
    BY <1>8 DEF u, q, a
  <2>6. CASE i \in DOMAIN u /\ (u \o Others(r))[i] = u[i]
    <3>1. PICK k \in Found(q, a) : u[i].body = ArchiveRow(k)
      BY <2>3, <2>6
    <3>2. k \in Keys /\ k.t = "message" /\ rows[k] # "no"
      <4>1. Table(q) = "message"
        BY <2>2, TablesAre
      <4>2. k \in KeysOf(Table(q), a) /\ rows[k] # "no"
        BY <3>1, FoundIs
      <4>3. QED
        BY <4>1, <4>2 DEF KeysOf
    <3>3. k.x \in Messages /\ k = Inbox(k.x)
      BY <3>2, BoxOf
    <3>4. body = ArchiveRow(Inbox(k.x))
      BY <2>5, <2>6, <3>1, <3>3
    <3>5. ~Unborn(k.x)
      BY <3>2, <3>3 DEF SafeInv
    <3>6. body # <<Del(ks)>>
      <4>1. Len(body) = 2
        BY <3>3, <3>4, PairIs DEF ArchiveRow
      <4>2. Len(<<Del(ks)>>) = 1
        BY PairIs
      <4>3. QED
        BY <4>1, <4>2
    <3>7. ASSUME body = ArchiveRow(ks) PROVE m = k.x
      <4>1. Put(Archive(m)) = Put(Archive(k.x))
        BY <3>3, <3>4, <3>7, ArchiveRowIs
      <4>2. Archive(m) = Archive(k.x)
        BY <4>1 DEF Put, Sql
      <4>3. QED
        BY <3>3, <4>2, BoxesAre
    <3>8. QED
      BY <3>5, <3>6, <3>7
  <2>7. CASE i - Len(u) \in DOMAIN Others(r) /\ (u \o Others(r))[i] = Others(r)[i - Len(u)]
    BY <1>3, <2>5, <2>7 DEF gs
  <2>8. QED
    BY <2>4, <2>5, <2>6, <2>7
<1>9. QED
  BY <1>0, <1>4, <1>5, <1>6, <1>7, <1>8, GroupsAfter DEF s, gs

LEMMA SafeAdvance ==
    ASSUME TypeInv, SafeInv, NEW r \in Requests, Advances(r)
    PROVE  SafeInv'
<1>0. RequestTypeOK /\ ShapeInv /\ DataTypeOK
  BY TypeIs
<1>1. UnderWay(r) /\ Goings(r) /\ sent' = sent
  BY <1>0, AdvanceGoes
<1>2. /\ \A p \in Requests : p # r => request'[p] = request[p]
      /\ \/ request'[r] = NoRequest
         \/ request'[r].op = request[r].op /\ request'[r].id = request[r].id /\ request'[r].x = request[r].x
  BY <1>0, <1>1, GoingsAre
<1>3. /\ kept \subseteq kept'
      /\ \A m \in kept' : m \notin kept =>
            /\ Sending(r, m) /\ rows[Inbox(m)] = "no" /\ m \in Messages /\ rows'[Inbox(m)] # "no"
            /\ \A q \in Requests : ~(request[q].op \in Erasing /\ request[q].id = Recipient[m])
  <2> DEFINE s == Head(Current(r).body)
  <2>1. /\ kept \subseteq kept'
        /\ \A m \in kept' : m \notin kept =>
              /\ Statement(r) /\ Write(s) /\ Sending(r, m) /\ s = Add(Inbox(m)) /\ rows[Inbox(m)] = "no"
              /\ m \in Messages
              /\ \A q \in Requests : ~(request[q].op \in Erasing /\ request[q].id = Recipient[m])
    BY <1>0, KeptAfter
  <2>2. Statement(r) => s \in Statements
    BY <1>0, StatementIs
  <2> HIDE DEF s
  <2>3. ASSUME NEW m \in Messages, Statement(r), Write(s), s = Add(Inbox(m)), rows[Inbox(m)] = "no"
        PROVE  rows'[Inbox(m)] # "no"
    <3>1. s.k = Inbox(m) /\ s.onto = "absent" /\ s.v = "new"
      BY <2>3 DEF Add, Sql
    <3>2. rows'[s.k] = s.v
      BY <1>0, <2>2, <2>3, <3>1, WriteIs
    <3>3. QED
      BY <3>1, <3>2
  <2>4. QED
    BY <2>1, <2>3
<1>4. \A m \in Messages :
           /\ (m \in kept /\ rows[Archive(m)] # "no") => rows'[Archive(m)] # "no"
           /\ (m \in kept /\ rows[Inbox(m)] # "no" /\ rows'[Inbox(m)] = "no") => rows[Archive(m)] # "no"
           /\ (~Sending(r, m) /\ rows[Inbox(m)] = "no") => rows'[Inbox(m)] = "no"
           /\ (Unborn(m) /\ rows[Archive(m)] = "no") => rows'[Archive(m)] = "no"
  BY BoxesAfter
<1>5. \A m : (Unborn(m)' => Unborn(m)) /\ ~Sending(r, m)'
  BY <1>0, UnbornAfter
<1>6. kept \subseteq Messages
  BY <1>0 DEF DataTypeOK
<1>7. NothingLost'
  <2>1. ASSUME NEW m \in kept' PROVE rows'[Inbox(m)] # "no" \/ rows'[Archive(m)] # "no"
    <3>1. CASE m \in kept
      <4>1. rows[Inbox(m)] # "no" \/ rows[Archive(m)] # "no"
        BY <3>1 DEF SafeInv, NothingLost, Present, Inbox, Archive
      <4>2. m \in Messages
        BY <1>6, <3>1
      <4>3. QED
        BY <1>4, <3>1, <4>1, <4>2
    <3>2. CASE m \notin kept
      BY <1>3, <3>2
    <3>3. QED
      BY <3>1, <3>2
  <2>2. QED
    BY <2>1 DEF NothingLost, Present, Inbox, Archive
<1>8. ASSUME NEW p \in Requests, request'[p].op \in Erasing, NEW m \in kept' PROVE Recipient[m] # request'[p].id
  <2>1. request'[p].op = request[p].op /\ request'[p].id = request[p].id
    BY <1>2, <1>8, OpsAre DEF Erasing
  <2>2. CASE m \in kept
    BY <1>8, <2>1, <2>2 DEF SafeInv
  <2>3. CASE m \notin kept
    BY <1>3, <1>8, <2>1, <2>3
  <2>4. QED
    BY <2>2, <2>3
(* A message that was found has been sent, and its row is not written again. *)
<1>9. ASSUME NEW m \in Messages, NEW body, MoveOk(m, body) PROVE MoveOk(m, body)'
  <2>1. (body = <<Del(Inbox(m))>> \/ body = ArchiveRow(Inbox(m))) => ~Unborn(m)
    BY <1>9 DEF MoveOk
  <2>2. (body = <<Del(Inbox(m))>> /\ m \in kept) => rows[Archive(m)] # "no"
    BY <1>9 DEF MoveOk
  <2>3. Sending(r, m) => Unborn(m)
    BY DEF Unborn
  <2>4. (body = <<Del(Inbox(m))>> /\ m \in kept') => rows'[Archive(m)] # "no"
    BY <1>3, <1>4, <2>1, <2>2, <2>3
  <2>5. (body = <<Del(Inbox(m))>> \/ body = ArchiveRow(Inbox(m))) => ~Unborn(m)'
    BY <1>5, <2>1
  <2>6. QED
    BY <2>4, <2>5 DEF MoveOk
<1>10. ASSUME NEW p \in Requests, Moving(p)' PROVE \A i \in DOMAIN request'[p].groups : \A m \in Messages : MoveOk(m, request[p].groups[i].body)'
  <2> SUFFICES ASSUME NEW i \in DOMAIN request'[p].groups, NEW m \in Messages, NEW body, body = request'[p].groups[i].body
               PROVE  MoveOk(m, body)'
    BY DEF MoveOk
  <2>1. Moving(p) /\ request'[p] # NoRequest
    BY <1>2, <1>10, OpsAre DEF Moving
  <2>2. CASE p # r
    <3>1. body = request[p].groups[i].body /\ i \in DOMAIN request[p].groups
      BY <1>2, <2>2
    <3>2. MoveOk(m, body)
      BY <2>1, <3>1 DEF SafeInv, MovesWell
    <3>3. QED
      BY <1>9, <3>2
  <2>3. CASE p = r
    <3>1. CASE \E j \in DOMAIN request[r].groups : request[r].groups[j].body = body
      <4>1. MoveOk(m, body)
        BY <2>1, <2>3, <3>1 DEF SafeInv, MovesWell
      <4>2. QED
        BY <1>9, <4>1
    <3>2. CASE /\ body = <<Del(Inbox(m))>> => rows'[Archive(m)] # "no" /\ ~Unborn(m)
               /\ body = ArchiveRow(Inbox(m)) => ~Unborn(m)
      <4>1. (body = <<Del(Inbox(m))>> /\ m \in kept') => rows'[Archive(m)] # "no"
        BY <3>2
      <4>2. (body = <<Del(Inbox(m))>> \/ body = ArchiveRow(Inbox(m))) => ~Unborn(m)'
        BY <1>5, <3>2
      <4>3. QED
        BY <4>1, <4>2 DEF MoveOk
    <3>3. i \in DOMAIN request'[r].groups /\ body = request'[r].groups[i].body /\ Moving(r) /\ request'[r] # NoRequest
      BY <2>1, <2>3
    <3>4. PICK ks : ks = Inbox(m)
      OBVIOUS
    <3>5. \/ \E j \in DOMAIN request[r].groups : request[r].groups[j].body = body
          \/ /\ body = <<Del(ks)>> => rows'[Archive(m)] # "no" /\ ~Unborn(m)
             /\ body = ArchiveRow(ks) => ~Unborn(m)
      BY <3>3, <3>4, MovesAfter
    <3>6. QED
      BY <3>1, <3>2, <3>4, <3>5
  <2>4. QED
    BY <2>2, <2>3
<1>11. ASSUME NEW m \in Messages, Unborn(m)' PROVE rows'[Inbox(m)] = "no" /\ rows'[Archive(m)] = "no" /\ m \notin kept'
  <2>1. Unborn(m)
    BY <1>5, <1>11
  <2>2. rows[Inbox(m)] = "no" /\ rows[Archive(m)] = "no" /\ m \notin kept
    BY <2>1 DEF SafeInv
  <2>3. ~Sending(r, m)
    <3>1. ASSUME Sending(r, m) PROVE FALSE
      <4>1. m \in sent
        BY <3>1 DEF TypeInv, SentInv, Sending
      <4>2. PICK q \in Requests : Sending(q, m)'
        BY <1>1, <1>11, <4>1 DEF Unborn
      <4>3. q # r
        BY <1>5, <4>2
      <4>4. request[q].op = "send" /\ request[q].x = m
        BY <1>2, <4>2, <4>3 DEF Sending
      <4>5. QED
        BY <3>1, <4>3, <4>4 DEF SafeInv, Sending
    <3>2. QED
      BY <3>1
  <2>4. QED
    BY <1>3, <1>4, <2>1, <2>2, <2>3
<1>12. ASSUME NEW p \in Requests, NEW q \in Requests, request'[p].op = "send", request'[q].op = "send",
              request'[p].x = request'[q].x
       PROVE  p = q
  <2>1. /\ request[p].op = "send" /\ request[p].x = request'[p].x
        /\ request[q].op = "send" /\ request[q].x = request'[q].x
    BY <1>2, <1>12, OpsAre
  <2>2. QED
    BY <1>12, <2>1 DEF SafeInv
<1>13. QED
  BY <1>7, <1>8, <1>10, <1>11, <1>12 DEF SafeInv, MovesWell, MoveOk

LEMMA SafeArrive ==
    ASSUME TypeInv, SafeInv, NEW r \in Requests, Arrives(r)
    PROVE  SafeInv'
<1>0. RequestTypeOK /\ SentInv
  BY TypeIs
<1>1. PICK op \in Ops, a \in Accounts, x \in Accounts \cup Messages \cup {None, "message", "archive"} : \E gs :
              /\ Start(r, op, a, x, gs) /\ Begins(op, a, x, gs)
              /\ sent' = IF op = "send" THEN sent \cup {x} ELSE sent
  BY ArrivesIs
<1>2. PICK gs : /\ Start(r, op, a, x, gs) /\ Begins(op, a, x, gs)
                /\ sent' = IF op = "send" THEN sent \cup {x} ELSE sent
  BY <1>1
<1>3. /\ request'[r].op = op /\ request'[r].id = a /\ request'[r].x = x /\ request'[r].groups = gs
      /\ rows' = rows /\ kept' \subseteq kept /\ ~UnderWay(r)
  BY <1>0, <1>2, StartIs
<1>4. \A p \in Requests : p # r => /\ request'[p].op = request[p].op /\ request'[p].id = request[p].id
                                   /\ request'[p].x = request[p].x /\ request'[p].groups = request[p].groups
  BY <1>0, <1>2, StartOthers
<1>5. op \in Erasing => \A m \in kept' : m \in kept /\ Recipient[m] # a
  BY <1>2, StartKeeps
<1>6. op = "send" => x \notin sent
  BY <1>2 DEF Begins
<1>7. \A m : Unborn(m)' => Unborn(m)
  <2>1. ASSUME NEW m, m \notin sent' PROVE m \notin sent
    BY <1>2, <2>1
  <2>2. ASSUME NEW m, NEW q \in Requests, Sending(q, m)' PROVE Unborn(m)
    <3>1. CASE q = r
      BY <1>3, <1>6, <2>2, <3>1 DEF Sending, Unborn
    <3>2. CASE q # r
      BY <1>4, <2>2, <3>2 DEF Sending, Unborn, Current
    <3>3. QED
      BY <3>1, <3>2
  <2>3. QED
    BY <2>1, <2>2 DEF Unborn
<1>8. NothingLost'
  BY <1>3 DEF SafeInv, NothingLost, Present
<1>9. ASSUME NEW p \in Requests, request'[p].op \in Erasing, NEW m \in kept' PROVE Recipient[m] # request'[p].id
  <2>1. CASE p = r
    BY <1>3, <1>5, <1>9, <2>1
  <2>2. CASE p # r
    BY <1>3, <1>4, <1>9, <2>2 DEF SafeInv
  <2>3. QED
    BY <2>1, <2>2
<1>10. ASSUME NEW p \in Requests, Moving(p)', NEW i \in DOMAIN request'[p].groups, NEW m \in Messages,
              NEW body, body = request'[p].groups[i].body
       PROVE  MoveOk(m, body)'
  <2>1. CASE p = r
    <3>1. gs = <<Query(op, a)>>
      BY <1>2, <1>3, <1>10, <2>1 DEF Begins, Moving
    <3>2. body = <<>>
      <4>1. \A g : DOMAIN <<g>> = 1..1 /\ <<g>>[1] = g
        BY PairIs
      <4>2. i = 1 /\ body = Query(op, a).body
        BY <1>3, <1>10, <2>1, <3>1, <4>1
      <4>3. QED
        BY <4>2 DEF Query, Series
    <3>3. body # <<Del(Inbox(m))>> /\ body # ArchiveRow(Inbox(m))
      BY <3>2, ArchiveRowIs, PairIs
    <3>4. QED
      BY <3>3 DEF MoveOk
  <2>2. CASE p # r
    <3>1. MoveOk(m, body)
      BY <1>4, <1>10, <2>2 DEF SafeInv, MovesWell, Moving
    <3>2. QED
      BY <1>3, <1>7, <3>1 DEF MoveOk
  <2>3. QED
    BY <2>1, <2>2
<1>11. ASSUME NEW m \in Messages, Unborn(m)' PROVE rows'[Inbox(m)] = "no" /\ rows'[Archive(m)] = "no" /\ m \notin kept'
  BY <1>3, <1>7, <1>11 DEF SafeInv
<1>12. ASSUME NEW p \in Requests, NEW q \in Requests, request'[p].op = "send", request'[q].op = "send",
              request'[p].x = request'[q].x
       PROVE  p = q
  <2>1. CASE p # r /\ q # r
    BY <1>4, <1>12, <2>1 DEF SafeInv
  <2>2. CASE p = r /\ q # r
    BY <1>0, <1>3, <1>4, <1>6, <1>12, <2>2 DEF SentInv
  <2>3. CASE p # r /\ q = r
    BY <1>0, <1>3, <1>4, <1>6, <1>12, <2>3 DEF SentInv
  <2>4. QED
    BY <2>1, <2>2, <2>3
<1>13. QED
  BY <1>8, <1>9, <1>10, <1>11, <1>12 DEF SafeInv, MovesWell, MoveOk

LEMMA SafeOther ==
    ASSUME SafeInv, rows' = rows, request' = request, sent' = sent, kept' = kept
    PROVE  SafeInv'
<1>1. \A r, m : Sending(r, m)' <=> Sending(r, m)
  BY DEF Sending, Current
<1>2. \A m : Unborn(m)' <=> Unborn(m)
  BY <1>1 DEF Unborn
<1>3. \A r : Moving(r)' <=> Moving(r)
  BY DEF Moving
<1>4. NothingLost'
  BY DEF SafeInv, NothingLost, Present
<1>5. \A r \in Requests : Moving(r)' => MovesWell(request[r].groups)'
  BY <1>2, <1>3 DEF SafeInv, MovesWell, MoveOk
<1>6. \A m \in Messages : Unborn(m)' => rows'[Inbox(m)] = "no" /\ rows'[Archive(m)] = "no" /\ m \notin kept'
  BY <1>2 DEF SafeInv
<1>7. QED
  BY <1>4, <1>5, <1>6 DEF SafeInv

LEMMA SafeInit ==
    ASSUME DataInit
    PROVE  SafeInv
<1>1. \A r \in Requests : request[r].op = "none"
  BY OpsAre DEF DataInit
<1>2. ASSUME NEW m \in Messages PROVE rows[Inbox(m)] = "no" /\ rows[Archive(m)] = "no"
  <2>1. /\ Inbox(m) \in Keys /\ Inbox(m).t \notin {"account", "counter"} /\ \A a : Inbox(m) # Auth(a)
        /\ Archive(m) \in Keys /\ Archive(m).t \notin {"account", "counter"} /\ \A a : Archive(m) # Auth(a)
    BY BoxesAre, OtherTables
  <2>2. QED
    BY <2>1 DEF DataInit
<1>3. kept = {}
  BY DEF DataInit
<1>4. QED
  BY <1>1, <1>2, <1>3 DEF SafeInv, NothingLost, Moving, Erasing

LEMMA SafeNext ==
    ASSUME TypeInv, SafeInv, [DataNext]_dataVars
    PROVE  SafeInv'
<1>1. CASE \E r \in Requests : Arrives(r)
  BY <1>1, SafeArrive
<1>2. CASE \E r \in Requests : Advances(r)
  BY <1>2, SafeAdvance
<1>3. CASE \E a \in Accounts : Evict(a)
  BY <1>3, SafeOther DEF Evict
<1>4. CASE UNCHANGED dataVars
  BY <1>4, SafeOther DEF dataVars
<1>5. QED
  BY <1>1, <1>2, <1>3, <1>4 DEF DataNext

(* A delivered message is in the inbox or in the archive until its owner deletes it, whatever *)
(* fails, dies or runs at the same time.                                                      *)
THEOREM NothingIsLost == DataSpec => []NothingLost
<1>1. DataInit => TypeInv /\ SafeInv
  BY TypeInit, SafeInit
<1>2. TypeInv /\ SafeInv /\ [DataNext]_dataVars => TypeInv' /\ SafeInv'
  BY TypeNext, SafeNext
<1>3. SafeInv => NothingLost
  BY DEF SafeInv
<1>4. QED
  BY <1>1, <1>2, <1>3, PTL DEF DataSpec

-----------------------------------------------------------------------------
(* The order of the groups of addAccount and deleteAccount *)

AddOrder(a, gs) == \A i \in DOMAIN gs : i # 1 => gs[i].body = <<Put(Counter(a))>>
EraseOrder(a, gs) ==
    /\ \A i \in DOMAIN gs : ~gs[i].doomed /\ (gs[i].body = <<Del(Auth(a))>> => gs[i].strict)
    /\ gs[1].query # "account" => gs[Len(gs)].body = <<Del(Account(a))>>

OrderInv ==
    \A r \in Requests : /\ request[r].op = "addAccount" => AddOrder(request[r].id, request[r].groups)
                        /\ request[r].op = "deleteAccount" => EraseOrder(request[r].id, request[r].groups)

(* A sequence of one element of which something is known. *)
LEMMA OneIs ==
    ASSUME NEW s
    PROVE  <<s>>[1] = s /\ DOMAIN <<s>> = 1..1 /\ 1 \in DOMAIN <<s>> /\ Len(<<s>>) = 1 /\ <<s>> # <<>>
OBVIOUS

LEMMA AuthIsNotAccount ==
    ASSUME NEW a
    PROVE  Del(Auth(a)) # Del(Account(a)) /\ Auth(a) # Account(a) /\ Auth(a) # Counter(a) /\ Account(a) # Counter(a)
<1>1. Auth(a).t = "auth" /\ Account(a).t = "account" /\ Counter(a).t = "counter"
  BY OtherTables
<1>2. QED
  BY <1>1, DelIsOne

(* The groups that follow a query have not failed. *)
LEMMA ExpandDoomed ==
    ASSUME NEW a \in Accounts, NEW q, QueryOf("deleteAccount", q), NEW i \in DOMAIN Expand(q, a)
    PROVE  ~Expand(q, a)[i].doomed
<1>1. \A p, b, z, c, n, w : ~Series(p, b, z, c, n, w).doomed
  BY DEF Series
<1>2. \A p, b, c : /\ ~Group(b).doomed /\ ~Loose(b).doomed /\ ~Query(p, c).doomed /\ ~LooseQuery(p, c).doomed
  BY <1>1 DEF Group, Loose, Query, LooseQuery
<1>3. q \in {"account", "forget", "message", "archive", "sent"}
  BY DEF QueryOf
<1>4. ASSUME NEW t, NEW j \in DOMAIN DeleteRows(t, a) PROVE ~DeleteRows(t, a)[j].doomed
  <2> DEFINE ks == SetToSeq(Found(t, a))
  <2>1. DeleteRows(t, a) = [n \in DOMAIN ks |-> Series(None, <<Del(ks[n])>>, FALSE, a, Seen(ks[n]), TRUE)]
    BY DEF DeleteRows
  <2> HIDE DEF ks
  <2>2. DeleteRows(t, a)[j] = Series(None, <<Del(ks[j])>>, FALSE, a, Seen(ks[j]), TRUE)
    BY <2>1
  <2>3. QED
    BY <1>1, <2>2
<1>5. CASE q = "account"
  <2> DEFINE e == EraseAccount(a)
  <2>1. /\ DOMAIN e = 1..8
        /\ e[1] = Group(<<Del(Auth(a))>>) /\ e[2] = Group(<<Update(Account(a), "deleted")>>)
        /\ e[3] = LooseQuery("forget", a) /\ e[4] = Loose(<<Del(Counter(a))>>)
        /\ e[5] = LooseQuery("message", a) /\ e[6] = LooseQuery("archive", a)
        /\ e[7] = LooseQuery("sent", a) /\ e[8] = Group(<<Del(Account(a))>>)
    BY EraseAccountIs
  <2>2. Expand(q, a) = e
    BY <1>5, Expansions
  <2> HIDE DEF e
  <2>3. i \in 1..8
    BY <2>1, <2>2
  <2>4. i = 1 \/ i = 2 \/ i = 3 \/ i = 4 \/ i = 5 \/ i = 6 \/ i = 7 \/ i = 8
    BY <2>3
  <2>5. QED
    BY <1>2, <2>1, <2>2, <2>4
<1>6. CASE q = "message" \/ q = "archive"
  BY <1>4, <1>6, Expansions
<1>7. CASE q = "forget" \/ q = "sent"
  <2>1. \E b : Expand(q, a) = <<Loose(b)>>
    BY <1>7, Expansions
  <2>2. PICK b : Expand(q, a) = <<Loose(b)>>
    BY <2>1
  <2>3. i = 1 /\ Expand(q, a)[i] = Loose(b)
    BY <2>2, OneIs
  <2>4. QED
    BY <1>2, <2>3
<1>8. QED
  BY <1>3, <1>5, <1>6, <1>7

(* What follows a query of deleteAccount is in order, with what was to follow the query. *)
LEMMA ExpandErase ==
    ASSUME NEW a \in Accounts, NEW q, QueryOf("deleteAccount", q), Expand(q, a) \in Seq(Groups)
    PROVE  /\ \A i \in DOMAIN Expand(q, a) : ~Expand(q, a)[i].doomed /\ Expand(q, a)[i].query # "account"
                  /\ (Expand(q, a)[i].body = <<Del(Auth(a))>> => Expand(q, a)[i].strict /\ q = "account" /\ i = 1)
           /\ q = "account" => Len(Expand(q, a)) = 8 /\ Expand(q, a)[8].body = <<Del(Account(a))>>
                               /\ Expand(q, a)[1].body = <<Del(Auth(a))>>
<1> DEFINE u == Expand(q, a)
<1>1. ExpansionOrder(a, q, u)
  BY ExpandOrder
<1>2. \A i \in DOMAIN u : ~u[i].doomed
  BY ExpandDoomed
<1>3. q = "account" => /\ Len(u) = 8 /\ u[1] = Group(<<Del(Auth(a))>>) /\ u[8] = Group(<<Del(Account(a))>>)
  BY EraseAccountIs, Expansions
<1> HIDE DEF u
<1>4. \A b : Group(b).body = b /\ Group(b).strict
  BY DEF Group, Series
<1>5. ASSUME NEW i \in DOMAIN u, u[i].body = <<Del(Auth(a))>> PROVE u[i].strict /\ q = "account" /\ i = 1
  <2>1. 1 \in DOMAIN u[i].body /\ u[i].body[1] = Del(Auth(a))
    BY <1>5, OneIs
  <2>2. q = "account" /\ i = 1
    BY <1>1, <2>1 DEF ExpansionOrder
  <2>3. QED
    BY <1>3, <1>4, <2>2
<1>6. \A i \in DOMAIN u : u[i].query # "account"
  BY <1>1 DEF ExpansionOrder
<1>7. \A i \in DOMAIN u : ~u[i].doomed /\ u[i].query # "account"
                  /\ (u[i].body = <<Del(Auth(a))>> => u[i].strict /\ q = "account" /\ i = 1)
  BY <1>2, <1>5, <1>6
<1>8. q = "account" => Len(u) = 8 /\ u[8].body = <<Del(Account(a))>> /\ u[1].body = <<Del(Auth(a))>>
  BY <1>3, <1>4
<1>9. QED
  BY <1>7, <1>8 DEF u

(* Statements of deleteAccount have nothing to undo, and are not for absent rows. *)
LEMMA ErasureFields ==
    ASSUME NEW a, NEW s, Erasure(a, s)
    PROVE  s.undo = NoKey /\ s.onto # "absent"
<1>1. \A k, v : /\ Del(k).undo = NoKey /\ SoftDel(k).undo = NoKey /\ Update(k, v).undo = NoKey
                /\ Del(k).onto = "all" /\ SoftDel(k).onto = "all" /\ Update(k, v).onto = "present"
  BY DEF Del, SoftDel, Update, Sql
<1>2. QED
  BY <1>1 DEF Erasure

LEMMA EraseHead ==
    ASSUME RequestTypeOK, ShapeInv, NEW r \in Requests, Statement(r), request[r].op = "deleteAccount"
    PROVE  Erasure(request[r].id, Head(Current(r).body)) /\ Head(Current(r).body).undo = NoKey
           /\ Head(Current(r).body).onto # "absent"
<1>1. HeadOf(request[r].op, request[r].id, request[r].x, Head(Current(r).body))
  BY StatementIs
<1>2. Erasure(request[r].id, Head(Current(r).body))
  BY <1>1 DEF HeadOf
<1>3. QED
  BY <1>2, ErasureFields

LEMMA AddOrderStep ==
    ASSUME RequestTypeOK, ShapeInv, OrderInv, NEW r \in Requests, Advances(r), request'[r] # NoRequest,
           request[r].op = "addAccount"
    PROVE  AddOrder(request[r].id, request'[r].groups)
<1> DEFINE gs == request[r].groups
           a == request[r].id
           s == Head(Current(r).body)
<1>1. UnderWay(r)
  BY AdvanceGoes
<1>2. gs \in Seq(Groups) /\ gs # <<>> /\ Current(r) = Head(gs) /\ AddOrder(a, gs)
  BY <1>1, UnderWayIs DEF OrderInv, Current
<1> HIDE DEF gs, a, s
<1>3. CASE request'[r].groups = Others(r)
  <2>1. \A i \in DOMAIN Tail(gs) : i + 1 \in DOMAIN gs /\ Tail(gs)[i] = gs[i + 1] /\ i \in Nat /\ i >= 1
    BY <1>2, TailIs
  <2>2. \A i \in DOMAIN Tail(gs) : i + 1 # 1
    BY <2>1
  <2>3. QED
    BY <1>2, <1>3, <2>1, <2>2 DEF AddOrder, Others, gs, a
<1>4. CASE Statement(r) /\ request'[r].groups = Popped(gs)
  <2>1. Head(gs).body # <<>>
    BY <1>2, <1>4 DEF Statement
  <2>2. DOMAIN Popped(gs) = DOMAIN gs /\ \A i \in DOMAIN gs : i # 1 => Popped(gs)[i] = gs[i]
    BY <1>2, <2>1, PoppedIs
  <2>3. QED
    BY <1>2, <1>4, <2>2 DEF AddOrder, a
<1>5. CASE Statement(r) /\ s.undo \in Keys /\ request'[r].groups = Undoing(gs, s.undo)
  <2>1. DOMAIN Undoing(gs, s.undo) = DOMAIN gs /\ \A i \in DOMAIN gs : i # 1 => Undoing(gs, s.undo)[i] = gs[i]
    BY <1>2, <1>5, UndoingIs
  <2>2. QED
    BY <1>2, <1>5, <2>1 DEF AddOrder, a
<1>6. ~RunQuery(r)
  BY RunQueryGoes DEF QueryOf
<1>7. QED
  BY <1>3, <1>4, <1>5, <1>6, GroupsAfter DEF s, gs

LEMMA EraseOrderStep ==
    ASSUME RequestTypeOK, ShapeInv, OrderInv, NEW r \in Requests, Advances(r), request'[r] # NoRequest,
           request[r].op = "deleteAccount"
    PROVE  EraseOrder(request[r].id, request'[r].groups)
<1> DEFINE gs == request[r].groups
           a == request[r].id
           s == Head(Current(r).body)
<1>1. UnderWay(r) /\ Goings(r)
  BY AdvanceGoes
<1>2. /\ gs \in Seq(Groups) /\ gs # <<>> /\ Current(r) = Head(gs) /\ Current(r) = gs[1] /\ 1 \in DOMAIN gs
      /\ a \in Accounts
  BY <1>1, UnderWayIs DEF Current
<1>3. EraseOrder(a, gs) /\ ErasureOrder(a, gs)
  BY <1>1 DEF OrderInv, ShapeInv, Shaped, ShapedAs
<1>10. request'[r].groups # <<>>
  BY <1>1, GoingsAre
<1> HIDE DEF gs, a, s
<1>4. DOMAIN gs = 1..Len(gs) /\ Len(gs) \in Nat /\ Len(gs) >= 1
  BY <1>2, TailIs
<1>5. ASSUME Others(r) # <<>> 
      PROVE  /\ Len(Others(r)) = Len(gs) - 1 /\ Len(gs) > 1 /\ DOMAIN Others(r) = 1..(Len(gs) - 1)
             /\ \A i \in DOMAIN Others(r) : i + 1 \in DOMAIN gs /\ Others(r)[i] = gs[i + 1]
             /\ \A i \in DOMAIN Others(r) : Others(r)[i].body # <<Del(Auth(a))>> /\ ~Others(r)[i].doomed
             /\ gs[1].query # "account" => Others(r)[Len(gs) - 1].body = <<Del(Account(a))>>
             /\ gs[1].query # "account"
  <2>1. /\ Len(Tail(gs)) = Len(gs) - 1 /\ DOMAIN Tail(gs) = 1..(Len(gs) - 1)
        /\ \A i \in DOMAIN Tail(gs) : i + 1 \in DOMAIN gs /\ Tail(gs)[i] = gs[i + 1]
        /\ (Len(gs) = 1) <=> (Tail(gs) = <<>>)
    BY <1>2, TailIs
  <2>2. Others(r) = Tail(gs)
    BY DEF Others, gs
  <2>3. Len(gs) > 1
    BY <1>4, <1>5, <2>1, <2>2
  <2>4. ASSUME NEW i \in DOMAIN Others(r) PROVE Others(r)[i].body # <<Del(Auth(a))>>
    <3>1. i + 1 \in DOMAIN gs /\ i + 1 # 1 /\ Others(r)[i] = gs[i + 1]
      BY <2>1, <2>2
    <3>2. ASSUME gs[i + 1].body = <<Del(Auth(a))>> PROVE FALSE
      <4>1. 1 \in DOMAIN gs[i + 1].body /\ gs[i + 1].body[1] = Del(Auth(a))
        BY <3>2, OneIs
      <4>2. i + 1 = 1
        BY <1>3, <3>1, <4>1 DEF ErasureOrder
      <4>3. QED
        BY <3>1, <4>2
    <3>3. QED
      BY <3>1, <3>2
  <2>5. gs[1].query # "account"
    <3>1. gs[1].query = "account" => gs = <<Query("account", a)>>
      BY <1>2, <1>3 DEF ErasureOrder
    <3>2. gs = <<Query("account", a)>> => Len(gs) = 1
      BY OneIs
    <3>3. ASSUME gs[1].query = "account" PROVE FALSE
      <4>1. Len(gs) = 1
        BY <3>1, <3>2, <3>3
      <4>2. QED
        BY <2>3, <4>1
    <3>4. QED
      BY <3>3
  <2>6. Others(r)[Len(gs) - 1] = gs[Len(gs)]
    <3>1. Len(gs) - 1 \in DOMAIN Tail(gs)
      BY <1>4, <2>1, <2>3
    <3>2. Tail(gs)[Len(gs) - 1] = gs[Len(gs) - 1 + 1]
      BY <2>1, <3>1
    <3>3. Len(gs) - 1 + 1 = Len(gs)
      BY <1>4
    <3>4. Tail(gs)[Len(gs) - 1] = gs[Len(gs)]
      BY <3>2, <3>3
    <3>5. QED
      BY <2>2, <3>4
  <2>7. \A i \in DOMAIN Others(r) : ~Others(r)[i].doomed
    BY <1>3, <2>1, <2>2 DEF EraseOrder
  <2>8. gs[Len(gs)].body = <<Del(Account(a))>>
    BY <1>3, <2>5 DEF EraseOrder
  <2>9. QED
    BY <2>1, <2>2, <2>3, <2>4, <2>5, <2>6, <2>7, <2>8
<1>6. CASE request'[r].groups = Others(r)
  <2>1. Others(r) # <<>>
    BY <1>6, <1>10
  <2>2. Others(r)[Len(Others(r))].body = <<Del(Account(a))>>
    BY <1>5, <2>1
  <2>3. \A i \in DOMAIN Others(r) : Others(r)[i].body # <<Del(Auth(a))>> /\ ~Others(r)[i].doomed
    BY <1>5, <2>1
  <2>4. QED
    BY <1>6, <2>2, <2>3 DEF EraseOrder, a
<1>7. CASE Statement(r) /\ Len(Current(r).body) # 1 /\ request'[r].groups = Popped(gs)
  <2>1. Head(gs).body # <<>> /\ gs[1].body \in Seq(Statements) /\ gs[1].query = None
    BY <1>1, <1>2, <1>7, UnderWayIs DEF Statement
  <2>2. /\ DOMAIN Popped(gs) = DOMAIN gs /\ \A i \in DOMAIN gs : i # 1 => Popped(gs)[i] = gs[i]
        /\ Len(Popped(gs)) = Len(gs) /\ Popped(gs)[1].doomed = gs[1].doomed /\ Popped(gs)[1].body = Tail(gs[1].body)
    <3>1. /\ DOMAIN Popped(gs) = DOMAIN gs /\ \A i \in DOMAIN gs : i # 1 => Popped(gs)[i] = gs[i]
          /\ Len(Popped(gs)) = Len(gs)
      BY <1>2, <2>1, PoppedIs
    <3>2. Head(Popped(gs)).doomed = Head(gs).doomed /\ Head(Popped(gs)).body = Tail(Head(gs).body) /\ Head(Popped(gs)) = Popped(gs)[1]
      BY <1>2, <2>1, PoppedIs
    <3>3. QED
      BY <1>2, <3>1, <3>2
  <2>3. Tail(gs[1].body) # <<Del(Auth(a))>>
    <3> DEFINE b == gs[1].body
    <3>1. b \in Seq(Statements) /\ b # <<>> /\ Len(b) # 1
      BY <1>2, <1>7, <2>1
    <3> HIDE DEF b
    <3>2. ASSUME Tail(b) = <<Del(Auth(a))>> PROVE FALSE
      <4>1. 1 \in DOMAIN Tail(b) /\ Tail(b)[1] = Del(Auth(a))
        BY <3>2, OneIs
      <4>2. 1 + 1 \in DOMAIN b /\ b[1 + 1] = Del(Auth(a))
        BY <3>1, <4>1, TailIs
      <4>3. b = <<Del(Auth(a))>>
        BY <1>2, <1>3, <4>2 DEF ErasureOrder, b
      <4>4. QED
        BY <3>1, <4>3, OneIs
    <3>3. QED
      BY <3>2 DEF b
  <2>4. gs[1].query # "account" /\ gs[Len(gs)].body = <<Del(Account(a))>>
    BY <1>3, <2>1 DEF EraseOrder, None
  <2>5. Len(gs) # 1
    BY <1>2, <1>7, <2>4, OneIs
  <2>6. Popped(gs)[Len(gs)].body = <<Del(Account(a))>>
    BY <1>4, <2>2, <2>4, <2>5
  <2>7. \A i \in DOMAIN Popped(gs) : ~Popped(gs)[i].doomed /\ (Popped(gs)[i].body = <<Del(Auth(a))>> => Popped(gs)[i].strict)
    BY <1>3, <2>2, <2>3 DEF EraseOrder
  <2>8. QED
    BY <1>7, <2>2, <2>6, <2>7 DEF EraseOrder, a
<1>8. ~(Statement(r) /\ s.undo # NoKey)
  BY EraseHead DEF s
<1>9. CASE RunQuery(r) /\ request'[r].groups = Expand(Current(r).query, request[r].id) \o Others(r)
  <2> DEFINE q == Current(r).query
             u == Expand(q, a)
             e == u \o Others(r)
  <2>1. QueryOf("deleteAccount", q) /\ u \in Seq(Groups) /\ Others(r) \in Seq(Groups)
    BY <1>1, <1>9, RunQueryGoes, UnderWayIs DEF a
  <2>2. /\ \A i \in DOMAIN u : ~u[i].doomed /\ u[i].query # "account"
                  /\ (u[i].body = <<Del(Auth(a))>> => u[i].strict)
        /\ q = "account" => Len(u) = 8 /\ u[8].body = <<Del(Account(a))>>
    BY <1>2, <2>1, ExpandErase
  <2> HIDE DEF u
  <2>3. /\ Len(e) = Len(u) + Len(Others(r))
        /\ \A i \in DOMAIN e :
                \/ i \in DOMAIN u /\ e[i] = u[i]
                \/ i - Len(u) \in DOMAIN Others(r) /\ e[i] = Others(r)[i - Len(u)]
        /\ \A i \in DOMAIN u : e[i] = u[i]
        /\ \A i \in DOMAIN Others(r) : e[i + Len(u)] = Others(r)[i]
    BY <2>1, JoinIs
  <2>4. Len(u) \in Nat /\ DOMAIN u = 1..Len(u)
    BY <2>1
  <2> HIDE DEF e
  <2>5. \A i \in DOMAIN e : ~e[i].doomed /\ (e[i].body = <<Del(Auth(a))>> => e[i].strict)
    <3>1. \A i \in DOMAIN Others(r) : Others(r)[i].body # <<Del(Auth(a))>> /\ ~Others(r)[i].doomed
      <4>1. CASE Others(r) = <<>>
        BY <4>1
      <4>2. CASE Others(r) # <<>>
        BY <1>5, <4>2
      <4>3. QED
        BY <4>1, <4>2
    <3>2. QED
      BY <2>2, <2>3, <3>1
  <2>6. e[Len(e)].body = <<Del(Account(a))>>
    <3>1. CASE q = "account"
      <4>1. Others(r) = <<>>
        BY <1>2, <1>5, <3>1
      <4>2. Len(e) = 8
        BY <2>2, <2>3, <3>1, <4>1
      <4>3. 8 \in DOMAIN u
        BY <2>2, <2>4, <3>1
      <4>4. QED
        BY <2>2, <2>3, <3>1, <4>2, <4>3
    <3>2. CASE q # "account"
      <4>1. gs[1].query # "account" /\ gs[1].body = <<>>
        <5>1. GroupOf(request[r].op, request[r].id, request[r].x, Current(r))
          BY <1>1, UnderWayIs DEF ShapeInv, Shaped, ShapedAs
        <5>2. Current(r).query # None
          BY <1>9 DEF RunQuery
        <5>3. QED
          BY <1>2, <3>2, <5>1, <5>2 DEF GroupOf
      <4>2. gs[Len(gs)].body = <<Del(Account(a))>>
        BY <1>3, <4>1 DEF EraseOrder
      <4>3. Len(gs) # 1
        BY <4>1, <4>2, OneIs
      <4>4. Others(r) # <<>>
        BY <1>2, <4>3, TailIs DEF Others, gs
      <4>5. Len(Others(r)) = Len(gs) - 1 /\ Len(gs) - 1 \in DOMAIN Others(r) /\ Others(r)[Len(gs) - 1].body = <<Del(Account(a))>>
        <5>1. Len(Others(r)) = Len(gs) - 1 /\ Len(gs) > 1 /\ DOMAIN Others(r) = 1..(Len(gs) - 1)
          BY <1>5, <4>4
        <5>2. Others(r)[Len(gs) - 1].body = <<Del(Account(a))>>
          BY <1>5, <4>1, <4>4
        <5>3. Len(gs) - 1 \in DOMAIN Others(r)
          BY <1>4, <5>1
        <5>4. QED
          BY <5>1, <5>2, <5>3
      <4>6. Len(e) = Len(gs) - 1 + Len(u)
        BY <1>4, <2>3, <2>4, <4>5
      <4>7. QED
        BY <2>3, <4>5, <4>6
    <3>3. QED
      BY <3>1, <3>2
  <2>7. request'[r].groups = e
    BY <1>9 DEF e, u, q, a
  <2>8. QED
    BY <2>5, <2>6, <2>7 DEF EraseOrder, a
<1>11. QED
  BY <1>6, <1>7, <1>8, <1>9, GroupsAfter DEF s, gs

LEMMA OrderNext ==
    ASSUME TypeInv, OrderInv, [DataNext]_dataVars
    PROVE  OrderInv'
<1>0. RequestTypeOK /\ ShapeInv
  BY TypeIs
<1>1. ASSUME NEW r \in Requests, Arrives(r) PROVE OrderInv'
  <2>1. PICK op \in Ops, a \in Accounts, x \in Accounts \cup Messages \cup {None, "message", "archive"} : \E gs :
                Start(r, op, a, x, gs) /\ Begins(op, a, x, gs)
    BY <1>1, ArrivesIs
  <2>2. PICK gs : Start(r, op, a, x, gs) /\ Begins(op, a, x, gs)
    BY <2>1
  <2>3. request'[r].op = op /\ request'[r].id = a /\ request'[r].groups = gs
    BY <1>0, <2>2, StartIs
  <2>4. \A p \in Requests : p # r => /\ request'[p].op = request[p].op /\ request'[p].id = request[p].id
                                     /\ request'[p].groups = request[p].groups
    BY <1>0, <2>2, StartOthers
  <2>5. ASSUME op = "addAccount" PROVE AddOrder(a, gs)
    <3>1. gs = AddAccountGroups(a)
      BY <2>2, <2>5 DEF Begins
    <3>2. \E g : gs = <<g, Loose(<<Put(Counter(a))>>)>>
      BY <3>1 DEF AddAccountGroups, Counter
    <3>3. PICK g : gs = <<g, Loose(<<Put(Counter(a))>>)>>
      BY <3>2
    <3>4. \A b : Loose(b).body = b
      BY DEF Loose, Series
    <3>5. QED
      BY <3>3, <3>4 DEF AddOrder
  <2>6. ASSUME op = "deleteAccount" PROVE EraseOrder(a, gs)
    <3>1. gs = <<Query("account", a)>>
      BY <2>2, <2>6 DEF Begins
    <3>2. \A q : ~Query(q, a).doomed /\ Query(q, a).query = q /\ Query(q, a).body = <<>>
      BY DEF Query, Series
    <3>3. \A s : <<s>> # <<>>
      OBVIOUS
    <3> DEFINE g == Query("account", a)
               d == <<Del(Auth(a))>>
    <3>4. ~g.doomed /\ g.query = "account" /\ g.body # d
      BY <3>2, <3>3
    <3>5. gs = <<g>>
      BY <3>1
    <3> HIDE DEF g, d
    <3>6. gs[1] = g /\ DOMAIN gs = 1..1
      BY <3>5, OneIs
    <3>7. (\A i \in DOMAIN gs : ~gs[i].doomed /\ (gs[i].body = d => gs[i].strict)) /\ gs[1].query = "account"
      BY <3>4, <3>6
    <3>8. QED
      BY <3>7 DEF EraseOrder, d
  <2>7. QED
    BY <2>3, <2>4, <2>5, <2>6 DEF OrderInv
<1>2. ASSUME NEW r \in Requests, Advances(r) PROVE OrderInv'
  <2>1. UnderWay(r) /\ Goings(r)
    BY <1>0, <1>2, AdvanceGoes
  <2>2. /\ \A p \in Requests : p # r => request'[p] = request[p]
        /\ request'[r] = NoRequest \/ (request'[r].op = request[r].op /\ request'[r].id = request[r].id)
    BY <1>0, <2>1, GoingsAre
  <2>3. ASSUME request'[r] # NoRequest
        PROVE  /\ request'[r].op = "addAccount" => AddOrder(request'[r].id, request'[r].groups)
               /\ request'[r].op = "deleteAccount" => EraseOrder(request'[r].id, request'[r].groups)
    BY <1>0, <1>2, <2>2, <2>3, AddOrderStep, EraseOrderStep
  <2>4. QED
    BY <2>2, <2>3, OpsAre DEF OrderInv
<1>3. CASE request' = request
  BY <1>3 DEF OrderInv
<1>4. QED
  BY <1>1, <1>2, <1>3 DEF DataNext, Evict, dataVars

LEMMA OrderInit ==
    ASSUME DataInit
    PROVE  OrderInv
<1>1. \A r \in Requests : request[r].op = "none"
  BY OpsAre DEF DataInit
<1>2. QED
  BY <1>1 DEF OrderInv

-----------------------------------------------------------------------------
(* Logins and accounts *)

(* A request has written the login, and has still to write the account or to remove the login. *)
Undoes(r, a) == request[r].op = "addAccount" /\ request[r].id = a /\ Current(r).body = <<SoftDel(Auth(a))>>
Adding(r, a) ==
    \/ request[r].op = "addAccount" /\ request[r].id = a /\ Current(r).body = <<AddOrUndo(Account(a), Auth(a))>>
    \/ Undoes(r, a)
(* A request of addAccount has still to write the login, or has neither of both to do. *)
Registers(r, a) == request[r].op = "addAccount" /\ request[r].id = a
First(r, a) == Registers(r, a) /\ Current(r).body = <<AddLogin(a), AddOrUndo(Account(a), Auth(a))>>
Settled(r, a) == ~First(r, a) /\ ~Adding(r, a)
(* A request is about to remove the login, or has removed it. *)
Deleting(r, a) == request[r].op = "deleteAccount" /\ request[r].id = a
Early(r, a) == Deleting(r, a) /\ Current(r).body = <<Del(Auth(a))>>
Late(r, a) == Deleting(r, a) /\ Current(r).query # "account" /\ ~Early(r, a)
Spoilt == "crash" \in torn \/ "effect" \in torn

LEMMA AddBodies ==
    ASSUME NEW a
    PROVE  /\ <<AddLogin(a), AddOrUndo(Account(a), Auth(a))>> # <<AddOrUndo(Account(a), Auth(a))>>
           /\ <<AddLogin(a), AddOrUndo(Account(a), Auth(a))>> # <<SoftDel(Auth(a))>>
           /\ <<Put(Counter(a))>> # <<AddLogin(a), AddOrUndo(Account(a), Auth(a))>>
           /\ <<Put(Counter(a))>> # <<AddOrUndo(Account(a), Auth(a))>>
           /\ <<Put(Counter(a))>> # <<SoftDel(Auth(a))>>
           /\ <<AddOrUndo(Account(a), Auth(a))>> # <<SoftDel(Auth(a))>>
<1>1. \A s, u : Len(<<s, u>>) # Len(<<s>>) /\ Len(<<s>>) = 1 /\ Len(<<s, u>>) = 2 /\ Head(<<s>>) = s
  BY PairIs
<1>2. /\ Put(Counter(a)).k = Counter(a) /\ AddOrUndo(Account(a), Auth(a)).k = Account(a) /\ SoftDel(Auth(a)).k = Auth(a)
  BY DEF Put, AddOrUndo, SoftDel, Sql
<1>3. /\ Put(Counter(a)) # AddOrUndo(Account(a), Auth(a)) /\ Put(Counter(a)) # SoftDel(Auth(a))
      /\ AddOrUndo(Account(a), Auth(a)) # SoftDel(Auth(a))
  BY <1>2, AuthIsNotAccount
<1>4. QED
  BY <1>1, <1>3

LEMMA AddShape ==
    ASSUME RequestTypeOK, ShapeInv, NEW r \in Requests, UnderWay(r), request[r].op = "addAccount"
    PROVE  Statement(r) /\ AddBody(request[r].id, Current(r).body) /\ Current(r).query = None
<1>1. GroupOf(request[r].op, request[r].id, request[r].x, Current(r))
  BY UnderWayIs DEF ShapeInv, Shaped, ShapedAs
<1>2. Current(r).query = None
  BY <1>1 DEF GroupOf, QueryOf
<1>3. AddBody(request[r].id, Current(r).body)
  BY <1>1, <1>2 DEF GroupOf, BodyOf
<1>4. Current(r).body # <<>>
  <2>1. \A s, u : <<s, u>> # <<>> /\ <<s>> # <<>>
    BY PairIs
  <2>2. QED
    BY <1>3, <2>1 DEF AddBody
<1>5. QED
  BY <1>2, <1>3, <1>4 DEF Statement

(* The end of a group of addAccount leaves nothing to add. *)
LEMMA AddEnds ==
    ASSUME RequestTypeOK, ShapeInv, OrderInv, NEW r \in Requests, UnderWay(r), request[r].op = "addAccount",
           NEW ok, EndGroup(r, ok), NEW a
    PROVE  Settled(r, a)'
<1>1. CASE request'[r] = NoRequest
  BY <1>1, OpsAre DEF Settled, First, Registers, Adding, Undoes
<1>2. CASE request'[r] # NoRequest
  <2> DEFINE gs == request[r].groups
             b == request[r].id
  <2>1. gs \in Seq(Groups) /\ gs # <<>> /\ AddOrder(b, gs) /\ Others(r) = Tail(gs)
    BY UnderWayIs DEF OrderInv, Others
  <2> HIDE DEF gs, b
  <2>2. request'[r].groups = Others(r)
    BY <1>2, EndGroupGroups
  <2>3. Goings(r)
    BY EndGroupGoes
  <2>4. request'[r].groups # <<>> /\ request'[r].op = request[r].op /\ request'[r].id = b
    BY <1>2, <2>3, GoingsAre DEF b
  <2>5. Tail(gs) \in Seq(Groups) /\ Tail(gs) # <<>>
    BY <2>1, <2>2, <2>4, TailIs
  <2>6. Head(Tail(gs)) = Tail(gs)[1] /\ 1 \in DOMAIN Tail(gs)
    BY <2>5, TailIs
  <2>7. Tail(gs)[1] = gs[1 + 1] /\ 1 + 1 \in DOMAIN gs
    BY <2>1, <2>6, TailIs
  <2>8. Head(Tail(gs)).body = <<Put(Counter(b))>>
    BY <2>1, <2>6, <2>7 DEF AddOrder
  <2>9. QED
    BY <2>1, <2>2, <2>4, <2>8, AddBodies DEF Settled, First, Registers, Adding, Undoes, Current
<1>3. QED
  BY <1>1, <1>2

(* The rows of the login and the account after a statement of addAccount. *)
LEMMA AddWrites ==
    ASSUME DataTypeOK, NEW a \in Accounts, NEW s \in Statements, Write(s), s.onto = "absent" => rows[s.k] = "no"
    PROVE  /\ s = AddLogin(a) => rows'[Auth(a)] = a /\ rows'[Account(a)] = rows[Account(a)]
           /\ s = AddOrUndo(Account(a), Auth(a)) =>
                 rows[Account(a)] = "no" /\ rows'[Account(a)] # "no" /\ rows'[Auth(a)] = rows[Auth(a)]
           /\ s = SoftDel(Auth(a)) => rows'[Auth(a)] = "no" /\ rows'[Account(a)] = rows[Account(a)]
           /\ s = Put(Counter(a)) => rows'[Auth(a)] = rows[Auth(a)] /\ rows'[Account(a)] = rows[Account(a)]
<1>1. /\ \A k \in Keys : k # s.k => rows'[k] = rows[k]
      /\ s.onto = "all" => rows'[s.k] = s.v
      /\ (s.onto = "absent" /\ rows[s.k] = "no") => rows'[s.k] = s.v
  BY WriteIs
<1>2. Auth(a) \in Keys /\ Account(a) \in Keys
  BY KeysAre DEF Auth, Account
<1>3. /\ AddLogin(a).k = Auth(a) /\ AddLogin(a).onto = "absent" /\ AddLogin(a).v = a
      /\ AddOrUndo(Account(a), Auth(a)).k = Account(a) /\ AddOrUndo(Account(a), Auth(a)).onto = "absent"
      /\ AddOrUndo(Account(a), Auth(a)).v = "new"
      /\ SoftDel(Auth(a)).k = Auth(a) /\ SoftDel(Auth(a)).onto = "all" /\ SoftDel(Auth(a)).v = "no"
      /\ Put(Counter(a)).k = Counter(a)
  BY DEF AddLogin, AddOrUndo, SoftDel, Put, Sql
<1>4. QED
  BY <1>1, <1>2, <1>3, AuthIsNotAccount

(* Failures that leave a trace in the history. *)
LEMMA FailsClean ==
    ASSUME NEW r, Fail(r), ~Spoilt'
    PROVE  rows' = rows /\ kept' = kept /\ torn' = torn /\ mishaps > 0 /\ mishaps' = mishaps - 1
<1>1. torn' # torn \cup {"effect"}
  BY DEF Spoilt
<1>2. QED
  BY <1>1 DEF Fail

LEMMA CrashSpoils ==
    ASSUME NEW r, Crash(r)
    PROVE  Spoilt'
BY DEF Crash, Spoilt

(* The steps of addAccount: the login is written, the account is written, the account is refused, *)
(* the login is removed, or is not removed because of an error.                                   *)
LEMMA AddSteps ==
    ASSUME TypeInv, OrderInv, NEW r \in Requests, Advances(r), request[r].op = "addAccount",
           NEW a, a = request[r].id, ~Spoilt'
    PROVE  \/ /\ rows'[Auth(a)] = a /\ rows'[Account(a)] = rows[Account(a)]
              /\ First(r, a) /\ Adding(r, a)' /\ ~Undoes(r, a)'
           \/ /\ rows[Account(a)] = "no" /\ rows'[Account(a)] # "no" /\ rows'[Auth(a)] = rows[Auth(a)]
              /\ Adding(r, a) /\ Settled(r, a)'
           \/ /\ rows' = rows /\ Adding(r, a) /\ Adding(r, a)'
              /\ rows[Account(a)] # "no" \/ (mishaps > 0 /\ mishaps' = mishaps - 1)
           \/ /\ rows'[Auth(a)] = "no" /\ rows'[Account(a)] = rows[Account(a)]
              /\ Undoes(r, a) /\ Settled(r, a)'
           \/ rows' = rows /\ Undoes(r, a) /\ Settled(r, a)' /\ mishaps > 0 /\ mishaps' = mishaps - 1
           \/ /\ rows'[Auth(a)] = rows[Auth(a)] /\ rows'[Account(a)] = rows[Account(a)]
              /\ ~Adding(r, a) /\ Settled(r, a)'
<1>0. RequestTypeOK /\ ShapeInv /\ DataTypeOK
  BY TypeIs
<1>1. UnderWay(r)
  BY <1>0, AdvanceGoes
<1> DEFINE s == Head(Current(r).body)
           b == Current(r).body
<1>2. Statement(r) /\ AddBody(a, b) /\ a \in Accounts /\ s \in Statements
  BY <1>0, <1>1, AddShape, UnderWayIs, StatementIs
<1>3. Execute(r) \/ Fail(r)
  BY <1>2, StatementSteps, CrashSpoils
<1> HIDE DEF s, b
<1>4. Fail(r) => rows' = rows /\ mishaps > 0 /\ mishaps' = mishaps - 1
  BY FailsClean
<1>5. ASSUME NEW ok, EndGroup(r, ok) PROVE Settled(r, a)'
  BY <1>0, <1>1, <1>5, AddEnds
<1>6. ASSUME Len(b) = 1, Proceed(r) PROVE Settled(r, a)'
  <2>1. EndGroup(r, ~Current(r).doomed)
    BY <1>6, ProceedIs DEF b
  <2>2. QED
    BY <1>5, <2>1
<1>7. ASSUME s.undo = NoKey, GiveUp(r, s) PROVE Settled(r, a)'
  BY <1>5, <1>7, GiveUpIs
<1>8. Write(s) /\ (s.onto = "absent" => rows[s.k] = "no") =>
           /\ s = AddLogin(a) => rows'[Auth(a)] = a /\ rows'[Account(a)] = rows[Account(a)]
           /\ s = AddOrUndo(Account(a), Auth(a)) =>
                 rows[Account(a)] = "no" /\ rows'[Account(a)] # "no" /\ rows'[Auth(a)] = rows[Auth(a)]
           /\ s = SoftDel(Auth(a)) => rows'[Auth(a)] = "no" /\ rows'[Account(a)] = rows[Account(a)]
           /\ s = Put(Counter(a)) => rows'[Auth(a)] = rows[Auth(a)] /\ rows'[Account(a)] = rows[Account(a)]
  BY <1>0, <1>2, AddWrites
<1>9. \/ Execute(r) /\ Write(s) /\ Proceed(r) /\ (s.onto = "absent" => rows[s.k] = "no")
      \/ /\ rows' = rows
         /\ (Execute(r) /\ s.onto = "absent" /\ rows[s.k] # "no") \/ (mishaps > 0 /\ mishaps' = mishaps - 1)
         /\ (s.soft /\ Proceed(r)) \/ (~s.soft /\ GiveUp(r, s))
  <2>1. CASE Execute(r)
    BY <2>1, ExecuteIs DEF s
  <2>2. CASE Fail(r)
    BY <1>4, <2>2, FailIs DEF s
  <2>3. QED
    BY <1>3, <2>1, <2>2
<1>10. CASE b = <<AddLogin(a), AddOrUndo(Account(a), Auth(a))>>
  <2>1. s = AddLogin(a) /\ Len(b) # 1 /\ Tail(b) = <<AddOrUndo(Account(a), Auth(a))>>
    BY <1>10, PairIs DEF s, b
  <2>2. s.undo = NoKey /\ ~s.soft
    BY <2>1 DEF AddLogin, Sql
  <2>3. ~Adding(r, a) /\ First(r, a)
    BY <1>10, AddBodies DEF First, Registers, Adding, Undoes, b
  <2>4. ASSUME Proceed(r) PROVE Adding(r, a)' /\ ~Undoes(r, a)'
    <3> DEFINE p == Popped(request[r].groups)
    <3>1. Goes(r, p)
      BY <2>1, <2>4, ProceedIs DEF b
    <3>2. p \in Seq(Groups) /\ Head(p).body = Tail(b)
      BY <1>0, <1>1, <1>2, UnderWayIs, PoppedIs DEF Statement, Current, b
    <3> HIDE DEF p
    <3>3. request'[r].groups = p /\ request'[r].op = request[r].op /\ request'[r].id = request[r].id
      BY <1>0, <1>1, <3>1, <3>2, GoesWell
    <3>4. QED
      BY <2>1, <3>2, <3>3, AddBodies DEF Adding, Undoes, Current
  <2>5. QED
    BY <1>7, <1>8, <1>9, <2>1, <2>2, <2>3, <2>4
<1>11. CASE b = <<AddOrUndo(Account(a), Auth(a))>>
  <2>1. s = AddOrUndo(Account(a), Auth(a)) /\ Len(b) = 1
    BY <1>11, PairIs DEF s, b
  <2>2. s.undo = Auth(a) /\ ~s.soft /\ s.k = Account(a)
    BY <2>1 DEF AddOrUndo, Sql
  <2>3. Adding(r, a)
    BY <1>11 DEF Adding, b
  <2>4. s.undo # NoKey
    <3>1. Auth(a) \in Keys
      BY <1>2, KeysAre DEF Auth
    <3>2. QED
      BY <2>2, <3>1, NoKeyIsNone
  <2>5. ASSUME GiveUp(r, s) PROVE Adding(r, a)'
    <3> DEFINE u == Undoing(request[r].groups, s.undo)
    <3>1. u # <<>> /\ s.undo \in Keys
      BY <1>0, <1>2, <2>4, <2>5, GiveUpGoes DEF s
    <3>2. u \in Seq(Groups) /\ Head(u).body = <<SoftDel(s.undo)>>
      BY <1>0, <1>1, <3>1, UnderWayIs, UndoingIs
    <3>3. Continue(r, u)
      BY <2>4, <2>5, GiveUpIs
    <3> HIDE DEF u
    <3>4. Goes(r, u)
      BY <3>1, <3>3, ContinueIs
    <3>5. request'[r].groups = u /\ request'[r].op = request[r].op /\ request'[r].id = request[r].id
      BY <1>0, <1>1, <3>2, <3>4, GoesWell
    <3>6. QED
      BY <2>2, <3>2, <3>5 DEF Adding, Undoes, Current
  <2>6. QED
    BY <1>6, <1>8, <1>9, <2>1, <2>2, <2>3, <2>5
<1>12. CASE b = <<SoftDel(Auth(a))>>
  <2>1. s = SoftDel(Auth(a)) /\ Len(b) = 1
    BY <1>12, PairIs DEF s, b
  <2>2. s.soft /\ s.onto = "all"
    BY <2>1 DEF SoftDel, Sql
  <2>3. Undoes(r, a)
    BY <1>12 DEF Undoes, b
  <2>4. QED
    BY <1>6, <1>8, <1>9, <2>1, <2>2, <2>3
<1>13. CASE b = <<Put(Counter(a))>>
  <2>1. s = Put(Counter(a)) /\ Len(b) = 1
    BY <1>13, PairIs DEF s, b
  <2>2. ~s.soft /\ s.undo = NoKey
    BY <2>1 DEF Put, Sql
  <2>3. ~Adding(r, a)
    BY <1>13, AddBodies DEF Adding, Undoes, b
  <2>4. QED
    BY <1>6, <1>7, <1>8, <1>9, <2>1, <2>2, <2>3
<1>14. QED
  BY <1>2, <1>10, <1>11, <1>12, <1>13 DEF AddBody

-----------------------------------------------------------------------------
(* What deleteAccount does to the login and the account *)

(* The last group is the one that removes the account, and only the first one can be about the login. *)
LEMMA EraseAhead ==
    ASSUME RequestTypeOK, ShapeInv, OrderInv, NEW r \in Requests, UnderWay(r), request[r].op = "deleteAccount",
           NEW a, a = request[r].id
    PROVE  /\ Current(r).query = "account" => Others(r) = <<>> /\ Current(r).body = <<>>
           /\ (Others(r) = <<>> /\ Current(r).query # "account") => Current(r).body = <<Del(Account(a))>>
           /\ Others(r) # <<>> => Others(r)[1].query # "account" /\ Others(r)[1].body # <<Del(Auth(a))>>
           /\ ~Current(r).doomed /\ (Current(r).body = <<Del(Auth(a))>> => Current(r).strict)
<1> DEFINE gs == request[r].groups
<1>1. gs \in Seq(Groups) /\ gs # <<>> /\ Current(r) = gs[1] /\ 1 \in DOMAIN gs /\ Others(r) = Tail(gs)
  BY UnderWayIs DEF Others
<1>2. ErasureOrder(a, gs) /\ EraseOrder(a, gs)
  BY DEF OrderInv, ShapeInv, Shaped, ShapedAs
<1> HIDE DEF gs
<1>3. /\ DOMAIN gs = 1..Len(gs) /\ Len(gs) \in Nat /\ Len(gs) >= 1
      /\ (Len(gs) = 1) <=> (Tail(gs) = <<>>)
      /\ DOMAIN Tail(gs) = 1..(Len(gs) - 1)
      /\ \A i \in DOMAIN Tail(gs) : i + 1 \in DOMAIN gs /\ Tail(gs)[i] = gs[i + 1]
  BY <1>1, TailIs
<1>4. ASSUME NEW i \in DOMAIN gs, gs[i].query = "account" PROVE Len(gs) = 1 /\ gs[1].body = <<>>
  <2>1. gs = <<Query("account", a)>>
    BY <1>2, <1>4 DEF ErasureOrder
  <2>2. Query("account", a).body = <<>>
    BY DEF Query, Series
  <2> HIDE DEF gs
  <2> DEFINE g == Query("account", a)
  <2>3. gs = <<g>> /\ g.body = <<>>
    BY <2>1, <2>2
  <2> HIDE DEF g
  <2>4. QED
    BY <2>3, OneIs
<1>5. Current(r).query = "account" => Others(r) = <<>> /\ Current(r).body = <<>>
  BY <1>1, <1>3, <1>4
<1>6. (Others(r) = <<>> /\ Current(r).query # "account") => Current(r).body = <<Del(Account(a))>>
  BY <1>1, <1>2, <1>3 DEF EraseOrder
<1>7. ASSUME Others(r) # <<>> PROVE Others(r)[1].query # "account" /\ Others(r)[1].body # <<Del(Auth(a))>>
  <2>1. Len(gs) > 1
    BY <1>1, <1>3, <1>7
  <2>2. 1 \in DOMAIN Tail(gs)
    BY <1>3, <2>1
  <2>3. 1 + 1 \in DOMAIN gs /\ Tail(gs)[1] = gs[1 + 1]
    BY <1>3, <2>2
  <2>4. gs[1 + 1].query # "account"
    BY <1>4, <2>1, <2>3
  <2>5. gs[1 + 1].body # <<Del(Auth(a))>>
    <3>1. ASSUME gs[1 + 1].body = <<Del(Auth(a))>> PROVE FALSE
      <4>1. 1 \in DOMAIN gs[1 + 1].body /\ gs[1 + 1].body[1] = Del(Auth(a))
        BY <3>1, OneIs
      <4>2. 1 + 1 = 1
        BY <1>2, <2>3, <4>1 DEF ErasureOrder
      <4>3. QED
        BY <4>2
    <3>2. QED
      BY <3>1
  <2>6. QED
    BY <1>1, <2>3, <2>4, <2>5
<1>8. ~Current(r).doomed /\ (Current(r).body = <<Del(Auth(a))>> => Current(r).strict)
  BY <1>1, <1>2 DEF EraseOrder
<1>9. QED
  BY <1>5, <1>6, <1>7, <1>8

(* A statement that removes the login or the account is alone in its group. *)
LEMMA EraseAlone ==
    ASSUME RequestTypeOK, ShapeInv, NEW r \in Requests, Statement(r), request[r].op = "deleteAccount",
           NEW a, a = request[r].id, NEW s, s = Head(Current(r).body)
    PROVE  /\ s = Del(Auth(a)) => Current(r).body = <<Del(Auth(a))>>
           /\ s = Del(Account(a)) => Current(r).body = <<Del(Account(a))>> /\ Others(r) = <<>>
           /\ Len(Current(r).body) # 1 => Tail(Current(r).body) # <<Del(Auth(a))>>
<1> DEFINE gs == request[r].groups
           b == Current(r).body
<1>1. UnderWay(r) /\ b # <<>>
  BY DEF Statement
<1>2. gs \in Seq(Groups) /\ gs # <<>> /\ Current(r) = gs[1] /\ 1 \in DOMAIN gs /\ Others(r) = Tail(gs) /\ b \in Seq(Statements)
  BY <1>1, UnderWayIs DEF Others
<1>3. ErasureOrder(a, gs)
  BY <1>1 DEF ShapeInv, Shaped, ShapedAs
<1>4. b = gs[1].body
  BY <1>2
<1> HIDE DEF gs, b
<1>5. 1 \in DOMAIN b /\ s = b[1]
  BY <1>1, <1>2, TailIs DEF b
<1>6. (Len(gs) = 1) <=> (Tail(gs) = <<>>)
  BY <1>2, TailIs
<1>7. s = Del(Auth(a)) => b = <<Del(Auth(a))>>
  BY <1>2, <1>3, <1>4, <1>5 DEF ErasureOrder
<1>8. s = Del(Account(a)) => b = <<Del(Account(a))>> /\ Others(r) = <<>>
  BY <1>2, <1>3, <1>4, <1>5, <1>6 DEF ErasureOrder
<1>9. ASSUME Len(b) # 1, Tail(b) = <<Del(Auth(a))>> PROVE FALSE
  <2>1. 1 \in DOMAIN Tail(b) /\ Tail(b)[1] = Del(Auth(a))
    BY <1>9, OneIs
  <2>2. 1 + 1 \in DOMAIN b /\ b[1 + 1] = Del(Auth(a))
    BY <1>1, <1>2, <2>1, TailIs
  <2>3. b = <<Del(Auth(a))>>
    BY <1>2, <1>3, <1>4, <2>2 DEF ErasureOrder
  <2>4. QED
    BY <1>9, <2>3, OneIs
<1>10. QED
  BY <1>7, <1>8, <1>9 DEF b

(* What remains of a deletion that has read the account does not remove the login again. *)
LEMMA EraseGoesOn ==
    ASSUME RequestTypeOK, ShapeInv, OrderInv, NEW r \in Requests, Advances(r), request'[r] # NoRequest,
           request[r].op = "deleteAccount", NEW a, a = request[r].id, Current(r).query # "account"
    PROVE  Late(r, a)'
<1> DEFINE gs == request[r].groups
           n == request'[r].groups
           s == Head(Current(r).body)
<1>1. UnderWay(r) /\ Goings(r)
  BY AdvanceGoes
<1>2. gs \in Seq(Groups) /\ gs # <<>> /\ Current(r) = Head(gs) /\ Others(r) \in Seq(Groups) /\ a \in Accounts
  BY <1>1, UnderWayIs DEF Current
<1>3. request'[r].op = "deleteAccount" /\ request'[r].id = a /\ n # <<>>
  BY <1>1, GoingsAre
<1>4. SUFFICES Head(n).query # "account" /\ Head(n).body # <<Del(Auth(a))>>
  BY <1>3 DEF Late, Deleting, Early, Current
<1>5. Others(r) # <<>> => Others(r)[1].query # "account" /\ Others(r)[1].body # <<Del(Auth(a))>>
  BY <1>1, EraseAhead
<1>6. \A u \in Seq(Groups) : u # <<>> => Head(u) = u[1]
  OBVIOUS
<1> HIDE DEF gs, n, s
<1>7. CASE n = Others(r)
  BY <1>2, <1>3, <1>5, <1>6, <1>7
<1>8. CASE Statement(r) /\ Len(Current(r).body) # 1 /\ n = Popped(gs)
  <2>1. Head(gs).body # <<>> /\ Head(gs).query # "account"
    BY <1>2, <1>8 DEF Statement
  <2>2. Head(n).query = Head(gs).query /\ Head(n).body = Tail(Head(gs).body)
    BY <1>2, <1>8, <2>1, PoppedIs
  <2>3. Tail(Current(r).body) # <<Del(Auth(a))>>
    BY <1>8, EraseAlone
  <2>4. QED
    BY <1>2, <2>1, <2>2, <2>3
<1>9. ~(Statement(r) /\ s.undo # NoKey)
  BY EraseHead DEF s
<1>10. CASE RunQuery(r) /\ n = Expand(Current(r).query, request[r].id) \o Others(r)
  <2> DEFINE q == Current(r).query
             u == Expand(q, a)
  <2>1. QueryOf("deleteAccount", q) /\ u \in Seq(Groups) /\ q # "account"
    BY <1>10, RunQueryGoes
  <2>2. \A i \in DOMAIN u : u[i].query # "account" /\ u[i].body # <<Del(Auth(a))>>
    BY <1>2, <2>1, ExpandErase
  <2>3. n = u \o Others(r)
    BY <1>10
  <2> HIDE DEF u
  <2>4. CASE u = <<>>
    <3>1. n = Others(r)
      BY <1>2, <2>3, <2>4
    <3>2. QED
      BY <1>7, <3>1
  <2>5. CASE u # <<>>
    <3>1. 1 \in DOMAIN u
      BY <2>1, <2>5, TailIs
    <3>2. n[1] = u[1] /\ n \in Seq(Groups)
      BY <1>2, <2>1, <2>3, <3>1, JoinIs
    <3>3. QED
      BY <1>3, <1>6, <2>2, <3>1, <3>2
  <2>6. QED
    BY <2>4, <2>5
<1>11. QED
  BY <1>7, <1>8, <1>9, <1>10, GroupsAfter DEF s, gs, n

(* The rows of the login and the account after a statement of deleteAccount. *)
LEMMA EraseWrites ==
    ASSUME DataTypeOK, NEW a \in Accounts, NEW s \in Statements, Write(s), Erasure(a, s)
    PROVE  /\ s = Del(Auth(a)) => rows'[Auth(a)] = "no" /\ rows'[Account(a)] = rows[Account(a)]
           /\ s = Del(Account(a)) => rows'[Account(a)] = "no" /\ rows'[Auth(a)] = rows[Auth(a)]
           /\ (s # Del(Auth(a)) /\ s # Del(Account(a))) =>
                 rows'[Auth(a)] = rows[Auth(a)] /\ ((rows'[Account(a)] = "no") <=> (rows[Account(a)] = "no"))
<1>1. /\ \A k \in Keys : k # s.k => rows'[k] = rows[k]
      /\ s.onto = "all" => rows'[s.k] = s.v
      /\ (s.onto = "present" /\ rows[s.k] # "no") => rows'[s.k] = s.v
      /\ (s.onto = "present" /\ rows[s.k] = "no") => rows'[s.k] = rows[s.k]
  BY WriteIs
<1>2. Auth(a) \in Keys /\ Account(a) \in Keys
  BY KeysAre DEF Auth, Account
<1>3. \A k : /\ Del(k).k = k /\ Del(k).onto = "all" /\ Del(k).v = "no" /\ SoftDel(k).k = k
             /\ Update(k, "deleted").k = k /\ Update(k, "deleted").onto = "present" /\ Update(k, "deleted").v = "deleted"
  BY DEF Del, SoftDel, Update, Sql
<1>4. s = Del(Auth(a)) => rows'[Auth(a)] = "no" /\ rows'[Account(a)] = rows[Account(a)]
  BY <1>1, <1>2, <1>3, AuthIsNotAccount
<1>5. s = Del(Account(a)) => rows'[Account(a)] = "no" /\ rows'[Auth(a)] = rows[Auth(a)]
  BY <1>1, <1>2, <1>3, AuthIsNotAccount
<1>6. ASSUME s # Del(Auth(a)), s # Del(Account(a))
      PROVE  rows'[Auth(a)] = rows[Auth(a)] /\ ((rows'[Account(a)] = "no") <=> (rows[Account(a)] = "no"))
  <2>1. CASE \E k : s = Del(k)
    <3>1. PICK k : s = Del(k)
      BY <2>1
    <3>2. k # Auth(a) /\ k # Account(a)
      BY <1>6, <3>1
    <3>3. QED
      BY <1>1, <1>2, <1>3, <3>1, <3>2
  <2>2. CASE \E k \in KeysOf("connection", a) : s = SoftDel(Mirror(k))
    <3>1. PICK k \in KeysOf("connection", a) : s = SoftDel(Mirror(k))
      BY <2>2
    <3>2. Mirror(k).t = "reference" /\ Auth(a).t = "auth" /\ Account(a).t = "account"
      BY OtherTables, KeyFields DEF Mirror
    <3>3. s.k # Auth(a) /\ s.k # Account(a)
      BY <1>3, <3>1, <3>2
    <3>4. QED
      BY <1>1, <1>2, <3>3
  <2>3. CASE s = Update(Account(a), "deleted")
    <3>1. s.k = Account(a) /\ s.onto = "present" /\ s.v = "deleted"
      BY <1>3, <2>3
    <3>2. QED
      BY <1>1, <1>2, <3>1, AuthIsNotAccount
  <2>4. QED
    BY <2>1, <2>2, <2>3 DEF Erasure
<1>7. QED
  BY <1>4, <1>5, <1>6

(* The end of a group of deleteAccount: without an error the request goes on unless it is the last group. *)
LEMMA EraseEnds ==
    ASSUME RequestTypeOK, ShapeInv, NEW r \in Requests, UnderWay(r), NEW ok, EndGroup(r, ok),
           Others(r) # <<>>, ok \/ ~Current(r).strict
    PROVE  request'[r] # NoRequest
<1>1. Goes(r, Others(r))
  BY EndGroupIs
<1>2. Others(r) \in Seq(Groups)
  BY UnderWayIs
<1>3. request'[r].groups = Others(r)
  BY <1>1, <1>2, GoesWell
<1>4. QED
  BY <1>3, OpsAre

(* The steps of deleteAccount: the account is looked for, the login is removed, the account is *)
(* removed, something else is removed, and each of them can fail.                              *)
LEMMA EraseSteps ==
    ASSUME TypeInv, OrderInv, NEW r \in Requests, Advances(r), request[r].op = "deleteAccount",
           NEW a, a = request[r].id, ~Spoilt'
    PROVE  \/ /\ rows' = rows /\ ~Early(r, a) /\ ~Late(r, a) /\ ~Late(r, a)'
              /\ Early(r, a)' => rows[Account(a)] # "no"
           \/ /\ rows'[Auth(a)] = "no" /\ rows'[Account(a)] = rows[Account(a)]
              /\ Early(r, a) /\ ~Early(r, a)' /\ Late(r, a)'
           \/ /\ rows' = rows /\ Early(r, a) /\ ~Early(r, a)' /\ ~Late(r, a)'
              /\ mishaps > 0 /\ mishaps' = mishaps - 1
           \/ /\ rows'[Account(a)] = "no" /\ rows'[Auth(a)] = rows[Auth(a)]
              /\ Late(r, a) /\ ~Early(r, a)' /\ ~Late(r, a)'
           \/ /\ rows'[Auth(a)] = rows[Auth(a)] /\ ((rows'[Account(a)] = "no") <=> (rows[Account(a)] = "no"))
              /\ Late(r, a) /\ ~Early(r, a)' /\ Late(r, a)'
           \/ /\ rows' = rows /\ Late(r, a) /\ ~Early(r, a)' /\ ~Late(r, a)'
              /\ mishaps > 0 /\ mishaps' = mishaps - 1
<1>0. RequestTypeOK /\ ShapeInv /\ DataTypeOK
  BY TypeIs
<1> DEFINE g == Current(r)
           s == Head(Current(r).body)
           Gone == ~Early(r, a)' /\ ~Late(r, a)'
           Goal == \/ /\ rows' = rows /\ ~Early(r, a) /\ ~Late(r, a) /\ ~Late(r, a)'
                      /\ Early(r, a)' => rows[Account(a)] # "no"
                   \/ /\ rows'[Auth(a)] = "no" /\ rows'[Account(a)] = rows[Account(a)]
                      /\ Early(r, a) /\ ~Early(r, a)' /\ Late(r, a)'
                   \/ /\ rows' = rows /\ Early(r, a) /\ ~Early(r, a)' /\ ~Late(r, a)'
                      /\ mishaps > 0 /\ mishaps' = mishaps - 1
                   \/ /\ rows'[Account(a)] = "no" /\ rows'[Auth(a)] = rows[Auth(a)]
                      /\ Late(r, a) /\ ~Early(r, a)' /\ ~Late(r, a)'
                   \/ /\ rows'[Auth(a)] = rows[Auth(a)] /\ ((rows'[Account(a)] = "no") <=> (rows[Account(a)] = "no"))
                      /\ Late(r, a) /\ ~Early(r, a)' /\ Late(r, a)'
                   \/ /\ rows' = rows /\ Late(r, a) /\ ~Early(r, a)' /\ ~Late(r, a)'
                      /\ mishaps > 0 /\ mishaps' = mishaps - 1
<1>1. UnderWay(r) /\ a \in Accounts /\ GroupOf(request[r].op, request[r].id, request[r].x, g)
  BY <1>0, AdvanceGoes, UnderWayIs DEF ShapeInv, Shaped, ShapedAs
<1>2. /\ g.query = "account" => Others(r) = <<>> /\ g.body = <<>>
      /\ (Others(r) = <<>> /\ g.query # "account") => g.body = <<Del(Account(a))>>
      /\ ~g.doomed /\ (g.body = <<Del(Auth(a))>> => g.strict)
  BY <1>0, <1>1, EraseAhead
<1>3. \A u : <<u>> # <<>> /\ Len(<<u>>) = 1 /\ Head(<<u>>) = u
  BY PairIs
<1>4. request'[r] = NoRequest => Gone
  BY OpsAre DEF Early, Late, Deleting
<1>5. (request'[r] # NoRequest /\ g.query # "account") => Late(r, a)' /\ ~Early(r, a)'
  BY <1>0, EraseGoesOn DEF Late
<1>6. Late(r, a) <=> (g.query # "account" /\ g.body # <<Del(Auth(a))>>)
  BY DEF Late, Early, Deleting
<1>7. Early(r, a) <=> g.body = <<Del(Auth(a))>>
  BY DEF Early, Deleting
<1>8. g.body = <<Del(Auth(a))>> => g.query # "account" /\ Others(r) # <<>>
  BY <1>2, <1>3, AuthIsNotAccount
<1>9. SUFFICES Goal
  OBVIOUS
<1>10. (rows' = rows /\ g.query = "account" /\ (request'[r] # NoRequest => Early(r, a)' /\ rows[Account(a)] # "no")) => Goal
  <2>1. Early(r, a)' => ~Late(r, a)'
    BY DEF Late
  <2>2. QED
    BY <1>4, <1>6, <1>7, <1>8, <2>1
<1>11. (rows' = rows /\ Late(r, a) /\ request'[r] # NoRequest) => Goal
  BY <1>5, <1>6
<1>12. (rows' = rows /\ g.query # "account" /\ mishaps > 0 /\ mishaps' = mishaps - 1 /\ (Early(r, a) => request'[r] = NoRequest)) => Goal
  BY <1>4, <1>5, <1>6, <1>7
<1>13. (Late(r, a) /\ rows'[Account(a)] = "no" /\ rows'[Auth(a)] = rows[Auth(a)] /\ request'[r] = NoRequest) => Goal
  BY <1>4
<1>14. (/\ Late(r, a) /\ rows'[Auth(a)] = rows[Auth(a)] /\ ((rows'[Account(a)] = "no") <=> (rows[Account(a)] = "no"))
        /\ request'[r] # NoRequest) => Goal
  BY <1>5, <1>6
<1>15. (Early(r, a) /\ rows'[Auth(a)] = "no" /\ rows'[Account(a)] = rows[Account(a)] /\ request'[r] # NoRequest) => Goal
  BY <1>5, <1>7, <1>8
<1> HIDE DEF Goal, g, s, Gone
<1>16. ASSUME RunQuery(r) PROVE Goal
  <2>1. rows' = rows
    BY <1>16 DEF RunQuery
  <2>2. CASE g.query = "account"
    <3>1. ASSUME request'[r] # NoRequest PROVE Early(r, a)' /\ rows[Account(a)] # "no"
      <4> DEFINE u == Expand("account", a)
      <4>1. request'[r].groups = u \o Others(r) /\ u \in Seq(Groups) /\ QueryOf("deleteAccount", "account")
        BY <1>0, <1>16, <2>2, <3>1, QueryGroups, RunQueryGoes DEF g
      <4>2. Others(r) = <<>>
        BY <1>2, <2>2
      <4>3. Len(u) = 8 /\ u[1].body = <<Del(Auth(a))>>
        BY <1>1, <4>1, ExpandErase
      <4> HIDE DEF u
      <4>4. request'[r].groups = u /\ u # <<>> /\ Head(u) = u[1]
        <5>1. u \o <<>> = u
          BY <4>1, ConcatEmptySeq
        <5>4. u # <<>>
          <6>1. Len(<<>>) = 0
            OBVIOUS
          <6>2. Len(u) = 8
            BY <4>3
          <6>3. 0 # 8
            OBVIOUS
          <6>4. QED
            BY <6>1, <6>2, <6>3
        <5>5. Head(u) = u[1]
          BY <4>1, <5>4, TailIs
        <5>2. request'[r].groups = u \o <<>>
          BY <4>1, <4>2
        <5>3. QED
          BY <5>1, <5>2, <5>4, <5>5
      <4>5. request'[r].op = request[r].op /\ request'[r].id = request[r].id
        BY <1>0, <1>1, <1>16, <3>1, RunQueryGoes, GoingsAre
      <4>6. Early(r, a)'
        BY <4>3, <4>4, <4>5 DEF Early, Deleting, Current
      <4>7. rows[Account(a)] # "no"
        <5>1. g.id = a
          BY <1>0, <1>16, RunQueryGoes DEF g
        <5>2. ASSUME rows[Account(a)] = "no" PROVE FALSE
          <6>1. Answer(r, FALSE, 0)
            BY <1>16, <2>2, <5>1, <5>2 DEF RunQuery, g, Account
          <6>2. QED
            BY <1>0, <3>1, <6>1, QuitsWell DEF Answer, Quits
        <5>3. QED
          BY <5>2
      <4>8. QED
        BY <4>6, <4>7
    <3>2. QED
      BY <1>10, <2>1, <2>2, <3>1
  <2>3. CASE g.query # "account"
    <3>1. g.query # None
      BY <1>16 DEF RunQuery, g
    <3>2. g.body = <<>>
      BY <1>1, <3>1 DEF GroupOf
    <3>3. Late(r, a)
      BY <1>3, <1>6, <2>3, <3>2
    <3>4. request'[r] # NoRequest
      <4>1. Continue(r, Expand(g.query, g.id) \o Others(r))
        BY <1>16, <2>3 DEF RunQuery, g
      <4>2. Others(r) # <<>> /\ Others(r) \in Seq(Groups)
        BY <1>0, <1>1, <1>2, <1>3, <2>3, <3>2, UnderWayIs
      <4>3. Expand(g.query, g.id) \in Seq(Groups)
        BY <1>0, <1>16, RunQueryGoes DEF g
      <4> DEFINE e == Expand(g.query, g.id) \o Others(r)
      <4>4. e # <<>> /\ e \in Seq(Groups)
        BY <4>2, <4>3
      <4> HIDE DEF e
      <4>5. Goes(r, e)
        BY <4>1, <4>4, ContinueIs DEF e
      <4>6. request'[r].groups = e
        BY <1>0, <1>1, <4>4, <4>5, GoesWell
      <4>7. QED
        BY <4>4, <4>6, OpsAre
    <3>5. QED
      BY <1>11, <2>1, <3>3, <3>4
  <2>4. QED
    BY <2>2, <2>3
<1>17. ASSUME FailQuery(r) PROVE Goal
  <2>1. rows' = rows /\ mishaps > 0 /\ mishaps' = mishaps - 1 /\ EndGroup(r, FALSE) /\ g.query # None
    BY <1>17 DEF FailQuery, g
  <2>2. g.body = <<>>
    BY <1>1, <2>1 DEF GroupOf
  <2>3. CASE g.query = "account"
    <3>1. Others(r) = <<>>
      BY <1>2, <2>3
    <3>2. Quits(r)
      BY <2>1, <3>1, EndGroupIs DEF Goes
    <3>3. request'[r] = NoRequest
      BY <1>0, <3>2, QuitsWell
    <3>4. QED
      BY <1>10, <2>1, <2>3, <3>3
  <2>4. CASE g.query # "account"
    <3>1. ~Early(r, a)
      BY <1>3, <1>7, <2>2
    <3>2. QED
      BY <1>12, <2>1, <2>4, <3>1
  <2>5. QED
    BY <2>3, <2>4
<1>18. ASSUME NothingToDo(r) PROVE Goal
  <2>1. rows' = rows /\ EndGroup(r, TRUE) /\ g.query = None /\ g.body = <<>>
    BY <1>18 DEF NothingToDo, g
  <2>2. Others(r) # <<>>
    BY <1>2, <1>3, <2>1 DEF None
  <2>3. request'[r] # NoRequest
    BY <1>0, <1>1, <2>1, <2>2, EraseEnds
  <2>4. Late(r, a)
    BY <1>3, <1>6, <2>1 DEF None
  <2>5. QED
    BY <1>11, <2>1, <2>3, <2>4
<1>19. ASSUME Statement(r)
       PROVE  /\ Erasure(a, s) /\ s \in Statements /\ s.undo = NoKey /\ s.onto # "absent" /\ g.query # "account"
              /\ s = Del(Auth(a)) => g.body = <<Del(Auth(a))>>
              /\ s = Del(Account(a)) => g.body = <<Del(Account(a))>> /\ Others(r) = <<>>
  <2>1. g.query # "account"
    BY <1>19 DEF Statement, None, g
  <2>2. QED
    BY <1>0, <1>19, <2>1, EraseHead, EraseAlone, StatementIs DEF g, s
<1>20. ASSUME Execute(r) PROVE Goal
  <2>1. Statement(r)
    BY <1>20 DEF Execute
  <2>2. Write(s) /\ Proceed(r)
    BY <1>19, <1>20, <2>1, ExecuteIs DEF s
  <2>3. /\ s = Del(Auth(a)) => rows'[Auth(a)] = "no" /\ rows'[Account(a)] = rows[Account(a)]
        /\ s = Del(Account(a)) => rows'[Account(a)] = "no" /\ rows'[Auth(a)] = rows[Auth(a)]
        /\ (s # Del(Auth(a)) /\ s # Del(Account(a))) =>
              rows'[Auth(a)] = rows[Auth(a)] /\ ((rows'[Account(a)] = "no") <=> (rows[Account(a)] = "no"))
    BY <1>0, <1>1, <1>19, <2>1, <2>2, EraseWrites
  <2>4. Others(r) # <<>> => request'[r] # NoRequest
    <3>1. CASE Len(g.body) = 1
      <4>1. EndGroup(r, ~g.doomed)
        BY <2>2, <3>1, ProceedIs DEF g
      <4>2. QED
        BY <1>0, <1>1, <1>2, <4>1, EraseEnds
    <3>2. CASE Len(g.body) # 1
      <4> DEFINE p == Popped(request[r].groups)
      <4>1. Goes(r, p)
        BY <2>2, <3>2, ProceedIs DEF g
      <4>2. p \in Seq(Groups) /\ p # <<>>
        BY <1>0, <1>1, <2>1, UnderWayIs, PoppedIs DEF Statement, Current
      <4> HIDE DEF p
      <4>3. request'[r].groups = p
        BY <1>0, <1>1, <4>1, <4>2, GoesWell
      <4>4. QED
        BY <4>2, <4>3, OpsAre
    <3>3. QED
      BY <3>1, <3>2
  <2>5. CASE Early(r, a)
    <3>1. s = Del(Auth(a)) /\ Others(r) # <<>>
      BY <1>3, <1>7, <1>8, <2>5 DEF s, g
    <3>2. QED
      BY <1>15, <2>3, <2>4, <2>5, <3>1
  <2>6. CASE ~Early(r, a)
    <3>1. s # Del(Auth(a)) /\ Late(r, a)
      BY <1>6, <1>7, <1>19, <2>1, <2>6
    <3>2. CASE s = Del(Account(a))
      <4>1. Others(r) = <<>> /\ Len(g.body) = 1
        BY <1>3, <1>19, <2>1, <3>2
      <4>2. EndGroup(r, ~g.doomed)
        BY <2>2, <4>1, ProceedIs DEF g
      <4>3. Quits(r)
        BY <4>1, <4>2, EndGroupIs DEF Goes
      <4>4. request'[r] = NoRequest
        BY <1>0, <4>3, QuitsWell
      <4>5. QED
        BY <1>13, <2>3, <3>1, <3>2, <4>4
    <3>3. CASE s # Del(Account(a))
      <4>1. Others(r) # <<>>
        <5>1. ASSUME Others(r) = <<>> PROVE FALSE
          <6>1. g.body = <<Del(Account(a))>>
            BY <1>2, <1>19, <2>1, <5>1
          <6>2. s = Del(Account(a))
            BY <1>3, <6>1 DEF s, g
          <6>3. QED
            BY <3>3, <6>2
        <5>2. QED
          BY <5>1
      <4>2. QED
        BY <1>14, <2>3, <2>4, <3>1, <3>3, <4>1
    <3>4. QED
      BY <3>2, <3>3
  <2>7. QED
    BY <2>5, <2>6
<1>21. ASSUME Fail(r) PROVE Goal
  <2>1. Statement(r)
    BY <1>21 DEF Fail
  <2>2. rows' = rows /\ mishaps > 0 /\ mishaps' = mishaps - 1
    BY <1>21, FailsClean
  <2>3. ASSUME Early(r, a) PROVE request'[r] = NoRequest
    <3>1. g.body = <<Del(Auth(a))>> /\ g.strict
      BY <1>2, <1>7, <2>3
    <3>2. s = Del(Auth(a))
      BY <1>3, <3>1 DEF s, g
    <3>3. ~s.soft
      BY <3>2 DEF Del, Sql
    <3>4. GiveUp(r, s)
      BY <1>21, <3>3, FailIs DEF s
    <3>5. EndGroup(r, FALSE)
      BY <1>19, <2>1, <3>4, GiveUpIs
    <3>6. Quits(r)
      BY <3>1, <3>5, EndGroupIs DEF g
    <3>7. QED
      BY <1>0, <3>6, QuitsWell
  <2>4. QED
    BY <1>12, <1>19, <2>1, <2>2, <2>3
<1>22. ~Crash(r)
  BY CrashSpoils
<1>23. ~ReadCache(r) /\ ~CountUnread(r) /\ ~StoreCount(r)
  <2>1. \A q : QueryOf("deleteAccount", q) => q \notin {"cache", "count", "store"}
    BY DEF QueryOf
  <2>2. g.query # None => QueryOf("deleteAccount", g.query)
    BY <1>1 DEF GroupOf
  <2>3. QED
    BY <2>1, <2>2 DEF ReadCache, CountUnread, StoreCount, None, g
<1>24. QED
  BY <1>16, <1>17, <1>18, <1>20, <1>21, <1>22, <1>23 DEF Advances

-----------------------------------------------------------------------------
(* Half accounts *)

(* A request that did not change is what it was; one that has ended is nothing. *)
LEMMA SameRequest ==
    ASSUME NEW q, NEW a, request'[q].op = request[q].op, request'[q].id = request[q].id,
           request'[q].groups = request[q].groups
    PROVE  /\ Registers(q, a)' <=> Registers(q, a)
           /\ First(q, a)' <=> First(q, a)
           /\ Undoes(q, a)' <=> Undoes(q, a)
           /\ Adding(q, a)' <=> Adding(q, a)
           /\ Deleting(q, a)' <=> Deleting(q, a)
           /\ Early(q, a)' <=> Early(q, a)
           /\ Late(q, a)' <=> Late(q, a)
<1>1. Current(q)' = Current(q)
  BY DEF Current
<1>2. /\ Undoes(q, a)' <=> Undoes(q, a)
      /\ Deleting(q, a)' <=> Deleting(q, a)
      /\ Registers(q, a)' <=> Registers(q, a)
      /\ First(q, a)' <=> First(q, a)
  BY <1>1 DEF Undoes, Deleting, Registers, First
<1>3. Adding(q, a)' <=> Adding(q, a)
  BY <1>1, <1>2 DEF Adding
<1>4. Early(q, a)' <=> Early(q, a)
  BY <1>1, <1>2 DEF Early
<1>5. QED
  BY <1>1, <1>2, <1>3, <1>4 DEF Late

LEMMA RoleIs ==
    ASSUME NEW q, NEW a
    PROVE  /\ (Undoes(q, a) \/ Adding(q, a)) => request[q].op = "addAccount" /\ request[q].id = a /\ UnderWay(q)
           /\ (Deleting(q, a) \/ Early(q, a) \/ Late(q, a)) =>
                 request[q].op = "deleteAccount" /\ request[q].id = a /\ UnderWay(q)
           /\ (Early(q, a) \/ Late(q, a)) => Deleting(q, a)
           /\ ~(Early(q, a) /\ Late(q, a))
           /\ Undoes(q, a) => Adding(q, a)
           /\ (First(q, a) \/ Adding(q, a) \/ Undoes(q, a)) => Registers(q, a)
           /\ Registers(q, a) => request[q].op = "addAccount" /\ request[q].id = a /\ UnderWay(q)
           /\ ~(First(q, a) /\ Adding(q, a))
BY AddBodies DEF First, Registers, Undoes, Adding, Deleting, Early, Late, UnderWay

LEMMA RoleIsNext ==
    ASSUME NEW q, NEW a
    PROVE  /\ (Undoes(q, a)' \/ Adding(q, a)') => request'[q].op = "addAccount" /\ request'[q].id = a
           /\ (Deleting(q, a)' \/ Early(q, a)' \/ Late(q, a)') => request'[q].op = "deleteAccount" /\ request'[q].id = a
           /\ (Early(q, a)' \/ Late(q, a)') => Deleting(q, a)'
           /\ ~(Early(q, a)' /\ Late(q, a)')
           /\ Undoes(q, a)' => Adding(q, a)'
           /\ (First(q, a)' \/ Adding(q, a)' \/ Undoes(q, a)') => Registers(q, a)'
           /\ Registers(q, a)' => request'[q].op = "addAccount" /\ request'[q].id = a
           /\ ~(First(q, a)' /\ Adding(q, a)')
BY AddBodies DEF First, Registers, Undoes, Adding, Deleting, Early, Late

(* What the other requests are after a step of one. *)
LEMMA RolesAfter ==
    ASSUME TypeInv, NEW r \in Requests, Advances(r), NEW a
    PROVE  /\ \A q \in Requests : q # r =>
                 /\ Registers(q, a)' <=> Registers(q, a)
                 /\ First(q, a)' <=> First(q, a)
                 /\ Undoes(q, a)' <=> Undoes(q, a)
                 /\ Adding(q, a)' <=> Adding(q, a)
                 /\ Deleting(q, a)' <=> Deleting(q, a)
                 /\ Early(q, a)' <=> Early(q, a)
                 /\ Late(q, a)' <=> Late(q, a)
           /\ Deleting(r, a)' => Deleting(r, a)
           /\ Registers(r, a)' => Registers(r, a)
           /\ (request[r].op # "addAccount" \/ request[r].id # a) =>
                 /\ ~Adding(r, a) /\ ~Adding(r, a)' /\ ~Undoes(r, a) /\ ~Undoes(r, a)'
                 /\ ~Registers(r, a) /\ ~Registers(r, a)' /\ ~First(r, a) /\ ~First(r, a)'
           /\ (request[r].op # "deleteAccount" \/ request[r].id # a) =>
                 /\ ~Early(r, a) /\ ~Early(r, a)' /\ ~Late(r, a) /\ ~Late(r, a)'
                 /\ ~Deleting(r, a) /\ ~Deleting(r, a)'
<1>0. RequestTypeOK /\ ShapeInv
  BY TypeIs
<1>1. UnderWay(r) /\ Goings(r)
  BY <1>0, AdvanceGoes
<1>2. /\ \A q \in Requests : q # r => request'[q] = request[q]
      /\ request'[r] = NoRequest \/ (request'[r].op = request[r].op /\ request'[r].id = request[r].id)
  BY <1>0, <1>1, GoingsAre
<1>3. ASSUME NEW q \in Requests, q # r
      PROVE  /\ Registers(q, a)' <=> Registers(q, a)
             /\ First(q, a)' <=> First(q, a)
             /\ Undoes(q, a)' <=> Undoes(q, a)
             /\ Adding(q, a)' <=> Adding(q, a)
             /\ Deleting(q, a)' <=> Deleting(q, a)
             /\ Early(q, a)' <=> Early(q, a)
             /\ Late(q, a)' <=> Late(q, a)
  BY <1>2, <1>3, SameRequest
<1>4. request'[r].op = "none" \/ (request'[r].op = request[r].op /\ request'[r].id = request[r].id)
  BY <1>2, OpsAre
<1>5. (Deleting(r, a)' => Deleting(r, a)) /\ (Registers(r, a)' => Registers(r, a))
  BY <1>4 DEF Deleting, Registers
<1>6. (request[r].op # "addAccount" \/ request[r].id # a) =>
                 /\ ~Adding(r, a) /\ ~Adding(r, a)' /\ ~Undoes(r, a) /\ ~Undoes(r, a)'
                 /\ ~Registers(r, a) /\ ~Registers(r, a)' /\ ~First(r, a) /\ ~First(r, a)'
  BY <1>4, RoleIs, RoleIsNext
<1>7. (request[r].op # "deleteAccount" \/ request[r].id # a) =>
                 /\ ~Early(r, a) /\ ~Early(r, a)' /\ ~Late(r, a) /\ ~Late(r, a)'
                 /\ ~Deleting(r, a) /\ ~Deleting(r, a)'
  BY <1>4, RoleIs, RoleIsNext
<1>8. QED
  BY <1>3, <1>5, <1>6, <1>7

(* What a request writes into the row of a login: its account, or nothing. *)
LEMMA LoginValues ==
    ASSUME NEW op \in {"addAccount", "deleteAccount"}, NEW a \in Accounts, NEW x, NEW s, HeadOf(op, a, x, s), s.k.t = "auth"
    PROVE  s.v = "no" \/ s.v = a
<1>1. CASE op = "addAccount"
  <2>1. s \in {AddLogin(a), AddOrUndo(Account(a), Auth(a)), SoftDel(Auth(a)), Put(Counter(a))}
    BY <1>1 DEF HeadOf
  <2>2. AddOrUndo(Account(a), Auth(a)).k = Account(a) /\ Put(Counter(a)).k = Counter(a)
        /\ AddLogin(a).v = a /\ SoftDel(Auth(a)).v = "no"
    BY DEF AddOrUndo, Put, AddLogin, SoftDel, Sql
  <2>3. Account(a).t # "auth" /\ Counter(a).t # "auth"
    BY OtherTables
  <2>4. QED
    BY <2>1, <2>2, <2>3
<1>2. CASE op = "deleteAccount"
  <2>1. Erasure(a, s)
    BY <1>2 DEF HeadOf
  <2>2. \A k : Del(k).v = "no" /\ SoftDel(k).v = "no" /\ Update(k, "deleted").k = k
    BY DEF Del, SoftDel, Update, Sql
  <2>3. Account(a).t # "auth"
    BY OtherTables
  <2>4. QED
    BY <2>1, <2>2, <2>3 DEF Erasure
<1>3. QED
  BY <1>1, <1>2

-----------------------------------------------------------------------------
(* Half accounts *)

(* At most one statement failed, and nothing died. *)
Mild == ~Spoilt /\ Mishaps - mishaps <= 1

(* Of one account: an id that was not given out is not used; only one request registers it; while *)
(* that one has not written the login nobody deletes the account; while it has not written the    *)
(* account there is none; a login without an account is one that it is completing; it removes the *)
(* login only after a failure; and a deletion that goes on has removed the login.                 *)
HalfOf(a) ==
    /\ a \notin ids => /\ ~Login(a) /\ rows[Account(a)] = "no"
                       /\ \A r \in Requests : ~Registers(r, a) /\ ~Deleting(r, a)
    /\ \A r \in Requests : \A q \in Requests : (Registers(r, a) /\ Registers(q, a)) => r = q
    /\ \A r \in Requests : First(r, a) => ~Login(a)
    /\ \A r \in Requests : \A q \in Requests : First(r, a) => ~Deleting(q, a)
    /\ \A r \in Requests : (First(r, a) \/ Adding(r, a)) => rows[Account(a)] = "no"
    /\ (Login(a) /\ rows[Account(a)] = "no") => \E r \in Requests : Adding(r, a)
    /\ \A r \in Requests : Undoes(r, a) => mishaps < Mishaps
    /\ \A r \in Requests : Late(r, a) => ~Login(a)
HalfInv == Mild => \A a \in Accounts : HalfOf(a)

(* Steps after which there was at most one mishap. *)
LEMMA MildBack ==
    ASSUME TypeInv, NEW r \in Requests, Advances(r), Mild'
    PROVE  /\ Mild /\ ~Spoilt' /\ ids' = ids
           /\ mishaps \in Int /\ Mishaps \in Int /\ mishaps' <= mishaps
<1>0. mishaps \in Int /\ mishaps <= Mishaps /\ Mishaps \in Int
  BY TypeIs, DataAssumption DEF DataTypeOK
<1>1. ~Spoilt' /\ Mishaps - mishaps' <= 1
  BY DEF Mild
<1>2. torn \subseteq torn' /\ (mishaps' = mishaps \/ mishaps' = mishaps - 1)
  BY MishapsAre
<1>3. ~Spoilt
  BY <1>1, <1>2 DEF Spoilt
<1>4. ids' = ids
  BY DEF Advances, Execute, Fail, NothingToDo, RunQuery, FailQuery, ReadCache, CountUnread, StoreCount, Crash
<1>5. mishaps' <= mishaps /\ Mishaps - mishaps <= 1
  BY <1>0, <1>1, <1>2
<1>6. QED
  BY <1>0, <1>1, <1>3, <1>4, <1>5 DEF Mild

(* A step that gives no login, leaves the presence of the account, and lets no request begin. *)
LEMMA HalfKeeps ==
    ASSUME NEW a, HalfOf(a), Login(a)' => Login(a), (rows'[Account(a)] = "no") <=> (rows[Account(a)] = "no"),
           mishaps \in Int, Mishaps \in Int, mishaps' \in Int, mishaps' <= mishaps, (a \in ids') <=> (a \in ids),
           \A q \in Requests : /\ Registers(q, a)' => Registers(q, a)
                               /\ First(q, a)' => First(q, a)
                               /\ Undoes(q, a)' => Undoes(q, a)
                               /\ Adding(q, a)' <=> Adding(q, a)
                               /\ Deleting(q, a)' => Deleting(q, a)
                               /\ Late(q, a)' => (Late(q, a) \/ ~Login(a)')
    PROVE  HalfOf(a)'
<1>1. \A q \in Requests : Undoes(q, a)' => mishaps' < Mishaps
  BY DEF HalfOf
<1>2. QED
  BY <1>1 DEF HalfOf

LEMMA HalfAdd ==
    ASSUME TypeInv, OrderInv, NEW r \in Requests, Advances(r), request[r].op = "addAccount",
           NEW a, a = request[r].id, Mild', HalfOf(a)
    PROVE  HalfOf(a)'
<1>0. Registers(r, a) /\ a \in Accounts
  BY TypeIs, AdvanceGoes, UnderWayIs DEF Registers
<1>1. /\ Mild /\ ~Spoilt' /\ ids' = ids
      /\ mishaps \in Int /\ Mishaps \in Int /\ mishaps' <= mishaps
  BY MildBack
<1>2. /\ \A q \in Requests : q # r =>
            /\ Registers(q, a)' <=> Registers(q, a)
            /\ First(q, a)' <=> First(q, a)
            /\ Undoes(q, a)' <=> Undoes(q, a)
            /\ Adding(q, a)' <=> Adding(q, a)
            /\ Deleting(q, a)' <=> Deleting(q, a)
            /\ Late(q, a)' <=> Late(q, a)
      /\ Registers(r, a)' => Registers(r, a)
      /\ ~Late(r, a) /\ ~Late(r, a)' /\ ~Deleting(r, a) /\ ~Deleting(r, a)'
  BY RolesAfter
<1>3. \A q \in Requests : First(q, a) \/ Undoes(q, a) \/ Adding(q, a) => Registers(q, a)
  BY RoleIs
<1>4. \A q \in Requests : q # r => ~Registers(q, a) /\ ~First(q, a) /\ ~Undoes(q, a) /\ ~Adding(q, a)
  BY <1>0, <1>3 DEF HalfOf
<1>5. Undoes(r, a)' => Adding(r, a)'
  BY RoleIsNext
<1>6. \A q \in Requests : /\ Registers(q, a)' => q = r
                          /\ First(q, a)' \/ Undoes(q, a)' \/ Adding(q, a)' => q = r
                          /\ Deleting(q, a)' => q # r /\ Deleting(q, a)
                          /\ Late(q, a)' => q # r /\ Late(q, a) /\ Deleting(q, a)
  BY <1>2, <1>4, RoleIs
<1>7. a \in ids'
  BY <1>0, <1>1 DEF HalfOf
<1>8. mishaps > 0 /\ mishaps' = mishaps - 1 => mishaps' < Mishaps /\ ~Undoes(r, a)
  <2>1. ASSUME mishaps' = mishaps - 1, Undoes(r, a) PROVE FALSE
    <3>1. mishaps < Mishaps
      BY <2>1 DEF HalfOf
    <3>2. Mishaps - mishaps' <= 1
      BY DEF Mild
    <3>3. QED
      BY <1>1, <2>1, <3>1, <3>2
  <2>2. ASSUME mishaps' = mishaps - 1 PROVE mishaps' < Mishaps
    <3>1. mishaps <= Mishaps
      BY TypeIs, DataAssumption DEF DataTypeOK
    <3>2. QED
      BY <1>1, <2>2, <3>1
  <2>3. QED
    BY <2>1, <2>2
<1>9. CASE /\ rows'[Auth(a)] = a /\ rows'[Account(a)] = rows[Account(a)]
           /\ First(r, a) /\ Adding(r, a)' /\ ~Undoes(r, a)'
  <2>1. ~First(r, a)'
    BY <1>9, RoleIsNext
  <2>2. rows'[Account(a)] = "no" /\ \A q \in Requests : ~Deleting(q, a)
    BY <1>9 DEF HalfOf
  <2>3. QED
    BY <1>6, <1>7, <1>9, <2>1, <2>2 DEF HalfOf
<1>10. CASE /\ rows[Account(a)] = "no" /\ rows'[Account(a)] # "no" /\ rows'[Auth(a)] = rows[Auth(a)]
            /\ Adding(r, a) /\ Settled(r, a)'
  <2>1. ~First(r, a)' /\ ~Adding(r, a)' /\ ~Undoes(r, a)'
    BY <1>5, <1>10 DEF Settled
  <2>2. Login(a)' <=> Login(a)
    BY <1>10 DEF Login, Auth
  <2>3. QED
    BY <1>6, <1>7, <1>10, <2>1, <2>2 DEF HalfOf
<1>11. CASE /\ rows' = rows /\ Adding(r, a) /\ Adding(r, a)'
            /\ rows[Account(a)] # "no" \/ (mishaps > 0 /\ mishaps' = mishaps - 1)
  <2>1. rows[Account(a)] = "no"
    BY <1>11 DEF HalfOf
  <2>2. mishaps' < Mishaps /\ ~First(r, a)'
    BY <1>8, <1>11, <2>1, RoleIsNext
  <2>3. Login(a)' <=> Login(a)
    BY <1>11 DEF Login, Auth
  <2>4. QED
    BY <1>6, <1>7, <1>11, <2>1, <2>2, <2>3 DEF HalfOf
<1>12. CASE /\ rows'[Auth(a)] = "no" /\ rows'[Account(a)] = rows[Account(a)]
            /\ Undoes(r, a) /\ Settled(r, a)'
  <2>1. ~First(r, a)' /\ ~Adding(r, a)' /\ ~Undoes(r, a)'
    BY <1>5, <1>12 DEF Settled
  <2>2. ~Login(a)'
    BY <1>0, <1>12, DataAssumption DEF Login, Auth
  <2>3. QED
    BY <1>6, <1>7, <1>12, <2>1, <2>2 DEF HalfOf
<1>13. CASE rows' = rows /\ Undoes(r, a) /\ Settled(r, a)' /\ mishaps > 0 /\ mishaps' = mishaps - 1
  BY <1>8, <1>13
<1>14. CASE /\ rows'[Auth(a)] = rows[Auth(a)] /\ rows'[Account(a)] = rows[Account(a)]
            /\ ~Adding(r, a) /\ Settled(r, a)'
  <2>1. ~First(r, a)' /\ ~Adding(r, a)' /\ ~Undoes(r, a)'
    BY <1>5, <1>14 DEF Settled
  <2>2. Login(a)' <=> Login(a)
    BY <1>14 DEF Login, Auth
  <2>3. ~(Login(a) /\ rows[Account(a)] = "no")
    BY <1>4, <1>14 DEF HalfOf
  <2>4. QED
    BY <1>6, <1>7, <1>14, <2>1, <2>2, <2>3 DEF HalfOf
<1>15. QED
  BY <1>1, <1>9, <1>10, <1>11, <1>12, <1>13, <1>14, AddSteps

LEMMA HalfErase ==
    ASSUME TypeInv, OrderInv, NEW r \in Requests, Advances(r), request[r].op = "deleteAccount",
           NEW a, a = request[r].id, Mild', HalfOf(a)
    PROVE  HalfOf(a)'
<1>0. a \in Accounts
  BY TypeIs, AdvanceGoes, UnderWayIs
<1>1. /\ ~Spoilt' /\ ids' = ids
      /\ mishaps \in Int /\ Mishaps \in Int /\ mishaps' <= mishaps /\ mishaps' \in Int
  <2>1. mishaps' = mishaps \/ mishaps' = mishaps - 1
    BY MishapsAre
  <2>2. QED
    BY <2>1, MildBack
<1>2. /\ \A q \in Requests : q # r =>
            /\ Registers(q, a)' <=> Registers(q, a)
            /\ First(q, a)' <=> First(q, a)
            /\ Undoes(q, a)' <=> Undoes(q, a)
            /\ Adding(q, a)' <=> Adding(q, a)
            /\ Deleting(q, a)' <=> Deleting(q, a)
            /\ Late(q, a)' <=> Late(q, a)
      /\ ~Registers(r, a) /\ ~Registers(r, a)' /\ ~First(r, a)'
      /\ ~Adding(r, a) /\ ~Adding(r, a)' /\ ~Undoes(r, a)'
      /\ Deleting(r, a)' => Deleting(r, a)
  BY RolesAfter
<1>3. ASSUME Login(a)' => Login(a), (rows'[Account(a)] = "no") <=> (rows[Account(a)] = "no"),
             Late(r, a)' => (Late(r, a) \/ ~Login(a)')
      PROVE  HalfOf(a)'
  BY <1>1, <1>2, <1>3, HalfKeeps
<1>4. rows'[Auth(a)] = rows[Auth(a)] => (Login(a)' <=> Login(a))
  BY DEF Login, Auth
<1>5. CASE rows' = rows /\ ~Late(r, a)'
  BY <1>3, <1>4, <1>5
<1>6. CASE rows'[Auth(a)] = "no" /\ rows'[Account(a)] = rows[Account(a)]
  <2>1. ~Login(a)'
    BY <1>0, <1>6, DataAssumption DEF Login, Auth
  <2>2. QED
    BY <1>3, <1>6, <2>1
<1>7. CASE /\ rows'[Account(a)] = "no" /\ rows'[Auth(a)] = rows[Auth(a)]
           /\ Late(r, a) /\ ~Early(r, a)' /\ ~Late(r, a)'
  <2>1. ~Login(a) /\ ~Login(a)'
    BY <1>4, <1>7 DEF HalfOf
  <2>2. \A q \in Requests : /\ Registers(q, a)' => Registers(q, a)
                            /\ First(q, a)' => First(q, a)
                            /\ Undoes(q, a)' => Undoes(q, a)
                            /\ Deleting(q, a)' => Deleting(q, a)
    BY <1>2
  <2>3. \A q \in Requests : Undoes(q, a)' => mishaps' < Mishaps
    BY <1>1, <2>2 DEF HalfOf
  <2>4. QED
    BY <1>1, <1>7, <2>1, <2>2, <2>3 DEF HalfOf
<1>8. CASE /\ rows'[Auth(a)] = rows[Auth(a)] /\ ((rows'[Account(a)] = "no") <=> (rows[Account(a)] = "no"))
           /\ Late(r, a) /\ ~Early(r, a)' /\ Late(r, a)'
  BY <1>3, <1>4, <1>8
<1>9. QED
  BY <1>1, <1>5, <1>6, <1>7, <1>8, EraseSteps

(* The other requests can take the login away, the one of another account with the same login, *)
(* but they do not touch the account.                                                          *)
LEMMA HalfOther ==
    ASSUME TypeInv, NEW r \in Requests, Advances(r), NEW a \in Accounts, Mild', HalfOf(a),
           request[r].op \notin {"addAccount", "deleteAccount"} \/ request[r].id # a
    PROVE  HalfOf(a)'
<1>0. RequestTypeOK /\ ShapeInv /\ DataTypeOK
  BY TypeIs
<1>1. /\ ids' = ids
      /\ mishaps \in Int /\ Mishaps \in Int /\ mishaps' <= mishaps /\ mishaps' \in Int
  <2>1. mishaps' = mishaps \/ mishaps' = mishaps - 1
    BY MishapsAre
  <2>2. QED
    BY <2>1, MildBack
<1>2. \A q \in Requests : /\ Registers(q, a)' => Registers(q, a)
                          /\ First(q, a)' => First(q, a)
                          /\ Undoes(q, a)' => Undoes(q, a)
                          /\ Adding(q, a)' <=> Adding(q, a)
                          /\ Deleting(q, a)' => Deleting(q, a)
                          /\ Late(q, a)' => Late(q, a)
  BY RolesAfter
<1>3. (Login(a)' => Login(a)) /\ rows'[Account(a)] = rows[Account(a)]
  <2> DEFINE s == Head(Current(r).body)
             b == request[r].id
  <2>1. CASE rows' = rows
    BY <2>1 DEF Login, Auth
  <2>2. CASE Statement(r) /\ Write(s)
    <3>1. HeadOf(request[r].op, b, request[r].x, s) /\ s \in Statements /\ b \in Accounts
      BY <1>0, <2>2, StatementIs, UnderWayIs
    <3>2. b = a => request[r].op \notin {"addAccount", "deleteAccount"}
      OBVIOUS
    <3> HIDE DEF s, b
    <3>3. /\ Auth(a) \in Keys /\ Auth(a).t = "auth"
          /\ Account(a) \in Keys /\ Account(a).t = "account" /\ Account(a).id = a
      BY KeysAre, KeyFields DEF Auth, Account
    <3>4. (s.k.t \in {"auth", "account", "counter"}) => request[r].op \in {"addAccount", "deleteAccount"}
      BY <3>1, TablesOf
    <3>5. s.k.t \in {"account", "counter"} => s.k.id = b
      BY <3>1, TablesOf
    <3>6. \A k \in Keys : k # s.k => rows'[k] = rows[k]
      BY <1>0, <2>2, <3>1, WriteIs
    <3>7. rows'[Account(a)] = rows[Account(a)]
      BY <3>2, <3>3, <3>4, <3>5, <3>6
    <3>8. CASE s.k # Auth(a)
      BY <3>3, <3>6, <3>7, <3>8 DEF Login, Auth
    <3>9. CASE s.k = Auth(a)
      <4>1. request[r].op \in {"addAccount", "deleteAccount"} /\ b # a
        BY <3>2, <3>3, <3>4, <3>9
      <4>2. s.v # a
        <5>1. s.v = "no" \/ s.v = b
          BY <3>1, <3>3, <3>9, <4>1, LoginValues
        <5>2. QED
          BY <4>1, <5>1, DataAssumption
      <4>3. rows'[s.k] = s.v \/ rows'[s.k] = rows[s.k]
        BY <1>0, <2>2, <3>1, WriteIs DEF Statements
      <4>4. QED
        BY <3>7, <3>9, <4>2, <4>3 DEF Login, Auth
    <3>10. QED
      BY <3>8, <3>9
  <2>3. QED
    BY <2>1, <2>2, RowsAfter
<1>4. QED
  BY <1>1, <1>2, <1>3, HalfKeeps

LEMMA HalfAdvance ==
    ASSUME TypeInv, OrderInv, HalfInv, NEW r \in Requests, Advances(r)
    PROVE  HalfInv'
<1> SUFFICES ASSUME Mild', NEW a \in Accounts PROVE HalfOf(a)'
  BY DEF HalfInv
<1>1. HalfOf(a)
  BY MildBack DEF HalfInv
<1>2. CASE request[r].op = "addAccount" /\ a = request[r].id
  BY <1>1, <1>2, HalfAdd
<1>3. CASE request[r].op = "deleteAccount" /\ a = request[r].id
  BY <1>1, <1>3, HalfErase
<1>4. CASE request[r].op \notin {"addAccount", "deleteAccount"} \/ request[r].id # a
  BY <1>1, <1>4, HalfOther
<1>5. QED
  BY <1>2, <1>3, <1>4

LEMMA HalfArrive ==
    ASSUME TypeInv, HalfInv, NEW r \in Requests, Arrives(r)
    PROVE  HalfInv'
<1>0. RequestTypeOK /\ mishaps \in Int /\ Mishaps \in Int
  BY TypeIs, DataAssumption DEF DataTypeOK
<1>1. PICK op \in Ops, b \in Accounts, x \in Accounts \cup Messages \cup {None, "message", "archive"} : \E gs :
              Start(r, op, b, x, gs) /\ Begins(op, b, x, gs)
  BY ArrivesIs
<1>2. PICK gs : Start(r, op, b, x, gs) /\ Begins(op, b, x, gs)
  BY <1>1
<1>3. /\ request'[r].op = op /\ request'[r].id = b /\ request'[r].groups = gs
      /\ rows' = rows /\ mishaps' = mishaps /\ ~UnderWay(r)
  BY <1>0, <1>2, StartIs
<1>4. torn \subseteq torn'
  BY <1>2, StartTorn
<1>5. ids' = IF op = "addAccount" THEN ids \cup {b} ELSE ids
  BY <1>2 DEF Start
<1> SUFFICES ASSUME Mild', NEW a \in Accounts PROVE HalfOf(a)'
  BY DEF HalfInv
<1>6. Mild
  BY <1>3, <1>4 DEF Mild, Spoilt
<1>7. HalfOf(a)
  BY <1>6 DEF HalfInv
<1>8. \A q \in Requests : q # r => /\ Registers(q, a)' <=> Registers(q, a)
                                   /\ First(q, a)' <=> First(q, a)
                                   /\ Undoes(q, a)' <=> Undoes(q, a)
                                   /\ Adding(q, a)' <=> Adding(q, a)
                                   /\ Deleting(q, a)' <=> Deleting(q, a)
                                   /\ Late(q, a)' <=> Late(q, a)
  <2>1. ASSUME NEW q \in Requests, q # r
        PROVE  request'[q].op = request[q].op /\ request'[q].id = request[q].id /\ request'[q].groups = request[q].groups
    BY <1>0, <1>2, <2>1, StartOthers
  <2>2. QED
    BY <2>1, SameRequest
<1>9. ~Registers(r, a) /\ ~First(r, a) /\ ~Undoes(r, a) /\ ~Adding(r, a) /\ ~Deleting(r, a) /\ ~Late(r, a)
  BY <1>3, RoleIs
<1>10. Login(a)' <=> Login(a)
  BY <1>3 DEF Login, Auth
<1>11. CASE op = "addAccount" /\ b = a
  <2>1. ~Adding(r, a)' /\ ~Undoes(r, a)' /\ ~Deleting(r, a)' /\ ~Late(r, a)'
    <3> DEFINE w == <<AddLogin(a), AddOrUndo(Account(a), Auth(a))>>
    <3>1. gs = AddAccountGroups(a)
      BY <1>2, <1>11 DEF Begins
    <3>2. gs = <<Group(w), Loose(<<Put(Counter(a))>>)>>
      BY <3>1 DEF AddAccountGroups, Auth, Account, Counter
    <3> HIDE DEF w
    <3>3. Head(gs) = Group(w)
      BY <3>2, PairIs
    <3>4. Group(w).body = w
      BY DEF Group, Series
    <3>5. Head(request'[r].groups).body = w
      BY <1>3, <3>3, <3>4
    <3>6. ~Adding(r, a)' /\ ~Undoes(r, a)'
      BY <3>5, AddBodies DEF Adding, Undoes, Current, w
    <3>7. QED
      BY <1>3, <1>11, <3>6, RoleIsNext
  <2>2. a \notin ids /\ a \in ids'
    BY <1>2, <1>5, <1>11 DEF Begins
  <2>3. /\ ~Login(a) /\ rows[Account(a)] = "no"
        /\ \A q \in Requests : ~Registers(q, a) /\ ~Deleting(q, a)
    BY <1>7, <2>2 DEF HalfOf
  <2>4. \A q \in Requests : First(q, a) \/ Adding(q, a) \/ Undoes(q, a) => Registers(q, a)
    BY RoleIs
  <2>5. \A q \in Requests : Late(q, a) => Deleting(q, a)
    BY RoleIs
  <2>6. \A q \in Requests : /\ Registers(q, a)' => q = r
                            /\ ~Adding(q, a)' /\ ~Undoes(q, a)' /\ ~Deleting(q, a)' /\ ~Late(q, a)'
    BY <1>8, <2>1, <2>3, <2>4, <2>5
  <2>7. QED
    BY <1>3, <1>10, <2>2, <2>3, <2>6 DEF HalfOf
<1>12. CASE op = "deleteAccount" /\ b = a
  <2>1. Login(a)
    BY <1>2, <1>12 DEF Begins
  <2>2. a \in ids /\ a \in ids' /\ \A q \in Requests : ~First(q, a)
    BY <1>5, <1>7, <2>1 DEF HalfOf
  <2>3. ~Late(r, a)'
    <3> DEFINE g == Query("account", a)
    <3>1. gs = <<g>>
      BY <1>2, <1>12 DEF Begins
    <3>2. g.query = "account" /\ g.body = <<>>
      BY DEF Query, Series
    <3> HIDE DEF g
    <3>3. Head(request'[r].groups) = g
      BY <1>3, <3>1, PairIs
    <3>4. QED
      BY <3>2, <3>3 DEF Late, Current
  <2>4. ~Registers(r, a)' /\ ~First(r, a)' /\ ~Adding(r, a)' /\ ~Undoes(r, a)'
    BY <1>3, <1>12, RoleIsNext
  <2>5. \A q \in Requests : /\ Registers(q, a)' <=> Registers(q, a)
                            /\ ~First(q, a)'
                            /\ Adding(q, a)' <=> Adding(q, a)
                            /\ Undoes(q, a)' <=> Undoes(q, a)
                            /\ Late(q, a)' <=> Late(q, a)
    BY <1>8, <1>9, <2>2, <2>3, <2>4
  <2>6. QED
    BY <1>3, <1>7, <1>10, <2>2, <2>5 DEF HalfOf
<1>13. CASE b # a \/ op \notin {"addAccount", "deleteAccount"}
  <2>1. /\ ~Registers(r, a)' /\ ~First(r, a)' /\ ~Adding(r, a)' /\ ~Undoes(r, a)' /\ ~Deleting(r, a)' /\ ~Late(r, a)'
    BY <1>3, <1>13, RoleIsNext
  <2>2. (a \in ids') <=> (a \in ids)
    BY <1>5, <1>13
  <2>3. \A q \in Requests : /\ Registers(q, a)' => Registers(q, a)
                            /\ First(q, a)' => First(q, a)
                            /\ Undoes(q, a)' => Undoes(q, a)
                            /\ Adding(q, a)' <=> Adding(q, a)
                            /\ Deleting(q, a)' => Deleting(q, a)
                            /\ Late(q, a)' => Late(q, a)
    BY <1>8, <1>9, <2>1
  <2>4. QED
    BY <1>0, <1>3, <1>7, <1>10, <2>2, <2>3, HalfKeeps
<1>14. QED
  BY <1>11, <1>12, <1>13

LEMMA HalfEvict ==
    ASSUME TypeInv, HalfInv, (\E b \in Accounts : Evict(b)) \/ UNCHANGED dataVars
    PROVE  HalfInv'
<1>1. /\ rows' = rows /\ request' = request /\ torn' = torn /\ ids' = ids
      /\ mishaps' = mishaps \/ mishaps' = mishaps - 1
  BY DEF Evict, dataVars
<1>2. mishaps \in Int /\ Mishaps \in Int
  BY TypeIs, DataAssumption DEF DataTypeOK
<1>3. mishaps' <= mishaps /\ mishaps' \in Int
  BY <1>1, <1>2
<1> SUFFICES ASSUME Mild', NEW a \in Accounts PROVE HalfOf(a)'
  BY DEF HalfInv
<1>4. Mild
  <2>1. Mishaps - mishaps' <= 1 /\ ~Spoilt
    BY <1>1 DEF Mild, Spoilt
  <2>2. Mishaps - mishaps <= 1
    BY <1>1, <1>2, <2>1
  <2>3. QED
    BY <2>1, <2>2 DEF Mild
<1>5. HalfOf(a)
  BY <1>4 DEF HalfInv
<1>6. \A q \in Requests : /\ Registers(q, a)' <=> Registers(q, a)
                          /\ First(q, a)' <=> First(q, a)
                          /\ Undoes(q, a)' <=> Undoes(q, a)
                          /\ Adding(q, a)' <=> Adding(q, a)
                          /\ Deleting(q, a)' <=> Deleting(q, a)
                          /\ Late(q, a)' <=> Late(q, a)
  BY <1>1, SameRequest
<1>7. Login(a)' <=> Login(a)
  BY <1>1 DEF Login, Auth
<1>8. QED
  BY <1>1, <1>2, <1>3, <1>5, <1>6, <1>7, HalfKeeps

LEMMA HalfInit ==
    ASSUME DataInit
    PROVE  HalfInv
<1>1. /\ rows = [k \in Keys |-> IF k.t \in {"account", "counter"} /\ k.id \in ids THEN "new"
                              ELSE IF \E a \in ids : k = Auth(a) THEN CHOOSE a \in ids : k = Auth(a) ELSE "no"]
      /\ ids \subseteq Accounts
  BY DEF DataInit
<1>2. \A q \in Requests : ~UnderWay(q)
  BY OpsAre DEF DataInit, UnderWay
<1> SUFFICES ASSUME NEW a \in Accounts PROVE HalfOf(a)
  BY DEF HalfInv
<1>3. \A q \in Requests : /\ ~Registers(q, a) /\ ~First(q, a)
                          /\ ~Undoes(q, a) /\ ~Adding(q, a) /\ ~Deleting(q, a) /\ ~Early(q, a) /\ ~Late(q, a)
  BY <1>2, RoleIs
<1>4. /\ Auth(a) \in Keys /\ Auth(a).t = "auth"
      /\ Account(a) \in Keys /\ Account(a).t = "account" /\ Account(a).id = a /\ \A c : Account(a) # Auth(c)
  BY KeysAre, KeyFields, OtherTables DEF Auth, Account
<1>5. a \in ids => rows[Account(a)] = "new"
  BY <1>1, <1>4
<1>6. a \notin ids => rows[Account(a)] = "no"
  BY <1>1, <1>4
<1>7. a \notin ids => ~Login(a)
  <2> SUFFICES ASSUME a \notin ids, rows[Auth(a)] = a PROVE FALSE
    BY DEF Login, Auth
  <2>1. CASE \E c \in ids : Auth(a) = Auth(c)
    <3>1. (CHOOSE c \in ids : Auth(a) = Auth(c)) \in ids
      BY <2>1
    <3>2. rows[Auth(a)] = (CHOOSE c \in ids : Auth(a) = Auth(c))
      BY <1>1, <1>4, <2>1
    <3>3. QED
      BY <3>1, <3>2
  <2>2. CASE ~\E c \in ids : Auth(a) = Auth(c)
    <3>1. rows[Auth(a)] = "no"
      BY <1>1, <1>4, <2>2
    <3>2. QED
      BY <3>1, DataAssumption
  <2>3. QED
    BY <2>1, <2>2
<1>8. QED
  BY <1>3, <1>5, <1>6, <1>7 DEF HalfOf

LEMMA HalfNext ==
    ASSUME TypeInv, OrderInv, HalfInv, [DataNext]_dataVars
    PROVE  HalfInv'
BY HalfArrive, HalfAdvance, HalfEvict DEF DataNext

LEMMA HalfMeans ==
    ASSUME TypeInv, HalfInv
    PROVE  NoHalfAccount
<1> SUFFICES ASSUME AtRest, torn \subseteq {"overlap"}, Mishaps - mishaps <= 1, NEW a \in Accounts, Login(a)
             PROVE  Present(Key("account", a, None))
  BY DEF NoHalfAccount
<1>1. HalfOf(a)
  BY DEF HalfInv, Mild, Spoilt
<1>2. \A r \in Requests : ~Adding(r, a)
  BY RoleIs DEF AtRest
<1>3. rows[Account(a)] # "no"
  BY <1>1, <1>2 DEF HalfOf
<1>4. QED
  BY <1>3 DEF Present, Account

(* A login without an account does not come from a single failing statement, whatever runs at *)
(* the same time: one that nobody is completing has its account (addAccount, deleteAccount).  *)
THEOREM NoOrphanLogin == DataSpec => []NoHalfAccount
<1>1. DataInit => TypeInv /\ OrderInv /\ HalfInv
  BY TypeInit, OrderInit, HalfInit
<1>2. TypeInv /\ OrderInv /\ HalfInv /\ [DataNext]_dataVars => (TypeInv /\ OrderInv /\ HalfInv)'
  BY TypeNext, OrderNext, HalfNext
<1>3. TypeInv /\ HalfInv => NoHalfAccount
  BY HalfMeans
<1>4. QED
  BY <1>1, <1>2, <1>3, PTL DEF DataSpec

-----------------------------------------------------------------------------
(* Requests without failures *)

(* Only the groups of addAccount and of making a connection can have failed and go on. *)
PlainInv ==
    \A r \in Requests : request[r].op = "unmakeAll" =>
        \A i \in DOMAIN request[r].groups : ~request[r].groups[i].doomed

LEMMA UnlinkHead ==
    ASSUME RequestTypeOK, ShapeInv, NEW r \in Requests, Statement(r), request[r].op = "unmakeAll"
    PROVE  /\ Head(Current(r).body).undo = NoKey /\ Head(Current(r).body).onto = "all"
           /\ \E k \in KeysOf("connection", request[r].id) :
                 /\ UnlinkBody(k, Current(r).body)
                 /\ Head(Current(r).body) \in {Del(k), Del(Mirror(k))}
<1>1. BodyOf(request[r].op, request[r].id, request[r].x, Current(r).body)
  BY StatementIs
<1>2. PICK k \in KeysOf("connection", request[r].id) : UnlinkBody(k, Current(r).body)
  BY <1>1 DEF BodyOf
<1>3. Current(r).body = <<Del(k), Del(Mirror(k))>> \/ Current(r).body = <<Del(Mirror(k))>>
  BY <1>2 DEF UnlinkBody, Unlink
<1>4. Head(Current(r).body) = Del(k) \/ Head(Current(r).body) = Del(Mirror(k))
  BY <1>3, PairIs
<1>5. \A h : Del(h).undo = NoKey /\ Del(h).onto = "all"
  BY DEF Del, Sql
<1>6. QED
  BY <1>2, <1>4, <1>5

LEMMA PlainStep ==
    ASSUME RequestTypeOK, ShapeInv, PlainInv, NEW r \in Requests, Advances(r), request'[r] # NoRequest,
           request[r].op = "unmakeAll", NEW i \in DOMAIN request'[r].groups
    PROVE  ~request'[r].groups[i].doomed
<1> DEFINE gs == request[r].groups
           n == request'[r].groups
           s == Head(Current(r).body)
<1>1. UnderWay(r)
  BY AdvanceGoes
<1>2. /\ gs \in Seq(Groups) /\ gs # <<>> /\ Current(r) = Head(gs) /\ Others(r) = Tail(gs) /\ Others(r) \in Seq(Groups)
      /\ request[r].id \in Accounts
  BY <1>1, UnderWayIs DEF Current, Others
<1>3. \A j \in DOMAIN gs : ~gs[j].doomed
  BY DEF PlainInv
<1> HIDE DEF gs, n, s
<1>4. \A j \in DOMAIN Others(r) : ~Others(r)[j].doomed
  BY <1>2, <1>3, TailIs
<1>5. CASE n = Others(r)
  BY <1>4, <1>5 DEF n
<1>6. CASE Statement(r) /\ n = Popped(gs)
  <2>1. Head(gs).body # <<>>
    BY <1>2, <1>6 DEF Statement
  <2>2. /\ DOMAIN Popped(gs) = DOMAIN gs /\ Head(Popped(gs)) = Popped(gs)[1] /\ Head(Popped(gs)).doomed = Head(gs).doomed
        /\ \A j \in DOMAIN gs : j # 1 => Popped(gs)[j] = gs[j]
    BY <1>2, <2>1, PoppedIs
  <2>3. Head(gs) = gs[1] /\ 1 \in DOMAIN gs
    BY <1>2, TailIs
  <2>4. QED
    BY <1>3, <1>6, <2>2, <2>3 DEF n
<1>7. ~(Statement(r) /\ s.undo # NoKey)
  BY UnlinkHead DEF s
<1>8. CASE RunQuery(r) /\ n = Expand(Current(r).query, request[r].id) \o Others(r)
  <2> DEFINE u == Expand(Current(r).query, request[r].id)
             ks == SetToSeq(Found("unlink", request[r].id))
  <2>1. Current(r).query = "unlink" /\ u \in Seq(Groups)
    BY <1>8, RunQueryGoes DEF QueryOf
  <2>2. u = UnlinkRows(ks)
    BY <1>2, <2>1, Expansions
  <2> HIDE DEF ks
  <2>3. \A j \in DOMAIN u : u[j] = Group(Unlink(ks[j]))
    BY <2>2 DEF UnlinkRows
  <2>4. \A b : ~Group(b).doomed
    BY DEF Group, Series
  <2>5. \A j \in DOMAIN u : ~u[j].doomed
    BY <2>3, <2>4
  <2>6. n = u \o Others(r)
    BY <1>8
  <2> HIDE DEF u
  <2>7. \A j \in DOMAIN n : (j \in DOMAIN u /\ n[j] = u[j]) \/ (j - Len(u) \in DOMAIN Others(r) /\ n[j] = Others(r)[j - Len(u)])
    BY <1>2, <2>1, <2>6, JoinIs
  <2>8. QED
    BY <1>4, <2>5, <2>7 DEF n
<1>9. QED
  BY <1>5, <1>6, <1>7, <1>8, GroupsAfter DEF s, gs, n

LEMMA PlainNext ==
    ASSUME TypeInv, PlainInv, [DataNext]_dataVars
    PROVE  PlainInv'
<1>0. RequestTypeOK /\ ShapeInv
  BY TypeIs
<1>1. ASSUME NEW r \in Requests, Arrives(r) PROVE PlainInv'
  <2>1. PICK op \in Ops, a \in Accounts, x \in Accounts \cup Messages \cup {None, "message", "archive"} : \E gs :
                Start(r, op, a, x, gs) /\ Begins(op, a, x, gs)
    BY <1>1, ArrivesIs
  <2>2. PICK gs : Start(r, op, a, x, gs) /\ Begins(op, a, x, gs)
    BY <2>1
  <2>3. request'[r].op = op /\ request'[r].id = a /\ request'[r].groups = gs
    BY <1>0, <2>2, StartIs
  <2>4. \A p \in Requests : p # r => /\ request'[p].op = request[p].op /\ request'[p].groups = request[p].groups
    BY <1>0, <2>2, StartOthers
  <2>5. ASSUME op = "unmakeAll", NEW i \in DOMAIN gs PROVE ~gs[i].doomed
    <3> DEFINE g == Query("unlink", a)
    <3>1. gs = <<g>>
      BY <2>2, <2>5 DEF Begins
    <3>2. ~g.doomed
      BY DEF Query, Series
    <3> HIDE DEF g
    <3>3. gs[1] = g /\ i = 1
      BY <2>5, <3>1, OneIs
    <3>4. QED
      BY <3>2, <3>3
  <2>6. QED
    BY <2>3, <2>4, <2>5 DEF PlainInv
<1>2. ASSUME NEW r \in Requests, Advances(r) PROVE PlainInv'
  <2>1. UnderWay(r) /\ Goings(r)
    BY <1>0, <1>2, AdvanceGoes
  <2>2. /\ \A p \in Requests : p # r => request'[p] = request[p]
        /\ request'[r] = NoRequest \/ request'[r].op = request[r].op
    BY <1>0, <2>1, GoingsAre
  <2>3. ASSUME request'[r] # NoRequest, request'[r].op = "unmakeAll", NEW i \in DOMAIN request'[r].groups
        PROVE  ~request'[r].groups[i].doomed
    BY <1>0, <1>2, <2>2, <2>3, PlainStep
  <2>4. QED
    BY <2>2, <2>3, OpsAre DEF PlainInv
<1>3. CASE request' = request
  BY <1>3 DEF PlainInv
<1>4. QED
  BY <1>1, <1>2, <1>3 DEF DataNext, Evict, dataVars

LEMMA PlainInit ==
    ASSUME DataInit
    PROVE  PlainInv
<1>1. \A r \in Requests : request[r].op = "none"
  BY OpsAre DEF DataInit
<1>2. QED
  BY <1>1 DEF PlainInv

(* The steps of a request that deletes rows and meets no failure: its query finds nothing to delete *)
(* and it is refused, the query is replaced by what it has found, a group is over, or a statement   *)
(* is done.                                                                                        *)
LEMMA CalmSteps ==
    ASSUME TypeInv, OrderInv, PlainInv, NEW r \in Requests, Advances(r), mishaps' = mishaps,
           request[r].op \in {"deleteAccount", "unmakeAll"},
           NEW s, s = Head(Current(r).body), NEW e, e = Expand(Current(r).query, request[r].id) \o Others(r)
    PROVE  \/ Current(r).query = "account" /\ request'[r] = NoRequest /\ ~last'.ok /\ rows' = rows
           \/ /\ RunQuery(r) /\ rows' = rows /\ Current(r).body = <<>>
              /\ (e = <<>> /\ request'[r] = NoRequest) \/ (request'[r] # NoRequest /\ request'[r].groups = e)
           \/ /\ rows' = rows /\ Current(r).query = None /\ Current(r).body = <<>>
              /\ (Others(r) = <<>> /\ request'[r] = NoRequest) \/ (request'[r] # NoRequest /\ request'[r].groups = Others(r))
           \/ /\ Statement(r) /\ Write(s) /\ Len(Current(r).body) = 1
              /\ (Others(r) = <<>> /\ request'[r] = NoRequest) \/ (request'[r] # NoRequest /\ request'[r].groups = Others(r))
           \/ /\ Statement(r) /\ Write(s) /\ Len(Current(r).body) # 1
              /\ request'[r] # NoRequest /\ request'[r].groups = Popped(request[r].groups)
<1>0. RequestTypeOK /\ ShapeInv /\ DataTypeOK
  BY TypeIs
<1>1. UnderWay(r) /\ Goings(r)
  BY <1>0, AdvanceGoes
<1> DEFINE gs == request[r].groups
<1>2. /\ gs \in Seq(Groups) /\ gs # <<>> /\ Current(r) = gs[1] /\ 1 \in DOMAIN gs /\ Others(r) \in Seq(Groups)
      /\ Current(r) = Head(gs) /\ GroupOf(request[r].op, request[r].id, request[r].x, Current(r)) /\ request[r].id \in Accounts
  BY <1>0, <1>1, UnderWayIs DEF ShapeInv, Shaped, ShapedAs, Current
<1>3. ~Current(r).doomed
  BY <1>0, <1>1, <1>2, EraseAhead DEF PlainInv
<1>4. mishaps' # mishaps - 1
  <2>1. mishaps \in Int
    BY <1>0, DataAssumption DEF DataTypeOK
  <2>2. QED
    BY <2>1
<1>5. ~Fail(r) /\ ~FailQuery(r) /\ ~Crash(r)
  BY <1>4 DEF Fail, FailQuery, Crash
<1>6. ASSUME EndGroup(r, TRUE)
      PROVE  (Others(r) = <<>> /\ request'[r] = NoRequest) \/ (request'[r] # NoRequest /\ request'[r].groups = Others(r))
  <2>1. (Others(r) = <<>> /\ Quits(r)) \/ Goes(r, Others(r))
    BY <1>6, EndGroupIs
  <2>2. Quits(r) => request'[r] = NoRequest
    BY <1>0, QuitsWell
  <2>3. Goes(r, Others(r)) => request'[r].groups = Others(r) /\ Others(r) # <<>>
    <3>1. ASSUME Goes(r, Others(r)) PROVE request'[r].groups = Others(r)
      BY <1>0, <1>1, <1>2, <3>1, GoesWell
    <3>2. QED
      BY <3>1 DEF Goes
  <2>4. QED
    BY <2>1, <2>2, <2>3, OpsAre
<1>7. CASE Execute(r)
  <2>1. Statement(r)
    BY <1>7 DEF Execute
  <2>2. s.onto # "absent"
    BY <1>0, <2>1, EraseHead, UnlinkHead
  <2>3. Write(s) /\ Proceed(r)
    BY <1>7, <2>2, ExecuteIs
  <2>4. CASE Len(Current(r).body) = 1
    <3>1. EndGroup(r, ~Current(r).doomed)
      BY <2>3, <2>4, ProceedIs
    <3>2. (~Current(r).doomed) = TRUE
      <4>1. Current(r).doomed \in BOOLEAN
        BY <1>0, <1>1, UnderWayIs DEF Groups
      <4>2. QED
        BY <1>3, <4>1
    <3>3. EndGroup(r, TRUE)
      BY <3>1, <3>2
    <3>4. QED
      BY <1>6, <2>1, <2>3, <2>4, <3>3
  <2>5. CASE Len(Current(r).body) # 1
    <3> DEFINE p == Popped(gs)
    <3>1. Goes(r, p)
      BY <2>3, <2>5, ProceedIs
    <3>2. Head(gs).body # <<>>
      BY <1>2, <2>1 DEF Statement
    <3> HIDE DEF gs
    <3>3. p \in Seq(Groups) /\ p # <<>>
      BY <1>2, <3>2, PoppedIs
    <3> HIDE DEF p
    <3>4. request'[r].groups = p
      BY <1>0, <1>1, <3>1, <3>3, GoesWell
    <3>5. request'[r] # NoRequest
      BY <3>3, <3>4, OpsAre
    <3>6. QED
      BY <2>1, <2>3, <2>5, <3>4, <3>5 DEF p, gs
  <2>6. QED
    BY <2>4, <2>5
<1>8. CASE NothingToDo(r)
  <2>1. EndGroup(r, TRUE) /\ rows' = rows /\ Current(r).query = None /\ Current(r).body = <<>>
    BY <1>8 DEF NothingToDo
  <2>2. QED
    BY <1>6, <2>1
<1>9. CASE RunQuery(r)
  <2>1. rows' = rows /\ Current(r).query # None
    BY <1>9 DEF RunQuery
  <2>2. Current(r).body = <<>>
    BY <1>2, <2>1 DEF GroupOf
  <2>3. CASE Answer(r, FALSE, 0) /\ Current(r).query = "account"
    <3>1. Quits(r) /\ Says(r, FALSE, 0)
      BY <2>3 DEF Answer, Quits, Says
    <3>2. request'[r] = NoRequest
      BY <1>0, <3>1, QuitsWell
    <3>3. ~last'.ok
      BY <3>1, SaysWhat
    <3>4. QED
      BY <2>1, <2>3, <3>2, <3>3
  <2>4. CASE Continue(r, e)
    <3>1. Expand(Current(r).query, request[r].id) \in Seq(Groups)
      BY <1>0, <1>9, RunQueryGoes
    <3>2. e \in Seq(Groups)
      BY <1>2, <3>1, JoinIs
    <3>3. (e = <<>> /\ Quits(r)) \/ Goes(r, e)
      BY <2>4, ContinueIs
    <3>4. Quits(r) => request'[r] = NoRequest
      BY <1>0, QuitsWell
    <3>5. ASSUME Goes(r, e) PROVE request'[r].groups = e /\ e # <<>>
      <4>1. request'[r].groups = e
        BY <1>0, <1>1, <3>2, <3>5, GoesWell
      <4>2. QED
        BY <3>5, <4>1 DEF Goes
    <3>6. QED
      BY <1>9, <2>1, <2>2, <3>3, <3>4, <3>5, OpsAre
  <2>5. QED
    <3>1. Current(r).id = request[r].id
      BY <1>0, <1>9, RunQueryGoes
    <3>2. (Current(r).query = "account" /\ Answer(r, FALSE, 0)) \/ Continue(r, Expand(Current(r).query, Current(r).id) \o Others(r))
      BY <1>9 DEF RunQuery
    <3>3. QED
      BY <2>3, <2>4, <3>1, <3>2
<1>10. ~ReadCache(r) /\ ~CountUnread(r) /\ ~StoreCount(r)
  <2>1. \A q : QueryOf(request[r].op, q) => q \notin {"cache", "count", "store"}
    BY DEF QueryOf
  <2>2. Current(r).query # None => QueryOf(request[r].op, Current(r).query)
    BY <1>2 DEF GroupOf
  <2>3. QED
    BY <2>1, <2>2 DEF ReadCache, CountUnread, StoreCount, None
<1>11. QED
  BY <1>5, <1>7, <1>8, <1>9, <1>10 DEF Advances

=============================================================================
