------------------------ MODULE DeletedAccounts_proofs ------------------------
(***************************************************************************)
(* The proof that an account deleted alone, without errors, and with no    *)
(* more rows than the queries of the deletion return, leaves no login, no  *)
(* row of its own but the references that others made to it, and no        *)
(* reference in another account unless requests ran at the same time.      *)
(***************************************************************************)
EXTENDS AccountData_proofs

-----------------------------------------------------------------------------
(* What a deletion leaves *)

(* A group that removes the row, or finds it. *)
Finds(q, k) ==
    \/ q = "account"
    \/ k.t = "connection" /\ q = "forget"
    \/ k.t \in {"message", "archive", "sent"} /\ q = k.t
Covers(g, k) == Finds(g.query, k) \/ \E j \in DOMAIN g.body : g.body[j] = Del(k)
Covered(gs, k) == \E i \in DOMAIN gs : Covers(gs[i], k)

(* What an account leaves to its deletion: its login and its rows, but not its references. *)
OwnRow(k, a) == k = Auth(a) \/ (k.t \notin {"auth", "reference"} /\ k.id = a)

(* A row of an account that is being deleted, alone and without errors, is one that the deletion *)
(* has still to find or to remove, as long as its queries returned all they were for.            *)
GoneInv ==
    /\ \A r \in Requests : (request[r].op = "deleteAccount" /\ request[r].clean /\ mishaps = Mishaps /\ ~partial) =>
          \A k \in Keys : (OwnRow(k, request[r].id) /\ rows[k] # "no") => Covered(request[r].groups, k)
    /\ (last.op = "deleteAccount" /\ last.ok /\ last.clean /\ mishaps = Mishaps /\ ~partial) =>
          last.id \in Accounts /\ \A k \in Keys : OwnRow(k, last.id) => rows[k] = "no"

LEMMA EraseRemoves ==
    ASSUME DataTypeOK, NEW a \in Accounts, NEW s \in Statements, Write(s), Erasure(a, s), NEW k \in Keys
    PROVE  /\ rows[k] = "no" => rows'[k] = "no"
           /\ s = Del(k) => rows'[k] = "no"
           /\ s = SoftDel(k) => rows'[k] = "no"
           /\ rows'[k] # rows[k] => s.k = k
<1>1. /\ k # s.k => rows'[k] = rows[k]
      /\ s.onto = "all" => rows'[s.k] = s.v
      /\ (s.onto = "present" /\ rows[s.k] = "no") => rows'[s.k] = rows[s.k]
  BY WriteIs
<1>2. \A h : /\ Del(h).k = h /\ Del(h).onto = "all" /\ Del(h).v = "no"
             /\ SoftDel(h).k = h /\ SoftDel(h).onto = "all" /\ SoftDel(h).v = "no"
             /\ Update(h, "deleted").onto = "present"
  BY DEF Del, SoftDel, Update, Sql
<1>3. (s.onto = "all" /\ s.v = "no") \/ s.onto = "present"
  BY <1>2 DEF Erasure
<1>4. QED
  BY <1>1, <1>2, <1>3

(* The rows that a query of the deletion stands for are removed by what follows it. *)
LEMMA ExpandCovers ==
    ASSUME NEW a \in Accounts, NEW q, QueryOf("deleteAccount", q), NEW k \in Keys, OwnRow(k, a),
           rows[k] # "no", Finds(q, k), Found(q, a) = Matching(q, a)
    PROVE  Covered(Expand(q, a), k)
<1>0. /\ k.t = "auth" => k = Auth(a)
      /\ k.t # "auth" => (k.id = a /\ k.t # "reference")
  BY OtherTables DEF OwnRow
<1>1. \A p, b, z, c, n, w : Series(p, b, z, c, n, w).query = p /\ Series(p, b, z, c, n, w).body = b
  BY DEF Series
<1>2. \A p, b, c : /\ Group(b).body = b /\ Loose(b).body = b /\ LooseQuery(p, c).query = p
  BY DEF Group, Loose, LooseQuery, Series
<1>3. \A s : 1 \in DOMAIN <<s>> /\ <<s>>[1] = s
  BY OneIs
<1>4. ASSUME k.t = Table(q), k.t # "auth"
      PROVE  \E i \in DOMAIN SetToSeq(Found(q, a)) : SetToSeq(Found(q, a))[i] = k
  <2>1. k \in KeysOf(Table(q), a)
    BY <1>0, <1>4 DEF KeysOf
  <2>2. q # "read"
    BY DEF QueryOf
  <2>3. QED
    BY <2>1, <2>2, FoundIs
<1>5. CASE q = "account"
  <2> DEFINE e == EraseAccount(a)
  <2>1. /\ DOMAIN e = 1..8
        /\ e[1] = Group(<<Del(Auth(a))>>)
        /\ e[3] = LooseQuery("forget", a) /\ e[4] = Loose(<<Del(Counter(a))>>)
        /\ e[5] = LooseQuery("message", a) /\ e[6] = LooseQuery("archive", a)
        /\ e[7] = LooseQuery("sent", a) /\ e[8] = Group(<<Del(Account(a))>>)
    BY EraseAccountIs
  <2>2. Expand(q, a) = e
    BY <1>5, Expansions
  <2> HIDE DEF e
  <2>3. 1 \in 1..8 /\ 3 \in 1..8 /\ 4 \in 1..8 /\ 5 \in 1..8 /\ 6 \in 1..8 /\ 7 \in 1..8 /\ 8 \in 1..8
    OBVIOUS
  <2>4. /\ k = Key(k.t, k.id, k.x)
        /\ k.t \in {"account", "counter"} => k.x = None
        /\ k.t \in {"auth", "account", "counter", "connection", "reference", "message", "archive", "sent"}
    BY KeyForms
  <2>5. CASE k.t = "auth"
    <3>1. k = Auth(a)
      BY <1>0, <2>5
    <3>2. e[1].body = <<Del(k)>>
      BY <1>2, <2>1, <3>1
    <3>3. Covers(e[1], k)
      BY <1>3, <3>2 DEF Covers
    <3>4. QED
      BY <2>1, <2>2, <2>3, <3>3 DEF Covered
  <2>6. CASE k.t = "account"
    <3>1. k = Account(a)
      BY <1>0, <2>4, <2>6 DEF Account
    <3>2. e[8].body = <<Del(k)>>
      BY <1>2, <2>1, <3>1
    <3>3. Covers(e[8], k)
      BY <1>3, <3>2 DEF Covers
    <3>4. QED
      BY <2>1, <2>2, <2>3, <3>3 DEF Covered
  <2>7. CASE k.t = "counter"
    <3>1. k = Counter(a)
      BY <1>0, <2>4, <2>7 DEF Counter
    <3>2. e[4].body = <<Del(k)>>
      BY <1>2, <2>1, <3>1
    <3>3. Covers(e[4], k)
      BY <1>3, <3>2 DEF Covers
    <3>4. QED
      BY <2>1, <2>2, <2>3, <3>3 DEF Covered
  <2>8. CASE k.t = "connection"
    <3>1. Covers(e[3], k)
      BY <1>2, <2>1, <2>8 DEF Covers, Finds
    <3>2. QED
      BY <2>1, <2>2, <2>3, <3>1 DEF Covered
  <2>9. CASE k.t \in {"message", "archive", "sent"}
    <3>1. Covers(e[5], k) \/ Covers(e[6], k) \/ Covers(e[7], k)
      BY <1>2, <2>1, <2>9 DEF Covers, Finds
    <3>2. QED
      BY <2>1, <2>2, <2>3, <3>1 DEF Covered
  <2>10. QED
    BY <1>0, <2>4, <2>5, <2>6, <2>7, <2>8, <2>9
<1>6. CASE q = "forget" /\ k.t = "connection"
  <2> DEFINE ks == SetToSeq(Found("forget", a))
             b == Forget(ks)
  <2>1. PICK i \in DOMAIN ks : ks[i] = k
    BY <1>4, <1>6, TablesAre
  <2>2. ks \in Seq(KeysOf("connection", a))
    BY FoundIs, TablesAre
  <2> HIDE DEF ks
  <2>3. 2 * i \in DOMAIN b /\ b[2 * i] = Del(k)
    BY <2>1, <2>2, ForgetIs
  <2>4. Expand(q, a) = <<Loose(b)>>
    BY <1>6, Expansions DEF ks
  <2> HIDE DEF b
  <2>5. Covers(Loose(b), k)
    BY <1>2, <2>3 DEF Covers
  <2>6. QED
    BY <1>3, <2>4, <2>5 DEF Covered
<1>7. CASE q = k.t /\ k.t \in {"message", "archive"}
  <2> DEFINE ks == SetToSeq(Found(q, a))
  <2>1. PICK i \in DOMAIN ks : ks[i] = k
    BY <1>4, <1>7, TablesAre
  <2>2. Expand(q, a) = DeleteRows(q, a)
    BY <1>7, Expansions
  <2>3. DeleteRows(q, a) = [j \in DOMAIN ks |-> Series(None, <<Del(ks[j])>>, FALSE, a, Seen(ks[j]), TRUE)]
    BY DEF DeleteRows
  <2> HIDE DEF ks
  <2>4. i \in DOMAIN DeleteRows(q, a) /\ DeleteRows(q, a)[i] = Series(None, <<Del(k)>>, FALSE, a, Seen(k), TRUE)
    BY <2>1, <2>3
  <2>5. DeleteRows(q, a)[i].body = <<Del(k)>>
    BY <2>4 DEF Series
  <2>6. Covers(DeleteRows(q, a)[i], k)
    BY <1>3, <2>5 DEF Covers
  <2>7. QED
    BY <2>2, <2>4, <2>6 DEF Covered
<1>8. CASE q = "sent" /\ k.t = "sent"
  <2> DEFINE ks == SetToSeq(Found("sent", a))
             b == DelRows(ks)
  <2>1. PICK i \in DOMAIN ks : ks[i] = k
    BY <1>4, <1>8, TablesAre
  <2> HIDE DEF ks
  <2>2. i \in DOMAIN b /\ b[i] = Del(k)
    BY <2>1 DEF DelRows
  <2>3. Expand(q, a) = <<Loose(b)>>
    BY <1>8, Expansions DEF ks
  <2> HIDE DEF b
  <2>4. Covers(Loose(b), k)
    BY <1>2, <2>2 DEF Covers
  <2>5. QED
    BY <1>3, <2>3, <2>4 DEF Covered
<1>9. QED
  BY <1>5, <1>6, <1>7, <1>8 DEF Finds

(* What is not partial was not so before, and a query has returned all it was for. *)
LEMMA AllFound ==
    ASSUME NEW r \in Requests, Advances(r), ~partial'
    PROVE  /\ ~partial
           /\ RunQuery(r) => Found(Current(r).query, Current(r).id) = Matching(Current(r).query, Current(r).id)
<1>1. CASE RunQuery(r)
  <2>1. partial' = (partial \/ Found(Current(r).query, Current(r).id) # Matching(Current(r).query, Current(r).id))
    BY <1>1 DEF RunQuery
  <2>2. QED
    BY <2>1
<1>2. CASE ~RunQuery(r)
  <2>1. partial' = partial
    BY <1>2 DEF Advances, Execute, Fail, NothingToDo, FailQuery, ReadCache, CountUnread, StoreCount, Crash
  <2>2. QED
    BY <1>2, <2>1
<1>3. QED
  BY <1>1, <1>2

(* A row that is there after a step of the deletion is still to be found or removed. *)
LEMMA GoneStep ==
    ASSUME TypeInv, OrderInv, PlainInv, NEW r \in Requests, Advances(r), mishaps' = mishaps,
           ~partial', request[r].op = "deleteAccount", NEW k \in Keys, OwnRow(k, request[r].id),
           rows'[k] # "no", rows[k] # "no" => Covered(request[r].groups, k)
    PROVE  \/ request'[r] = NoRequest /\ ~last'.ok
           \/ request'[r] # NoRequest /\ Covered(request'[r].groups, k)
<1> DEFINE gs == request[r].groups
           s == Head(Current(r).body)
           u == Expand(Current(r).query, request[r].id)
           e == u \o Others(r)
           n == request'[r].groups
           Goal == \/ request'[r] = NoRequest /\ ~last'.ok
                   \/ request'[r] # NoRequest /\ Covered(n, k)
<1>0. RequestTypeOK /\ ShapeInv /\ DataTypeOK
  BY TypeIs
<1>1. UnderWay(r)
  BY <1>0, AdvanceGoes
<1>2. /\ gs \in Seq(Groups) /\ gs # <<>> /\ Current(r) = gs[1] /\ 1 \in DOMAIN gs /\ Others(r) \in Seq(Groups)
      /\ Current(r) = Head(gs) /\ GroupOf(request[r].op, request[r].id, request[r].x, Current(r)) /\ request[r].id \in Accounts
      /\ Others(r) = Tail(gs)
  BY <1>0, <1>1, UnderWayIs DEF ShapeInv, Shaped, ShapedAs, Current, Others
<1>3. ASSUME Statement(r), Write(s) PROVE rows[k] # "no" /\ s # Del(k)
  <2>1. Erasure(request[r].id, s) /\ s \in Statements
    BY <1>0, <1>3, EraseHead, StatementIs
  <2> HIDE DEF s
  <2>2. /\ rows[k] = "no" => rows'[k] = "no"
        /\ s = Del(k) => rows'[k] = "no"
    BY <1>0, <1>2, <1>3, <2>1, EraseRemoves
  <2>3. QED
    BY <2>2
<1>4. \/ Current(r).query = "account" /\ request'[r] = NoRequest /\ ~last'.ok /\ rows' = rows
      \/ /\ RunQuery(r) /\ rows' = rows /\ Current(r).body = <<>>
         /\ (e = <<>> /\ request'[r] = NoRequest) \/ (request'[r] # NoRequest /\ n = e)
      \/ /\ rows' = rows /\ Current(r).query = None /\ Current(r).body = <<>>
         /\ (Others(r) = <<>> /\ request'[r] = NoRequest) \/ (request'[r] # NoRequest /\ n = Others(r))
      \/ /\ Statement(r) /\ Write(s) /\ Len(Current(r).body) = 1
         /\ (Others(r) = <<>> /\ request'[r] = NoRequest) \/ (request'[r] # NoRequest /\ n = Others(r))
      \/ /\ Statement(r) /\ Write(s) /\ Len(Current(r).body) # 1
         /\ request'[r] # NoRequest /\ n = Popped(gs)
  BY CalmSteps
<1> HIDE DEF gs, s, u, e, n
<1>5. rows[k] # "no"
  BY <1>3, <1>4
<1>6. Covered(gs, k)
  BY <1>5 DEF gs
<1>7. /\ DOMAIN gs = 1..Len(gs) /\ DOMAIN Others(r) = 1..(Len(gs) - 1) /\ Len(gs) \in Nat
      /\ \A i \in DOMAIN Tail(gs) : i + 1 \in DOMAIN gs /\ Tail(gs)[i] = gs[i + 1]
  BY <1>2, TailIs
<1>8. Covers(Current(r), k) \/ Covered(Others(r), k)
  <2>1. PICK i \in DOMAIN gs : Covers(gs[i], k)
    BY <1>6 DEF Covered
  <2>2. CASE i = 1
    BY <1>2, <2>1, <2>2
  <2>3. CASE i # 1
    <3>1. i - 1 \in DOMAIN Others(r) /\ i - 1 + 1 = i
      BY <1>7, <2>3
    <3>2. Others(r)[i - 1] = gs[i]
      BY <1>2, <1>7, <3>1
    <3>3. QED
      BY <2>1, <3>1, <3>2 DEF Covered
  <2>4. QED
    BY <2>2, <2>3
<1>9. ~Covered(<<>>, k)
  BY DEF Covered
<1>10. Finds(None, k) = FALSE
  <2>1. k.t # None
    BY KeyForms DEF None
  <2>2. QED
    BY <2>1 DEF Finds, None
<1>11. (Current(r).query = None /\ Current(r).body = <<>>) => Covered(Others(r), k)
  BY <1>8, <1>10 DEF Covers
<1>12. CASE /\ RunQuery(r) /\ rows' = rows /\ Current(r).body = <<>>
            /\ (e = <<>> /\ request'[r] = NoRequest) \/ (request'[r] # NoRequest /\ n = e)
  <2>1. u \in Seq(Groups) /\ QueryOf("deleteAccount", Current(r).query)
        /\ Found(Current(r).query, request[r].id) = Matching(Current(r).query, request[r].id)
    <3>1. u \in Seq(Groups) /\ QueryOf("deleteAccount", Current(r).query) /\ Current(r).id = request[r].id
      BY <1>0, <1>12, RunQueryGoes DEF u
    <3>2. Found(Current(r).query, Current(r).id) = Matching(Current(r).query, Current(r).id)
      BY <1>12, AllFound
    <3>3. QED
      BY <3>1, <3>2
  <2>2. Covered(e, k)
    <3>1. /\ \A i \in DOMAIN u : i \in DOMAIN e /\ e[i] = u[i]
          /\ \A i \in DOMAIN Others(r) : i + Len(u) \in DOMAIN e /\ e[i + Len(u)] = Others(r)[i]
      BY <1>2, <2>1, JoinIs DEF e
    <3>2. CASE Covered(Others(r), k)
      BY <3>1, <3>2 DEF Covered
    <3>3. CASE Covers(Current(r), k)
      <4>1. Finds(Current(r).query, k)
        BY <1>12, <3>3 DEF Covers
      <4>2. Covered(u, k)
        BY <1>2, <1>5, <2>1, <4>1, ExpandCovers DEF u
      <4>3. QED
        BY <3>1, <4>2 DEF Covered
    <3>4. QED
      BY <1>8, <3>2, <3>3
  <2>3. QED
    BY <1>9, <1>12, <2>2 DEF n
<1>13. ASSUME Statement(r) PROVE Current(r).query = None /\ Current(r).body # <<>> /\ Current(r).body \in Seq(Statements)
  BY <1>0, <1>13, StatementIs
<1>14. CASE /\ Statement(r) /\ Write(s) /\ Len(Current(r).body) = 1
            /\ (Others(r) = <<>> /\ request'[r] = NoRequest) \/ (request'[r] # NoRequest /\ n = Others(r))
  <2> DEFINE b == Current(r).body
  <2>1. s # Del(k) /\ s = b[1] /\ DOMAIN b = 1..1
    BY <1>3, <1>13, <1>14, TailIs DEF s
  <2>2. ~\E j \in DOMAIN b : b[j] = Del(k)
    BY <2>1
  <2>3. ~Covers(Current(r), k)
    BY <1>10, <1>13, <1>14, <2>2 DEF Covers
  <2>4. QED
    BY <1>8, <1>9, <1>14, <2>3 DEF n
<1>15. CASE /\ Statement(r) /\ Write(s) /\ Len(Current(r).body) # 1
            /\ request'[r] # NoRequest /\ n = Popped(gs)
  <2>1. Head(gs).body # <<>>
    BY <1>2, <1>13, <1>15
  <2>2. /\ DOMAIN Popped(gs) = DOMAIN gs /\ Head(Popped(gs)) = Popped(gs)[1] /\ Head(Popped(gs)).body = Tail(Head(gs).body)
        /\ \A j \in DOMAIN gs : j # 1 => Popped(gs)[j] = gs[j]
    BY <1>2, <2>1, PoppedIs
  <2>3. PICK i \in DOMAIN gs : Covers(gs[i], k)
    BY <1>6 DEF Covered
  <2>4. CASE i # 1
    BY <1>15, <2>2, <2>3, <2>4 DEF Covered, n
  <2>5. CASE i = 1
    <3> DEFINE b == Current(r).body
    <3>1. Covers(Current(r), k)
      BY <1>2, <2>3, <2>5
    <3>2. PICK j \in DOMAIN b : b[j] = Del(k)
      BY <1>10, <1>13, <1>15, <3>1 DEF Covers
    <3>3. b \in Seq(Statements) /\ b # <<>> /\ s = Head(b)
      BY <1>13, <1>15 DEF s
    <3> HIDE DEF b
    <3>4. s = b[1] /\ s # Del(k)
      BY <1>3, <1>15, <3>3
    <3>5. /\ DOMAIN b = 1..Len(b) /\ DOMAIN Tail(b) = 1..(Len(b) - 1) /\ Len(b) \in Nat
          /\ \A h \in DOMAIN Tail(b) : h + 1 \in DOMAIN b /\ Tail(b)[h] = b[h + 1]
      BY <3>3, TailIs
    <3>6. j # 1
      BY <3>2, <3>4
    <3>7. j - 1 \in DOMAIN Tail(b) /\ j - 1 + 1 = j
      BY <3>5, <3>6
    <3>8. Tail(b)[j - 1] = Del(k)
      BY <3>2, <3>5, <3>7
    <3>9. Popped(gs)[1].body = Tail(b)
      BY <1>2, <2>2 DEF b
    <3>10. Covers(Popped(gs)[1], k)
      BY <3>7, <3>8, <3>9 DEF Covers
    <3>11. QED
      BY <1>2, <1>15, <2>2, <3>10 DEF Covered, n
  <2>6. QED
    BY <2>4, <2>5
<1>16. CASE Current(r).query = "account" /\ request'[r] = NoRequest /\ ~last'.ok /\ rows' = rows
  BY <1>16
<1>17. CASE /\ rows' = rows /\ Current(r).query = None /\ Current(r).body = <<>>
            /\ (Others(r) = <<>> /\ request'[r] = NoRequest) \/ (request'[r] # NoRequest /\ n = Others(r))
  <2>1. Covered(Others(r), k)
    BY <1>11, <1>17
  <2>2. request'[r] # NoRequest /\ n = Others(r)
    BY <1>9, <1>17, <2>1
  <2>3. QED
    BY <2>1, <2>2 DEF n
<1>18. QED
  BY <1>4, <1>12, <1>14, <1>15, <1>16, <1>17

(* No mishap so far, and none in a step that leaves none. *)
LEMMA CalmBack ==
    ASSUME TypeInv, NEW r \in Requests, Advances(r), mishaps' = Mishaps
    PROVE  mishaps = Mishaps /\ mishaps' = mishaps /\ torn' = torn
<1>1. mishaps \in Int /\ Mishaps \in Int /\ mishaps <= Mishaps
  BY DataAssumption, TypeIs DEF DataTypeOK
<1>2. mishaps' # mishaps - 1
  BY <1>1
<1>3. mishaps' = mishaps /\ torn' = torn
  BY <1>2, MishapsAre
<1>4. QED
  BY <1>3

LEMMA GoneAdvance ==
    ASSUME TypeInv, AloneInv, OrderInv, PlainInv, GoneInv, NEW r \in Requests, Advances(r)
    PROVE  GoneInv'
<1>0. RequestTypeOK /\ ShapeInv
  BY TypeIs
<1>1. UnderWay(r) /\ Goings(r)
  BY <1>0, AdvanceGoes
<1>2. ASSUME mishaps' = Mishaps, ~partial', request[r].op = "deleteAccount", request[r].clean,
             NEW k \in Keys, OwnRow(k, request[r].id), rows'[k] # "no"
      PROVE  \/ request'[r] = NoRequest /\ ~last'.ok
             \/ request'[r] # NoRequest /\ Covered(request'[r].groups, k)
  <2>1. mishaps = Mishaps /\ mishaps' = mishaps
    BY <1>2, CalmBack
  <2>2. rows[k] # "no" => Covered(request[r].groups, k)
    BY <1>2, <2>1, AllFound DEF GoneInv
  <2>3. QED
    BY <1>2, <2>1, <2>2, GoneStep
<1>3. ASSUME NEW p \in Requests, request'[p].op = "deleteAccount", request'[p].clean, mishaps' = Mishaps, ~partial',
             NEW k \in Keys, OwnRow(k, request'[p].id), rows'[k] # "no"
      PROVE  Covered(request'[p].groups, k)
  <2>1. UnderWay(p)'
    BY <1>3 DEF UnderWay
  <2>2. p = r /\ request[r].clean
    BY <1>0, <1>3, <2>1, AloneIsMe
  <2>3. request'[r] # NoRequest
    BY <1>3, <2>2, OpsAre
  <2>4. request[r].op = "deleteAccount" /\ request'[r].id = request[r].id
    BY <1>0, <1>1, <1>3, <2>2, <2>3, GoingsAre
  <2>5. QED
    BY <1>2, <1>3, <2>2, <2>3, <2>4
<1>4. ASSUME last'.op = "deleteAccount", last'.ok, last'.clean, mishaps' = Mishaps, ~partial',
             NEW k \in Keys
      PROVE  last'.id \in Accounts /\ (OwnRow(k, last'.id) => rows'[k] = "no")
  <2>1. Replies(r) /\ request[r].clean /\ last'.op = request[r].op /\ last'.id = request[r].id
    BY <1>0, <1>4, LastIsMine
  <2>2. request'[r] = NoRequest
    BY <1>0, <2>1, QuitsWell DEF Replies
  <2>3. request[r].id \in Accounts
    BY <1>0, <1>1, UnderWayIs
  <2>4. QED
    BY <1>2, <1>4, <2>1, <2>2, <2>3
<1>5. \E k \in Keys : TRUE
  BY <1>0, <1>1, UnderWayIs, KeysAre
<1>6. QED
  BY <1>3, <1>4, <1>5 DEF GoneInv, OwnRow

LEMMA GoneArrive ==
    ASSUME TypeInv, GoneInv, NEW r \in Requests, Arrives(r)
    PROVE  GoneInv'
<1>0. RequestTypeOK
  BY TypeIs
<1>1. PICK op \in Ops, a \in Accounts, x \in Accounts \cup Messages \cup {None, "message", "archive"} : \E gs :
              Start(r, op, a, x, gs) /\ Begins(op, a, x, gs)
  BY ArrivesIs
<1>2. PICK gs : Start(r, op, a, x, gs) /\ Begins(op, a, x, gs)
  BY <1>1
<1>3. request'[r].op = op /\ request'[r].id = a /\ request'[r].groups = gs /\ last' = NoReply
  BY <1>0, <1>2, StartIs
<1>4. ~last'.ok
  BY <1>3 DEF NoReply
<1>5. \A p \in Requests : p # r => ~request'[p].clean
  BY <1>0, <1>2, StartOthers
<1>6. ASSUME op = "deleteAccount", NEW k \in Keys PROVE Covered(gs, k)
  <2> DEFINE g == Query("account", a)
  <2>1. gs = <<g>>
    BY <1>2, <1>6 DEF Begins
  <2>2. g.query = "account"
    BY DEF Query, Series
  <2> HIDE DEF g
  <2>3. Covers(g, k)
    BY <2>2 DEF Covers, Finds
  <2>4. gs[1] = g /\ 1 \in DOMAIN gs
    BY <2>1, OneIs
  <2>5. QED
    BY <2>3, <2>4 DEF Covered
<1>7. QED
  BY <1>3, <1>4, <1>5, <1>6 DEF GoneInv, OwnRow

LEMMA GoneNext ==
    ASSUME TypeInv, AloneInv, OrderInv, PlainInv, GoneInv, [DataNext]_dataVars
    PROVE  GoneInv'
<1>1. CASE \E r \in Requests : Arrives(r) \/ Advances(r)
  BY <1>1, GoneArrive, GoneAdvance
<1>2. ASSUME NEW b \in Accounts, Evict(b) PROVE GoneInv'
  <2>1. mishaps \in Int /\ Mishaps \in Int /\ mishaps <= Mishaps /\ mishaps' = mishaps - 1
    BY <1>2, DataAssumption, TypeIs DEF DataTypeOK, Evict
  <2>2. mishaps' # Mishaps
    BY <2>1
  <2>3. QED
    BY <2>2 DEF GoneInv
<1>3. CASE UNCHANGED dataVars
  BY <1>3 DEF GoneInv, OwnRow, Covered, Covers, Finds, dataVars
<1>4. QED
  BY <1>1, <1>2, <1>3 DEF DataNext

LEMMA GoneInit ==
    ASSUME DataInit
    PROVE  GoneInv
<1>1. \A r \in Requests : request[r].op = "none"
  BY OpsAre DEF DataInit
<1>2. ~last.ok
  BY DEF DataInit, NoReply
<1>3. QED
  BY <1>1, <1>2 DEF GoneInv

-----------------------------------------------------------------------------
(* What a deletion leaves in other accounts *)

(* A statement of one of the groups. *)
Has(gs, s) == \E i \in DOMAIN gs : \E j \in DOMAIN gs[i].body : gs[i].body[j] = s
Unlinks(gs, h) == Has(gs, Del(Mirror(h))) \/ Has(gs, SoftDel(Mirror(h)))

(* The connection that a request makes. *)
Made(r) == Key("connection", request[r].id, request[r].x)
MakesWell(r) ==
    /\ ~Current(r).doomed
    /\ Len(Current(r).body) = 1 => rows[Made(r)] # "no"
    /\ Current(r).body = <<AddOrUndo(Mirror(Made(r)), Made(r))>> => rows[Mirror(Made(r))] = "no"
ErasesWell(r) ==
    \A h \in Keys : (h.t = "connection" /\ Current(r).body # <<>> /\ Head(Current(r).body) = Del(h)) =>
        rows[Mirror(h)] = "no"

(* As long as no two requests have run at the same time and nothing has failed: a reference without *)
(* its connection is about to be removed, a connection is written before its reference, and a       *)
(* deletion of the account removes the reference before the connection.                             *)
PairsInv ==
    (torn = {} /\ mishaps = Mishaps) =>
        /\ \A h \in Keys : (h.t = "connection" /\ rows[Mirror(h)] # "no" /\ rows[h] = "no") =>
              \E r \in Requests : request[r].op \in {"unmake", "unmakeAll", "deleteAccount"} /\ Unlinks(request[r].groups, h)
        /\ \A r \in Requests : request[r].op = "make" => MakesWell(r)
        /\ \A r \in Requests : request[r].op = "deleteAccount" => ErasesWell(r)

LEMMA MirrorOnce ==
    ASSUME NEW k \in Keys, k.t = "connection", NEW h \in Keys, h.t = "connection"
    PROVE  /\ (Mirror(k) = Mirror(h)) <=> (k = h)
           /\ Mirror(k) # h /\ Mirror(k) \in Keys
<1>1. Mirror(k) = Key("reference", k.x, k.id) /\ k = Key("connection", k.id, k.x) /\ Mirror(k) \in Keys
  BY MirrorIs
<1>2. Mirror(h) = Key("reference", h.x, h.id) /\ h = Key("connection", h.id, h.x)
  BY MirrorIs
<1>3. Mirror(k).t = "reference" /\ Mirror(k).id = k.x /\ Mirror(k).x = k.id /\ Mirror(h).id = h.x /\ Mirror(h).x = h.id
  BY <1>1, <1>2, KeyFields
<1>4. QED
  BY <1>1, <1>2, <1>3

LEMMA HasTail ==
    ASSUME NEW gs \in Seq(Groups), gs # <<>>, NEW s, Has(gs, s)
    PROVE  (\E j \in DOMAIN Head(gs).body : Head(gs).body[j] = s) \/ Has(Tail(gs), s)
<1>1. PICK i \in DOMAIN gs : \E j \in DOMAIN gs[i].body : gs[i].body[j] = s
  BY DEF Has
<1>2. /\ DOMAIN gs = 1..Len(gs) /\ DOMAIN Tail(gs) = 1..(Len(gs) - 1) /\ Len(gs) \in Nat /\ Head(gs) = gs[1]
      /\ \A j \in DOMAIN Tail(gs) : j + 1 \in DOMAIN gs /\ Tail(gs)[j] = gs[j + 1]
  BY TailIs
<1>3. CASE i = 1
  BY <1>1, <1>2, <1>3
<1>4. CASE i # 1
  <2>1. i - 1 \in DOMAIN Tail(gs) /\ i - 1 + 1 = i
    BY <1>2, <1>4
  <2>2. Tail(gs)[i - 1] = gs[i]
    BY <1>2, <2>1
  <2>3. QED
    BY <1>1, <2>1, <2>2 DEF Has
<1>5. QED
  BY <1>3, <1>4

LEMMA HasPopped ==
    ASSUME NEW gs \in Seq(Groups), gs # <<>>, Head(gs).body # <<>>, NEW s, Has(gs, s)
    PROVE  Head(Head(gs).body) = s \/ Has(Popped(gs), s)
<1> DEFINE b == Head(gs).body
<1>1. PICK i \in DOMAIN gs : \E j \in DOMAIN gs[i].body : gs[i].body[j] = s
  BY DEF Has
<1>2. /\ DOMAIN Popped(gs) = DOMAIN gs /\ Popped(gs)[1].body = Tail(b) /\ 1 \in DOMAIN gs
      /\ \A j \in DOMAIN gs : j # 1 => Popped(gs)[j] = gs[j]
      /\ Head(gs) = gs[1] /\ Head(gs) \in Groups
  BY PoppedIs, TailIs
<1>3. CASE i # 1
  BY <1>1, <1>2, <1>3 DEF Has
<1>4. CASE i = 1
  <2>1. b \in Seq(Statements)
    BY <1>2 DEF Groups
  <2>2. PICK j \in DOMAIN b : b[j] = s
    BY <1>1, <1>2, <1>4
  <2>3. b # <<>>
    OBVIOUS
  <2> HIDE DEF b
  <2>4. /\ DOMAIN b = 1..Len(b) /\ DOMAIN Tail(b) = 1..(Len(b) - 1) /\ Len(b) \in Nat /\ Head(b) = b[1]
        /\ \A h \in DOMAIN Tail(b) : h + 1 \in DOMAIN b /\ Tail(b)[h] = b[h + 1]
    BY <2>1, <2>3, TailIs
  <2>5. CASE j = 1
    BY <2>2, <2>4, <2>5 DEF b
  <2>6. CASE j # 1
    <3>1. j - 1 \in DOMAIN Tail(b) /\ j - 1 + 1 = j
      BY <2>4, <2>6
    <3>2. Tail(b)[j - 1] = s
      BY <2>2, <2>4, <3>1
    <3>3. QED
      BY <1>2, <3>1, <3>2 DEF Has
  <2>7. QED
    BY <2>5, <2>6
<1>5. QED
  BY <1>3, <1>4

LEMMA HasJoin ==
    ASSUME NEW u \in Seq(Groups), NEW w \in Seq(Groups), NEW s, Has(w, s)
    PROVE  Has(u \o w, s)
<1>1. PICK i \in DOMAIN w : \E j \in DOMAIN w[i].body : w[i].body[j] = s
  BY DEF Has
<1>2. i + Len(u) \in DOMAIN (u \o w) /\ (u \o w)[i + Len(u)] = w[i]
  BY JoinIs
<1>3. QED
  BY <1>1, <1>2 DEF Has

(* A statement that is left, unless it is the one that was done. *)
LEMMA UnlinksAfter ==
    ASSUME NEW gs \in Seq(Groups), gs # <<>>, NEW h, Unlinks(gs, h)
    PROVE  /\ Head(gs).body = <<>> => Unlinks(Tail(gs), h)
           /\ (Head(gs).body # <<>> /\ Len(Head(gs).body) = 1 /\ Head(Head(gs).body) # Del(Mirror(h))
                 /\ Head(Head(gs).body) # SoftDel(Mirror(h))) => Unlinks(Tail(gs), h)
           /\ (Head(gs).body # <<>> /\ Head(Head(gs).body) # Del(Mirror(h))
                 /\ Head(Head(gs).body) # SoftDel(Mirror(h))) => Unlinks(Popped(gs), h)
<1> DEFINE d == Del(Mirror(h))
           e == SoftDel(Mirror(h))
           b == Head(gs).body
<1>1. Has(gs, d) \/ Has(gs, e)
  BY DEF Unlinks
<1> HIDE DEF d, e
<1>2. \A s : Has(gs, s) => (\E j \in DOMAIN b : b[j] = s) \/ Has(Tail(gs), s)
  BY HasTail
<1>3. \A s : (Has(gs, s) /\ b # <<>>) => Head(b) = s \/ Has(Popped(gs), s)
  BY HasPopped
<1>4. b \in Seq(Statements)
  <2>1. Head(gs) \in Groups
    BY TailIs
  <2>2. QED
    BY <2>1 DEF Groups
<1> HIDE DEF b
<1>5. ASSUME b = <<>> PROVE Has(Tail(gs), d) \/ Has(Tail(gs), e)
  BY <1>1, <1>2, <1>5
<1>6. ASSUME b # <<>>, Len(b) = 1, Head(b) # d, Head(b) # e PROVE Has(Tail(gs), d) \/ Has(Tail(gs), e)
  <2>1. DOMAIN b = 1..1 /\ Head(b) = b[1]
    BY <1>4, <1>6, TailIs
  <2>2. QED
    BY <1>1, <1>2, <1>6, <2>1
<1>7. ASSUME b # <<>>, Head(b) # d, Head(b) # e PROVE Has(Popped(gs), d) \/ Has(Popped(gs), e)
  BY <1>1, <1>3, <1>7
<1>8. QED
  BY <1>5, <1>6, <1>7 DEF Unlinks, b, d, e

LEMMA NothingHas ==
    ASSUME NEW h
    PROVE  ~Unlinks(<<>>, h)
BY DEF Unlinks, Has

(* What the statements of a deletion do to a connection and its reference. *)
LEMMA ClearWrites ==
    ASSUME DataTypeOK, NEW a \in Accounts, NEW s \in Statements, Write(s),
           Erasure(a, s) \/ (\E k \in KeysOf("connection", a) : s = Del(k) \/ s = Del(Mirror(k))),
           NEW h \in Keys, h.t = "connection"
    PROVE  /\ (rows[h] # "no" /\ rows'[h] = "no") => s = Del(h)
           /\ rows[h] = "no" => rows'[h] = "no"
           /\ rows[Mirror(h)] = "no" => rows'[Mirror(h)] = "no"
           /\ (s = Del(Mirror(h)) \/ s = SoftDel(Mirror(h))) => rows'[Mirror(h)] = "no"
<1> DEFINE m == Mirror(h)
<1>1. m \in Keys /\ m # h
  BY MirrorOnce
<1>2. /\ \A k \in Keys : k # s.k => rows'[k] = rows[k]
      /\ s.onto = "all" => rows'[s.k] = s.v
      /\ (s.onto = "present" /\ rows[s.k] = "no") => rows'[s.k] = rows[s.k]
  BY WriteIs
<1>3. \A k : /\ Del(k).k = k /\ Del(k).onto = "all" /\ Del(k).v = "no"
             /\ SoftDel(k).k = k /\ SoftDel(k).onto = "all" /\ SoftDel(k).v = "no"
             /\ Update(k, "deleted").onto = "present" /\ Update(k, "deleted").k = k
  BY DEF Del, SoftDel, Update, Sql
<1>4. \A k \in KeysOf("connection", a) : k \in Keys /\ k.t = "connection"
  BY DEF KeysOf
<1>5. \A k \in KeysOf("connection", a) : Mirror(k) # h
  BY <1>4, MirrorOnce
<1>6. Account(a) # h
  BY OtherTables
<1> HIDE DEF m
<1>7. (s.onto = "all" /\ s.v = "no") \/ s.onto = "present"
  BY <1>3 DEF Erasure
<1>8. s.k = h => s = Del(h)
  BY <1>3, <1>5, <1>6 DEF Erasure
<1>9. rows[m] = "no" => rows'[m] = "no"
  BY <1>1, <1>2, <1>7
<1>10. rows[h] = "no" => rows'[h] = "no"
  BY <1>2, <1>7
<1>11. (rows[h] # "no" /\ rows'[h] = "no") => s = Del(h)
  BY <1>2, <1>8
<1>12. (s = Del(m) \/ s = SoftDel(m)) => rows'[m] = "no"
  BY <1>2, <1>3
<1>13. QED
  BY <1>9, <1>10, <1>11, <1>12 DEF m

(* What is found is not removed before its reference. *)
LEMMA ExpandFirst ==
    ASSUME NEW a \in Accounts, NEW q, QueryOf("deleteAccount", q), NEW h \in Keys, h.t = "connection",
           1 \in DOMAIN Expand(q, a), 1 \in DOMAIN Expand(q, a)[1].body
    PROVE  Expand(q, a)[1].body[1] # Del(h)
<1>1. q \in {"account", "forget", "message", "archive", "sent"}
  BY DEF QueryOf
<1>2. \A t : \A k \in KeysOf(t, a) : k \in Keys /\ k.t = t
  BY DEF KeysOf
<1>3. \A s : <<s>>[1] = s
  OBVIOUS
<1>4. \A b : Loose(b).body = b /\ Group(b).body = b
  BY DEF Loose, Group, Series
<1>5. CASE q = "account"
  <2>1. Expand(q, a)[1] = Group(<<Del(Auth(a))>>)
    BY <1>5, EraseAccountIs, Expansions
  <2>2. Expand(q, a)[1].body[1] = Del(Auth(a))
    BY <1>3, <1>4, <2>1
  <2>3. Auth(a) # h
    BY OtherTables
  <2>4. QED
    BY <2>2, <2>3, DelIsOne
<1>6. CASE q = "forget"
  <2> DEFINE ks == SetToSeq(Found("forget", a))
             b == Forget(ks)
  <2>1. ks \in Seq(KeysOf("connection", a))
    BY FoundIs, TablesAre
  <2>2. Expand(q, a) = <<Loose(b)>>
    BY <1>6, Expansions
  <2>3. Expand(q, a)[1].body = b
    BY <1>3, <1>4, <2>2
  <2> HIDE DEF ks
  <2>4. \A j \in DOMAIN b :
           \/ \E k \in KeysOf("connection", a) : b[j] = SoftDel(Mirror(k))
           \/ j > 1
    BY <2>1, ForgetIs
  <2> HIDE DEF b
  <2>5. PICK k \in KeysOf("connection", a) : b[1] = SoftDel(Mirror(k))
    BY <2>3, <2>4
  <2>6. QED
    BY <2>3, <2>5, DelIsOne
<1>7. CASE q = "message" \/ q = "archive"
  <2>0. Expand(q, a) = DeleteRows(q, a)
    BY <1>7, Expansions
  <2>1. PICK k \in KeysOf(Table(q), a) : Expand(q, a)[1].body = <<Del(k)>>
    BY <2>0, DeleteRowsAre
  <2>2. k # h
    BY <1>2, <1>7, TablesAre
  <2>3. QED
    BY <1>3, <2>1, <2>2, DelIsOne
<1>8. CASE q = "sent"
  <2> DEFINE ks == SetToSeq(Found("sent", a))
             b == DelRows(ks)
  <2>1. ks \in Seq(KeysOf("sent", a))
    BY FoundIs, TablesAre
  <2>2. Expand(q, a) = <<Loose(b)>>
    BY <1>8, Expansions
  <2>3. Expand(q, a)[1].body = b
    BY <1>3, <1>4, <2>2
  <2> HIDE DEF ks
  <2>4. \A j \in DOMAIN b : ks[j] \in KeysOf("sent", a) /\ b[j] = Del(ks[j])
    BY <2>1, DelRowsAre
  <2>5. ks[1] # h /\ b[1] = Del(ks[1])
    BY <1>2, <2>3, <2>4
  <2> HIDE DEF b
  <2>6. QED
    BY <2>3, <2>5, DelIsOne
<1>9. QED
  BY <1>1, <1>5, <1>6, <1>7, <1>8

(* The state before a step that leaves no mishap and no two requests at the same time. *)
LEMMA QuietBack ==
    ASSUME TypeInv, AloneInv, PairsInv, NEW r \in Requests, Advances(r), torn' = {}, mishaps' = Mishaps
    PROVE  /\ torn = {} /\ mishaps = Mishaps /\ mishaps' = mishaps /\ UnderWay(r)
           /\ \A q \in Requests : q # r => ~UnderWay(q)
           /\ \A h \in Keys : (h.t = "connection" /\ rows[Mirror(h)] # "no" /\ rows[h] = "no") =>
                 request[r].op \in {"unmake", "unmakeAll", "deleteAccount"} /\ Unlinks(request[r].groups, h)
           /\ request[r].op = "make" => MakesWell(r)
           /\ request[r].op = "deleteAccount" => ErasesWell(r)
<1>1. torn = {} /\ mishaps = Mishaps /\ mishaps' = mishaps
  BY CalmBack
<1>2. UnderWay(r)
  BY TypeIs, AdvanceGoes
<1>3. \A q \in Requests : q # r => ~UnderWay(q)
  BY <1>1, <1>2 DEF AloneInv
<1>4. \A q \in Requests : request[q].op \in {"unmake", "unmakeAll", "deleteAccount"} => q = r
  BY <1>3 DEF UnderWay
<1>5. QED
  BY <1>1, <1>2, <1>3, <1>4 DEF PairsInv

(* A reference that is left without its connection is still to be removed by the deletion. *)
LEMMA ClearPairs ==
    ASSUME TypeInv, OrderInv, PlainInv, NEW r \in Requests, Advances(r), mishaps' = mishaps,
           request[r].op \in {"deleteAccount", "unmakeAll"},
           request[r].op = "deleteAccount" => ErasesWell(r),
           NEW h \in Keys, h.t = "connection", rows'[Mirror(h)] # "no", rows'[h] = "no",
           (rows[Mirror(h)] # "no" /\ rows[h] = "no") => Unlinks(request[r].groups, h)
    PROVE  request'[r] # NoRequest /\ Unlinks(request'[r].groups, h)
<1> DEFINE gs == request[r].groups
           s == Head(Current(r).body)
           u == Expand(Current(r).query, request[r].id)
           e == u \o Others(r)
           n == request'[r].groups
           Goal == request'[r] # NoRequest /\ Unlinks(n, h)
<1>0. RequestTypeOK /\ ShapeInv /\ DataTypeOK
  BY TypeIs
<1>1. UnderWay(r)
  BY <1>0, AdvanceGoes
<1>2. /\ gs \in Seq(Groups) /\ gs # <<>> /\ Current(r) = Head(gs) /\ Others(r) = Tail(gs) /\ Others(r) \in Seq(Groups)
      /\ request[r].id \in Accounts
  BY <1>0, <1>1, UnderWayIs DEF Current, Others
<1>3. \/ Current(r).query = "account" /\ request'[r] = NoRequest /\ ~last'.ok /\ rows' = rows
      \/ /\ RunQuery(r) /\ rows' = rows /\ Current(r).body = <<>>
         /\ (e = <<>> /\ request'[r] = NoRequest) \/ (request'[r] # NoRequest /\ n = e)
      \/ /\ rows' = rows /\ Current(r).query = None /\ Current(r).body = <<>>
         /\ (Others(r) = <<>> /\ request'[r] = NoRequest) \/ (request'[r] # NoRequest /\ n = Others(r))
      \/ /\ Statement(r) /\ Write(s) /\ Len(Current(r).body) = 1
         /\ (Others(r) = <<>> /\ request'[r] = NoRequest) \/ (request'[r] # NoRequest /\ n = Others(r))
      \/ /\ Statement(r) /\ Write(s) /\ Len(Current(r).body) # 1
         /\ request'[r] # NoRequest /\ n = Popped(gs)
  BY CalmSteps
<1> HIDE DEF gs, s, u, e, n, Goal
<1>4. ASSUME Unlinks(gs, h)
      PROVE  /\ Current(r).body = <<>> => Unlinks(Others(r), h)
             /\ (Current(r).body # <<>> /\ Len(Current(r).body) = 1 /\ s # Del(Mirror(h)) /\ s # SoftDel(Mirror(h))) =>
                   Unlinks(Others(r), h)
             /\ (Current(r).body # <<>> /\ s # Del(Mirror(h)) /\ s # SoftDel(Mirror(h))) => Unlinks(Popped(gs), h)
  BY <1>2, <1>4, UnlinksAfter DEF s
<1>5. ~Unlinks(<<>>, h)
  BY NothingHas
<1>6. ASSUME rows' = rows PROVE Unlinks(gs, h)
  BY <1>6 DEF gs
<1>7. CASE Current(r).query = "account" /\ request'[r] = NoRequest /\ ~last'.ok /\ rows' = rows
  <2>1. request[r].op = "deleteAccount"
    <3>1. GroupOf(request[r].op, request[r].id, request[r].x, Current(r))
      BY <1>0, <1>1, UnderWayIs DEF ShapeInv, Shaped, ShapedAs
    <3>2. QueryOf(request[r].op, "account")
      BY <1>7, <3>1 DEF GroupOf, None
    <3>3. QED
      BY <3>2 DEF QueryOf
  <2>2. Others(r) = <<>> /\ Current(r).body = <<>>
    BY <1>0, <1>1, <1>7, <2>1, EraseAhead
  <2>3. QED
    BY <1>4, <1>5, <1>6, <1>7, <2>2
<1>8. CASE /\ RunQuery(r) /\ rows' = rows /\ Current(r).body = <<>>
           /\ (e = <<>> /\ request'[r] = NoRequest) \/ (request'[r] # NoRequest /\ n = e)
  <2>1. u \in Seq(Groups)
    BY <1>0, <1>8, RunQueryGoes DEF u
  <2>2. Unlinks(Others(r), h)
    BY <1>4, <1>6, <1>8
  <2>3. Unlinks(e, h)
    BY <1>2, <2>1, <2>2, HasJoin DEF Unlinks, e
  <2>4. QED
    BY <1>5, <1>8, <2>3 DEF n
<1>9. CASE /\ rows' = rows /\ Current(r).query = None /\ Current(r).body = <<>>
           /\ (Others(r) = <<>> /\ request'[r] = NoRequest) \/ (request'[r] # NoRequest /\ n = Others(r))
  <2>1. Unlinks(Others(r), h)
    BY <1>4, <1>6, <1>9
  <2>2. QED
    BY <1>5, <1>9, <2>1 DEF n
<1>10. ASSUME Statement(r), Write(s)
       PROVE  /\ rows[h] # "no" => (s = Del(h) /\ request[r].op = "unmakeAll")
              /\ rows[h] = "no" => Unlinks(gs, h) /\ s # Del(Mirror(h)) /\ s # SoftDel(Mirror(h))
              /\ Current(r).body # <<>>
  <2>1. s \in Statements /\ Current(r).body # <<>>
    BY <1>0, <1>10, StatementIs DEF s
  <2>2. Erasure(request[r].id, s) \/ (\E k \in KeysOf("connection", request[r].id) : s = Del(k) \/ s = Del(Mirror(k)))
    BY <1>0, <1>10, EraseHead, UnlinkHead DEF s
  <2>3. /\ (rows[h] # "no" /\ rows'[h] = "no") => s = Del(h)
        /\ rows[Mirror(h)] = "no" => rows'[Mirror(h)] = "no"
        /\ (s = Del(Mirror(h)) \/ s = SoftDel(Mirror(h))) => rows'[Mirror(h)] = "no"
    BY <1>0, <1>2, <1>10, <2>1, <2>2, ClearWrites
  <2>4. (request[r].op = "deleteAccount" /\ s = Del(h)) => rows[Mirror(h)] = "no"
    BY <2>1 DEF ErasesWell, s
  <2>5. rows[h] # "no" => (s = Del(h) /\ request[r].op = "unmakeAll")
    BY <2>3, <2>4
  <2>6. rows[h] = "no" => Unlinks(gs, h) /\ s # Del(Mirror(h)) /\ s # SoftDel(Mirror(h))
    BY <2>3 DEF gs
  <2>7. QED
    BY <2>1, <2>5, <2>6
<1>11. ASSUME Statement(r), Write(s), rows[h] # "no" PROVE Current(r).body = <<Del(h), Del(Mirror(h))>>
  <2>1. s = Del(h) /\ request[r].op = "unmakeAll"
    BY <1>10, <1>11
  <2>2. PICK k \in KeysOf("connection", request[r].id) : UnlinkBody(k, Current(r).body)
    BY <1>0, <1>11, <2>1, UnlinkHead
  <2>3. Current(r).body = <<Del(k), Del(Mirror(k))>> \/ Current(r).body = <<Del(Mirror(k))>>
    BY <2>2 DEF UnlinkBody, Unlink
  <2>4. k \in Keys /\ k.t = "connection"
    BY DEF KeysOf
  <2>5. \A a, b : Head(<<a, b>>) = a /\ Head(<<b>>) = b
    OBVIOUS
  <2>6. Mirror(k) # h
    BY <2>4, MirrorOnce
  <2>7. s # Del(Mirror(k))
    BY <2>1, <2>6, DelIsOne
  <2>8. Current(r).body = <<Del(k), Del(Mirror(k))>> /\ s = Del(k)
    BY <2>3, <2>5, <2>7 DEF s
  <2>9. k = h
    BY <2>1, <2>8, DelIsOne
  <2>10. QED
    BY <2>8, <2>9
<1>12. \A a, b : Len(<<a, b>>) = 2 /\ Tail(<<a, b>>) = <<b>> /\ <<b>>[1] = b /\ 1 \in DOMAIN <<b>>
  OBVIOUS
<1>13. CASE /\ Statement(r) /\ Write(s) /\ Len(Current(r).body) = 1
            /\ (Others(r) = <<>> /\ request'[r] = NoRequest) \/ (request'[r] # NoRequest /\ n = Others(r))
  <2>1. rows[h] = "no"
    <3>1. rows[h] # "no" => Len(Current(r).body) = 2
      BY <1>11, <1>12, <1>13
    <3>2. QED
      BY <1>13, <3>1
  <2>2. Unlinks(Others(r), h)
    BY <1>4, <1>10, <1>13, <2>1
  <2>3. QED
    BY <1>5, <1>13, <2>2 DEF n
<1>14. CASE /\ Statement(r) /\ Write(s) /\ Len(Current(r).body) # 1
            /\ request'[r] # NoRequest /\ n = Popped(gs)
  <2>1. CASE rows[h] = "no"
    <3>1. Unlinks(Popped(gs), h)
      BY <1>4, <1>10, <1>14, <2>1
    <3>2. QED
      BY <1>14, <3>1 DEF n
  <2>2. CASE rows[h] # "no"
    <3> DEFINE m == Del(Mirror(h))
    <3>1. Current(r).body = <<Del(h), m>>
      BY <1>11, <1>14, <2>2
    <3>2. Head(gs).body # <<>>
      BY <1>2, <1>10, <1>14
    <3>3. Popped(gs)[1].body = Tail(Head(gs).body) /\ 1 \in DOMAIN Popped(gs)
      BY <1>2, <3>2, PoppedIs, TailIs
    <3> HIDE DEF m
    <3>4. Popped(gs)[1].body = <<m>>
      <4>1. Head(gs).body = <<Del(h), m>>
        BY <1>2, <3>1
      <4>2. Tail(<<Del(h), m>>) = <<m>>
        BY <1>12
      <4>3. QED
        BY <3>3, <4>1, <4>2
    <3>5. 1 \in DOMAIN Popped(gs)[1].body /\ Popped(gs)[1].body[1] = m
      BY <1>12, <3>4
    <3>6. Has(Popped(gs), m)
      BY <3>3, <3>5 DEF Has
    <3>7. Unlinks(Popped(gs), h)
      BY <3>6 DEF Unlinks, m
    <3>8. QED
      BY <1>14, <3>7 DEF n
  <2>3. QED
    BY <2>1, <2>2
<1>15. QED
  BY <1>3, <1>7, <1>8, <1>9, <1>13, <1>14

(* A deletion that comes to the row of a connection has just removed its reference. *)
LEMMA EraseFirst ==
    ASSUME TypeInv, OrderInv, PlainInv, NEW r \in Requests, Advances(r), mishaps' = mishaps,
           request[r].op = "deleteAccount", request'[r] # NoRequest,
           NEW h \in Keys, h.t = "connection", NEW g, g = Head(request'[r].groups), g.body # <<>>, Head(g.body) = Del(h)
    PROVE  rows'[Mirror(h)] = "no"
<1> DEFINE gs == request[r].groups
           a == request[r].id
           s == Head(Current(r).body)
           u == Expand(Current(r).query, a)
           e == u \o Others(r)
           n == request'[r].groups
<1>0. RequestTypeOK /\ ShapeInv /\ DataTypeOK
  BY TypeIs
<1>1. UnderWay(r) /\ Goings(r)
  BY <1>0, AdvanceGoes
<1>2. /\ gs \in Seq(Groups) /\ gs # <<>> /\ Current(r) = Head(gs) /\ Others(r) = Tail(gs) /\ Others(r) \in Seq(Groups)
      /\ a \in Accounts /\ Current(r).body \in Seq(Statements) /\ ErasureOrder(a, gs)
  BY <1>0, <1>1, UnderWayIs DEF Current, Others, ShapeInv, Shaped, ShapedAs
<1>3. n \in Seq(Groups) /\ n # <<>> /\ GroupOf("deleteAccount", a, request[r].x, n[1]) /\ g = n[1] /\ g \in Groups
  <2>1. RequestTypeOK' /\ ShapedAs("deleteAccount", a, request[r].x, n) /\ request'[r].op = "deleteAccount"
    BY <1>0, <1>1, GoingsAre, OpsAre
  <2>2. request'[r] \in UnderWayRequests
    BY <2>1 DEF RequestTypeOK
  <2>3. n \in Seq(Groups) /\ n # <<>>
    BY <2>2 DEF UnderWayRequests
  <2>4. Head(n) = n[1] /\ 1 \in DOMAIN n /\ Head(n) \in Groups
    BY <2>3, TailIs
  <2>5. QED
    BY <2>1, <2>3, <2>4 DEF ShapedAs
<1>4. \/ Current(r).query = "account" /\ request'[r] = NoRequest /\ ~last'.ok /\ rows' = rows
      \/ /\ RunQuery(r) /\ rows' = rows /\ Current(r).body = <<>>
         /\ (e = <<>> /\ request'[r] = NoRequest) \/ (request'[r] # NoRequest /\ n = e)
      \/ /\ rows' = rows /\ Current(r).query = None /\ Current(r).body = <<>>
         /\ (Others(r) = <<>> /\ request'[r] = NoRequest) \/ (request'[r] # NoRequest /\ n = Others(r))
      \/ /\ Statement(r) /\ Write(s) /\ Len(Current(r).body) = 1
         /\ (Others(r) = <<>> /\ request'[r] = NoRequest) \/ (request'[r] # NoRequest /\ n = Others(r))
      \/ /\ Statement(r) /\ Write(s) /\ Len(Current(r).body) # 1
         /\ request'[r] # NoRequest /\ n = Popped(gs)
  BY CalmSteps
<1> HIDE DEF gs, a, s, u, e, n
<1>5. g.body \in Seq(Statements) /\ Head(g.body) = g.body[1] /\ 1 \in DOMAIN g.body
  <2>1. g.body \in Seq(Statements)
    BY <1>3 DEF Groups
  <2>2. QED
    BY <2>1, TailIs
<1>6. h \in KeysOf("connection", a)
  <2>1. BodyOf("deleteAccount", a, request[r].x, g.body)
    BY <1>3 DEF GroupOf
  <2>2. Erasure(a, Del(h))
    BY <1>5, <2>1 DEF BodyOf
  <2>3. \E k \in Keys : k.id = a /\ Del(h) = Del(k)
    <3>1. Auth(a) # h
      BY OtherTables
    <3>2. QED
      BY <2>2, <3>1, DelIsOne DEF Erasure
  <2>4. h.id = a
    BY <2>3, DelIsOne
  <2>5. QED
    BY <2>4 DEF KeysOf
<1>7. /\ DOMAIN gs = 1..Len(gs) /\ DOMAIN Tail(gs) = 1..(Len(gs) - 1) /\ Len(gs) \in Nat /\ 1 \in DOMAIN gs /\ Head(gs) = gs[1]
      /\ \A i \in DOMAIN Tail(gs) : i + 1 \in DOMAIN gs /\ Tail(gs)[i] = gs[i + 1]
  BY <1>2, TailIs
<1>8. ~(1 \in DOMAIN Others(r) /\ Others(r)[1] = g)
  <2>1. SUFFICES ASSUME 1 \in DOMAIN Others(r), Others(r)[1] = g PROVE FALSE
    OBVIOUS
  <2>2. 1 + 1 \in DOMAIN gs /\ gs[1 + 1] = g
    BY <1>2, <1>7, <2>1
  <2>3. 2 \in DOMAIN gs /\ gs[2] = g
    BY <2>2
  <2>4. \A i \in DOMAIN gs : \A j \in DOMAIN gs[i].body : gs[i].body[j] = Del(h) => i = 1
    BY <1>2, <1>6 DEF ErasureOrder
  <2>5. QED
    BY <1>5, <2>3, <2>4
<1>9. CASE n = Others(r)
  <2>1. 1 \in DOMAIN Others(r)
    BY <1>2, <1>3, <1>9, TailIs
  <2>2. QED
    BY <1>3, <1>8, <1>9, <2>1
<1>10. CASE /\ RunQuery(r) /\ rows' = rows /\ Current(r).body = <<>> /\ n = e
  <2>1. u \in Seq(Groups) /\ QueryOf("deleteAccount", Current(r).query)
    BY <1>0, <1>10, RunQueryGoes DEF u, a
  <2>2. \A i \in DOMAIN e :
                \/ i \in DOMAIN u /\ e[i] = u[i]
                \/ i > Len(u) /\ i - Len(u) \in DOMAIN Others(r) /\ e[i] = Others(r)[i - Len(u)]
    BY <1>2, <2>1, JoinIs DEF e
  <2>3. 1 \in DOMAIN e /\ e[1] = g
    BY <1>3, <1>10, TailIs
  <2>4. Len(u) \in Nat
    BY <2>1
  <2>5. CASE 1 \in DOMAIN u /\ e[1] = u[1]
    <3>1. u[1].body[1] # Del(h)
      <4>1. 1 \in DOMAIN u /\ 1 \in DOMAIN u[1].body
        BY <1>5, <2>3, <2>5
      <4>2. QED
        BY <1>2, <2>1, <4>1, ExpandFirst DEF u
    <3>2. QED
      BY <1>5, <2>3, <2>5, <3>1
  <2>6. CASE 1 > Len(u) /\ 1 - Len(u) \in DOMAIN Others(r) /\ e[1] = Others(r)[1 - Len(u)]
    <3>1. 1 - Len(u) = 1
      BY <2>4, <2>6
    <3>2. QED
      BY <1>8, <2>3, <2>6, <3>1
  <2>7. QED
    BY <2>2, <2>3, <2>5, <2>6
<1>11. CASE Statement(r) /\ Write(s) /\ n = Popped(gs)
  <2> DEFINE b == Head(gs).body
  <2>1. b \in Seq(Statements) /\ b # <<>> /\ s = Head(b)
    BY <1>2, <1>11 DEF Statement, s
  <2>2. g.body = Tail(b)
    BY <1>2, <1>3, <1>11, <2>1, PoppedIs
  <2> HIDE DEF b
  <2>3. /\ DOMAIN b = 1..Len(b) /\ DOMAIN Tail(b) = 1..(Len(b) - 1) /\ Len(b) \in Nat /\ Head(b) = b[1]
        /\ \A i \in DOMAIN Tail(b) : i + 1 \in DOMAIN b /\ Tail(b)[i] = b[i + 1]
    BY <2>1, TailIs
  <2>4. 2 \in DOMAIN b /\ b[2] = Del(h)
    <3>1. 1 + 1 \in DOMAIN b /\ b[1 + 1] = Del(h)
      BY <1>5, <2>2, <2>3
    <3>2. QED
      BY <3>1
  <2>5. b[2 - 1] = SoftDel(Mirror(h))
    <3>1. \A i \in DOMAIN gs : \A j \in DOMAIN gs[i].body : \A k \in KeysOf("connection", a) :
              gs[i].body[j] = Del(k) => j = 1 \/ gs[i].body[j - 1] = SoftDel(Mirror(k))
      BY <1>2 DEF ErasureOrder
    <3>2. gs[1].body = b
      BY <1>7 DEF b
    <3>3. 2 = 1 \/ b[2 - 1] = SoftDel(Mirror(h))
      BY <1>6, <1>7, <2>4, <3>1, <3>2
    <3>4. QED
      BY <3>3
  <2>6. s = SoftDel(Mirror(h))
    BY <2>1, <2>3, <2>5
  <2>7. s \in Statements /\ Erasure(a, s)
    BY <1>0, <1>11, StatementIs, EraseHead DEF s, a
  <2>8. QED
    BY <1>0, <1>2, <1>11, <2>6, <2>7, ClearWrites
<1>12. QED
  BY <1>4, <1>9, <1>10, <1>11

(* Making a connection: the row comes before the reference. *)
LEMMA MakePairs ==
    ASSUME TypeInv, NEW r \in Requests, Advances(r), mishaps' = mishaps, request[r].op = "make", MakesWell(r),
           \A h \in Keys : (h.t = "connection" /\ rows[Mirror(h)] # "no") => rows[h] # "no",
           NEW k, k = Made(r)
    PROVE  /\ \A h \in Keys : (h.t = "connection" /\ rows'[Mirror(h)] # "no") => rows'[h] # "no"
           /\ request'[r] # NoRequest =>
                 /\ ~Head(request'[r].groups).doomed
                 /\ rows'[k] # "no"
                 /\ Head(request'[r].groups).body = <<AddOrUndo(Mirror(k), k)>> => rows'[Mirror(k)] = "no"
<1> DEFINE s == Head(Current(r).body)
           gs == request[r].groups
           b == Current(r).body
           m == Mirror(k)
           n == request'[r].groups
<1>0. RequestTypeOK /\ ShapeInv /\ DataTypeOK
  BY TypeIs
<1>1. UnderWay(r)
  BY <1>0, AdvanceGoes
<1>2. /\ Statement(r) /\ Current(r).strict /\ Others(r) = <<>>
      /\ k \in Keys /\ k.t = "connection" /\ Mirror(k) \in Keys /\ MakeBody(k, b)
      /\ b = <<SoftDel(k)>> => Current(r).doomed
  BY <1>0, <1>1, PairShape DEF Made
<1>3. /\ gs \in Seq(Groups) /\ gs # <<>> /\ Current(r) = Head(gs)
      /\ s \in Statements /\ b # <<>> /\ b \in Seq(Statements)
  BY <1>0, <1>1, <1>2, UnderWayIs, StatementIs DEF Current
<1>4. /\ ~Current(r).doomed
      /\ Len(b) = 1 => rows[k] # "no"
      /\ b = <<AddOrUndo(m, k)>> => rows[m] = "no"
  BY DEF MakesWell
<1>5. m # k
  BY <1>2, MirrorOnce
<1>6. Execute(r)
  <2>1. mishaps \in Int
    BY <1>0, DataAssumption DEF DataTypeOK
  <2>2. mishaps' # mishaps - 1
    BY <2>1
  <2>3. QED
    BY <1>2, <2>2, StatementSteps DEF Fail, Crash
<1>7. \/ Write(s) /\ Proceed(r) /\ (s.onto = "absent" => rows[s.k] = "no")
      \/ /\ rows' = rows /\ kept' = kept /\ s.onto = "absent" /\ rows[s.k] # "no"
         /\ (s.soft /\ Proceed(r)) \/ (~s.soft /\ GiveUp(r, s))
  BY <1>6, ExecuteIs
<1>8. \/ b = <<Put(k), PutOrUndo(m, k)>> \/ b = <<Add(k), AddOrUndo(m, k)>>
      \/ b = <<PutOrUndo(m, k)>> \/ b = <<AddOrUndo(m, k)>>
  BY <1>2, <1>4 DEF MakeBody
<1>9. \A x, y : /\ Head(<<x, y>>) = x /\ Len(<<x, y>>) = 2 /\ Tail(<<x, y>>) = <<y>>
                /\ Head(<<y>>) = y /\ Len(<<y>>) = 1
  OBVIOUS
<1>10. /\ Put(k).k = k /\ Put(k).onto = "all" /\ Add(k).k = k /\ Add(k).onto = "absent" /\ Add(k).undo = NoKey
       /\ PutOrUndo(m, k).k = m /\ PutOrUndo(m, k).onto = "all" /\ AddOrUndo(m, k).k = m
       /\ AddOrUndo(m, k).onto = "absent" /\ PutOrUndo(m, k) # AddOrUndo(m, k)
  BY DEF Put, Add, PutOrUndo, AddOrUndo, Sql
<1>11. ~Add(k).soft
  BY StatementFields
<1>12. \A h \in Keys : h.t = "connection" => /\ (Mirror(h) = m) <=> (h = k)
                                             /\ Mirror(h) # k /\ m # h /\ Mirror(h) \in Keys
  BY <1>2, MirrorOnce
<1>13. ASSUME Write(s)
       PROVE  /\ \A h \in Keys : h # s.k => rows'[h] = rows[h]
              /\ s \in {Put(k), Add(k)} => ((s.onto = "absent" => rows[s.k] = "no") => rows'[k] # "no")
  <2>1. \A h \in Keys : h # s.k => rows'[h] = rows[h]
    BY <1>0, <1>3, <1>13, WriteIs
  <2>2. ASSUME s.onto = "absent" => rows[s.k] = "no", s \in {Put(k), Add(k)} PROVE rows'[k] # "no"
    BY <1>0, <1>2, <1>3, <1>5, <1>13, <2>2, PairWrites
  <2>3. QED
    BY <2>1, <2>2
<1>14. ASSUME NEW ok, EndGroup(r, ok) PROVE request'[r] = NoRequest
  <2>1. Quits(r)
    BY <1>2, <1>14, PairEnds
  <2>2. QED
    BY <1>0, <2>1, QuitsWell
<1> HIDE DEF s, gs, b, m, n
<1>15. CASE b = <<Put(k), PutOrUndo(m, k)>> \/ b = <<Add(k), AddOrUndo(m, k)>>
  <2>1. /\ Len(b) # 1 /\ s \in {Put(k), Add(k)} /\ s.k = k
        /\ Tail(b) = <<AddOrUndo(m, k)>> => s = Add(k)
    <3>1. CASE b = <<Put(k), PutOrUndo(m, k)>>
      <4>1. Len(b) = 2 /\ s = Put(k) /\ Tail(b) = <<PutOrUndo(m, k)>>
        BY <1>9, <3>1 DEF s, b
      <4>2. <<PutOrUndo(m, k)>> # <<AddOrUndo(m, k)>>
        BY <1>9, <1>10
      <4>3. QED
        BY <1>10, <4>1, <4>2
    <3>2. CASE b = <<Add(k), AddOrUndo(m, k)>>
      <4>1. Len(b) = 2 /\ s = Add(k)
        BY <1>9, <3>2 DEF s, b
      <4>2. QED
        BY <1>10, <4>1
    <3>3. QED
      BY <1>15, <3>1, <3>2
  <2>2. CASE Write(s) /\ Proceed(r) /\ (s.onto = "absent" => rows[s.k] = "no")
    <3>1. rows'[k] # "no"
      BY <1>13, <2>1, <2>2
    <3>2. \A h \in Keys : h # k => rows'[h] = rows[h]
      BY <1>13, <2>1, <2>2
    <3>3. Goes(r, Popped(gs))
      BY <2>1, <2>2, ProceedIs DEF gs, b
    <3>4. Popped(gs) \in Seq(Groups) /\ Head(Popped(gs)).body = Tail(b) /\ Head(Popped(gs)).doomed = Current(r).doomed
      BY <1>3, PoppedIs DEF b
    <3>5. request'[r].groups = Popped(gs)
      BY <1>0, <1>1, <3>3, <3>4, GoesWell
    <3>6. Tail(b) = <<AddOrUndo(m, k)>> => rows'[m] = "no"
      <4>1. SUFFICES ASSUME Tail(b) = <<AddOrUndo(m, k)>> PROVE rows'[m] = "no"
        OBVIOUS
      <4>2. rows[k] = "no"
        BY <1>10, <2>1, <2>2, <4>1
      <4>3. rows[m] = "no"
        BY <1>2, <4>2 DEF m
      <4>4. QED
        BY <1>2, <1>5, <3>2, <4>3 DEF m
    <3>7. \A h \in Keys : (h.t = "connection" /\ rows'[Mirror(h)] # "no") => rows'[h] # "no"
      BY <1>12, <3>1, <3>2
    <3>8. QED
      BY <1>4, <3>1, <3>4, <3>5, <3>6, <3>7 DEF m
  <2>3. CASE /\ rows' = rows /\ s.onto = "absent"
             /\ (s.soft /\ Proceed(r)) \/ (~s.soft /\ GiveUp(r, s))
    <3>1. s = Add(k)
      BY <1>10, <2>1, <2>3
    <3>2. GiveUp(r, s) /\ s.undo = NoKey
      BY <1>10, <1>11, <2>3, <3>1
    <3>3. EndGroup(r, FALSE)
      BY <3>2, GiveUpIs
    <3>4. request'[r] = NoRequest
      BY <1>14, <3>3
    <3>5. QED
      BY <2>3, <3>4
  <2>4. QED
    BY <1>7, <2>2, <2>3
<1>16. CASE b = <<PutOrUndo(m, k)>> \/ b = <<AddOrUndo(m, k)>>
  <2>1. Len(b) = 1 /\ s.k = m /\ (s.onto = "absent" => b = <<AddOrUndo(m, k)>>)
    BY <1>9, <1>10, <1>16 DEF s, b
  <2>2. Write(s) /\ Proceed(r)
    BY <1>4, <1>7, <2>1
  <2>3. EndGroup(r, ~Current(r).doomed)
    BY <2>1, <2>2, ProceedIs DEF b
  <2>4. request'[r] = NoRequest
    BY <1>14, <2>3
  <2>5. \A h \in Keys : h # m => rows'[h] = rows[h]
    BY <1>13, <2>1, <2>2
  <2>6. rows'[k] # "no"
    BY <1>2, <1>4, <1>5, <2>1, <2>5
  <2>7. \A h \in Keys : (h.t = "connection" /\ rows'[Mirror(h)] # "no") => rows'[h] # "no"
    BY <1>12, <2>5, <2>6
  <2>8. QED
    BY <2>4, <2>7
<1>17. QED
  BY <1>8, <1>15, <1>16

(* Deleting a connection: a reference without its row is removed next. *)
LEMMA UnmakePairs ==
    ASSUME TypeInv, NEW r \in Requests, Advances(r), mishaps' = mishaps, request[r].op = "unmake",
           NEW h \in Keys, h.t = "connection", rows'[Mirror(h)] # "no", rows'[h] = "no",
           (rows[Mirror(h)] # "no" /\ rows[h] = "no") => Unlinks(request[r].groups, h)
    PROVE  request'[r] # NoRequest /\ Unlinks(request'[r].groups, h)
<1> DEFINE s == Head(Current(r).body)
           gs == request[r].groups
           b == Current(r).body
           k == Made(r)
           m == Mirror(k)
           n == request'[r].groups
<1>0. RequestTypeOK /\ ShapeInv /\ DataTypeOK
  BY TypeIs
<1>1. UnderWay(r)
  BY <1>0, AdvanceGoes
<1>2. /\ Statement(r) /\ Current(r).strict /\ Others(r) = <<>> /\ request[r].id \in Accounts
      /\ k \in Keys /\ k.t = "connection" /\ Mirror(k) \in Keys /\ UnlinkBody(k, b)
  BY <1>0, <1>1, PairShape, UnderWayIs DEF Made
<1>3. /\ gs \in Seq(Groups) /\ gs # <<>> /\ Current(r) = Head(gs) /\ Others(r) = Tail(gs)
      /\ s \in Statements /\ b # <<>> /\ b \in Seq(Statements)
  BY <1>0, <1>1, <1>2, UnderWayIs, StatementIs DEF Current, Others
<1>4. Execute(r)
  <2>1. mishaps \in Int
    BY <1>0, DataAssumption DEF DataTypeOK
  <2>2. mishaps' # mishaps - 1
    BY <2>1
  <2>3. QED
    BY <1>2, <2>2, StatementSteps DEF Fail, Crash
<1>5. \/ Write(s) /\ Proceed(r)
      \/ s.onto = "absent"
  BY <1>4, ExecuteIs
<1>6. b = <<Del(k), Del(m)>> \/ b = <<Del(m)>>
  BY <1>2 DEF UnlinkBody, Unlink
<1>7. \A x, y : /\ Head(<<x, y>>) = x /\ Len(<<x, y>>) = 2 /\ Tail(<<x, y>>) = <<y>>
                /\ Head(<<y>>) = y /\ Len(<<y>>) = 1 /\ <<y>>[1] = y /\ 1 \in DOMAIN <<y>>
  OBVIOUS
<1>8. \A x : Del(x).onto = "all"
  BY DEF Del, Sql
<1>9. k \in KeysOf("connection", request[r].id)
  BY <1>2, KeyFields DEF KeysOf, Made
<1> HIDE DEF k, s, gs, b, m, n
<1>10. s = Del(k) \/ s = Del(m)
  BY <1>6, <1>7 DEF s, b
<1>11. Write(s) /\ Proceed(r)
  BY <1>5, <1>8, <1>10
<1>12. /\ rows[h] # "no" => s = Del(h)
       /\ (s = Del(Mirror(h)) \/ s = SoftDel(Mirror(h))) => rows'[Mirror(h)] = "no"
       /\ rows[Mirror(h)] = "no" => rows'[Mirror(h)] = "no"
  BY <1>0, <1>2, <1>3, <1>9, <1>10, <1>11, ClearWrites DEF m
<1>13. rows[h] = "no" => Unlinks(gs, h) /\ s # Del(Mirror(h)) /\ s # SoftDel(Mirror(h))
  BY <1>12 DEF gs
<1>14. ASSUME Unlinks(gs, h)
       PROVE  /\ (Len(b) = 1 /\ s # Del(Mirror(h)) /\ s # SoftDel(Mirror(h))) => Unlinks(Others(r), h)
              /\ (s # Del(Mirror(h)) /\ s # SoftDel(Mirror(h))) => Unlinks(Popped(gs), h)
  BY <1>3, <1>14, UnlinksAfter DEF s, b
<1>15. CASE b = <<Del(k), Del(m)>>
  <2>1. s = Del(k) /\ Len(b) # 1 /\ Tail(b) = <<Del(m)>>
    BY <1>7, <1>15 DEF s, b
  <2>2. Goes(r, Popped(gs))
    BY <1>11, <2>1, ProceedIs DEF gs, b
  <2>3. /\ Popped(gs) \in Seq(Groups) /\ Head(Popped(gs)).body = Tail(b) /\ Head(Popped(gs)) = Popped(gs)[1]
        /\ Popped(gs) # <<>> /\ DOMAIN Popped(gs) = DOMAIN gs /\ 1 \in DOMAIN gs
    BY <1>3, PoppedIs, TailIs DEF b
  <2>4. n = Popped(gs)
    BY <1>0, <1>1, <2>2, <2>3, GoesWell DEF n
  <2>5. request'[r] # NoRequest
    BY <2>3, <2>4, OpsAre DEF n
  <2>6. CASE rows[h] = "no"
    BY <1>13, <1>14, <2>4, <2>5, <2>6 DEF n
  <2>7. CASE rows[h] # "no"
    <3>1. h = k
      BY <1>12, <2>1, <2>7, DelIsOne
    <3> DEFINE d == Del(m)
    <3>2. Popped(gs)[1].body = <<d>>
      BY <2>1, <2>3
    <3> HIDE DEF d
    <3>3. 1 \in DOMAIN Popped(gs)[1].body /\ Popped(gs)[1].body[1] = d
      BY <1>7, <3>2
    <3>4. Has(Popped(gs), d)
      BY <2>3, <3>3 DEF Has
    <3>5. Unlinks(Popped(gs), h)
      BY <3>1, <3>4 DEF Unlinks, d, m
    <3>6. QED
      BY <2>4, <2>5, <3>5 DEF n
  <2>8. QED
    BY <2>6, <2>7
<1>16. CASE b = <<Del(m)>>
  <2>1. s = Del(m) /\ Len(b) = 1
    BY <1>7, <1>16 DEF s, b
  <2>2. rows[h] = "no"
    <3>1. m # h
      BY <1>2, MirrorOnce DEF m
    <3>2. QED
      BY <1>12, <2>1, <3>1, DelIsOne
  <2>3. Unlinks(Others(r), h)
    BY <1>13, <1>14, <2>1, <2>2
  <2>4. QED
    BY <1>2, <2>3, NothingHas
<1>17. QED
  BY <1>6, <1>15, <1>16

(* Other requests do not touch connections. *)
LEMMA OtherPairs ==
    ASSUME TypeInv, NEW r \in Requests, Advances(r),
           request[r].op \notin {"make", "unmake", "unmakeAll", "deleteAccount"},
           NEW h \in Keys, h.t = "connection"
    PROVE  rows'[h] = rows[h] /\ rows'[Mirror(h)] = rows[Mirror(h)]
<1>0. RequestTypeOK /\ ShapeInv /\ DataTypeOK
  BY TypeIs
<1>1. CASE rows' = rows
  BY <1>1
<1>2. CASE Statement(r) /\ Write(Head(Current(r).body))
  <2> DEFINE s == Head(Current(r).body)
  <2>1. HeadOf(request[r].op, request[r].id, request[r].x, s) /\ s \in Statements /\ UnderWay(r)
    BY <1>0, <1>2, StatementIs
  <2>2. request[r].id \in Accounts
    BY <1>0, <2>1, UnderWayIs
  <2> HIDE DEF s
  <2>3. s.k.t # "connection" /\ s.k.t # "reference"
    BY <2>1, <2>2, TablesOf
  <2>4. Mirror(h).t = "reference" /\ Mirror(h) \in Keys
    BY MirrorIs, KeyFields
  <2>5. h # s.k /\ Mirror(h) # s.k
    BY <2>3, <2>4
  <2>6. Write(s)
    BY <1>2 DEF s
  <2>7. \A k \in Keys : k # s.k => rows'[k] = rows[k]
    BY <1>0, <2>1, <2>6, WriteIs
  <2>8. QED
    BY <2>4, <2>5, <2>7
<1>3. QED
  BY <1>1, <1>2, RowsAfter

LEMMA PairsAdvance ==
    ASSUME TypeInv, AloneInv, OrderInv, PlainInv, PairsInv, NEW r \in Requests, Advances(r)
    PROVE  PairsInv'
<1> SUFFICES ASSUME torn' = {}, mishaps' = Mishaps PROVE PairsInv'
  BY DEF PairsInv
<1>0. RequestTypeOK /\ ShapeInv
  BY TypeIs
<1>1. /\ torn = {} /\ mishaps = Mishaps /\ mishaps' = mishaps /\ UnderWay(r)
      /\ \A q \in Requests : q # r => ~UnderWay(q)
      /\ \A h \in Keys : (h.t = "connection" /\ rows[Mirror(h)] # "no" /\ rows[h] = "no") =>
            request[r].op \in {"unmake", "unmakeAll", "deleteAccount"} /\ Unlinks(request[r].groups, h)
      /\ request[r].op = "make" => MakesWell(r)
      /\ request[r].op = "deleteAccount" => ErasesWell(r)
  BY QuietBack
<1>2. /\ \A q \in Requests : q # r => request'[q] = request[q]
      /\ request'[r] # NoRequest => /\ request'[r].op = request[r].op
                                    /\ request'[r].id = request[r].id /\ request'[r].x = request[r].x
  BY <1>0, <1>1, AdvanceGoes, GoingsAre
<1>3. ASSUME NEW q \in Requests, request'[q].op # "none" PROVE q = r /\ request'[r] # NoRequest
  BY <1>1, <1>2, <1>3, OpsAre DEF UnderWay
<1>4. ASSUME NEW h \in Keys, h.t = "connection", rows'[Mirror(h)] # "no", rows'[h] = "no"
      PROVE  \E q \in Requests : request'[q].op \in {"unmake", "unmakeAll", "deleteAccount"} /\ Unlinks(request'[q].groups, h)
  <2>1. CASE request[r].op \notin {"make", "unmake", "unmakeAll", "deleteAccount"}
    BY <1>1, <1>4, <2>1, OtherPairs
  <2>2. CASE request[r].op = "make"
    <3>1. \A g \in Keys : (g.t = "connection" /\ rows[Mirror(g)] # "no") => rows[g] # "no"
      BY <1>1, <2>2
    <3>2. \A g \in Keys : (g.t = "connection" /\ rows'[Mirror(g)] # "no") => rows'[g] # "no"
      BY <1>1, <2>2, <3>1, MakePairs
    <3>3. QED
      BY <1>4, <3>2
  <2>3. CASE request[r].op = "unmake"
    <3>1. request'[r] # NoRequest /\ Unlinks(request'[r].groups, h)
      BY <1>1, <1>4, <2>3, UnmakePairs
    <3>2. QED
      BY <1>2, <2>3, <3>1
  <2>4. CASE request[r].op \in {"unmakeAll", "deleteAccount"}
    <3>1. request'[r] # NoRequest /\ Unlinks(request'[r].groups, h)
      BY <1>1, <1>4, <2>4, ClearPairs
    <3>2. QED
      BY <1>2, <2>4, <3>1
  <2>5. QED
    BY <2>1, <2>2, <2>3, <2>4
<1>5. ASSUME NEW q \in Requests, request'[q].op = "make" PROVE MakesWell(q)'
  <2>1. q = r /\ request'[r] # NoRequest
    BY <1>3, <1>5
  <2>2. request[r].op = "make"
    BY <1>2, <1>5, <2>1
  <2>3. \A g \in Keys : (g.t = "connection" /\ rows[Mirror(g)] # "no") => rows[g] # "no"
    BY <1>1, <2>2
  <2> DEFINE k == Made(r)
  <2>4. /\ ~Head(request'[r].groups).doomed
        /\ rows'[k] # "no"
        /\ Head(request'[r].groups).body = <<AddOrUndo(Mirror(k), k)>> => rows'[Mirror(k)] = "no"
    BY <1>1, <2>1, <2>2, <2>3, MakePairs
  <2>5. Made(q)' = k
    BY <1>2, <2>1 DEF Made
  <2> HIDE DEF k
  <2>6. QED
    BY <2>1, <2>4, <2>5 DEF MakesWell, Current
<1>6. ASSUME NEW q \in Requests, request'[q].op = "deleteAccount" PROVE ErasesWell(q)'
  <2>1. q = r /\ request'[r] # NoRequest
    BY <1>3, <1>6
  <2>2. request[r].op = "deleteAccount"
    BY <1>2, <1>6, <2>1
  <2>3. ASSUME NEW h \in Keys, h.t = "connection", Head(request'[r].groups).body # <<>>,
               Head(Head(request'[r].groups).body) = Del(h)
        PROVE  rows'[Mirror(h)] = "no"
    BY <1>1, <2>1, <2>2, <2>3, EraseFirst
  <2>4. QED
    BY <2>1, <2>3 DEF ErasesWell, Current
<1>7. QED
  BY <1>4, <1>5, <1>6 DEF PairsInv

LEMMA PairsArrive ==
    ASSUME TypeInv, AloneInv, PairsInv, NEW r \in Requests, Arrives(r)
    PROVE  PairsInv'
<1> SUFFICES ASSUME torn' = {}, mishaps' = Mishaps PROVE PairsInv'
  BY DEF PairsInv
<1>0. RequestTypeOK
  BY TypeIs
<1>1. PICK op \in Ops, a \in Accounts, x \in Accounts \cup Messages \cup {None, "message", "archive"} : \E gs :
              Start(r, op, a, x, gs) /\ Begins(op, a, x, gs)
  BY ArrivesIs
<1>2. PICK gs : Start(r, op, a, x, gs) /\ Begins(op, a, x, gs)
  BY <1>1
<1>3. /\ request'[r].op = op /\ request'[r].id = a /\ request'[r].x = x /\ request'[r].groups = gs
      /\ rows' = rows /\ mishaps' = mishaps
  BY <1>0, <1>2, StartIs
<1>4. torn = {} /\ mishaps = Mishaps
  BY <1>2, <1>3, StartTorn
<1>5. \A q \in Requests : ~UnderWay(q)
  BY <1>0, <1>2, StartAlone
<1>6. \A q \in Requests : q # r => request'[q].op = "none"
  BY <1>0, <1>2, <1>5, StartOthers DEF UnderWay
<1>7. \A h \in Keys : (h.t = "connection" /\ rows[Mirror(h)] # "no") => rows[h] # "no"
  <2>1. \A q \in Requests : request[q].op \notin {"unmake", "unmakeAll", "deleteAccount"}
    BY <1>5 DEF UnderWay
  <2>2. QED
    BY <1>4, <2>1 DEF PairsInv
<1>8. ASSUME op = "make" PROVE MakesWell(r)'
  <2> DEFINE k == Key("connection", a, x)
             b == gs[1].body
  <2>1. gs = <<Group(<<Put(k), PutOrUndo(Mirror(k), k)>>)>> \/ gs = <<Group(<<Add(k), AddOrUndo(Mirror(k), k)>>)>>
    BY <1>2, <1>8 DEF Begins
  <2>2. \A g : <<g>>[1] = g /\ Head(<<g>>) = g
    OBVIOUS
  <2>3. \A w : Group(w).body = w /\ ~Group(w).doomed
    BY DEF Group, Series
  <2> HIDE DEF k, b
  <2>4. Head(gs) = gs[1]
    BY <2>1, <2>2
  <2>5. ~gs[1].doomed
    BY <2>1, <2>2, <2>3
  <2>6. b = <<Put(k), PutOrUndo(Mirror(k), k)>> \/ b = <<Add(k), AddOrUndo(Mirror(k), k)>>
    BY <2>1, <2>2, <2>3 DEF b
  <2>7. \A u, w : Len(<<u, w>>) = 2 /\ Len(<<w>>) = 1
    OBVIOUS
  <2>8. Len(b) = 2
    BY <2>6, <2>7
  <2>9. \A w : b # <<w>>
    BY <2>7, <2>8
  <2>10. Head(request'[r].groups).body = b /\ ~Head(request'[r].groups).doomed
    BY <1>3, <2>4, <2>5 DEF b
  <2>11. Len(Head(request'[r].groups).body) # 1
    BY <2>8, <2>10
  <2>12. QED
    BY <2>9, <2>10, <2>11 DEF MakesWell, Current
<1>9. ASSUME op = "deleteAccount" PROVE ErasesWell(r)'
  <2> DEFINE g == Query("account", a)
  <2>1. gs = <<g>>
    BY <1>2, <1>9 DEF Begins
  <2>2. g.body = <<>>
    BY DEF Query, Series
  <2> HIDE DEF g
  <2>3. Head(gs) = g
    BY <2>1
  <2>4. Head(request'[r].groups).body = <<>>
    BY <1>3, <2>2, <2>3
  <2>5. QED
    BY <2>4 DEF ErasesWell, Current
<1>10. ASSUME NEW q \in Requests, request'[q].op = "make" PROVE MakesWell(q)'
  <2>1. q = r
    BY <1>6, <1>10
  <2>2. QED
    BY <1>3, <1>8, <1>10, <2>1
<1>11. ASSUME NEW q \in Requests, request'[q].op = "deleteAccount" PROVE ErasesWell(q)'
  <2>1. q = r
    BY <1>6, <1>11
  <2>2. QED
    BY <1>3, <1>9, <1>11, <2>1
<1>12. QED
  BY <1>3, <1>7, <1>10, <1>11 DEF PairsInv

LEMMA PairsNext ==
    ASSUME TypeInv, AloneInv, OrderInv, PlainInv, PairsInv, [DataNext]_dataVars
    PROVE  PairsInv'
<1>1. CASE \E r \in Requests : Arrives(r) \/ Advances(r)
  BY <1>1, PairsArrive, PairsAdvance
<1>2. ASSUME NEW b \in Accounts, Evict(b) PROVE PairsInv'
  <2>1. mishaps \in Int /\ Mishaps \in Int /\ mishaps <= Mishaps /\ mishaps' = mishaps - 1
    BY <1>2, DataAssumption, TypeIs DEF DataTypeOK, Evict
  <2>2. mishaps' # Mishaps
    BY <2>1
  <2>3. QED
    BY <2>2 DEF PairsInv
<1>3. CASE UNCHANGED dataVars
  BY <1>3 DEF PairsInv, MakesWell, ErasesWell, Made, Current, Unlinks, Has, dataVars
<1>4. QED
  BY <1>1, <1>2, <1>3 DEF DataNext

LEMMA PairsInit ==
    ASSUME DataInit
    PROVE  PairsInv
<1>1. \A r \in Requests : request[r].op = "none"
  BY OpsAre DEF DataInit
<1>2. \A h \in Keys : h.t = "connection" => rows[Mirror(h)] = "no"
  <2> SUFFICES ASSUME NEW h \in Keys, h.t = "connection" PROVE rows[Mirror(h)] = "no"
    OBVIOUS
  <2>2. Mirror(h) = Key("reference", h.x, h.id) /\ Mirror(h) \in Keys
    BY MirrorIs
  <2>3. Mirror(h).t = "reference"
    BY <2>2, KeyFields
  <2>4. \A c : Mirror(h) # Auth(c)
    BY <2>3, OtherTables
  <2>5. QED
    BY <2>2, <2>3, <2>4 DEF DataInit
<1>3. QED
  BY <1>1, <1>2 DEF PairsInv

LEMMA GoneMeans ==
    ASSUME TypeInv, AloneInv, GoneInv, PairsInv
    PROVE  DeletedIsGone
<1> SUFFICES ASSUME last.op = "deleteAccount", last.ok, last.clean, mishaps = Mishaps, ~partial
             PROVE  /\ ~Login(last.id)
                    /\ \A k \in Keys : (\/ k.t \notin {"auth", "reference"} /\ k.id = last.id
                                        \/ k.t = "reference" /\ k.x = last.id /\ torn = {}) => rows[k] = "no"
  BY DEF DeletedIsGone, Present
<1>0. \A h \in Keys : OwnRow(h, last.id) => rows[h] = "no"
  BY DEF GoneInv
<1>5. ~Login(last.id)
  <2>1. last.id \in Accounts
    BY DEF GoneInv
  <2>2. rows[Auth(last.id)] = "no"
    BY <1>0, <2>1, KeysAre DEF OwnRow
  <2>3. last.id # "no"
    BY <2>1, DataAssumption
  <2>4. QED
    BY <2>2, <2>3 DEF Login
<1> SUFFICES ASSUME NEW k \in Keys,
                    \/ k.t \notin {"auth", "reference"} /\ k.id = last.id
                    \/ k.t = "reference" /\ k.x = last.id /\ torn = {}
             PROVE  rows[k] = "no"
  BY <1>5
<1>1. \A q \in Requests : request[q].op = "none"
  BY DEF AloneInv, UnderWay
<1>2. \A h \in Keys : (h.id = last.id /\ h.t \notin {"auth", "reference"}) => rows[h] = "no"
  BY <1>0 DEF OwnRow
<1>3. CASE k.t \notin {"auth", "reference"} /\ k.id = last.id
  BY <1>2, <1>3
<1>4. CASE k.t = "reference" /\ k.x = last.id /\ torn = {}
  <2> DEFINE h == Key("connection", k.x, k.id)
  <2>1. k.id \in Accounts /\ k.x \in Accounts /\ k.x # k.id /\ k = Key("reference", k.id, k.x)
    BY <1>4, KeyForms
  <2>2. h \in Keys /\ h.t = "connection" /\ h.id = k.x /\ h.x = k.id
    BY <2>1, KeysAre, KeyFields
  <2>3. Mirror(h) = k
    BY <2>1, <2>2 DEF Mirror
  <2> HIDE DEF h
  <2>4. rows[h] = "no"
    BY <1>2, <1>4, <2>2
  <2>5. QED
    BY <1>1, <1>4, <2>2, <2>3, <2>4 DEF PairsInv
<1>6. QED
  BY <1>3, <1>4

(* An account that was deleted without errors, alone, and with no more rows than its queries  *)
(* return, leaves no login, no row of its own but the references that others made to it, and  *)
(* no reference in another account unless two requests have ever run at the same time         *)
(* (deleteAccount, bkDeleteAccount of connections, counters and messages).                    *)
THEOREM NothingIsLeft == DataSpec => []DeletedIsGone
<1> DEFINE I == TypeInv /\ AloneInv /\ OrderInv /\ PlainInv /\ GoneInv /\ PairsInv
<1>1. DataInit => I
  BY TypeInit, AloneInit, OrderInit, PlainInit, GoneInit, PairsInit
<1>2. I /\ [DataNext]_dataVars => I'
  BY TypeNext, AloneNext, OrderNext, PlainNext, GoneNext, PairsNext
<1>3. I => DeletedIsGone
  BY GoneMeans
<1>4. QED
  BY <1>1, <1>2, <1>3, PTL DEF DataSpec
=============================================================================
