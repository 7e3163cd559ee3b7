----------------------------- MODULE AccountData -----------------------------
(***************************************************************************)
(* What the modules of an account keep in the database (bk_accounts,       *)
(* bk_connections, bk_messages, bk_counters) and how API requests change   *)
(* it: each request is a series of statements that other requests can run  *)
(* between, any of which can fail, and after any of which the process can  *)
(* die.  Nothing is a transaction.                                         *)
(*                                                                         *)
(* A request is kept as what it has still to do: groups of statements, as  *)
(* lib.series and lib.forEachSeries nest them.  A statement writes one row. *)
(* An error ends its group, and the whole request if the group is strict.  *)
(* The counter of unread messages lives in the cache and moves when a      *)
(* group ends.                                                             *)
(***************************************************************************)
EXTENDS Integers, Sequences, FiniteSets, SequencesExt

CONSTANTS Accounts, Messages,
          LoginOf,            \* [Accounts -> logins]: an account has an id, given out once, and a login
          Sender, Recipient,  \* [Messages -> Accounts]
          NullRead,           \* messages sent without the column read: NULL in SQL
          Page,               \* rows of a page of a scan (db.scan: 100)
          Limit,              \* rows of a select that names no number (sqlWhere: 50)
          Requests,           \* requests that can be under way at a time
          NoCount,            \* no counter is in the cache
          Peers,              \* bound: whom an account connects with
          Budget,             \* bound: requests in all
          Mishaps             \* bound: failing statements, crashes, evictions

ASSUME DataAssumption ==
    /\ {Sender, Recipient} \subseteq [Messages -> Accounts] /\ DOMAIN LoginOf = Accounts
    /\ NullRead \subseteq Messages /\ {Page, Limit} \subseteq Nat \ {0}
    /\ Accounts \cap {"no", "new", "read", "deleted"} = {}
    /\ IsFiniteSet(Accounts) /\ IsFiniteSet(Messages)
    /\ {Budget, Mishaps} \subseteq Nat /\ NoCount \notin Int

VARIABLES rows,     \* the tables: each possible row is "no", "new", "read" or "deleted"; of a login,
                    \* "no" or the account whose it is
          unread,   \* ipc cache: bk_message|unread|id, or NoCount
          request,  \* what each request under way has still to do
          budget, mishaps,
          torn,     \* history: a request died, a failed statement took effect, requests overlapped
          ids,      \* history: ids that were given out; an account that registers has a new one
          partial,  \* history: since the last request came in, a query returned only some of its rows
          sent,     \* history: messages that were sent; their time is in their keys
          kept,     \* history: messages delivered that nobody has asked to delete
          last      \* history: the last reply, until another request starts

dataVars == <<rows, unread, request, budget, mishaps, torn, ids, partial, sent, kept, last>>

None == "none"
Key(t, a, x) == [t |-> t, id |-> a, x |-> x]
Auth(a) == Key("auth", LoginOf[a], None)
Keys == {Auth(a) : a \in Accounts} \cup {Key(t, a, None) : t \in {"account", "counter"}, a \in Accounts}
        \cup {k \in [t : {"connection", "reference"}, id : Accounts, x : Accounts] : k.id # k.x}
        \cup {Key(t, Recipient[m], m) : t \in {"message", "archive"}, m \in Messages}
        \cup {Key("sent", Sender[m], m) : m \in Messages}
NoKey == Key("none", None, None)

NoRequest == [op |-> "none", id |-> None, x |-> None, groups |-> <<>>, clean |-> FALSE]
NoReply == [op |-> "none", id |-> None, x |-> None, ok |-> FALSE, clean |-> FALSE, count |-> 0]

(* Some accounts exist at the beginning, each with a login of its own. *)
DataInit ==
    /\ ids \in {S \in SUBSET Accounts : \A a, b \in S : LoginOf[a] = LoginOf[b] => a = b}
    /\ rows = [k \in Keys |-> IF k.t \in {"account", "counter"} /\ k.id \in ids THEN "new"
                              ELSE IF \E a \in ids : k = Auth(a) THEN CHOOSE a \in ids : k = Auth(a)
                              ELSE "no"]
    /\ unread = [a \in Accounts |-> NoCount]
    /\ request = [r \in Requests |-> NoRequest]
    /\ budget = Budget /\ mishaps = Mishaps
    /\ torn = {} /\ partial = FALSE /\ sent = {} /\ kept = {} /\ last = NoReply

-----------------------------------------------------------------------------
(* Statements: onto says which rows are written, all of them (put, del), absent ones (add) *)
(* or present ones (update); an error is ignored if soft, else undo is deleted first.      *)
Sql(k, v, onto, soft, undo) == [k |-> k, v |-> v, onto |-> onto, soft |-> soft, undo |-> undo]
Put(k) == Sql(k, "new", "all", FALSE, NoKey)
PutOrUndo(k, undo) == Sql(k, "new", "all", FALSE, undo)
Add(k) == Sql(k, "new", "absent", FALSE, NoKey)
AddOrUndo(k, undo) == Sql(k, "new", "absent", FALSE, undo)
AddLogin(a) == Sql(Auth(a), a, "absent", FALSE, NoKey)
SoftAdd(k) == Sql(k, "new", "absent", TRUE, NoKey)
Update(k, v) == Sql(k, v, "present", FALSE, NoKey)
Del(k) == Sql(k, "no", "all", FALSE, NoKey)
SoftDel(k) == Sql(k, "no", "all", TRUE, NoKey)

(* A group: the rows of a query for account a are not known yet; the counter of unread      *)
(* messages moves by bump in the end, after an error only if always.                       *)
Series(query, body, strict, a, bump, always) ==
    [query |-> query, body |-> body, strict |-> strict, id |-> a, bump |-> bump,
     always |-> always, doomed |-> FALSE]
Group(body) == Series(None, body, TRUE, None, 0, FALSE)
Loose(body) == Series(None, body, FALSE, None, 0, FALSE)
Query(q, a) == Series(q, <<>>, TRUE, a, 0, FALSE)
LooseQuery(q, a) == Series(q, <<>>, FALSE, a, 0, FALSE)

(* The rows a query is for: the table, and of a message whether read <> 1 is true of it. *)
Table(q) == CASE q \in {"move", "receive", "read", "message"} -> "message"
              [] q \in {"sentRows", "sent"} -> "sent"
              [] q \in {"unlink", "forget"} -> "connection"
              [] OTHER -> q
Countable(k) == rows[k] = "new" /\ k.x \notin NullRead
Matching(q, a) == {k \in Keys : /\ k.t = Table(q) /\ k.id = a /\ rows[k] # "no"
                                /\ q = "read" => Countable(k)}

(* The rows it returns.  A select has a limit.  A scan asks for page after page, from an      *)
(* offset, and by then the rows of the last page have left the table, or are read: as many    *)
(* others are passed over.                                                                  *)
Returned(q, i) == CASE q = "sent" -> TRUE
                    [] q \in {"receive", "unlink", "forget"} -> i <= Limit
                    [] OTHER -> ((i - 1) \div Page) % 2 = 0
Found(q, a) == LET ks == SetToSeq(Matching(q, a)) IN {ks[i] : i \in {j \in DOMAIN ks : Returned(q, j)}}
Seen(k) == IF rows[k] = "new" THEN -1 ELSE 0
Mirror(k) == Key("reference", k.x, k.id)

ArchiveRowSwapped(k) == <<Del(k), Put([k EXCEPT !.t = "archive"])>>   \* mutant
(* Only the inbox has a column for what was read. *)
ArchiveRow(k) == <<Put([k EXCEPT !.t = "archive"]), Del(k)>>

UnlinkSoft(k) == <<Del(k), SoftDel(Mirror(k))>>   \* mutant
Unlink(k) == <<Del(k), Del(Mirror(k))>>

(* bkDeleteAccount of the connections ks *)
Forget(ks) == [i \in 1..(2 * Len(ks)) |-> IF i % 2 = 1 THEN SoftDel(Mirror(ks[(i + 1) \div 2]))
                                          ELSE Del(ks[i \div 2])]

(* delMessage on a table: every row is counted as read, whatever the table and the outcome. *)
DeleteRows(q, a) ==
    LET ks == SetToSeq(Found(q, a))
    IN [i \in DOMAIN ks |-> Series(None, <<Del(ks[i])>>, FALSE, a, Seen(ks[i]), TRUE)]

(* The bkDeleteAccount methods of connections, counters and messages, each of which may fail. *)
ForgetAccount(a) ==
    <<LooseQuery("forget", a), Loose(<<Del(Key("counter", a, None))>>),
      LooseQuery("message", a), LooseQuery("archive", a), LooseQuery("sent", a)>>

EraseAccountOnly(a) ==   \* mutant
    <<Group(<<Del(Auth(a))>>), Group(<<Update(Key("account", a, None), "deleted")>>),
      Group(<<Del(Key("account", a, None))>>)>>

(* deleteAccount, once bk_account has been read *)
EraseAccount(a) ==
    <<Group(<<Del(Auth(a))>>), Group(<<Update(Key("account", a, None), "deleted")>>)>>
    \o ForgetAccount(a) \o <<Group(<<Del(Key("account", a, None))>>)>>

(* archiveMessage, and getMessage with _archive, of the messages ks *)
MoveRows(ks, a, strict) ==
    [i \in DOMAIN ks |-> Series(None, ArchiveRow(ks[i]), strict, a, Seen(ks[i]), ~strict)]
ReadRows(ks, a) ==
    [i \in DOMAIN ks |-> Series(None, <<Update(ks[i], "read")>>, TRUE, a, -1, TRUE)]
DelRows(ks) == [i \in DOMAIN ks |-> Del(ks[i])]
UnlinkRows(ks) == [i \in DOMAIN ks |-> Group(Unlink(ks[i]))]

(* What follows the rows that a query has returned. *)
Expand(q, a) ==
    CASE q = "move"     -> MoveRows(SetToSeq(Found(q, a)), a, TRUE)
      [] q = "receive"  -> MoveRows(SetToSeq(Found(q, a)), a, FALSE)
      [] q = "read"     -> ReadRows(SetToSeq(Found(q, a)), a)
      [] q \in {"message", "archive", "sentRows"} -> DeleteRows(q, a)
      [] q = "sent"     -> <<Loose(DelRows(SetToSeq(Found(q, a))))>>
      [] q = "unlink"   -> UnlinkRows(SetToSeq(Found(q, a)))
      [] q = "forget"   -> <<Loose(Forget(SetToSeq(Found(q, a))))>>
      [] q = "account"  -> EraseAccount(a)

-----------------------------------------------------------------------------
(* Requests.  All but the first need a login. *)
Erasing == {"delete", "deleteAccount"}
UnderWay(r) == request[r].op # "none"

Start(r, op, a, x, groups) ==
    /\ ~UnderWay(r)
    /\ budget > 0 /\ budget' = budget - 1
    /\ LET others == {q \in Requests : UnderWay(q)}
       IN /\ request' = [q \in Requests |->
                IF q = r
                THEN [op |-> op, id |-> a, x |-> x, groups |-> groups, clean |-> others = {}]
                ELSE [request[q] EXCEPT !.clean = FALSE]]
          /\ torn' = IF others = {} THEN torn ELSE torn \cup {"overlap"}
    /\ ids' = IF op = "addAccount" THEN ids \cup {a} ELSE ids
    /\ partial' = FALSE
    /\ kept' = IF op \in Erasing THEN {m \in kept : Recipient[m] # a} ELSE kept
    /\ last' = NoReply
    /\ UNCHANGED <<rows, unread, mishaps>>

AddAccountNoUndo(a) ==   \* mutant
    <<Group(<<AddLogin(a), Add(Key("account", a, None))>>),
      Loose(<<Put(Key("counter", a, None))>>)>>

AddAccountGroups(a) ==
    <<Group(<<AddLogin(a), AddOrUndo(Key("account", a, None), Auth(a))>>),
      Loose(<<Put(Key("counter", a, None))>>)>>
AddAccount(r, a) ==
    a \notin ids /\ Start(r, "addAccount", a, None, AddAccountGroups(a)) /\ UNCHANGED sent

Login(a) == rows[Auth(a)] = a

DeleteAccount(r, a) ==
    Login(a) /\ Start(r, "deleteAccount", a, None, <<Query("account", a)>>) /\ UNCHANGED sent

MakeConnection(r, a, b) ==
    /\ Login(a) /\ a # b /\ b \in Peers[a]
    /\ LET k == Key("connection", a, b)
       IN \/ Start(r, "make", a, b, <<Group(<<Put(k), PutOrUndo(Mirror(k), k)>>)>>)
          \/ Start(r, "make", a, b, <<Group(<<Add(k), AddOrUndo(Mirror(k), k)>>)>>)
    /\ UNCHANGED sent

DeleteConnection(r, a, b) ==
    /\ Login(a) /\ a # b /\ b \in Peers[a]
    /\ \/ Start(r, "unmake", a, b, <<Group(Unlink(Key("connection", a, b)))>>)
       \/ Start(r, "unmakeAll", a, None, <<Query("unlink", a)>>)
    /\ UNCHANGED sent

(* addMessage: _putMessage, then the recipient's counter.  The key of a message holds its *)
(* time: no message is sent twice.                                                       *)
AddMessage(r, m) ==
    /\ Login(Sender[m]) /\ m \notin sent
    /\ sent' = sent \cup {m}
    /\ Start(r, "send", Sender[m], m,
             <<Series(None, <<Add(Key("message", Recipient[m], m)), SoftAdd(Key("sent", Sender[m], m))>>,
                      FALSE, Recipient[m], 1, FALSE)>>)

(* archiveMessage, getMessage with _archive or _trash, readMessage, delMessage *)
HandleMessages(r, a) ==
    /\ Login(a)
    /\ \/ \E q \in {"move", "receive", "read"} : Start(r, q, a, None, <<Query(q, a)>>)
       \/ \E q \in {"message", "archive"} : Start(r, "delete", a, q, <<Query(q, a)>>)
       \/ Start(r, "deleteSent", a, None, <<Query("sentRows", a)>>)
    /\ UNCHANGED sent

GetUnread(r, a) == Login(a) /\ Start(r, "unread", a, None, <<Query("cache", a)>>) /\ UNCHANGED sent

-----------------------------------------------------------------------------
Answer(r, ok, count) ==
    LET q == request[r]
    IN /\ request' = [request EXCEPT ![r] = NoRequest]
       /\ last' = [op |-> q.op, id |-> q.id, x |-> q.x, ok |-> ok, clean |-> q.clean, count |-> count]

Continue(r, groups) ==
    IF groups = <<>> THEN Answer(r, TRUE, 0)
    ELSE request' = [request EXCEPT ![r].groups = groups] /\ UNCHANGED last

Current(r) == Head(request[r].groups)
Others(r) == Tail(request[r].groups)

BumpedRaw(g, ok) ==   \* mutant
    IF g.bump = 0 \/ ~(ok \/ g.always) THEN unread ELSE [unread EXCEPT ![g.id] = @ + g.bump]
Bumped(g, ok) ==
    IF g.bump = 0 \/ ~(ok \/ g.always) THEN unread
    ELSE [unread EXCEPT ![g.id] = (IF @ = NoCount THEN 0 ELSE @) + g.bump]

(* The end of a group: a strict one that failed ends the request. *)
EndGroup(r, ok) ==
    /\ unread' = Bumped(Current(r), ok)
    /\ IF ~ok /\ Current(r).strict THEN Answer(r, FALSE, 0) ELSE Continue(r, Others(r))

(* The statement is done, or its error does not matter. *)
Proceed(r) ==
    LET g == Current(r)
    IN IF Len(g.body) = 1 THEN EndGroup(r, ~g.doomed)
       ELSE /\ Continue(r, <<[g EXCEPT !.body = Tail(@)]>> \o Others(r))
            /\ UNCHANGED unread

(* An error that matters: what was written before is removed first, if the code does so. *)
GiveUp(r, s) ==
    IF s.undo = NoKey THEN EndGroup(r, FALSE)
    ELSE /\ Continue(r, <<[Current(r) EXCEPT !.body = <<SoftDel(s.undo)>>, !.doomed = TRUE]>> \o Others(r))
         /\ UNCHANGED unread

Affects(s) == CASE s.onto = "all" -> TRUE
                [] s.onto = "absent" -> rows[s.k] = "no"
                [] s.onto = "present" -> rows[s.k] # "no"

Write(s) ==
    /\ rows' = IF Affects(s) THEN [rows EXCEPT ![s.k] = s.v] ELSE rows
    /\ kept' = IF /\ s.k.t = "message" /\ s.onto = "absent" /\ Affects(s)
                  /\ ~\E q \in Requests : request[q].op \in Erasing /\ request[q].id = s.k.id
               THEN kept \cup {s.k.x} ELSE kept

Statement(r) == UnderWay(r) /\ Current(r).query = None /\ Current(r).body # <<>>

Execute(r) ==
    /\ Statement(r)
    /\ LET s == Head(Current(r).body)
       IN IF s.onto = "absent" /\ rows[s.k] # "no"
          THEN /\ IF s.soft THEN Proceed(r) ELSE GiveUp(r, s)
               /\ UNCHANGED <<rows, kept>>
          ELSE Write(s) /\ Proceed(r)
    /\ UNCHANGED <<budget, mishaps, torn, ids, partial, sent>>

(* The database reports an error, and may have done its work all the same. *)
Fail(r) ==
    /\ Statement(r) /\ mishaps > 0 /\ mishaps' = mishaps - 1
    /\ LET s == Head(Current(r).body)
       IN /\ \/ Write(s) /\ torn' = torn \cup {"effect"}
             \/ UNCHANGED <<rows, kept, torn>>
          /\ IF s.soft THEN Proceed(r) ELSE GiveUp(r, s)
    /\ UNCHANGED <<budget, ids, partial, sent>>

NothingToDo(r) ==
    /\ UnderWay(r) /\ Current(r).query = None /\ Current(r).body = <<>>
    /\ EndGroup(r, TRUE)
    /\ UNCHANGED <<rows, kept, budget, mishaps, torn, ids, partial, sent>>

RunQuery(r) ==
    /\ UnderWay(r) /\ Current(r).query \notin {None, "cache", "count", "store"}
    /\ IF Current(r).query = "account" /\ rows[Key("account", Current(r).id, None)] = "no"
       THEN Answer(r, FALSE, 0)
       ELSE Continue(r, Expand(Current(r).query, Current(r).id) \o Others(r))
    /\ partial' = (partial \/ Found(Current(r).query, Current(r).id) # Matching(Current(r).query, Current(r).id))
    /\ UNCHANGED <<rows, unread, kept, budget, mishaps, torn, ids, sent>>

FailQuery(r) ==
    /\ UnderWay(r) /\ Current(r).query \notin {None, "cache", "store"}
    /\ mishaps > 0 /\ mishaps' = mishaps - 1
    /\ EndGroup(r, FALSE)
    /\ UNCHANGED <<rows, kept, budget, torn, ids, partial, sent>>

(* getUnread: a positive counter is the answer, otherwise the table is asked. *)
KnownAtAll(n) == n # NoCount   \* mutant
Known(n) == n # NoCount /\ n > 0

ReadCache(r) ==
    /\ UnderWay(r) /\ Current(r).query = "cache"
    /\ LET n == unread[request[r].id]
       IN IF Known(n) THEN Answer(r, TRUE, n)
          ELSE Continue(r, <<Query("count", request[r].id)>>)
    /\ UNCHANGED <<rows, unread, kept, budget, mishaps, torn, ids, partial, sent>>

(* What a recount sees: SQL does not count the rows whose column read is NULL. *)
Unread(a) == {m \in Messages : Recipient[m] = a /\ Countable(Key("message", a, m))}

CountUnread(r) ==
    /\ UnderWay(r) /\ Current(r).query = "count"
    /\ LET a == request[r].id
       IN Continue(r, <<Series("store", <<>>, TRUE, a, Cardinality(Unread(a)), FALSE)>>)
    /\ UNCHANGED <<rows, unread, kept, budget, mishaps, torn, ids, partial, sent>>

StoreCount(r) ==
    /\ UnderWay(r) /\ Current(r).query = "store"
    /\ LET n == Current(r).bump
       IN unread' = [unread EXCEPT ![request[r].id] = n] /\ Answer(r, TRUE, n)
    /\ UNCHANGED <<rows, kept, budget, mishaps, torn, ids, partial, sent>>

(* The process dies; the statement it waits for may still be done. *)
Crash(r) ==
    /\ UnderWay(r) /\ mishaps > 0 /\ mishaps' = mishaps - 1
    /\ \/ Statement(r) /\ Write(Head(Current(r).body))
       \/ UNCHANGED <<rows, kept>>
    /\ request' = [request EXCEPT ![r] = NoRequest]
    /\ torn' = torn \cup {"crash"}
    /\ UNCHANGED <<unread, budget, ids, partial, sent, last>>

Evict(a) ==
    /\ unread[a] # NoCount /\ mishaps > 0 /\ mishaps' = mishaps - 1
    /\ unread' = [unread EXCEPT ![a] = NoCount]
    /\ UNCHANGED <<rows, request, budget, torn, ids, partial, sent, kept, last>>

Arrives(r) ==
    \/ \E a \in Accounts : \/ AddAccount(r, a) \/ DeleteAccount(r, a)
                           \/ HandleMessages(r, a) \/ GetUnread(r, a)
                           \/ \E b \in Accounts : MakeConnection(r, a, b) \/ DeleteConnection(r, a, b)
    \/ \E m \in Messages : AddMessage(r, m)
Advances(r) ==
    \/ Execute(r) \/ Fail(r) \/ NothingToDo(r) \/ RunQuery(r) \/ FailQuery(r)
    \/ ReadCache(r) \/ CountUnread(r) \/ StoreCount(r) \/ Crash(r)
DataNext == \/ \E r \in Requests : Arrives(r) \/ Advances(r)
            \/ \E a \in Accounts : Evict(a)

DataSpec == DataInit /\ [][DataNext]_dataVars

-----------------------------------------------------------------------------
Values == {"no", "new", "read", "deleted"} \cup Accounts
Statements == [k : Keys, v : Values, onto : {"all", "absent", "present"},
               soft : BOOLEAN, undo : Keys \cup {NoKey}]
Queries == {None, "move", "receive", "read", "message", "archive", "sentRows", "sent", "unlink",
            "forget", "account", "cache", "count", "store"}
Groups == [query : Queries, body : Seq(Statements), strict : BOOLEAN, id : Accounts \cup {None},
           bump : Int, always : BOOLEAN, doomed : BOOLEAN]
Ops == {"addAccount", "deleteAccount", "make", "unmake", "unmakeAll", "send", "move", "receive",
        "read", "delete", "deleteSent", "unread"}

DataTypeOK ==
    /\ rows \in [Keys -> Values]
    /\ unread \in [Accounts -> Int \cup {NoCount}]
    /\ request \in [Requests -> [op : Ops, id : Accounts, groups : Seq(Groups) \ {<<>>},
                                 x : Accounts \cup Messages \cup {None, "message", "archive"},
                                 clean : BOOLEAN] \cup {NoRequest}]
    /\ budget \in 0..Budget /\ mishaps \in 0..Mishaps
    /\ torn \subseteq {"crash", "effect", "overlap"} /\ ids \subseteq Accounts /\ partial \in BOOLEAN
    /\ kept \subseteq sent /\ sent \subseteq Messages

AtRest == \A r \in Requests : ~UnderWay(r)
Present(k) == rows[k] # "no"

(* A delivered message is in the inbox or in the archive until its owner deletes it,      *)
(* whatever fails, dies or runs at the same time (archiving writes one table and then the *)
(* other: archiveMessage, getMessage).                                                    *)
NothingLost ==
    \A m \in kept : Present(Key("message", Recipient[m], m)) \/ Present(Key("archive", Recipient[m], m))

(* A login without an account, which nobody could use or register again, does not come from *)
(* a single failing statement, whatever runs at the same time: addAccount removes the login *)
(* if the account is refused, deleteAccount removes it before the account.  It can come     *)
(* from a crash, and from an error of a statement that took effect.                        *)
NoHalfAccount ==
    AtRest /\ torn \subseteq {"overlap"} /\ Mishaps - mishaps <= 1 =>
        \A a \in Accounts : Login(a) => Present(Key("account", a, None))

(* If a connection was made or deleted with success, and nothing else ran at the time, both *)
(* accounts see the same: the row of the one and the reference of the other.                *)
MirrorsAgree ==
    last.ok /\ last.clean =>
        /\ last.op = "make" => /\ Present(Key("connection", last.id, last.x))
                               /\ Present(Key("reference", last.x, last.id))
        /\ last.op = "unmake" => /\ ~Present(Key("connection", last.id, last.x))
                                 /\ ~Present(Key("reference", last.x, last.id))

(* An account that was deleted without errors, alone, and with no more rows than its queries *)
(* return (Limit connections, Page received and Page archived messages), leaves no login, no  *)
(* row of its own but the references that others made to it, and no reference in another      *)
(* account unless two requests have ever run at the same time: making and deleting a         *)
(* connection at once can leave a reference that nothing finds again.                        *)
DeletedIsGone ==
    last.op = "deleteAccount" /\ last.ok /\ last.clean /\ mishaps = Mishaps /\ ~partial =>
        /\ ~Login(last.id)
        /\ \A k \in Keys : \/ k.t \notin {"auth", "reference"} /\ k.id = last.id
                           \/ k.t = "reference" /\ k.x = last.id /\ torn = {} => ~Present(k)

(* The counter of unread messages drifts, but an account that has unread messages which a   *)
(* recount sees, and asks while nothing else runs, is not told that it has none (getUnread). *)
(* Messages sent without the column read are not seen: read <> 1 is not true of NULL.        *)
UnreadIsSignalled ==
    last.op = "unread" /\ last.ok /\ last.clean /\ Unread(last.id) # {} => last.count > 0
=============================================================================
