------------------------------ MODULE DbPages ------------------------------
(***************************************************************************)
(* lib/db.js: the operations that read a table page by page: db.scan, and  *)
(* over it db.updateAll, db.delAll and the archive of bk_messages,         *)
(* db.migrate, which copies a table out and back, and db.getLocations,     *)
(* which searches the boxes around a place and returns a token to go on    *)
(* with.  One of them runs; meanwhile clients insert and delete rows.      *)
(*                                                                         *)
(* A row is its key, a number: rows are returned in the order of the keys, *)
(* so a page is a set of keys, and its rows are worked on from the least.  *)
(* The SQL drivers page by offset; the DynamoDB driver by the last key. It *)
(* repeats its request until it has the count, which it decrements in the  *)
(* options of its caller: a count that is not positive is no limit.        *)
(***************************************************************************)
EXTENDS Integers, FiniteSets

CONSTANTS
  Keys,        \* the keys of the rows, positive numbers
  NBoxes,      \* the box of a search and its neighbors are 1 .. NBoxes
  BoxOf,       \* BoxOf[k]: the box of row k
  Near,        \* rows within the distance of the place searched
  Count,       \* options.count: the size of a page
  Limits,      \* values of options.limit, 0 for none
  MaxWrites,   \* bound: rows inserted and deleted by clients
  MaxFaults    \* bound: failed statements and crashes

ASSUME KeyAssumption == Keys \subseteq Nat \ {0} /\ IsFiniteSet(Keys) /\ Near \subseteq Keys
ASSUME BoxAssumption == NBoxes \in Nat \ {0} /\ BoxOf \in [Keys -> 1..NBoxes]
ASSUME CountAssumption ==
  Count \in Nat \ {0} /\ Limits \subseteq Nat /\ MaxWrites \in Nat /\ MaxFaults \in Nat

VARIABLES
  task,      \* the operation: driver, op, limit, ignore_error, tmpdrop, and inQuery: the
             \* caller of a search gives the place in the query, not in the options
  table,     \* the rows of the table
  exists,    \* FALSE between its drop and its creation
  other,     \* the rows of the temporary table, or of the archive
  at,        \* where the operation is
  leg,       \* migrate: 1 copies out, 2 copies back
  scan,      \* the options and variables of the scan or search
  seen,      \* history: rows that were given to the callback
  repeats,   \* history: how often a row was given to it again
  stayed,    \* history: rows in the table since the scan began
  owed,      \* history: rows the operation has to keep: those in the table when it
             \* began, and those inserted since, but not while migrate copies them out
  removed,   \* history: rows removed from the table since the scan began
  inserted,  \* history: rows inserted since the scan began
  excused,   \* history: a select of a search failed, or a migration was exposed
             \* to what it does not survive (see RowsKept)
  writes, faults

clients == <<writes, inserted>>
given == <<seen, repeats>>
pagesVars == <<task, table, exists, other, at, leg, scan, given, stayed, owed, removed,
               inserted, excused, writes, faults>>

Sql == task.driver = "sql"
Op(o) == task.op = o

\* The rows the select reads.
Scanned == IF Op("locations") THEN {k \in table : BoxOf[k] = scan.box}
           ELSE IF leg = 2 THEN other ELSE table

\* The n rows of S that come first.
First(S, n) == {k \in S : Cardinality({j \in S : j < k}) < n}

\* Options with a token of 0 have none; got are the rows of a select that goes on.
FirstScan == [start |-> 0, count |-> Count, got |-> {}, page |-> {}, nrows |-> 0,
              box |-> 1, returned |-> 0]

Drivers == {"sql", "dynamodb"}
Tasks == [driver : Drivers, op : {"del", "update"}, limit : Limits, ignore : BOOLEAN,
          tmpdrop : {FALSE}, inQuery : {FALSE}]
         \cup [driver : Drivers, op : {"archive"}, limit : {0}, ignore : {FALSE},
               tmpdrop : {FALSE}, inQuery : {FALSE}]
         \cup [driver : Drivers, op : {"locations"}, limit : {0}, ignore : {FALSE},
               tmpdrop : {FALSE}, inQuery : BOOLEAN]
         \cup [driver : Drivers, op : {"migrate"}, limit : {0}, ignore : {FALSE},
               tmpdrop : BOOLEAN, inQuery : {FALSE}]

\* The steps of whilst before the first select: nrows is 0 and start undefined.
Started == [FirstScan EXCEPT !.count = IF task.limit > 0 /\ task.limit < Count
                                       THEN task.limit ELSE Count]

PagesInit == /\ task \in Tasks
        /\ table \in SUBSET Keys /\ exists = TRUE /\ other = {}
        /\ at = (IF Op("migrate") THEN "dropTemp" ELSE "select")
        /\ leg = 1 /\ scan = Started
        /\ seen = {} /\ repeats = 0
        /\ stayed = table /\ owed = table
        /\ removed = 0 /\ inserted = 0 /\ excused = FALSE
        /\ writes = 0 /\ faults = 0

\* The rows of S are given to the callback.  More repeats than the clients can cause are
\* not counted.
Give(S) ==
  LET again == repeats + Cardinality(S \cap seen)
  IN seen' = seen \cup S /\ repeats' = IF again <= MaxWrites THEN again ELSE MaxWrites + 1

----------------------------------------------------------------------------
\* The test of whilst, and the count its iterator begins the next page with.
More(sc) == sc.start # 0 /\ ~(task.limit > 0 /\ sc.nrows >= task.limit)
PageCountFull(sc) == sc.count   \* mutant
PageCount(sc) == IF task.limit > 0 /\ task.limit - sc.nrows < sc.count
                 THEN task.limit - sc.nrows ELSE sc.count
ScanEnd == IF Op("migrate") THEN IF leg = 1 THEN "drop" ELSE "cleanup" ELSE "done"
Advance(sc) == IF More(sc) THEN /\ at' = "select"
                                /\ scan' = [sc EXCEPT !.count = PageCount(sc)]
                           ELSE at' = ScanEnd /\ scan' = sc

\* The callback of the select in db.scan: an empty page has no rows to wait for.
ScanPage(found, token, count) ==
  LET sc == [scan EXCEPT !.start = token, !.count = count, !.got = {},
                         !.page = found, !.nrows = @ + Cardinality(found)]
  IN /\ IF found = {} THEN Advance(sc) ELSE at' = "rows" /\ scan' = sc
     /\ UNCHANGED given

\* The end of db.getLocations: the token of the next call, if there is more to search.
CallEndInBox(sc) ==   \* mutant: the token is in a box that has been searched
  IF sc.start # 0 \/ sc.box < NBoxes
  THEN at' = "call" /\ scan' = [sc EXCEPT !.count = Count]
  ELSE at' = "done" /\ scan' = sc
CallEnd(sc) ==
  IF sc.start # 0 \/ sc.box < NBoxes
  THEN /\ at' = "call"
       /\ scan' = [sc EXCEPT !.count = Count, !.box = IF sc.start = 0 THEN @ + 1 ELSE @]
  ELSE at' = "done" /\ scan' = sc

\* The rows the distance test leaves: the place is read from the options, and without one
\* every distance is null.
Within == IF task.inQuery THEN {} ELSE Near

\* The callback of the select in db.getLocations and the test of doWhilst.
LocationsPage(found, token, count) ==
  LET near == found \cap Within
      n == Cardinality(near)
      left == IF count > n THEN count - n ELSE IF count > 0 THEN 0 ELSE count
      sc == [scan EXCEPT !.start = token, !.count = left, !.got = {}, !.returned = @ + n]
  IN /\ Give(near)
     /\ IF sc.returned >= Count \/ (token = 0 /\ sc.box = NBoxes) THEN CallEnd(sc)
        ELSE /\ at' = "select"
             /\ scan' = [sc EXCEPT !.box = IF token = 0 THEN @ + 1 ELSE @]

Selected(found, token, count) ==
  IF Op("locations") THEN LocationsPage(found, token, count)
  ELSE ScanPage(found, token, count)

\* SqlPool.nextToken: the offset after a full page.
NextTokenPast(found) ==   \* mutant
  IF scan.count > 0 /\ Cardinality(found) = scan.count THEN scan.start + scan.count + 1 ELSE 0
NextToken(found) ==
  IF scan.count > 0 /\ Cardinality(found) = scan.count THEN scan.start + scan.count ELSE 0

SelectSql ==
  /\ at = "select" /\ Sql /\ (leg = 2 \/ exists)
  /\ LET found == IF scan.count > 0
                   THEN First(Scanned, scan.start + scan.count) \ First(Scanned, scan.start)
                   ELSE Scanned \ First(Scanned, scan.start)
     IN Selected(found, NextToken(found), scan.count)
  /\ UNCHANGED <<task, table, exists, other, leg, stayed, owed, removed, excused, faults, clients>>

\* One request of the DynamoDB driver: the rows up to last, perhaps fewer than there are
\* and than the limit, and the last key unless it was the end of the table.
Request(rows, last, n) ==
  /\ scan.count > 0 => n <= scan.count
  /\ \E token \in (IF rows = {k \in rows : k <= last} THEN {0} ELSE {last})
                   \cup (IF n = scan.count THEN {last} ELSE {}) :
       LET got == scan.got \cup {k \in rows : k <= last}
           count == scan.count - n
       IN IF token # 0 /\ count > 0
          THEN /\ scan' = [scan EXCEPT !.start = token, !.count = count, !.got = got]
               /\ UNCHANGED <<at, given>>
          ELSE Selected(got, token, count)

SelectDynamo ==
  /\ at = "select" /\ ~Sql /\ (leg = 2 \/ exists)
  /\ LET rows == {k \in Scanned : k > scan.start}
     IN \/ rows = {} /\ Selected(scan.got, 0, scan.count)
        \/ \E last \in rows : Request(rows, last, Cardinality({k \in rows : k <= last}))
  /\ UNCHANGED <<task, table, exists, other, leg, stayed, owed, removed, excused, faults, clients>>

\* A select fails: the scan ends with the error, the search returns what it has and a
\* token that is past the box that failed.
SelectFails ==
  /\ at = "select"
  /\ IF exists \/ leg = 2 THEN faults < MaxFaults /\ faults' = faults + 1 ELSE UNCHANGED faults
  /\ IF Op("locations") THEN CallEnd([scan EXCEPT !.got = {}]) /\ excused' = TRUE
     ELSE at' = "failed" /\ UNCHANGED <<scan, excused>>
  /\ UNCHANGED <<task, table, exists, other, leg, given, stayed, owed, removed, clients>>

\* The caller of db.getLocations goes on with the token.
NextCall ==
  /\ at = "call"
  /\ at' = "select" /\ scan' = [scan EXCEPT !.returned = 0]
  /\ UNCHANGED <<task, table, exists, other, leg, given, stayed, owed, removed, excused,
                 faults, clients>>

----------------------------------------------------------------------------
\* The row callbacks.  RowDone is the call of next.
Row == CHOOSE k \in scan.page : \A j \in scan.page : k <= j
RowDone == LET sc == [scan EXCEPT !.page = @ \ {Row}]
           IN IF sc.page = {} THEN Advance(sc) ELSE at' = "rows" /\ scan' = sc
Visit == Give({Row})
TakeOut(k) == /\ table' = table \ {k}
             /\ removed' = removed + IF k \in table THEN 1 ELSE 0

\* db.updateAll updates the row; an update of a row that is gone does nothing.
UpdateRow ==
  /\ at = "rows" /\ Op("update") /\ Visit /\ RowDone
  /\ UNCHANGED <<task, table, exists, other, leg, stayed, owed, removed, excused, faults, clients>>

DelRow ==
  /\ at = "rows" /\ Op("del") /\ Visit /\ RowDone
  /\ TakeOut(Row)
  /\ UNCHANGED <<task, exists, other, leg, stayed, owed, excused, faults, clients>>

\* archiveMessage: the row is put into the archive and then deleted.
ArchiveRow ==
  /\ at = "rows" /\ Op("archive") /\ Visit
  /\ other' = other \cup {Row} /\ at' = "unlink"
  /\ UNCHANGED <<task, table, exists, leg, scan, stayed, owed, removed, excused, faults, clients>>
UnlinkRow ==
  /\ at = "unlink" /\ RowDone
  /\ TakeOut(Row)
  /\ UNCHANGED <<task, exists, other, leg, given, stayed, owed, excused, faults, clients>>

\* db.migrate adds the row to the other table.
CopyRow ==
  /\ at = "rows" /\ Op("migrate") /\ Visit /\ RowDone
  /\ IF leg = 1 THEN other' = other \cup {Row} /\ UNCHANGED table
                ELSE table' = table \cup {Row} /\ UNCHANGED other
  /\ UNCHANGED <<task, exists, leg, stayed, owed, removed, excused, faults, clients>>

\* The statement for a row fails: updateAll and delAll go on if told to ignore it,
\* migrate always does.
RowFailsUnseen ==   \* mutant: the archive does not look at the error of the put
  /\ at \in {"rows", "unlink"} /\ faults < MaxFaults /\ faults' = faults + 1
  /\ IF at = "rows" THEN Visit ELSE UNCHANGED given
  /\ IF Op("archive") /\ at = "rows" THEN at' = "unlink" /\ UNCHANGED scan
     ELSE IF task.ignore \/ Op("migrate") THEN RowDone ELSE at' = "failed" /\ UNCHANGED scan
  /\ excused' = (excused \/ Op("migrate"))
  /\ UNCHANGED <<task, table, exists, other, leg, stayed, owed, removed, clients>>
RowFails ==
  /\ at \in {"rows", "unlink"} /\ faults < MaxFaults /\ faults' = faults + 1
  /\ IF at = "rows" THEN Visit ELSE UNCHANGED given
  /\ IF task.ignore \/ Op("migrate") THEN RowDone ELSE at' = "failed" /\ UNCHANGED scan
  /\ excused' = (excused \/ Op("migrate"))
  /\ UNCHANGED <<task, table, exists, other, leg, stayed, owed, removed, clients>>

----------------------------------------------------------------------------
\* The other steps of db.migrate.
DropTemp ==
  /\ at = "dropTemp"
  /\ other' = {} /\ at' = "select"
  /\ UNCHANGED <<task, table, exists, leg, scan, given, stayed, owed, removed, excused,
                 faults, clients>>
Drop ==
  /\ at = "drop"
  /\ table' = {} /\ exists' = FALSE /\ at' = "create"
  /\ UNCHANGED <<task, other, leg, scan, given, stayed, owed, removed, excused, faults, clients>>
Create ==
  /\ at = "create"
  /\ exists' = TRUE /\ at' = "select" /\ leg' = 2 /\ scan' = Started
  /\ seen' = {} /\ repeats' = 0 /\ stayed' = other /\ removed' = 0 /\ inserted' = 0
  /\ UNCHANGED <<task, table, other, owed, excused, writes, faults>>
Cleanup ==
  /\ at = "cleanup" /\ at' = "done"
  /\ other' = IF task.tmpdrop THEN {} ELSE other
  /\ UNCHANGED <<task, table, exists, leg, scan, given, stayed, owed, removed, excused,
                 faults, clients>>
StepFails ==
  /\ at \in {"dropTemp", "drop", "create", "cleanup"} /\ faults < MaxFaults
  /\ faults' = faults + 1 /\ at' = "failed"
  /\ UNCHANGED <<task, table, exists, other, leg, scan, given, stayed, owed, removed,
                 excused, clients>>

\* The process dies.
Crash ==
  /\ at \notin {"done", "failed"} /\ faults < MaxFaults
  /\ faults' = faults + 1 /\ at' = "failed"
  /\ UNCHANGED <<task, table, exists, other, leg, scan, given, stayed, owed, removed,
                 excused, clients>>

\* The archive or the migration is run again, by a process that creates the tables that
\* are missing (db.createTables) or by one that does not.
Again ==
  /\ at = "failed" /\ (Op("archive") \/ Op("migrate"))
  /\ at' = IF Op("migrate") THEN "dropTemp" ELSE "select"
  /\ leg' = 1 /\ scan' = Started
  /\ exists' \in {exists, TRUE}
  /\ excused' = (excused \/ (Op("migrate") /\ (leg = 2 \/ ~exists)))
  /\ seen' = {} /\ repeats' = 0 /\ stayed' = table /\ removed' = 0 /\ inserted' = 0
  /\ owed' = owed \cup table
  /\ UNCHANGED <<task, table, other, writes, faults>>

----------------------------------------------------------------------------
\* Clients write to the table while it exists.
CopyingOut == Op("migrate") /\ leg = 1 /\ at \in {"select", "rows", "drop"}
Insert(k) ==
  /\ exists /\ k \notin table /\ writes < MaxWrites
  /\ table' = table \cup {k} /\ inserted' = inserted + 1 /\ writes' = writes + 1
  /\ owed' = IF CopyingOut THEN owed ELSE owed \cup {k}
  /\ stayed' = IF at = "dropTemp" THEN stayed \cup {k} ELSE stayed
  /\ UNCHANGED <<task, exists, other, at, leg, scan, given, removed, excused, faults>>
Delete(k) ==
  /\ exists /\ k \in table /\ writes < MaxWrites
  /\ TakeOut(k) /\ writes' = writes + 1
  /\ owed' = owed \ {k} /\ stayed' = IF leg = 2 THEN stayed ELSE stayed \ {k}
  /\ excused' = (excused \/ (Op("migrate") /\ Sql /\ leg = 1 /\ at \in {"select", "rows"}))
  /\ UNCHANGED <<task, exists, other, at, leg, scan, given, inserted, faults>>

PagesStep == \/ SelectSql \/ SelectDynamo \/ NextCall \/ UpdateRow \/ DelRow \/ ArchiveRow
        \/ UnlinkRow \/ CopyRow \/ DropTemp \/ Drop \/ Create \/ Cleanup
Fault == SelectFails \/ RowFails \/ StepFails \/ Crash
PagesNext == PagesStep \/ Fault \/ Again \/ \E k \in Keys : Insert(k) \/ Delete(k)

\* The statements of the operation are answered, and its callbacks run.
Missing == ~exists /\ SelectFails
PagesSpec == PagesInit /\ [][PagesNext]_pagesVars /\ WF_pagesVars(PagesStep \/ Missing)

----------------------------------------------------------------------------
PagesTypeOK ==
  /\ task \in Tasks /\ table \subseteq Keys /\ other \subseteq Keys /\ exists \in BOOLEAN
  /\ at \in {"dropTemp", "select", "rows", "unlink", "call", "drop", "create", "cleanup",
             "done", "failed"}
  /\ scan \in [start : Nat, count : Int, got : SUBSET Keys, page : SUBSET Keys, nrows : Nat,
               box : 1..NBoxes, returned : Nat]
  /\ leg \in 1..2 /\ seen \subseteq Keys /\ repeats \in Nat
  /\ stayed \subseteq Keys /\ owed \subseteq Keys
  /\ removed \in Nat /\ inserted \in Nat /\ excused \in BOOLEAN
  /\ writes \in 0..MaxWrites /\ faults \in 0..MaxFaults

\* Rows the scan or search has to find: those that were there from its beginning.
Due == IF Op("locations") THEN stayed \cap Near ELSE stayed

\* "rows are retrieved in batches and passed to the callback until there are no more":
\* a scan without a limit has visited every row that was there all the time, and a chain
\* of searches has returned every near one, each of them once (db.js:1109).  With
\* offsets every row removed meanwhile, by the callback too, may hide one row and every
\* row inserted may repeat one; the temporary table has no other users.  A search whose
\* select failed misses rows, and one with its place in the query, where the comment of
\* getLocations and its callers put it, finds none (db.js:1466, 1491): both are left out.
Misled == Op("locations") /\ (excused \/ task.inQuery)
EachRowOnce ==
  LET hides == Sql /\ leg = 1
  IN /\ at \in {"drop", "cleanup", "done"} /\ task.limit = 0 /\ ~Misled
        => Cardinality(Due \ seen) <= IF hides THEN removed ELSE 0
     /\ repeats <= IF hides THEN inserted ELSE 0

\* A row that no client deletes is in the table or in the archive at every moment of an
\* archiveMessage, whatever fails and however often it is run.  A row that was in the table
\* when db.migrate began to copy it, or is inserted once the table is created again, is in
\* the table or the temporary table at every moment, unless an add failed (its error is
\* ignored), rows were deleted under the offsets of the copy, or the migration is run
\* again after one that ended between its drop and its end (db.js:1203 drops the copy).
\* Rows inserted from the first select of the copy to the drop (db.js:1227) can be lost
\* and are not in owed, unless the migration fails before the drop and is run again.
RowsKept == Op("archive") \/ (Op("migrate") /\ ~excused) => owed \subseteq table \cup other

\* With the SQL drivers a scan reads at most its limit, and every search but the last
\* returns the count, the last at most that (db.js:1121, db.js:1386).
PagesHoldCount ==
  Sql => /\ task.limit > 0 => scan.nrows <= task.limit
         /\ scan.returned <= Count
         /\ at = "call" /\ ~excused => scan.returned = Count

\* An operation comes to its end, however the driver cuts the pages and clients write.
EventuallyOver == <>(at \in {"done", "failed"})
=============================================================================
