-------------------------------- MODULE Library --------------------------------
(***************************************************************************)
(* The public file library: the handlers of public_files.go, statement by  *)
(* statement, and the page that lists, unlocks, edits and deletes          *)
(* (PublicFiles.js). Devices whose page is closed stand for the other      *)
(* clients and for AdminFiles.js.                                          *)
(***************************************************************************)
EXTENDS Jobs, Sequences

CONSTANT PageSize

ASSUME LibraryAssumption == PageSize \in Nat \ {0}

VARIABLES
  entry,    \* public_files: the owner and the password of each entry
  shelf,    \* its rows, the newest first
  disk,     \* the files in the directory
  rev,      \* history: changes of the table so far
  page      \* the page of each device

libraryVars == <<entry, shelf, disk, rev, page>>

FileIds == Numbers \ {None}
NoEntry == [owner |-> None, pw |-> None]
Locked(id) == entry[id].pw # None

\* A page. mine: the filter; due: the timer of its load runs. rows, more: the entries shown and
\* whether there are others (hasMore). unlocked, key: the state of FileRow. History:
\* the state of the table shown, 0 if mixed; whether entries were skipped;
\* the entries whose lock changed since the page was opened.
FreshPage ==
  [mine |-> FALSE, due |-> TRUE, failed |-> FALSE, rows |-> << >>, more |-> FALSE, fetching |-> FALSE,
   unlocked |-> {}, key |-> [id \in FileIds |-> None], rev |-> 0, skipped |-> FALSE, relocked |-> {}]

Open(d) == d \in DOMAIN page

Ids(rows) == {rows[i].id : i \in 1 .. Len(rows)}

\* What a condition leaves of a list, in its order: the elements at the places in K.
Nth(K, n) == CHOOSE k \in K : Cardinality({i \in K : i <= k}) = n
Picked(list, K) == [n \in 1 .. Cardinality(K) |-> list[Nth(K, n)]]

\* A listed entry can be served, and a file is kept only for an entry or a request.
LibraryTypeOK ==
  /\ \A id \in FileIds : entry[id] # NoEntry <=> \E i \in 1 .. Len(shelf) : shelf[i] = id
  /\ Len(shelf) = Cardinality({shelf[i] : i \in 1 .. Len(shelf)})
  /\ {shelf[i] : i \in 1 .. Len(shelf)} \subseteq disk
  /\ \A id \in disk : entry[id] # NoEntry \/ \E s \in Slots :
       (JobAt(s, "post", "insert") \/ JobAt(s, "drop", "unlink")) /\ job[s].arg.id = id
  /\ DOMAIN page \subseteq home
  /\ \A d \in DOMAIN page :
       LET p == page[d] IN
       /\ DOMAIN p = DOMAIN FreshPage
       /\ Len(p.rows) = Cardinality(Ids(p.rows)) /\ p.unlocked \subseteq Ids(p.rows)

LibraryInit ==
  /\ entry \in [FileIds -> {NoEntry} \cup [owner : Accounts, pw : {None} \cup Passwords]]
  /\ shelf \in {[i \in 1 .. n |-> n + 1 - i] : n \in 0 .. asked}
  /\ \A id \in FileIds : id <= Len(shelf) <=> entry[id] # NoEntry
  /\ disk = {shelf[i] : i \in 1 .. Len(shelf)}
  /\ rev = 1
  /\ page \in {[d \in open |-> FreshPage] : open \in SUBSET home}

-----------------------------------------------------------------------------
\* The handlers.

Privileged(j, id) == j.admin \/ entry[id].owner = Who(j.tok)

\* What a row says of an entry: "open" is not locked.
RowOf(j, id) ==
  [id |-> id, private |-> Locked(id), mine |-> entry[id].owner = Who(j.tok),
   open |-> ~Locked(id) \/ Privileged(j, id)]

Selected(j, mine) ==
  Picked(shelf, {i \in 1 .. Len(shelf) : mine => entry[shelf[i]].owner = Who(j.tok)})

\* ListPublicFiles.
ListSelect(s) ==
  LET j == job[s]
      found == Selected(j, j.arg.mine)
      last == j.arg.offset + PageSize
      ids == SubSeq(found, j.arg.offset + 1, IF last < Len(found) THEN last ELSE Len(found))
  IN
  /\ j.op \in {"load", "more"} /\ j.step = "select"
  /\ job' = [job EXCEPT ![s].step = "done",
               ![s].reply = [rev |-> rev, rows |-> [i \in 1 .. Len(ids) |-> RowOf(j, ids[i])]]]
  /\ UNCHANGED libraryVars

\* UploadPublicFile: the file first, removed again if its row cannot be stored because
\* the account is gone.
UploadSave(s) ==
  /\ JobAt(s, "post", "save")
  /\ disk' = disk \cup {job[s].arg.id}
  /\ JobGoes(s, "insert")
  /\ UNCHANGED <<entry, shelf, rev, page>>

UploadInsert(s) ==
  LET a == job[s].arg
      w == Who(job[s].tok)
  IN
  /\ JobAt(s, "post", "insert")
  /\ \/ /\ w # None
        /\ entry' = [entry EXCEPT ![a.id] = [owner |-> w, pw |-> a.pw]]
        /\ shelf' = <<a.id>> \o shelf
        /\ rev' = rev + 1
        /\ JobGoes(s, "done")
        /\ UNCHANGED disk
     \/ /\ w = None
        /\ disk' = disk \ {a.id}
        /\ JobGoes(s, "error")
        /\ UNCHANGED <<entry, shelf, rev>>
  /\ UNCHANGED page

\* The read that UpdatePublicFile and DeletePublicFile begin with.
OwnerRead(s) ==
  LET j == job[s]
      id == j.arg.id
  IN
  /\ j.op \in {"edit", "drop"} /\ j.step = "read"
  /\ JobGoes(s, IF entry[id] = NoEntry THEN "error"
                ELSE IF ~Privileged(j, id) THEN "403"
                ELSE IF j.op = "drop" THEN "delete"
                ELSE IF j.arg.private /\ ~Locked(id) /\ j.arg.pw = None THEN "error"
                ELSE "update")
  /\ UNCHANGED libraryVars

\* The constraint of the table refuses a private entry without a password, which
\* another edit may have taken away by now.
EditUpdate(s) ==
  LET a == job[s].arg
      pw == IF ~a.private THEN None ELSE IF a.pw # None THEN a.pw ELSE entry[a.id].pw
  IN
  /\ JobAt(s, "edit", "update")
  /\ \/ /\ entry[a.id] = NoEntry
        /\ JobGoes(s, "done") /\ UNCHANGED <<entry, rev, page>>
     \/ /\ entry[a.id] # NoEntry /\ a.private /\ pw = None
        /\ JobGoes(s, "error") /\ UNCHANGED <<entry, rev, page>>
     \/ /\ entry[a.id] # NoEntry /\ ~(a.private /\ pw = None)
        /\ entry' = [entry EXCEPT ![a.id].pw = pw]
        /\ rev' = rev + 1
        /\ page' = [d \in DOMAIN page |-> IF pw # entry[a.id].pw
             THEN [page[d] EXCEPT !.relocked = @ \cup {a.id}] ELSE page[d]]
        /\ JobGoes(s, "done")
  /\ UNCHANGED <<shelf, disk>>

\* Mutant of DropDelete: the file goes first.
DropDeleteLast(s) ==
  LET id == job[s].arg.id IN
  /\ JobAt(s, "drop", "delete")
  /\ disk' = disk \ {id}
  /\ job' = [job EXCEPT ![s].step = "unlink", ![s].reply = [from |-> rev, to |-> rev]]
  /\ UNCHANGED <<entry, shelf, rev, page>>

DropDelete(s) ==
  LET id == job[s].arg.id IN
  /\ JobAt(s, "drop", "delete")
  /\ entry' = [entry EXCEPT ![id] = NoEntry]
  /\ shelf' = Picked(shelf, {i \in 1 .. Len(shelf) : shelf[i] # id})
  /\ rev' = IF entry[id] = NoEntry THEN rev ELSE rev + 1
  /\ job' = [job EXCEPT ![s].step = "unlink", ![s].reply = [from |-> rev, to |-> rev']]
  /\ UNCHANGED <<disk, page>>

DropUnlink(s) ==
  /\ JobAt(s, "drop", "unlink")
  /\ disk' = disk \ {job[s].arg.id}
  /\ JobGoes(s, "done")
  /\ UNCHANGED <<entry, shelf, rev, page>>

\* Mutant of UnlockRead: any password does.
UnlockReadAny(s) ==
  /\ JobAt(s, "unlock", "read")
  /\ JobGoes(s, IF entry[job[s].arg.id] = NoEntry THEN "error" ELSE "done")
  /\ UNCHANGED libraryVars

\* CheckPublicFilePassword, which knows no privilege.
UnlockRead(s) ==
  LET a == job[s].arg IN
  /\ JobAt(s, "unlock", "read")
  /\ JobGoes(s, IF entry[a.id] = NoEntry THEN "error"
                ELSE IF ~Locked(a.id) \/ entry[a.id].pw # a.pw THEN "403" ELSE "done")
  /\ UNCHANGED libraryVars

Opens(j, id, pw) == ~Locked(id) \/ Privileged(j, id) \/ entry[id].pw = pw

\* DownloadPublicFile: the entry, then the file.
FetchRead(s) ==
  LET a == job[s].arg IN
  /\ JobAt(s, "fetch", "read")
  /\ JobGoes(s, IF entry[a.id] = NoEntry THEN "error"
                ELSE IF Opens(job[s], a.id, a.pw) THEN "stat" ELSE "403")
  /\ UNCHANGED libraryVars

FetchStat(s) ==
  /\ JobAt(s, "fetch", "stat")
  /\ JobGoes(s, IF job[s].arg.id \in disk THEN "done" ELSE "error")
  /\ UNCHANGED libraryVars

LibraryHandles(s) ==
  \/ ListSelect(s) \/ UploadSave(s) \/ UploadInsert(s) \/ OwnerRead(s) \/ EditUpdate(s)
  \/ DropDelete(s) \/ DropUnlink(s) \/ UnlockRead(s) \/ FetchRead(s) \/ FetchStat(s)

-----------------------------------------------------------------------------
\* What the page asks for. Every load makes the older lists outdated (requestRef).

IsList(j) == j.op \in {"load", "more"}
Outdated(j) == IF IsList(j) THEN [j EXCEPT !.arg.newest = FALSE] ELSE j

ListRequest(s, op, mine, offset) ==
  Request(s, op, [mine |-> mine, offset |-> offset, newest |-> TRUE], "select")

Load(s, mine) ==
  job' = [t \in Slots |-> IF t = s THEN ListRequest(s, "load", mine, 0)
                          ELSE IF Device[t] = Device[s] THEN Outdated(job[t]) ELSE job[t]]

LeavesJobs(d) == [t \in Slots |-> IF Device[t] = d THEN [job[t] EXCEPT !.here = FALSE] ELSE job[t]]

\* The page is opened anew, or its filter is changed: the load waits for a timer.
Visit(d) ==
  /\ d \in home
  /\ page' = [e \in DOMAIN page \cup {d} |-> IF e = d THEN FreshPage ELSE page[e]]
  /\ job' = LeavesJobs(d)

ToggleMine(d) ==
  /\ Open(d)
  /\ page' = [page EXCEPT ![d].mine = ~@, ![d].due = TRUE]
  /\ UNCHANGED job

LoadDue(s) ==
  /\ Open(Device[s]) /\ page[Device[s]].due /\ Free(s)
  /\ page' = [page EXCEPT ![Device[s]].due = FALSE]
  /\ Load(s, page[Device[s]].mine)

LoadMore(s) ==
  LET p == page[Device[s]] IN
  /\ Open(Device[s]) /\ p.more /\ ~p.fetching
  /\ Sends(s, ListRequest(s, "more", p.mine, Len(p.rows)))
  /\ page' = [page EXCEPT ![Device[s]].fetching = TRUE]

\* FileRow: a locked row asks for the password first.
SubmitPassword(s) ==
  LET p == page[Device[s]] IN
  /\ Open(Device[s])
  /\ \E id \in Ids(p.rows) \ p.unlocked, pw \in Passwords :
       Sends(s, Request(s, "unlock", [id |-> id, pw |-> pw], "read"))
  /\ UNCHANGED page

FetchRequest(s, id, pw) == Request(s, "fetch", [id |-> id, pw |-> pw], "read")

OpenRow(s) ==
  LET p == page[Device[s]] IN
  /\ Open(Device[s])
  /\ \E id \in p.unlocked :
       /\ ~\E t \in Slots : Device[t] = Device[s] /\ job[t].op = "fetch" /\ job[t].here /\ job[t].arg.id = id
       /\ Sends(s, FetchRequest(s, id, p.key[id]))
  /\ UNCHANGED page

Mine(d) == Open(d) /\ page[d].mine

\* UploadModal; the filter is that of the load that will follow.
Upload(s) ==
  \E pw \in {None} \cup Passwords :
    /\ Counted
    /\ Sends(s, Request(s, "post", [id |-> asked + 1, pw |-> pw, mine |-> Mine(Device[s])], "save"))

\* The rows that offer it, or any entry elsewhere.
Offered(d) ==
  IF Open(d)
  THEN {[id |-> row.id, private |-> row.private] :
          row \in {page[d].rows[i] : i \in {k \in 1 .. Len(page[d].rows) : page[d].rows[k].mine}}}
  ELSE {[id |-> id, private |-> Locked(id)] : id \in {x \in FileIds : entry[x] # NoEntry}}

EditModal(s) ==
  \E row \in Offered(Device[s]), private \in BOOLEAN, pw \in {None} \cup Passwords :
    /\ IF private THEN row.private \/ pw # None ELSE pw = None
    /\ Counted
    /\ Sends(s, Request(s, "edit", [id |-> row.id, private |-> private, pw |-> pw,
                                    mine |-> Mine(Device[s])], "read"))

Remove(s) ==
  \E row \in Offered(Device[s]) :
    Counted /\ Sends(s, Request(s, "drop", [id |-> row.id], "read"))

LibraryAsks(s) ==
  \/ (LoadDue(s) \/ LoadMore(s) \/ SubmitPassword(s) \/ OpenRow(s)) /\ UNCHANGED asked
  \/ (Upload(s) \/ EditModal(s) \/ Remove(s)) /\ UNCHANGED page

-----------------------------------------------------------------------------
\* What answers do to the page.

\* Rows are kept by id: one that was there before keeps its state.
Showing(p, rows) ==
  LET kept == Ids(p.rows) \cap Ids(rows) IN
  [p EXCEPT !.rows = rows,
     !.unlocked = (@ \cap kept) \cup {rows[i].id : i \in {k \in 1 .. Len(rows) :
                                        rows[k].open /\ rows[k].id \notin kept}},
     !.key = [id \in FileIds |-> IF id \in kept THEN @[id] ELSE None]]

\* Mutant of Applies: a late list is shown like any other.
AppliesAlways(j) == TRUE

\* The check of requestRef.
Applies(j) == j.arg.newest

\* "more" was asked for before this list came, and will be put after it.
Adding(s) ==
  \E t \in Slots : Device[t] = Device[s] /\ job[t].op = "more" /\ job[t].here /\ job[t].arg.newest

Loaded(s, p) ==
  LET j == job[s] IN
  IF ~Applies(j) THEN p
  ELSE [Showing(p, j.reply.rows) EXCEPT !.more = Len(j.reply.rows) = PageSize, !.failed = FALSE,
          !.rev = j.reply.rev,
          !.skipped = p.mine # j.arg.mine \/ Adding(s)]

LoadedMore(s, p) ==
  LET j == job[s]
      sent == j.reply.rows
      new == Picked(sent, {i \in 1 .. Len(sent) : sent[i].id \notin Ids(p.rows)})
  IN
  IF ~Applies(j) THEN [p EXCEPT !.fetching = FALSE]
  ELSE [Showing(p, p.rows \o new) EXCEPT !.more = Len(sent) = PageSize, !.fetching = FALSE,
          !.rev = IF @ = j.reply.rev THEN @ ELSE 0]

Deleted(s, p) ==
  LET j == job[s] IN
  [Showing(p, Picked(p.rows, {i \in 1 .. Len(p.rows) : p.rows[i].id # j.arg.id})) EXCEPT
     !.rev = IF @ = j.reply.from THEN j.reply.to ELSE 0,
     !.skipped = @ \/ p.fetching]

\* The page p after the answer it waited for, which may be that the network failed.
After(s, p, lost) ==
  LET j == job[s]
      done == j.step = "done" /\ ~lost
  IN
  CASE j.op = "load" -> IF done THEN Loaded(s, p) ELSE [p EXCEPT !.failed = @ \/ Applies(j)]
    [] j.op = "more" -> IF done THEN LoadedMore(s, p) ELSE [p EXCEPT !.failed = TRUE, !.fetching = FALSE]
    [] j.op = "drop" /\ done -> Deleted(s, p)
    [] j.op = "unlock" /\ done -> [p EXCEPT !.unlocked = @ \cup {j.arg.id}, !.key[j.arg.id] = j.arg.pw]
    [] OTHER -> p

LibraryOps == {"load", "more", "post", "edit", "drop", "unlock", "fetch"}

\* Rows that are gone wait for nothing, nor does whoever has left the application.
Waits(t) ==
  LET d == Device[t] IN
  [job[t] EXCEPT !.here = @ /\ d \in home'
     /\ (job[t].op \in {"unlock", "fetch"} => job[t].arg.id \in Ids(page'[d].rows))]

\* A saved edit or upload loads the list again, an unlocked row its file. The raw
\* requests of uploads and downloads sign nobody out.
LibraryAnswer(s) ==
  LET d == Device[s]
      j == job[s]
      shown == j.here /\ Open(d)
  IN
  /\ j.op \in LibraryOps /\ j.step \in Ended
  /\ Refuses(s, {"post", "fetch"})
  /\ page' = [e \in DOMAIN page \cap home' |-> IF e = d /\ shown THEN After(s, page[e], FALSE) ELSE page[e]]
  /\ LET again == shown /\ j.step = "done"
     IN IF again /\ j.op \in {"post", "edit"} THEN Load(s, j.arg.mine)
        ELSE job' = [t \in Slots |->
          IF t # s THEN IF Device[t] = d THEN Waits(t) ELSE job[t]
          ELSE IF again /\ j.op = "unlock" THEN FetchRequest(s, j.arg.id, j.arg.pw) ELSE NoJob]
  /\ UNCHANGED <<asked, entry, shelf, disk, rev>>

\* The network fails instead.
LibraryLost(s) ==
  LET d == Device[s]
      j == job[s]
  IN
  /\ j.op \in LibraryOps /\ j.step \in Ended
  /\ faults < MaxFaults /\ faults' = faults + 1
  /\ page' = IF j.here /\ Open(d) THEN [page EXCEPT ![d] = After(s, @, TRUE)] ELSE page
  /\ job' = [job EXCEPT ![s] = NoJob]
  /\ UNCHANGED <<asked, entry, shelf, disk, rev, token, home, identity, panel, skipped>>

LibraryStep ==
  /\ \/ \E s \in Slots : LibraryAsks(s) /\ UNCHANGED <<entry, shelf, disk, rev, pageVars>>
     \/ \E s \in Slots : LibraryHandles(s) /\ UNCHANGED <<asked, pageVars>>
     \/ \E s \in Slots : LibraryAnswer(s) \/ LibraryLost(s)
     \/ \E d \in Devices : (Visit(d) \/ ToggleMine(d)) /\ UNCHANGED <<asked, entry, shelf, disk, rev, pageVars>>
  /\ UNCHANGED <<user, sessions, req, raced>>

-----------------------------------------------------------------------------
\* Properties.

Listing(d) == \E s \in Slots : Device[s] = d /\ IsList(job[s]) /\ job[s].here

\* A page that waits for no list and shows one state of the table shows the first
\* entries of its filter in their order, and all of them if it offers no more
\* (PublicFiles.js:566), whatever lists, uploads, edits and deletions overlapped. Entries
\* are skipped or out of place when "more" overlaps a load or a deletion, and when an
\* upload reloads with the filter it began with (PublicFiles.js:604). As for the tokens,
\* a name that went to another account while it was signed in to is left out.
PagesFit ==
  \A d \in DOMAIN page :
    LET p == page[d]
        all == Selected([tok |-> token[d]], p.mine)
    IN
    /\ ~p.due /\ ~p.failed /\ ~Listing(d)
    /\ p.rev = rev /\ ~p.skipped /\ Accepts(token[d]) /\ "renamed" \notin raced
    => /\ Len(p.rows) <= Len(all)
       /\ p.more \/ Len(p.rows) = Len(all)
       /\ \A i \in 1 .. Len(p.rows) : p.rows[i].id = all[i] /\ p.rows[i].private = Locked(all[i])

\* The server serves whatever a page shows unlocked, with the password the page holds
\* (PublicFiles.js:98), as long as the entry is there and its lock has not changed
\* for the page since it was opened, which it does when its user is an administrator no
\* more: a row keeps its state when the list is loaded again.
UnlockedOpens ==
  \A d \in DOMAIN page : \A id \in page[d].unlocked \ page[d].relocked :
    entry[id] # NoEntry /\ Accepts(token[d]) /\ "renamed" \notin raced =>
      /\ Opens([tok |-> token[d], admin |-> user[token[d].name].admin], id, page[d].key[id])
      /\ id \in disk
=============================================================================
