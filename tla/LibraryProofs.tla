---------------------------- MODULE LibraryProofs ----------------------------
(***************************************************************************)
(* The file library and the requests of the pages, for any number of       *)
(* names, devices, slots, entries and page sizes: that the table, the      *)
(* files, the pages and every request and answer under way keep their      *)
(* types and what ties them together, and so the types of all of Office.   *)
(***************************************************************************)
EXTENDS OfficeProofs, SequenceTheorems

-----------------------------------------------------------------------------
\* Types of the module SignIn.

LEMMA SignInTypes == OfficeInv => SignInTypeOK
<1> SUFFICES ASSUME OfficeInv PROVE SignInTypeOK
  OBVIOUS
<1>1. AccountsTypeOK
  <2>1. ASSUME NEW s \in Slots
        PROVE  /\ req[s] = Idle \/ (req[s].op \in Ops /\ req[s].step \in Steps)
               /\ req[s].tok \in Token \cup {NoToken}
               /\ req[s].bundle \in Bundles
    <3>1. req[s] \in AnyRequest /\ Sound(req[s])
      BY DEF OfficeInv, AccountsInv, ServerOK
    <3>2. req[s].op \in Ops \cup {"none"} /\ req[s].step \in Steps \cup {"idle"}
          /\ req[s].tok \in Token \cup {NoToken} /\ req[s].bundle \in Bundles
      BY <3>1 DEF AnyRequest
    <3> QED BY <3>1, <3>2 DEF Sound
  <2> QED BY <2>1 DEF OfficeInv, AccountsInv, ServerOK, SessionsOK, AccountsTypeOK, Session, Exists
<1>2. \A d \in Devices \ home : token[d] = NoToken \/ \E s \in Slots :
        Device[s] = d /\ (At(s, "login", "setup") \/ req[s].op = "upload")
  BY DEF OfficeInv, AccountsInv, SigningOK, Holding, At
<1> QED BY <1>1, <1>2 DEF OfficeInv, AccountsInv, ServerOK, SignInTypeOK

-----------------------------------------------------------------------------
\* Parts of lists.

\* The place of k in a set of places.
Rank(K, k) == Cardinality({i \in K : i <= k})

LEMMA PlacesFinite ==
  ASSUME NEW n \in Nat, NEW K \in SUBSET (1 .. n)
  PROVE  IsFiniteSet(K)
<1>1. IsFiniteSet(1 .. n)
  BY FS_Interval
<1> QED BY <1>1, FS_Subset

LEMMA RankGrows ==
  ASSUME NEW n \in Nat, NEW K \in SUBSET (1 .. n), NEW k \in K, NEW l \in K, k < l
  PROVE  Rank(K, k) \in Nat /\ Rank(K, l) \in Nat /\ Rank(K, k) < Rank(K, l)
<1> DEFINE T == {i \in K : i <= k}
           S == {i \in K : i <= l}
<1>1. IsFiniteSet(S)
  <2>1. S \in SUBSET (1 .. n)
    OBVIOUS
  <2> QED BY <2>1, PlacesFinite
<1>2. T \in SUBSET S /\ l \in S /\ l \notin T
  <2>1. k \in Nat /\ l \in Nat /\ \A i \in K : i \in Nat
    OBVIOUS
  <2>2. ~(l <= k) /\ (\A i \in K : i <= k => i <= l) /\ l <= l
    BY <2>1
  <2> QED BY <2>2
<1> HIDE DEF T, S
<1>3. Cardinality(T) <= Cardinality(S) /\ Cardinality(S) # Cardinality(T) /\ IsFiniteSet(T)
  BY <1>1, <1>2, FS_Subset
<1>4. Cardinality(T) \in Nat /\ Cardinality(S) \in Nat
  BY <1>1, <1>3, FS_CardinalityType
<1> QED BY <1>3, <1>4 DEF Rank, T, S

LEMMA RankRange ==
  ASSUME NEW n \in Nat, NEW K \in SUBSET (1 .. n), NEW k \in K
  PROVE  Rank(K, k) \in 1 .. Cardinality(K)
<1> DEFINE T == {i \in K : i <= k}
<1>1. IsFiniteSet(K)
  BY PlacesFinite
<1>2. T \in SUBSET K /\ {k} \in SUBSET T
  OBVIOUS
<1> HIDE DEF T
<1>3. IsFiniteSet(T) /\ Cardinality(T) <= Cardinality(K)
  BY <1>1, <1>2, FS_Subset
<1>4. Cardinality({k}) <= Cardinality(T) /\ Cardinality({k}) = 1
  BY <1>2, <1>3, FS_Subset, FS_Singleton
<1>5. Cardinality(T) \in Nat /\ Cardinality(K) \in Nat
  BY <1>1, <1>3, FS_CardinalityType
<1> QED BY <1>3, <1>4, <1>5 DEF Rank, T

\* Every place has a rank of its own, and there is one of each rank.
LEMMA NthIs ==
  ASSUME NEW n \in Nat, NEW K \in SUBSET (1 .. n)
  PROVE  /\ IsFiniteSet(K) /\ Cardinality(K) \in Nat
         /\ \A m \in 1 .. Cardinality(K) : Nth(K, m) \in K /\ Rank(K, Nth(K, m)) = m
         /\ \A k \in K : k = Nth(K, Rank(K, k))
<1> DEFINE f == [k \in K |-> Rank(K, k)]
           c == Cardinality(K)
<1>1. IsFiniteSet(K)
  BY PlacesFinite
<1>2. c \in Nat
  BY <1>1, FS_CardinalityType
<1>3. f \in [K -> 1 .. c]
  BY RankRange
<1>4. \A k, l \in K : k # l => f[k] # f[l]
  <2>1. ASSUME NEW k \in K, NEW l \in K, k < l PROVE f[k] # f[l]
    <3>1. Rank(K, k) \in Nat /\ Rank(K, l) \in Nat /\ Rank(K, k) < Rank(K, l)
      BY <2>1, RankGrows
    <3> QED BY <3>1
  <2>2. \A k, l \in K : k # l => k < l \/ l < k
    <3>1. \A k \in K : k \in Nat
      OBVIOUS
    <3> QED BY <3>1
  <2> QED BY <2>1, <2>2
<1>5. f \in Injection(K, 1 .. c)
  BY <1>3, <1>4 DEF Injection, IsInjective
<1>6. IsFiniteSet(1 .. c) /\ Cardinality(1 .. c) = c
  BY <1>2, FS_Interval
<1>7. f \in Surjection(K, 1 .. c)
  <2> HIDE DEF f
  <2> QED BY <1>5, <1>6, FS_Injection
<1>8. \A m \in 1 .. c : \E k \in K : Rank(K, k) = m
  <2> TAKE m \in 1 .. c
  <2>1. PICK k \in K : f[k] = m
    BY <1>7 DEF Surjection
  <2> QED BY <2>1
<1>9. ASSUME NEW m \in 1 .. c PROVE Nth(K, m) \in K /\ Rank(K, Nth(K, m)) = m
  BY <1>8 DEF Nth, Rank
<1>10. ASSUME NEW k \in K PROVE k = Nth(K, Rank(K, k))
  <2>1. Rank(K, k) \in 1 .. c
    BY RankRange
  <2>2. Nth(K, Rank(K, k)) \in K /\ Rank(K, Nth(K, Rank(K, k))) = Rank(K, k)
    BY <1>9, <2>1
  <2> QED BY <1>4, <2>2
<1> QED BY <1>1, <1>2, <1>9, <1>10

LEMMA NthGrows ==
  ASSUME NEW n \in Nat, NEW K \in SUBSET (1 .. n), NEW m \in 1 .. Cardinality(K), NEW o \in 1 .. Cardinality(K), m < o
  PROVE  Nth(K, m) < Nth(K, o)
<1>1. Nth(K, m) \in K /\ Rank(K, Nth(K, m)) = m /\ Nth(K, o) \in K /\ Rank(K, Nth(K, o)) = o
  BY NthIs
<1>2. PICK k \in K, l \in K : k = Nth(K, m) /\ l = Nth(K, o)
  BY <1>1
<1>3. Rank(K, k) = m /\ Rank(K, l) = o
  BY <1>1, <1>2
<1>4. ~(l <= k)
  <2>1. Cardinality(K) \in Nat
    BY NthIs
  <2>2. CASE l = k
    BY <1>3, <2>2, <2>1
  <2>3. CASE l < k
    BY <1>3, <2>3, <2>1, RankGrows
  <2> QED BY <2>2, <2>3
<1> QED BY <1>2, <1>4

\* The elements that are left, in their order.
LEMMA PickedIs ==
  ASSUME NEW S, NEW list \in Seq(S), NEW K \in SUBSET (1 .. Len(list))
  PROVE  LET q == Picked(list, K) IN
         /\ q \in Seq(S) /\ Len(q) = Cardinality(K) /\ Len(q) \in Nat
         /\ \A m \in 1 .. Len(q) : Nth(K, m) \in K /\ q[m] = list[Nth(K, m)]
         /\ \A m, o \in 1 .. Len(q) : m < o => Nth(K, m) < Nth(K, o)
         /\ \A k \in K : \E m \in 1 .. Len(q) : Nth(K, m) = k /\ q[m] = list[k]
<1> DEFINE q == Picked(list, K)
           c == Cardinality(K)
<1>1. Len(list) \in Nat
  OBVIOUS
<1>2. c \in Nat
  BY <1>1, NthIs
<1>3. \A m \in 1 .. c : Nth(K, m) \in K
  BY <1>1, NthIs
<1>4. q = [m \in 1 .. c |-> list[Nth(K, m)]]
  BY DEF Picked
<1>5. \A m \in 1 .. c : list[Nth(K, m)] \in S
  BY <1>3, ElementOfSeq
<1>6. q \in Seq(S) /\ Len(q) = c
  BY <1>2, <1>4, <1>5
<1>7. \A m, o \in 1 .. c : m < o => Nth(K, m) < Nth(K, o)
  BY <1>1, NthGrows
<1>8. ASSUME NEW k \in K PROVE \E m \in 1 .. c : Nth(K, m) = k
  <2>1. Rank(K, k) \in 1 .. c
    BY <1>1, RankRange
  <2>2. k = Nth(K, Rank(K, k))
    BY <1>1, NthIs
  <2> QED BY <2>1, <2>2
<1> QED BY <1>2, <1>3, <1>4, <1>6, <1>7, <1>8

-----------------------------------------------------------------------------
\* Requests of pages, field by field.

JobSteps == Ended \cup {"idle", "check", "insert", "update", "select", "save",
                        "read", "delete", "unlink", "stat", "remove"}

ListArg(mine, offset, newest) == [mine |-> mine, offset |-> offset, newest |-> newest]

PageRow == [id : FileIds, private : BOOLEAN, mine : BOOLEAN, open : BOOLEAN]
Spread(rows) == \A i, k \in 1 .. Len(rows) : rows[i].id = rows[k].id => i = k
RowsOK(rows) == rows \in Seq(PageRow) /\ Spread(rows)
Keys == {None} \cup Passwords

\* What a request is of its own accord.
JobOK(j) ==
  /\ j.here \in BOOLEAN /\ j.admin \in BOOLEAN /\ j.step \in JobSteps
  /\ j.op \in {"none"} \cup DeskOps \cup LibraryOps
  /\ j.op = "none" => j = NoJob
  /\ IsList(j) => /\ j.arg = ListArg(j.arg.mine, j.arg.offset, j.arg.newest)
                  /\ j.arg.mine \in BOOLEAN /\ j.arg.offset \in Nat /\ j.arg.newest \in BOOLEAN
                  /\ j.op = "load" => j.arg.offset = 0
                  /\ j.step \in {"select", "done", "401"}
                  /\ j.step = "done" => j.reply.rev \in Nat /\ RowsOK(j.reply.rows)
  /\ j.op \in {"post", "edit"} => j.arg.pw \in Keys /\ j.arg.mine \in BOOLEAN
  /\ j.op \in {"unlock", "fetch"} => j.arg.pw \in Keys
  /\ j.op = "unlock" => j.arg.pw \in Passwords
  /\ j.op = "post" => j.step \notin {"read", "unlink", "check", "update", "delete", "select", "stat"}
  /\ j.op = "drop" => j.step \in {"read", "delete", "unlink", "done", "error", "403", "401"}
  /\ j.op = "drop" /\ j.step \in {"unlink", "done"} =>
       j.reply.from \in Nat /\ j.reply.to \in Nat /\ j.reply.to \in {j.reply.from, j.reply.from + 1}

JobsOK == \A s \in Slots : JobOK(job[s])

\* It goes on as it was, or nobody waits for it any more, or its list is outdated.
Weakens(t) ==
  /\ IsJob(job'[t]) /\ job'[t].op = job[t].op /\ job'[t].step = job[t].step /\ job'[t].tok = job[t].tok
  /\ job'[t].admin = job[t].admin /\ job'[t].reply = job[t].reply
  /\ job'[t].here \in BOOLEAN /\ (job'[t].here => job[t].here)
  /\ \/ job'[t].arg = job[t].arg
     \/ IsList(job[t]) /\ job'[t].arg = ListArg(job[t].arg.mine, job[t].arg.offset, FALSE)

Rest(s) == job' = [t \in Slots |-> job'[t]] /\ \A t \in Slots \ {s} : Weakens(t)
AllWeaken == job' = [t \in Slots |-> job'[t]] /\ \A t \in Slots : Weakens(t)

Follows(s, step, reply) ==
  /\ IsJob(job'[s]) /\ job'[s].op = job[s].op /\ job'[s].step = step /\ job'[s].tok = job[s].tok
  /\ job'[s].admin = job[s].admin /\ job'[s].arg = job[s].arg /\ job'[s].reply = reply
  /\ job'[s].here = job[s].here
  /\ Rest(s) /\ \A t \in Slots \ {s} : job'[t] = job[t]

LEMMA ListArgIs ==
  ASSUME NEW mine, NEW offset, NEW newest
  PROVE  LET a == ListArg(mine, offset, newest) IN
         a.mine = mine /\ a.offset = offset /\ a.newest = newest /\ a = ListArg(a.mine, a.offset, a.newest)
BY DEF ListArg

LEMMA JobOfIs ==
  ASSUME NEW op, NEW step, NEW tok, NEW admin, NEW arg, NEW reply, NEW here, NEW j,
         j = JobOf(op, step, tok, admin, arg, reply, here)
  PROVE  IsJob(j) /\ j.op = op /\ j.step = step /\ j.tok = tok /\ j.admin = admin /\ j.arg = arg
         /\ j.reply = reply /\ j.here = here
BY DEF JobOf, IsJob

LEMMA WithHereShape ==
  ASSUME NEW j, IsJob(j), NEW x
  PROVE  WithHere(j, x) = JobOf(j.op, j.step, j.tok, j.admin, j.arg, j.reply, x)
<1>1. PICK op, step, tok, admin, arg, reply, here : j = JobOf(op, step, tok, admin, arg, reply, here)
  BY DEF IsJob
<1>2. WithHere(j, x) = JobOf(op, step, tok, admin, arg, reply, x)
  BY <1>1 DEF JobOf, WithHere
<1> QED BY <1>1, <1>2, JobOfIs

LEMMA WithArgShape ==
  ASSUME NEW j, IsJob(j), NEW x
  PROVE  WithArg(j, x) = JobOf(j.op, j.step, j.tok, j.admin, x, j.reply, j.here)
<1>1. PICK op, step, tok, admin, arg, reply, here : j = JobOf(op, step, tok, admin, arg, reply, here)
  BY DEF IsJob
<1>2. WithArg(j, x) = JobOf(op, step, tok, admin, x, reply, here)
  BY <1>1 DEF JobOf, WithArg
<1> QED BY <1>1, <1>2, JobOfIs

LEMMA WithReplyShape ==
  ASSUME NEW j, IsJob(j), NEW x, NEW y
  PROVE  WithReply(j, x, y) = JobOf(j.op, x, j.tok, j.admin, j.arg, y, j.here)
<1>1. PICK op, step, tok, admin, arg, reply, here : j = JobOf(op, step, tok, admin, arg, reply, here)
  BY DEF IsJob
<1>2. PICK q : q = WithReply(j, x, y)
  OBVIOUS
<1>3. q = [JobOf(op, step, tok, admin, arg, reply, here) EXCEPT !.step = x, !.reply = y]
  BY <1>1, <1>2 DEF WithReply
<1>4. q = JobOf(op, x, tok, admin, arg, y, here)
  BY <1>3 DEF JobOf
<1> QED BY <1>1, <1>2, <1>4, JobOfIs

LEMMA WithStepShape ==
  ASSUME NEW j, IsJob(j), NEW x
  PROVE  WithStep(j, x) = JobOf(j.op, x, j.tok, j.admin, j.arg, j.reply, j.here)
<1>1. PICK op, step, tok, admin, arg, reply, here : j = JobOf(op, step, tok, admin, arg, reply, here)
  BY DEF IsJob
<1>2. WithStep(j, x) = JobOf(op, x, tok, admin, arg, reply, here)
  BY <1>1 DEF JobOf, WithStep
<1> QED BY <1>1, <1>2, JobOfIs

LEMMA RequestFields ==
  ASSUME NEW s, NEW op, NEW arg, NEW step, NEW j, j = Request(s, op, arg, step)
  PROVE  /\ IsJob(j) /\ j.op = op /\ j.arg = arg /\ j.reply = << >> /\ j.here = TRUE
         /\ j.tok = token[Device[s]] /\ j.admin = IsAdmin(token[Device[s]])
         /\ j.step = IF Accepts(token[Device[s]]) THEN step ELSE "401"
BY DEF Request, IsJob, JobOf

LEMMA NoJobFields ==
  /\ IsJob(NoJob) /\ NoJob.op = "none" /\ NoJob.step = "idle" /\ NoJob.admin = FALSE /\ NoJob.here = FALSE
  /\ JobOK(NoJob)
BY DEF IsJob, JobOf, NoJob, JobOK, IsList, JobSteps

\* What the step does to the requests.
LEMMA SameWeakens ==
  ASSUME JobsInv, JobsOK, NEW t \in Slots, job'[t] = job[t]
  PROVE  Weakens(t)
BY DEF JobsInv, JobsOK, JobOK, Weakens

LEMMA Puts ==
  ASSUME JobsInv, JobsOK, NEW s \in Slots, NEW j, job' = [job EXCEPT ![s] = j]
  PROVE  job'[s] = j /\ Rest(s) /\ \A t \in Slots \ {s} : job'[t] = job[t]
<1>1. job = [t \in Slots |-> job[t]]
  BY DEF JobsInv
<1>2. job'[s] = j /\ job' = [t \in Slots |-> job'[t]] /\ \A t \in Slots \ {s} : job'[t] = job[t]
  BY <1>1
<1> QED BY <1>2, SameWeakens DEF Rest

LEMMA JobFollows ==
  ASSUME JobsInv, JobsOK, NEW s \in Slots, NEW step, JobGoes(s, step)
  PROVE  Follows(s, step, job[s].reply)
<1>1. PICK j : j = WithStep(job[s], step)
  OBVIOUS
<1>2. job' = [job EXCEPT ![s] = j]
  BY <1>1 DEF JobGoes, WithStep
<1>3. IsJob(job[s])
  BY DEF JobsInv
<1>4. j = JobOf(job[s].op, step, job[s].tok, job[s].admin, job[s].arg, job[s].reply, job[s].here)
  BY <1>1, <1>3, WithStepShape
<1>5. job'[s] = j /\ Rest(s) /\ \A t \in Slots \ {s} : job'[t] = job[t]
  BY <1>2, Puts
<1>6. IsJob(j) /\ j.op = job[s].op /\ j.step = step /\ j.tok = job[s].tok /\ j.admin = job[s].admin
      /\ j.arg = job[s].arg /\ j.reply = job[s].reply /\ j.here = job[s].here
  BY <1>4, JobOfIs
<1> QED BY <1>5, <1>6 DEF Follows

LEMMA JobReplies ==
  ASSUME JobsInv, JobsOK, NEW s \in Slots, NEW step, NEW reply,
         job' = [job EXCEPT ![s].step = step, ![s].reply = reply]
  PROVE  Follows(s, step, reply)
<1>1. PICK j : j = WithReply(job[s], step, reply)
  OBVIOUS
<1>0. job = [t \in Slots |-> job[t]]
  BY DEF JobsInv
<1>2. job' = [job EXCEPT ![s] = j]
  BY <1>0, <1>1 DEF WithReply
<1>3. IsJob(job[s])
  BY DEF JobsInv
<1>4. j = JobOf(job[s].op, step, job[s].tok, job[s].admin, job[s].arg, reply, job[s].here)
  BY <1>1, <1>3, WithReplyShape
<1>5. job'[s] = j /\ Rest(s) /\ \A t \in Slots \ {s} : job'[t] = job[t]
  BY <1>2, Puts
<1>6. IsJob(j) /\ j.op = job[s].op /\ j.step = step /\ j.tok = job[s].tok /\ j.admin = job[s].admin
      /\ j.arg = job[s].arg /\ j.reply = reply /\ j.here = job[s].here
  BY <1>4, JobOfIs
<1> QED BY <1>5, <1>6 DEF Follows

LEMMA HereWeakens ==
  ASSUME JobsInv, JobsOK, NEW t \in Slots, NEW h, job'[t] = WithHere(job[t], h), h \in BOOLEAN, h => job[t].here
  PROVE  Weakens(t) /\ job'[t].here = h /\ job'[t].arg = job[t].arg
<1>1. IsJob(job[t])
  BY DEF JobsInv
<1>2. job'[t] = JobOf(job[t].op, job[t].step, job[t].tok, job[t].admin, job[t].arg, job[t].reply, h)
  BY <1>1, WithHereShape
<1>3. IsJob(job'[t]) /\ job'[t].op = job[t].op /\ job'[t].step = job[t].step /\ job'[t].tok = job[t].tok
      /\ job'[t].admin = job[t].admin /\ job'[t].arg = job[t].arg /\ job'[t].reply = job[t].reply /\ job'[t].here = h
  BY <1>2, JobOfIs
<1> QED BY <1>3 DEF Weakens

LEMMA LeftWeaken ==
  ASSUME JobsInv, JobsOK, job' = [t \in Slots |-> Left(t)]
  PROVE  AllWeaken /\ \A t \in Slots : job'[t].arg = job[t].arg /\ job'[t].here = (job[t].here /\ Device[t] \in home')
<1>1. ASSUME NEW t \in Slots
      PROVE  Weakens(t) /\ job'[t].arg = job[t].arg /\ job'[t].here = (job[t].here /\ Device[t] \in home')
  <2>1. PICK h : h = (job[t].here /\ Device[t] \in home')
    OBVIOUS
  <2>2. job'[t] = WithHere(job[t], h)
    BY <2>1 DEF Left, WithHere
  <2>3. h \in BOOLEAN /\ (h => job[t].here)
    BY <2>1
  <2> QED BY <2>1, <2>2, <2>3, HereWeakens
<1> QED BY <1>1 DEF AllWeaken

LEMMA OutdatedWeakens ==
  ASSUME JobsInv, JobsOK, NEW t \in Slots, job'[t] = Outdated(job[t])
  PROVE  /\ Weakens(t) /\ job'[t].here = job[t].here
         /\ IsList(job[t]) => job'[t].arg = ListArg(job[t].arg.mine, job[t].arg.offset, FALSE)
         /\ ~IsList(job[t]) => job'[t].arg = job[t].arg
<1>0. IsJob(job[t]) /\ JobOK(job[t])
  BY DEF JobsInv, JobsOK
<1>1. CASE ~IsList(job[t])
  BY <1>0, <1>1, SameWeakens DEF Outdated
<1>2. CASE IsList(job[t])
  <2>1. job'[t] = [job[t] EXCEPT !.arg = [job[t].arg EXCEPT !.newest = FALSE]]
    BY <1>2 DEF Outdated
  <2>2. PICK a : a = [job[t].arg EXCEPT !.newest = FALSE]
    OBVIOUS
  <2>3. job[t].arg = ListArg(job[t].arg.mine, job[t].arg.offset, job[t].arg.newest)
    BY <1>0, <1>2 DEF JobOK
  <2>4. a = ListArg(job[t].arg.mine, job[t].arg.offset, FALSE)
    BY <2>2, <2>3 DEF ListArg
  <2>5. job'[t] = WithArg(job[t], a)
    BY <2>1, <2>2 DEF WithArg
  <2>6. job'[t] = JobOf(job[t].op, job[t].step, job[t].tok, job[t].admin, a, job[t].reply, job[t].here)
    BY <1>0, <2>5, WithArgShape
  <2>7. IsJob(job'[t]) /\ job'[t].op = job[t].op /\ job'[t].step = job[t].step /\ job'[t].tok = job[t].tok
        /\ job'[t].admin = job[t].admin /\ job'[t].arg = a /\ job'[t].reply = job[t].reply /\ job'[t].here = job[t].here
    BY <2>6, JobOfIs
  <2>8. job[t].here \in BOOLEAN
    BY <1>0 DEF JobOK
  <2> QED BY <1>2, <2>4, <2>7, <2>8 DEF Weakens
<1> QED BY <1>1, <1>2

LEMMA LoadWeakens ==
  ASSUME JobsInv, JobsOK, NEW s \in Slots, NEW mine, Load(s, mine)
  PROVE  /\ Rest(s) /\ job'[s] = ListRequest(s, "load", mine, 0)
         /\ \A t \in Slots \ {s} :
              /\ job'[t].here = job[t].here
              /\ Device[t] # Device[s] => job'[t] = job[t]
              /\ Device[t] = Device[s] /\ IsList(job[t]) => job'[t].arg = ListArg(job[t].arg.mine, job[t].arg.offset, FALSE)
              /\ ~IsList(job[t]) => job'[t].arg = job[t].arg
<1>1. PICK j : j = ListRequest(s, "load", mine, 0)
  OBVIOUS
<1>2. job' = [t \in Slots |-> IF t = s THEN j
                              ELSE IF Device[t] = Device[s] THEN Outdated(job[t]) ELSE job[t]]
  BY <1>1 DEF Load
<1>3. ASSUME NEW t \in Slots \ {s}
      PROVE  /\ Weakens(t) /\ job'[t].here = job[t].here
             /\ Device[t] # Device[s] => job'[t] = job[t]
             /\ Device[t] = Device[s] /\ IsList(job[t]) => job'[t].arg = ListArg(job[t].arg.mine, job[t].arg.offset, FALSE)
             /\ ~IsList(job[t]) => job'[t].arg = job[t].arg
  <2>1. CASE Device[t] = Device[s]
    <3>1. job'[t] = Outdated(job[t])
      BY <1>2, <2>1
    <3> QED BY <2>1, <3>1, OutdatedWeakens
  <2>2. CASE Device[t] # Device[s]
    <3>1. job'[t] = job[t]
      BY <1>2, <2>2
    <3> QED BY <2>2, <3>1, SameWeakens
  <2> QED BY <2>1, <2>2
<1>4. job' = [t \in Slots |-> job'[t]] /\ job'[s] = j
  BY <1>2
<1> QED BY <1>1, <1>3, <1>4 DEF Rest

LEMMA WaitsWeakens ==
  ASSUME JobsInv, JobsOK, NEW t \in Slots, job'[t] = Waits(t)
  PROVE  /\ Weakens(t) /\ job'[t].arg = job[t].arg
         /\ job'[t].here = (job[t].here /\ Device[t] \in home'
              /\ (job[t].op \in {"unlock", "fetch"} => job[t].arg.id \in Ids(page'[Device[t]].rows)))
<1>1. PICK h : h = (job[t].here /\ Device[t] \in home'
         /\ (job[t].op \in {"unlock", "fetch"} => job[t].arg.id \in Ids(page'[Device[t]].rows)))
  OBVIOUS
<1>2. job'[t] = WithHere(job[t], h)
  BY <1>1 DEF Waits, WithHere
<1>3. h \in BOOLEAN /\ (h => job[t].here)
  BY <1>1
<1> QED BY <1>1, <1>2, <1>3, HereWeakens

LEMMA LeavesWeaken ==
  ASSUME JobsInv, JobsOK, NEW d, job' = LeavesJobs(d)
  PROVE  /\ AllWeaken
         /\ \A t \in Slots :
              /\ job'[t].arg = job[t].arg
              /\ Device[t] = d => job'[t].here = FALSE
              /\ Device[t] # d => job'[t] = job[t]
<1>1. ASSUME NEW t \in Slots
      PROVE  /\ Weakens(t) /\ job'[t].arg = job[t].arg
             /\ Device[t] = d => job'[t].here = FALSE
             /\ Device[t] # d => job'[t] = job[t]
  <2>1. CASE Device[t] = d
    <3>1. job'[t] = WithHere(job[t], FALSE)
      BY <2>1 DEF LeavesJobs, WithHere
    <3> QED BY <2>1, <3>1, HereWeakens
  <2>2. CASE Device[t] # d
    <3>1. job'[t] = job[t]
      BY <2>2 DEF LeavesJobs
    <3> QED BY <2>2, <3>1, SameWeakens
  <2> QED BY <2>1, <2>2
<1>2. job' = [t \in Slots |-> job'[t]]
  BY DEF LeavesJobs
<1> QED BY <1>1, <1>2 DEF AllWeaken

LEMMA WeakenedOK ==
  ASSUME NEW t \in Slots, JobOK(job[t]), Weakens(t)
  PROVE  JobOK(job'[t])
<1>1. CASE job[t].op = "none"
  <2>1. job[t] = NoJob
    BY <1>1 DEF JobOK
  <2>2. job'[t] = JobOf(NoJob.op, NoJob.step, NoJob.tok, NoJob.admin, NoJob.arg, NoJob.reply, FALSE)
    BY <2>1, NoJobFields DEF Weakens, IsJob, IsList
  <2>3. job'[t] = NoJob
    BY <2>2 DEF NoJob, JobOf
  <2> QED BY <2>3, NoJobFields
<1>2. CASE job[t].op # "none" /\ ~IsList(job[t])
  BY <1>2 DEF JobOK, Weakens, IsList
<1>3. CASE IsList(job[t])
  <2>1. job'[t].arg = ListArg(job'[t].arg.mine, job'[t].arg.offset, job'[t].arg.newest)
        /\ job'[t].arg.mine \in BOOLEAN /\ job'[t].arg.offset \in Nat /\ job'[t].arg.newest \in BOOLEAN
        /\ job'[t].arg.offset = job[t].arg.offset
    <3>1. job[t].arg = ListArg(job[t].arg.mine, job[t].arg.offset, job[t].arg.newest)
          /\ job[t].arg.mine \in BOOLEAN /\ job[t].arg.offset \in Nat /\ job[t].arg.newest \in BOOLEAN
      BY <1>3 DEF JobOK
    <3>2. job'[t].arg = job[t].arg \/ job'[t].arg = ListArg(job[t].arg.mine, job[t].arg.offset, FALSE)
      BY DEF Weakens
    <3>3. CASE job'[t].arg = job[t].arg
      BY <3>1, <3>3
    <3>4. CASE job'[t].arg = ListArg(job[t].arg.mine, job[t].arg.offset, FALSE)
      <4>1. PICK m, o, a : m = job[t].arg.mine /\ o = job[t].arg.offset /\ a = job'[t].arg
        OBVIOUS
      <4>2. a = ListArg(m, o, FALSE) /\ m \in BOOLEAN /\ o \in Nat
        BY <3>1, <3>4, <4>1
      <4>3. a.mine = m /\ a.offset = o /\ a.newest = FALSE /\ a = ListArg(a.mine, a.offset, a.newest)
        BY <4>2 DEF ListArg
      <4> QED BY <4>1, <4>2, <4>3
    <3> QED BY <3>2, <3>3, <3>4
  <2> QED BY <1>3, <2>1 DEF JobOK, Weakens, IsList
<1> QED BY <1>1, <1>2, <1>3

-----------------------------------------------------------------------------
\* Pages, field by field.

PageOf(mine, due, failed, rows, more, fetching, unlocked, key, v, skips, relocked) ==
  [mine |-> mine, due |-> due, failed |-> failed, rows |-> rows, more |-> more, fetching |-> fetching,
   unlocked |-> unlocked, key |-> key, rev |-> v, skipped |-> skips, relocked |-> relocked]

IsPage(p) ==
  p = PageOf(p.mine, p.due, p.failed, p.rows, p.more, p.fetching, p.unlocked, p.key, p.rev, p.skipped, p.relocked)

PageOK(p) ==
  /\ IsPage(p)
  /\ p.mine \in BOOLEAN /\ p.due \in BOOLEAN /\ p.failed \in BOOLEAN /\ p.more \in BOOLEAN
  /\ p.fetching \in BOOLEAN /\ p.skipped \in BOOLEAN
  /\ RowsOK(p.rows) /\ p.unlocked \subseteq Ids(p.rows)
  /\ p.key \in [FileIds -> Keys] /\ p.rev \in Nat /\ p.relocked \subseteq FileIds

LEMMA PageOfIs ==
  ASSUME NEW mine, NEW due, NEW failed, NEW rows, NEW more, NEW fetching, NEW unlocked, NEW key,
         NEW v, NEW skips, NEW relocked, NEW p,
         p = PageOf(mine, due, failed, rows, more, fetching, unlocked, key, v, skips, relocked)
  PROVE  /\ IsPage(p) /\ p.mine = mine /\ p.due = due /\ p.failed = failed /\ p.rows = rows /\ p.more = more
         /\ p.fetching = fetching /\ p.unlocked = unlocked /\ p.key = key /\ p.rev = v /\ p.skipped = skips
         /\ p.relocked = relocked
BY DEF PageOf, IsPage

LEMMA FreshIs ==
  LET p == FreshPage IN
  /\ PageOK(p) /\ p.mine = FALSE /\ p.due = TRUE /\ p.failed = FALSE /\ p.rows = << >> /\ p.unlocked = {}
  /\ p.relocked = {} /\ p.rev = 0 /\ Ids(p.rows) = {}
<1>1. FreshPage = PageOf(FALSE, TRUE, FALSE, << >>, FALSE, FALSE, {}, [id \in FileIds |-> None], 0, FALSE, {})
  BY DEF FreshPage, PageOf
<1>2. RowsOK(<< >>) /\ Ids(<< >>) = {}
  <2>1. << >> \in Seq(PageRow) /\ Len(<< >>) = 0
    OBVIOUS
  <2>2. 1 .. Len(<< >>) = {}
    BY <2>1
  <2> QED BY <2>1, <2>2 DEF RowsOK, Spread, Ids
<1>3. PICK p : p = FreshPage
  OBVIOUS
<1>4. /\ IsPage(p) /\ p.mine = FALSE /\ p.due = TRUE /\ p.failed = FALSE /\ p.rows = << >> /\ p.more = FALSE
      /\ p.fetching = FALSE /\ p.unlocked = {} /\ p.key = [id \in FileIds |-> None] /\ p.rev = 0 /\ p.skipped = FALSE
      /\ p.relocked = {}
  BY <1>1, <1>3 DEF PageOf, IsPage
<1>5. PageOK(p)
  <2>1. [id \in FileIds |-> None] \in [FileIds -> Keys]
    BY DEF Keys
  <2>2. RowsOK(p.rows) /\ p.unlocked \subseteq Ids(p.rows) /\ p.key \in [FileIds -> Keys]
    BY <1>2, <1>4, <2>1
  <2>3. p.mine \in BOOLEAN /\ p.due \in BOOLEAN /\ p.failed \in BOOLEAN /\ p.more \in BOOLEAN
        /\ p.fetching \in BOOLEAN /\ p.skipped \in BOOLEAN
    BY <1>4
  <2>4. IsPage(p) /\ p.rev \in Nat /\ p.relocked \subseteq FileIds
    BY <1>4
  <2> QED BY <2>2, <2>3, <2>4 DEF PageOK
<1> QED BY <1>2, <1>3, <1>4, <1>5

WithMine(p) == [p EXCEPT !.mine = ~@, !.due = TRUE]
WithDue(p) == [p EXCEPT !.due = FALSE]
WithFetching(p, x) == [p EXCEPT !.fetching = x]
WithFailed(p, x) == [p EXCEPT !.failed = x]
WithRelocked(p, x) == [p EXCEPT !.relocked = x]
WithKey(p, id, pw) == [p EXCEPT !.unlocked = @ \cup {id}, !.key[id] = pw]

\* q is p but for what is named.
LEMMA WithPage ==
  ASSUME NEW p, PageOK(p), NEW x
  PROVE  /\ WithMine(p) = PageOf(~p.mine, TRUE, p.failed, p.rows, p.more, p.fetching, p.unlocked, p.key, p.rev, p.skipped, p.relocked)
         /\ WithDue(p) = PageOf(p.mine, FALSE, p.failed, p.rows, p.more, p.fetching, p.unlocked, p.key, p.rev, p.skipped, p.relocked)
         /\ WithFetching(p, x) = PageOf(p.mine, p.due, p.failed, p.rows, p.more, x, p.unlocked, p.key, p.rev, p.skipped, p.relocked)
         /\ WithFailed(p, x) = PageOf(p.mine, p.due, x, p.rows, p.more, p.fetching, p.unlocked, p.key, p.rev, p.skipped, p.relocked)
         /\ WithRelocked(p, x) = PageOf(p.mine, p.due, p.failed, p.rows, p.more, p.fetching, p.unlocked, p.key, p.rev, p.skipped, x)
<1>1. PICK mine, due, failed, rows, more, fetching, unlocked, key, v, skips, relocked :
        p = PageOf(mine, due, failed, rows, more, fetching, unlocked, key, v, skips, relocked)
  BY DEF PageOK, IsPage
<1>2. /\ p.mine = mine /\ p.due = due /\ p.failed = failed /\ p.rows = rows /\ p.more = more
      /\ p.fetching = fetching /\ p.unlocked = unlocked /\ p.key = key /\ p.rev = v /\ p.skipped = skips
      /\ p.relocked = relocked
  BY <1>1, PageOfIs
<1>3. WithMine(p) = PageOf(~mine, TRUE, failed, rows, more, fetching, unlocked, key, v, skips, relocked)
  <2>1. PICK q, b : q = [p EXCEPT !.mine = b, !.due = TRUE] /\ b = ~mine
    OBVIOUS
  <2>2. q = WithMine(p)
    BY <1>2, <2>1 DEF WithMine
  <2>3. q = PageOf(b, TRUE, failed, rows, more, fetching, unlocked, key, v, skips, relocked)
    BY <1>1, <2>1 DEF PageOf
  <2> QED BY <2>1, <2>2, <2>3
<1>4. WithDue(p) = PageOf(mine, FALSE, failed, rows, more, fetching, unlocked, key, v, skips, relocked)
  <2>1. PICK q : q = [p EXCEPT !.due = FALSE]
    OBVIOUS
  <2>2. q = PageOf(mine, FALSE, failed, rows, more, fetching, unlocked, key, v, skips, relocked)
    BY <1>1, <2>1 DEF PageOf
  <2> QED BY <2>1, <2>2 DEF WithDue
<1>5. WithFetching(p, x) = PageOf(mine, due, failed, rows, more, x, unlocked, key, v, skips, relocked)
  BY <1>1 DEF PageOf, WithFetching
<1>6. WithFailed(p, x) = PageOf(mine, due, x, rows, more, fetching, unlocked, key, v, skips, relocked)
  BY <1>1 DEF PageOf, WithFailed
<1>7. WithRelocked(p, x) = PageOf(mine, due, failed, rows, more, fetching, unlocked, key, v, skips, x)
  BY <1>1 DEF PageOf, WithRelocked
<1> QED BY <1>2, <1>3, <1>4, <1>5, <1>6, <1>7

LEMMA WithKeyIs ==
  ASSUME NEW p, PageOK(p), NEW id, NEW pw
  PROVE  WithKey(p, id, pw) = PageOf(p.mine, p.due, p.failed, p.rows, p.more, p.fetching, p.unlocked \cup {id},
                                     [p.key EXCEPT ![id] = pw], p.rev, p.skipped, p.relocked)
<1>1. PICK mine, due, failed, rows, more, fetching, unlocked, key, v, skips, relocked :
        p = PageOf(mine, due, failed, rows, more, fetching, unlocked, key, v, skips, relocked)
  BY DEF PageOK, IsPage
<1>2. /\ p.mine = mine /\ p.due = due /\ p.failed = failed /\ p.rows = rows /\ p.more = more
      /\ p.fetching = fetching /\ p.unlocked = unlocked /\ p.key = key /\ p.rev = v /\ p.skipped = skips
      /\ p.relocked = relocked
  BY <1>1, PageOfIs
<1>3. WithKey(p, id, pw) = [[p EXCEPT !.unlocked = p.unlocked \cup {id}] EXCEPT !.key = [p.key EXCEPT ![id] = pw]]
  BY DEF WithKey
<1>4. PICK k, u : k = [key EXCEPT ![id] = pw] /\ u = unlocked \cup {id}
  OBVIOUS
<1>5. PICK q : q = [[p EXCEPT !.unlocked = u] EXCEPT !.key = k]
  OBVIOUS
<1>6. q = PageOf(mine, due, failed, rows, more, fetching, u, k, v, skips, relocked)
  BY <1>1, <1>5 DEF PageOf
<1> QED BY <1>2, <1>3, <1>4, <1>5, <1>6

-----------------------------------------------------------------------------
\* The rows of a page are replaced.

Common(p, rows) == Ids(p.rows) \cap Ids(rows)
Opened(p, rows) ==
  (p.unlocked \cap Common(p, rows)) \cup
    {rows[i].id : i \in {k \in 1 .. Len(rows) : rows[k].open /\ rows[k].id \notin Common(p, rows)}}
KeysLeft(p, rows) == [id \in FileIds |-> IF id \in Common(p, rows) THEN p.key[id] ELSE None]

LEMMA ShowingIs ==
  ASSUME NEW p, PageOK(p), NEW rows
  PROVE  Showing(p, rows) = PageOf(p.mine, p.due, p.failed, rows, p.more, p.fetching, Opened(p, rows),
                                   KeysLeft(p, rows), p.rev, p.skipped, p.relocked)
<1>1. PICK mine, due, failed, shown, more, fetching, unlocked, key, v, skips, relocked :
        p = PageOf(mine, due, failed, shown, more, fetching, unlocked, key, v, skips, relocked)
  BY DEF PageOK, IsPage
<1>2. /\ p.mine = mine /\ p.due = due /\ p.failed = failed /\ p.rows = shown /\ p.more = more
      /\ p.fetching = fetching /\ p.unlocked = unlocked /\ p.key = key /\ p.rev = v /\ p.skipped = skips
      /\ p.relocked = relocked
  BY <1>1, PageOfIs
<1>3. PICK u, k : u = Opened(p, rows) /\ k = KeysLeft(p, rows)
  OBVIOUS
<1>4. Showing(p, rows) = [p EXCEPT !.rows = rows, !.unlocked = u, !.key = k]
  BY <1>3 DEF Showing, Opened, KeysLeft, Common
<1>5. PICK q : q = [p EXCEPT !.rows = rows, !.unlocked = u, !.key = k]
  OBVIOUS
<1>6. q = PageOf(mine, due, failed, rows, more, fetching, u, k, v, skips, relocked)
  BY <1>1, <1>5 DEF PageOf
<1> QED BY <1>2, <1>3, <1>4, <1>5, <1>6

LEMMA RowsIds ==
  ASSUME NEW rows, RowsOK(rows)
  PROVE  Ids(rows) \subseteq FileIds /\ \A i \in 1 .. Len(rows) : rows[i] \in PageRow /\ rows[i].id \in Ids(rows)
<1>1. \A i \in 1 .. Len(rows) : rows[i] \in PageRow
  BY ElementOfSeq DEF RowsOK
<1> QED BY <1>1 DEF Ids, PageRow

LEMMA OpenedOK ==
  ASSUME NEW p, PageOK(p), NEW rows, RowsOK(rows)
  PROVE  Opened(p, rows) \subseteq Ids(rows) /\ KeysLeft(p, rows) \in [FileIds -> Keys]
<1>1. \A i \in 1 .. Len(rows) : rows[i].id \in Ids(rows)
  BY RowsIds
<1>2. Opened(p, rows) \subseteq Ids(rows)
  BY <1>1 DEF Opened, Common
<1>3. None \in Keys /\ p.key \in [FileIds -> Keys]
  BY DEF Keys, PageOK
<1> QED BY <1>2, <1>3 DEF KeysLeft

\* Rows of which some are left, and rows that others are put after.
LEMMA PickedRows ==
  ASSUME NEW rows, RowsOK(rows), NEW K \in SUBSET (1 .. Len(rows))
  PROVE  /\ RowsOK(Picked(rows, K)) /\ Ids(Picked(rows, K)) = {rows[i].id : i \in K}
         /\ \A m \in 1 .. Len(Picked(rows, K)) : \E i \in K : Picked(rows, K)[m] = rows[i]
<1> DEFINE q == Picked(rows, K)
<1>0. rows \in Seq(PageRow)
  BY DEF RowsOK
<1>1. /\ q \in Seq(PageRow)
      /\ \A m \in 1 .. Len(q) : Nth(K, m) \in K /\ q[m] = rows[Nth(K, m)]
      /\ \A m, o \in 1 .. Len(q) : m < o => Nth(K, m) < Nth(K, o)
      /\ \A k \in K : \E m \in 1 .. Len(q) : Nth(K, m) = k /\ q[m] = rows[k]
      /\ Len(q) \in Nat
  BY <1>0, PickedIs
<1> HIDE DEF q
<1>2. Spread(q)
  <2> SUFFICES ASSUME NEW m \in 1 .. Len(q), NEW o \in 1 .. Len(q), q[m].id = q[o].id, m < o PROVE FALSE
    BY <1>1 DEF Spread
  <2>1. PICK i \in K, k \in K : i = Nth(K, m) /\ k = Nth(K, o) /\ q[m] = rows[i] /\ q[o] = rows[k] /\ i < k
    BY <1>1
  <2>2. i = k
    BY <2>1 DEF RowsOK, Spread
  <2> QED BY <2>1, <2>2
<1>3. Ids(q) = {rows[i].id : i \in K}
  <2>1. ASSUME NEW x \in Ids(q) PROVE x \in {rows[i].id : i \in K}
    <3>1. PICK m \in 1 .. Len(q) : x = q[m].id
      BY <2>1 DEF Ids
    <3>2. PICK i \in K : q[m] = rows[i]
      BY <1>1, <3>1
    <3> QED BY <3>1, <3>2
  <2>2. ASSUME NEW i \in K PROVE rows[i].id \in Ids(q)
    <3>1. PICK m \in 1 .. Len(q) : q[m] = rows[i]
      BY <1>1
    <3> QED BY <3>1 DEF Ids
  <2> QED BY <2>1, <2>2
<1>4. \A m \in 1 .. Len(q) : \E i \in K : q[m] = rows[i]
  BY <1>1
<1> QED BY <1>1, <1>2, <1>3, <1>4 DEF RowsOK, q

LEMMA ConcatRows ==
  ASSUME NEW rows, NEW others, RowsOK(rows), RowsOK(others), Ids(rows) \cap Ids(others) = {}
  PROVE  /\ RowsOK(rows \o others) /\ Ids(rows \o others) = Ids(rows) \cup Ids(others)
         /\ Len(rows) \in Nat /\ Len(others) \in Nat /\ Len(rows \o others) = Len(rows) + Len(others)
         /\ \A i \in 1 .. Len(rows) : (rows \o others)[i] = rows[i]
         /\ \A i \in 1 .. Len(others) : (rows \o others)[Len(rows) + i] = others[i]
<1> DEFINE q == rows \o others
<1>0. rows \in Seq(PageRow) /\ others \in Seq(PageRow)
  BY DEF RowsOK
<1>1. /\ q \in Seq(PageRow) /\ Len(q) = Len(rows) + Len(others) /\ Len(rows) \in Nat /\ Len(others) \in Nat
      /\ \A i \in 1 .. Len(q) : q[i] = IF i <= Len(rows) THEN rows[i] ELSE others[i - Len(rows)]
  BY <1>0, ConcatProperties
<1> HIDE DEF q
<1>2. \A i \in 1 .. Len(rows) : i \in 1 .. Len(q) /\ q[i] = rows[i]
  BY <1>1
<1>3. \A i \in 1 .. Len(others) : Len(rows) + i \in 1 .. Len(q) /\ q[Len(rows) + i] = others[i]
  BY <1>1
<1>4. \A i \in 1 .. Len(q) : \/ i \in 1 .. Len(rows) /\ q[i] = rows[i]
                             \/ i > Len(rows) /\ i - Len(rows) \in 1 .. Len(others) /\ q[i] = others[i - Len(rows)]
  BY <1>1
<1>5. (\A i \in 1 .. Len(rows) : rows[i].id \in Ids(rows)) /\ \A i \in 1 .. Len(others) : others[i].id \in Ids(others)
  BY DEF Ids
<1>6. Spread(q)
  <2> SUFFICES ASSUME NEW i \in 1 .. Len(q), NEW k \in 1 .. Len(q), q[i].id = q[k].id PROVE i = k
    BY DEF Spread
  <2>1. CASE i \in 1 .. Len(rows) /\ k \in 1 .. Len(rows)
    BY <1>2, <2>1 DEF RowsOK, Spread
  <2>2. CASE i > Len(rows) /\ k > Len(rows)
    <3>1. i - Len(rows) \in 1 .. Len(others) /\ k - Len(rows) \in 1 .. Len(others)
          /\ q[i] = others[i - Len(rows)] /\ q[k] = others[k - Len(rows)]
      BY <1>1, <1>4, <2>2
    <3>2. i - Len(rows) = k - Len(rows)
      BY <3>1 DEF RowsOK, Spread
    <3> QED BY <1>1, <3>2
  <2>3. CASE (i \in 1 .. Len(rows) /\ k > Len(rows)) \/ (i > Len(rows) /\ k \in 1 .. Len(rows))
    BY <1>1, <1>4, <1>5, <2>3
  <2> QED BY <1>1, <2>1, <2>2, <2>3
<1>7. Ids(q) \subseteq Ids(rows) \cup Ids(others)
  BY <1>4, <1>5 DEF Ids
<1>8. Ids(rows) \subseteq Ids(q) /\ Ids(others) \subseteq Ids(q)
  BY <1>2, <1>3 DEF Ids
<1> QED BY <1>1, <1>2, <1>3, <1>6, <1>7, <1>8 DEF RowsOK, q

-----------------------------------------------------------------------------
\* What an answer makes of a page.

Full(rows) == Len(rows) = PageSize
Added(p, sent) == p.rows \o Picked(sent, {i \in 1 .. Len(sent) : sent[i].id \notin Ids(p.rows)})
Without(p, id) == Picked(p.rows, {i \in 1 .. Len(p.rows) : p.rows[i].id # id})

IsLoaded(s, p, q) ==
  LET j == job[s]
      rows == j.reply.rows
  IN
  /\ JobAt(s, "load", "done") /\ j.arg.newest
  /\ q = PageOf(p.mine, p.due, FALSE, rows, Full(rows), p.fetching, Opened(p, rows), KeysLeft(p, rows),
                j.reply.rev, p.mine # j.arg.mine \/ Adding(s), p.relocked)

IsLoadedMore(s, p, q) ==
  LET j == job[s]
      rows == Added(p, j.reply.rows)
  IN
  /\ JobAt(s, "more", "done") /\ j.arg.newest
  /\ q = PageOf(p.mine, p.due, p.failed, rows, Full(j.reply.rows), FALSE, Opened(p, rows), KeysLeft(p, rows),
                IF p.rev = j.reply.rev THEN p.rev ELSE 0, p.skipped, p.relocked)

IsDeleted(s, p, q) ==
  LET j == job[s]
      rows == Without(p, j.arg.id)
  IN
  /\ JobAt(s, "drop", "done")
  /\ q = PageOf(p.mine, p.due, p.failed, rows, p.more, p.fetching, Opened(p, rows), KeysLeft(p, rows),
                IF p.rev = j.reply.from THEN j.reply.to ELSE 0, p.skipped \/ p.fetching, p.relocked)

IsUnlocked(s, p, q) ==
  LET j == job[s] IN
  /\ JobAt(s, "unlock", "done")
  /\ q = PageOf(p.mine, p.due, p.failed, p.rows, p.more, p.fetching, p.unlocked \cup {j.arg.id},
                [p.key EXCEPT ![j.arg.id] = j.arg.pw], p.rev, p.skipped, p.relocked)

\* Only that it waits no more, and perhaps that something failed.
IsAnswered(s, p, q) ==
  \E failed, fetching \in BOOLEAN :
    /\ q = PageOf(p.mine, p.due, failed, p.rows, p.more, fetching, p.unlocked, p.key, p.rev, p.skipped, p.relocked)
    /\ p.failed => failed
    /\ IF job[s].op = "more" THEN fetching = FALSE ELSE fetching = p.fetching
    /\ job[s].op = "more" => failed \/ ~job[s].arg.newest
    /\ job[s].op = "load" /\ job[s].arg.newest => failed

LEMMA LoadedIs ==
  ASSUME NEW p, PageOK(p), NEW s \in Slots, JobAt(s, "load", "done"), job[s].arg.newest
  PROVE  IsLoaded(s, p, Loaded(s, p))
<1> DEFINE j == job[s]
           rows == j.reply.rows
<1>1. PICK q, r : q = Loaded(s, p) /\ r = Showing(p, rows)
  OBVIOUS
<1>2. PICK a, c, e : a = Full(rows) /\ c = j.reply.rev /\ e = (p.mine # j.arg.mine \/ Adding(s))
  OBVIOUS
<1>3. q = [r EXCEPT !.more = a, !.failed = FALSE, !.rev = c, !.skipped = e]
  BY <1>1, <1>2 DEF Loaded, Applies, Full
<1>4. r = PageOf(p.mine, p.due, p.failed, rows, p.more, p.fetching, Opened(p, rows), KeysLeft(p, rows),
                 p.rev, p.skipped, p.relocked)
  BY <1>1, ShowingIs
<1>5. q = PageOf(p.mine, p.due, FALSE, rows, a, p.fetching, Opened(p, rows), KeysLeft(p, rows), c, e, p.relocked)
  BY <1>3, <1>4 DEF PageOf
<1> QED BY <1>1, <1>2, <1>5 DEF IsLoaded

LEMMA LoadedMoreIs ==
  ASSUME NEW p, PageOK(p), NEW s \in Slots, JobAt(s, "more", "done"), job[s].arg.newest
  PROVE  IsLoadedMore(s, p, LoadedMore(s, p))
<1> DEFINE j == job[s]
           rows == Added(p, j.reply.rows)
<1>1. PICK q, r : q = LoadedMore(s, p) /\ r = Showing(p, rows)
  OBVIOUS
<1>2. PICK a, c : a = Full(j.reply.rows) /\ c = IF p.rev = j.reply.rev THEN p.rev ELSE 0
  OBVIOUS
<1>4. r = PageOf(p.mine, p.due, p.failed, rows, p.more, p.fetching, Opened(p, rows), KeysLeft(p, rows),
                 p.rev, p.skipped, p.relocked)
  BY <1>1, ShowingIs
<1>6. r.rev = p.rev
  BY <1>4 DEF PageOf
<1>3. q = [r EXCEPT !.more = a, !.fetching = FALSE, !.rev = c]
  BY <1>1, <1>2, <1>6 DEF LoadedMore, Applies, Full, Added
<1>5. q = PageOf(p.mine, p.due, p.failed, rows, a, FALSE, Opened(p, rows), KeysLeft(p, rows), c, p.skipped, p.relocked)
  BY <1>3, <1>4 DEF PageOf
<1> QED BY <1>1, <1>2, <1>5 DEF IsLoadedMore

LEMMA DeletedIs ==
  ASSUME NEW p, PageOK(p), NEW s \in Slots, JobAt(s, "drop", "done")
  PROVE  IsDeleted(s, p, Deleted(s, p))
<1> DEFINE j == job[s]
           rows == Without(p, j.arg.id)
<1>1. PICK q, r : q = Deleted(s, p) /\ r = Showing(p, rows)
  OBVIOUS
<1>2. PICK c, e : c = (IF p.rev = j.reply.from THEN j.reply.to ELSE 0) /\ e = (p.skipped \/ p.fetching)
  OBVIOUS
<1>4. r = PageOf(p.mine, p.due, p.failed, rows, p.more, p.fetching, Opened(p, rows), KeysLeft(p, rows),
                 p.rev, p.skipped, p.relocked)
  BY <1>1, ShowingIs
<1>6. r.rev = p.rev /\ r.skipped = p.skipped
  BY <1>4 DEF PageOf
<1>3. q = [r EXCEPT !.rev = c, !.skipped = e]
  <2>1. q = [r EXCEPT !.rev = IF @ = j.reply.from THEN j.reply.to ELSE 0, !.skipped = @ \/ p.fetching]
    BY <1>1 DEF Deleted, Without
  <2> QED BY <1>2, <1>6, <2>1
<1>5. q = PageOf(p.mine, p.due, p.failed, rows, p.more, p.fetching, Opened(p, rows), KeysLeft(p, rows), c, e, p.relocked)
  BY <1>3, <1>4 DEF PageOf
<1> QED BY <1>1, <1>2, <1>5 DEF IsDeleted

LEMMA FailedFetching ==
  ASSUME NEW p, PageOK(p), NEW failed, NEW fetching
  PROVE  [p EXCEPT !.failed = failed, !.fetching = fetching] =
           PageOf(p.mine, p.due, failed, p.rows, p.more, fetching, p.unlocked, p.key, p.rev, p.skipped, p.relocked)
<1>1. PICK mine, due, f, rows, more, g, unlocked, key, v, skips, relocked :
        p = PageOf(mine, due, f, rows, more, g, unlocked, key, v, skips, relocked)
  BY DEF PageOK, IsPage
<1>2. /\ p.mine = mine /\ p.due = due /\ p.rows = rows /\ p.more = more
      /\ p.unlocked = unlocked /\ p.key = key /\ p.rev = v /\ p.skipped = skips /\ p.relocked = relocked
  BY <1>1, PageOfIs
<1>3. PICK q : q = [p EXCEPT !.failed = failed, !.fetching = fetching]
  OBVIOUS
<1>4. q = PageOf(mine, due, failed, rows, more, fetching, unlocked, key, v, skips, relocked)
  BY <1>1, <1>3 DEF PageOf
<1> QED BY <1>2, <1>3, <1>4

LEMMA AfterIs ==
  ASSUME NEW s \in Slots, JobOK(job[s]), NEW p, PageOK(p), NEW lost \in BOOLEAN, NEW q, q = After(s, p, lost)
  PROVE  \/ ~lost /\ (IsLoaded(s, p, q) \/ IsLoadedMore(s, p, q) \/ IsDeleted(s, p, q) \/ IsUnlocked(s, p, q))
         \/ IsAnswered(s, p, q) /\ (job[s].op \in {"drop", "unlock"} => lost \/ job[s].step # "done")
<1> DEFINE j == job[s]
           done == j.step = "done" /\ ~lost
<1>0. p.failed \in BOOLEAN /\ p.fetching \in BOOLEAN
  BY DEF PageOK
<1>s. p = PageOf(p.mine, p.due, p.failed, p.rows, p.more, p.fetching, p.unlocked, p.key, p.rev, p.skipped, p.relocked)
  BY DEF PageOK, IsPage
<1>1. CASE j.op = "load"
  <2>0. j.arg.newest \in BOOLEAN
    BY <1>1 DEF JobOK, IsList
  <2>1. CASE done /\ j.arg.newest
    <3>1. q = Loaded(s, p)
      BY <1>1, <2>1 DEF After
    <3> QED BY <1>1, <2>1, <3>1, LoadedIs DEF JobAt
  <2>2. CASE done /\ ~j.arg.newest
    <3>1. q = p
      BY <1>1, <2>2 DEF After, Loaded, Applies
    <3> QED BY <1>0, <1>1, <1>s, <2>2, <3>1 DEF IsAnswered
  <2>3. CASE ~done
    <3>1. PICK f : f = (p.failed \/ j.arg.newest)
      OBVIOUS
    <3>2. q = WithFailed(p, f)
      BY <1>1, <2>3, <3>1 DEF After, Applies, WithFailed
    <3>3. q = PageOf(p.mine, p.due, f, p.rows, p.more, p.fetching, p.unlocked, p.key, p.rev, p.skipped, p.relocked)
      BY <3>2, WithPage
    <3>4. f \in BOOLEAN /\ (p.failed => f) /\ (j.arg.newest => f)
      BY <3>1
    <3> QED BY <1>0, <1>1, <2>3, <3>3, <3>4 DEF IsAnswered
  <2> QED BY <2>0, <2>1, <2>2, <2>3
<1>2. CASE j.op = "more"
  <2>0. j.arg.newest \in BOOLEAN
    BY <1>2 DEF JobOK, IsList
  <2>1. CASE done /\ j.arg.newest
    <3>1. q = LoadedMore(s, p)
      BY <1>2, <2>1 DEF After
    <3> QED BY <1>2, <2>1, <3>1, LoadedMoreIs DEF JobAt
  <2>2. CASE done /\ ~j.arg.newest
    <3>1. q = WithFetching(p, FALSE)
      BY <1>2, <2>2 DEF After, LoadedMore, Applies, WithFetching
    <3>2. q = PageOf(p.mine, p.due, p.failed, p.rows, p.more, FALSE, p.unlocked, p.key, p.rev, p.skipped, p.relocked)
      BY <3>1, WithPage
    <3> QED BY <1>0, <1>2, <2>2, <3>2 DEF IsAnswered
  <2>3. CASE ~done
    <3>1. q = [p EXCEPT !.failed = TRUE, !.fetching = FALSE]
      BY <1>2, <2>3 DEF After
    <3>2. q = PageOf(p.mine, p.due, TRUE, p.rows, p.more, FALSE, p.unlocked, p.key, p.rev, p.skipped, p.relocked)
      BY <3>1, FailedFetching
    <3> QED BY <1>0, <1>2, <2>3, <3>2 DEF IsAnswered
  <2> QED BY <2>0, <2>1, <2>2, <2>3
<1>3. CASE j.op = "drop" /\ done
  <2>1. q = Deleted(s, p)
    BY <1>3 DEF After
  <2> QED BY <1>3, <2>1, DeletedIs DEF JobAt
<1>4. CASE j.op = "unlock" /\ done
  <2>1. q = WithKey(p, j.arg.id, j.arg.pw)
    BY <1>4 DEF After, WithKey
  <2>2. q = PageOf(p.mine, p.due, p.failed, p.rows, p.more, p.fetching, p.unlocked \cup {j.arg.id},
                   [p.key EXCEPT ![j.arg.id] = j.arg.pw], p.rev, p.skipped, p.relocked)
    BY <2>1, WithKeyIs
  <2> QED BY <1>4, <2>2 DEF JobAt, IsUnlocked
<1>5. CASE j.op \notin {"load", "more"} /\ ~(j.op \in {"drop", "unlock"} /\ done)
  <2>1. q = p
    BY <1>5 DEF After
  <2> QED BY <1>0, <1>5, <1>s, <2>1 DEF IsAnswered
<1> QED BY <1>1, <1>2, <1>3, <1>4, <1>5

\* The rows it shows then.
LEMMA AddedRows ==
  ASSUME NEW p, PageOK(p), NEW sent, RowsOK(sent)
  PROVE  RowsOK(Added(p, sent)) /\ Ids(Added(p, sent)) = Ids(p.rows) \cup Ids(sent)
<1> DEFINE K == {i \in 1 .. Len(sent) : sent[i].id \notin Ids(p.rows)}
<1>1. K \in SUBSET (1 .. Len(sent))
  OBVIOUS
<1>2. RowsOK(Picked(sent, K)) /\ Ids(Picked(sent, K)) = {sent[i].id : i \in K}
  BY <1>1, PickedRows
<1>3. {sent[i].id : i \in K} = Ids(sent) \ Ids(p.rows)
  BY DEF Ids
<1>4. Ids(p.rows) \cap Ids(Picked(sent, K)) = {}
  BY <1>2, <1>3
<1>5. RowsOK(p.rows)
  BY DEF PageOK
<1>6. RowsOK(p.rows \o Picked(sent, K)) /\ Ids(p.rows \o Picked(sent, K)) = Ids(p.rows) \cup Ids(Picked(sent, K))
  BY <1>2, <1>4, <1>5, ConcatRows
<1> QED BY <1>2, <1>3, <1>6 DEF Added

LEMMA WithoutRows ==
  ASSUME NEW p, PageOK(p), NEW id
  PROVE  RowsOK(Without(p, id)) /\ Ids(Without(p, id)) = Ids(p.rows) \ {id}
<1> DEFINE K == {i \in 1 .. Len(p.rows) : p.rows[i].id # id}
<1>1. K \in SUBSET (1 .. Len(p.rows)) /\ RowsOK(p.rows)
  BY DEF PageOK
<1>2. RowsOK(Picked(p.rows, K)) /\ Ids(Picked(p.rows, K)) = {p.rows[i].id : i \in K}
  BY <1>1, PickedRows
<1>3. {p.rows[i].id : i \in K} = Ids(p.rows) \ {id}
  BY DEF Ids
<1> QED BY <1>2, <1>3 DEF Without

\* It stays a page; nothing is shown that was not shown or sent.
LEMMA AfterOK ==
  ASSUME NEW s \in Slots, JobOK(job[s]), NEW p, PageOK(p), NEW lost \in BOOLEAN, NEW q, q = After(s, p, lost),
         job[s].op = "unlock" => job[s].arg.id \in Ids(p.rows)
  PROVE  /\ PageOK(q) /\ q.mine = p.mine /\ q.due = p.due /\ q.relocked = p.relocked
         /\ \A id \in Ids(q.rows) : id \in Ids(p.rows) \/ (IsList(job[s]) /\ job[s].step = "done" /\ id \in Ids(job[s].reply.rows))
         /\ IsAnswered(s, p, q) \/ IsUnlocked(s, p, q) => q.rows = p.rows
<1> DEFINE j == job[s]
<1>0. /\ p.mine \in BOOLEAN /\ p.due \in BOOLEAN /\ p.failed \in BOOLEAN /\ p.more \in BOOLEAN
      /\ p.fetching \in BOOLEAN /\ p.skipped \in BOOLEAN
      /\ RowsOK(p.rows) /\ p.unlocked \subseteq Ids(p.rows)
      /\ p.key \in [FileIds -> Keys] /\ p.rev \in Nat /\ p.relocked \subseteq FileIds
  BY DEF PageOK
<1>1. ASSUME NEW rows, NEW failed, NEW more, NEW fetching, NEW v, NEW skips, RowsOK(rows), failed \in BOOLEAN, more \in BOOLEAN,
             fetching \in BOOLEAN, v \in Nat, skips \in BOOLEAN,
             q = PageOf(p.mine, p.due, failed, rows, more, fetching, Opened(p, rows), KeysLeft(p, rows), v, skips, p.relocked)
      PROVE  PageOK(q) /\ q.mine = p.mine /\ q.due = p.due /\ q.relocked = p.relocked /\ q.rows = rows
  <2>1. Opened(p, rows) \subseteq Ids(rows) /\ KeysLeft(p, rows) \in [FileIds -> Keys]
    BY <1>1, OpenedOK
  <2>2. /\ IsPage(q) /\ q.mine = p.mine /\ q.due = p.due /\ q.failed = failed /\ q.rows = rows /\ q.more = more
        /\ q.fetching = fetching /\ q.unlocked = Opened(p, rows) /\ q.key = KeysLeft(p, rows) /\ q.rev = v
        /\ q.skipped = skips /\ q.relocked = p.relocked
    BY <1>1, PageOfIs
  <2> QED BY <1>0, <1>1, <2>1, <2>2 DEF PageOK
<1>2. ASSUME IsAnswered(s, p, q)
      PROVE  PageOK(q) /\ q.mine = p.mine /\ q.due = p.due /\ q.relocked = p.relocked /\ q.rows = p.rows
  <2>1. PICK failed, fetching \in BOOLEAN :
          q = PageOf(p.mine, p.due, failed, p.rows, p.more, fetching, p.unlocked, p.key, p.rev, p.skipped, p.relocked)
    BY <1>2 DEF IsAnswered
  <2>2. /\ IsPage(q) /\ q.mine = p.mine /\ q.due = p.due /\ q.failed = failed /\ q.rows = p.rows /\ q.more = p.more
        /\ q.fetching = fetching /\ q.unlocked = p.unlocked /\ q.key = p.key /\ q.rev = p.rev
        /\ q.skipped = p.skipped /\ q.relocked = p.relocked
    BY <2>1, PageOfIs
  <2> QED BY <1>0, <2>1, <2>2 DEF PageOK
<1>3. ASSUME IsUnlocked(s, p, q)
      PROVE  PageOK(q) /\ q.mine = p.mine /\ q.due = p.due /\ q.relocked = p.relocked /\ q.rows = p.rows
  <2>1. PICK u, k : u = p.unlocked \cup {j.arg.id} /\ k = [p.key EXCEPT ![j.arg.id] = j.arg.pw]
    OBVIOUS
  <2>2. q = PageOf(p.mine, p.due, p.failed, p.rows, p.more, p.fetching, u, k, p.rev, p.skipped, p.relocked)
    BY <1>3, <2>1 DEF IsUnlocked
  <2>3. u \subseteq Ids(p.rows) /\ k \in [FileIds -> Keys]
    <3>1. j.arg.id \in Ids(p.rows) /\ j.arg.pw \in Keys
      BY <1>3 DEF IsUnlocked, JobAt, JobOK
    <3> QED BY <1>0, <2>1, <3>1
  <2>4. /\ IsPage(q) /\ q.mine = p.mine /\ q.due = p.due /\ q.failed = p.failed /\ q.rows = p.rows /\ q.more = p.more
        /\ q.fetching = p.fetching /\ q.unlocked = u /\ q.key = k /\ q.rev = p.rev
        /\ q.skipped = p.skipped /\ q.relocked = p.relocked
    BY <2>2, PageOfIs
  <2> QED BY <1>0, <2>3, <2>4 DEF PageOK
<1>4. CASE IsLoaded(s, p, q)
  <2>1. RowsOK(j.reply.rows) /\ j.reply.rev \in Nat /\ IsList(j) /\ j.step = "done"
    BY <1>4 DEF IsLoaded, JobAt, JobOK, IsList
  <2>2. PICK more, skips : more = Full(j.reply.rows) /\ skips = (p.mine # j.arg.mine \/ Adding(s))
    OBVIOUS
  <2>3. more \in BOOLEAN /\ skips \in BOOLEAN
    BY <2>2 DEF Full
  <2>4. PageOK(q) /\ q.mine = p.mine /\ q.due = p.due /\ q.relocked = p.relocked /\ q.rows = j.reply.rows
    <3>1. PICK f, rows : f = FALSE /\ rows = j.reply.rows
      OBVIOUS
    <3>2. q = PageOf(p.mine, p.due, f, rows, more, p.fetching, Opened(p, rows), KeysLeft(p, rows),
                     j.reply.rev, skips, p.relocked)
      BY <1>4, <2>2, <3>1 DEF IsLoaded
    <3>3. f \in BOOLEAN /\ RowsOK(rows)
      BY <2>1, <3>1
    <3> QED BY <1>0, <1>1, <2>1, <2>3, <3>1, <3>2, <3>3
  <2>5. ~IsAnswered(s, p, q) \/ q.rows = p.rows
    BY <1>2
  <2>6. ~IsUnlocked(s, p, q)
    BY <1>4 DEF IsLoaded, IsUnlocked, JobAt
  <2> QED BY <2>1, <2>4, <2>5, <2>6
<1>5. CASE IsLoadedMore(s, p, q)
  <2>1. RowsOK(j.reply.rows) /\ j.reply.rev \in Nat /\ IsList(j) /\ j.step = "done"
    BY <1>5 DEF IsLoadedMore, JobAt, JobOK, IsList
  <2>2. PICK more, v : more = Full(j.reply.rows) /\ v = IF p.rev = j.reply.rev THEN p.rev ELSE 0
    OBVIOUS
  <2>3. more \in BOOLEAN /\ v \in Nat
    BY <1>0, <2>2 DEF Full
  <2>4. RowsOK(Added(p, j.reply.rows)) /\ Ids(Added(p, j.reply.rows)) = Ids(p.rows) \cup Ids(j.reply.rows)
    BY <2>1, AddedRows
  <2>5. PageOK(q) /\ q.mine = p.mine /\ q.due = p.due /\ q.relocked = p.relocked /\ q.rows = Added(p, j.reply.rows)
    <3>1. PICK f, rows : f = FALSE /\ rows = Added(p, j.reply.rows)
      OBVIOUS
    <3>2. q = PageOf(p.mine, p.due, p.failed, rows, more, f, Opened(p, rows), KeysLeft(p, rows), v, p.skipped, p.relocked)
      BY <1>5, <2>2, <3>1 DEF IsLoadedMore
    <3>3. f \in BOOLEAN /\ RowsOK(rows)
      BY <2>4, <3>1
    <3> QED BY <1>0, <1>1, <2>3, <3>1, <3>2, <3>3
  <2>6. ~IsAnswered(s, p, q) \/ q.rows = p.rows
    BY <1>2
  <2>7. ~IsUnlocked(s, p, q)
    BY <1>5 DEF IsLoadedMore, IsUnlocked, JobAt
  <2> QED BY <2>1, <2>4, <2>5, <2>6, <2>7
<1>6. CASE IsDeleted(s, p, q)
  <2>1. PICK v, skips : v = (IF p.rev = j.reply.from THEN j.reply.to ELSE 0) /\ skips = (p.skipped \/ p.fetching)
    OBVIOUS
  <2>2. v \in Nat /\ skips \in BOOLEAN
    BY <1>0, <1>6, <2>1 DEF IsDeleted, JobAt, JobOK
  <2>3. RowsOK(Without(p, j.arg.id)) /\ Ids(Without(p, j.arg.id)) = Ids(p.rows) \ {j.arg.id}
    BY WithoutRows
  <2>4. PageOK(q) /\ q.mine = p.mine /\ q.due = p.due /\ q.relocked = p.relocked /\ q.rows = Without(p, j.arg.id)
    BY <1>0, <1>1, <1>6, <2>1, <2>2, <2>3 DEF IsDeleted
  <2>5. ~IsAnswered(s, p, q) \/ q.rows = p.rows
    BY <1>2
  <2>6. ~IsUnlocked(s, p, q)
    BY <1>6 DEF IsDeleted, IsUnlocked, JobAt
  <2> QED BY <2>3, <2>4, <2>5, <2>6
<1>7. IsLoaded(s, p, q) \/ IsLoadedMore(s, p, q) \/ IsDeleted(s, p, q) \/ IsUnlocked(s, p, q) \/ IsAnswered(s, p, q)
  BY AfterIs
<1> QED BY <1>2, <1>3, <1>4, <1>5, <1>6, <1>7

-----------------------------------------------------------------------------
\* The invariant of the library.

EntryOK(e) == e = NoEntry \/ (e = [owner |-> e.owner, pw |-> e.pw] /\ e.owner # None /\ e.pw \in Keys)

TableOK ==
  /\ entry = [id \in FileIds |-> entry[id]] /\ \A id \in FileIds : EntryOK(entry[id])
  /\ shelf \in Seq(FileIds)
  /\ \A i, k \in 1 .. Len(shelf) : shelf[i] = shelf[k] => i = k
  /\ \A id \in FileIds : entry[id] # NoEntry <=> \E i \in 1 .. Len(shelf) : shelf[i] = id
  /\ disk \subseteq FileIds
  /\ \A id \in FileIds : entry[id] # NoEntry => id \in disk
  /\ rev \in Nat \ {0}

Pending(s) == JobAt(s, "post", "insert") \/ JobAt(s, "drop", "unlink")

KeptOK == \A id \in disk : entry[id] # NoEntry \/ \E s \in Slots : Pending(s) /\ job[s].arg.id = id

PagesTyped ==
  /\ page = [d \in DOMAIN page |-> page[d]] /\ DOMAIN page \subseteq home
  /\ \A d \in DOMAIN page : PageOK(page[d]) /\ page[d].rev <= rev

\* What a request knows of the table.
HoldOK ==
  \A s \in Slots :
    /\ IsList(job[s]) /\ job[s].step = "done" => job[s].reply.rev <= rev
    /\ job[s].op = "drop" /\ job[s].step \in {"unlink", "done"} =>
         entry[job[s].arg.id] = NoEntry /\ job[s].reply.to <= rev
    /\ JobAt(s, "post", "insert") => job[s].arg.id \in disk

\* A row that waits is there.
WaitOK ==
  \A s \in Slots : job[s].op \in {"unlock", "fetch"} /\ job[s].here /\ Open(Device[s]) =>
    job[s].arg.id \in Ids(page[Device[s]].rows)

JobMentions(j, id) ==
  \/ IsList(j) /\ j.step = "done" /\ id \in Ids(j.reply.rows)
  \/ j.op \in {"edit", "drop", "unlock", "fetch"} /\ j.arg.id = id

Mentioned(id) ==
  \/ id \in FileIds /\ entry[id] # NoEntry
  \/ \E d \in DOMAIN page : id \in Ids(page[d].rows)
  \/ \E s \in Slots : JobMentions(job[s], id)

\* An entry that is to come.
Posts(s, id) == job[s].op = "post" /\ job[s].step \in {"save", "insert"} /\ job[s].arg.id = id

MentionOK ==
  /\ \A id : Mentioned(id) => id \in FileIds /\ id <= asked
  /\ \A s \in Slots : \A id : Posts(s, id) =>
       id \in FileIds /\ id <= asked /\ ~Mentioned(id) /\ \A t \in Slots : Posts(t, id) => t = s

LibInv == TableOK /\ KeptOK /\ PagesTyped /\ JobsOK /\ HoldOK /\ WaitOK /\ MentionOK

-----------------------------------------------------------------------------
\* Steps that leave the table alone.

\* What a request may become.
Turns(t) ==
  /\ JobOK(job'[t])
  /\ Pending(t) => job'[t].op = job[t].op /\ job'[t].step = job[t].step /\ job'[t].arg = job[t].arg
  /\ IsList(job'[t]) /\ job'[t].step = "done" => job'[t].reply.rev <= rev
  /\ job'[t].op = "drop" /\ job'[t].step \in {"unlink", "done"} =>
       /\ job[t].op = "drop" /\ job[t].step \in {"unlink", "done"}
       /\ job'[t].arg = job[t].arg /\ job'[t].reply = job[t].reply
  /\ job'[t].op = "post" /\ job'[t].step = "insert" => JobAt(t, "post", "insert") /\ job'[t].arg = job[t].arg
  /\ \A id : JobMentions(job'[t], id) => Mentioned(id)

LEMMA WeakenedTurns ==
  ASSUME LibInv, NEW t \in Slots, Weakens(t)
  PROVE  /\ Turns(t) /\ (\A id : Posts(t, id)' => Posts(t, id))
         /\ (\A id : JobMentions(job'[t], id) => JobMentions(job[t], id))
<1>1. JobOK(job'[t])
  BY WeakenedOK DEF LibInv, JobsOK
<1>2. job'[t].op \notin {"load", "more"} => job'[t].arg = job[t].arg
  BY DEF Weakens, IsList
<1>3. \A id : JobMentions(job'[t], id) => JobMentions(job[t], id)
  BY <1>2 DEF JobMentions, Weakens, IsList
<1>4. \A id : JobMentions(job'[t], id) => Mentioned(id)
  BY <1>3 DEF Mentioned
<1>5. \A id : Posts(t, id)' => Posts(t, id)
  BY <1>2 DEF Posts, Weakens
<1>6. Pending(t) => job'[t].op = job[t].op /\ job'[t].step = job[t].step /\ job'[t].arg = job[t].arg
  BY <1>2 DEF Pending, JobAt, Weakens
<1>7. IsList(job'[t]) /\ job'[t].step = "done" => job'[t].reply.rev <= rev
  BY DEF Weakens, LibInv, HoldOK, IsList
<1>8. Turns(t)
  BY <1>1, <1>2, <1>4, <1>6, <1>7 DEF Turns, Weakens, JobAt
<1> QED BY <1>3, <1>5, <1>8

LEMMA MentionsStay ==
  ASSUME MentionOK, asked \in Nat, asked' \in Numbers, asked <= asked',
         UNCHANGED entry,
         \A t \in Slots : \A id : JobMentions(job'[t], id) => Mentioned(id),
         NEW s, \A t \in Slots : \A id : Posts(t, id)' => Posts(t, id) \/ (t = s /\ id = asked + 1 /\ asked' = asked + 1),
         \A d \in DOMAIN page' : \A id \in Ids(page'[d].rows) : Mentioned(id)
  PROVE  MentionOK'
<1>1. \A id : Mentioned(id)' => Mentioned(id)
  BY DEF Mentioned
<1>2. \A id : Mentioned(id) => id \in FileIds /\ id <= asked
  BY DEF MentionOK
<1>3. \A id \in FileIds : id \in Nat
  BY Constants DEF FileIds
<1>4. asked' \in Nat /\ (asked' = asked + 1 => asked + 1 \in FileIds)
  BY Constants DEF FileIds, None
<1>5. ~Mentioned(asked + 1) /\ \A t \in Slots : ~Posts(t, asked + 1)
  <2>1. ~(asked + 1 <= asked)
    OBVIOUS
  <2> QED BY <1>2, <2>1 DEF MentionOK
<1>6. \A id : Mentioned(id)' => id \in FileIds /\ id <= asked'
  <2> TAKE id
  <2> HAVE Mentioned(id)'
  <2>1. id \in FileIds /\ id <= asked
    BY <1>1, <1>2
  <2> QED BY <1>3, <1>4, <2>1
<1>7. ASSUME NEW t \in Slots, NEW id, Posts(t, id)'
      PROVE  id \in FileIds /\ id <= asked' /\ ~Mentioned(id)' /\ \A u \in Slots : Posts(u, id)' => u = t
  <2>1. CASE Posts(t, id)
    <3>1. id \in FileIds /\ id <= asked /\ ~Mentioned(id) /\ \A u \in Slots : Posts(u, id) => u = t
      BY <2>1 DEF MentionOK
    <3>2. id # asked + 1
      BY <1>5, <2>1
    <3>3. id <= asked'
      BY <1>3, <1>4, <3>1
    <3> QED BY <1>1, <3>1, <3>2, <3>3
  <2>2. CASE t = s /\ id = asked + 1 /\ asked' = asked + 1
    <3>1. \A u \in Slots : Posts(u, id)' => u = t
      BY <1>5, <2>2
    <3>2. id <= asked'
      BY <2>2, <1>4
    <3> QED BY <1>1, <1>4, <1>5, <2>2, <3>1, <3>2
  <2> QED BY <1>7, <2>1, <2>2
<1> QED BY <1>6, <1>7 DEF MentionOK

LEMMA StillStep ==
  ASSUME LibInv, asked \in Nat, asked' \in Numbers, asked <= asked',
         UNCHANGED <<entry, shelf, disk, rev>>,
         \A t \in Slots : Turns(t),
         NEW s, \A t \in Slots : \A id : Posts(t, id)' => Posts(t, id) \/ (t = s /\ id = asked + 1 /\ asked' = asked + 1),
         PagesTyped', WaitOK',
         \A d \in DOMAIN page' : \A id \in Ids(page'[d].rows) : Mentioned(id)
  PROVE  LibInv'
<1>1. TableOK'
  BY DEF LibInv, TableOK
<1>2. KeptOK'
  <2>1. \A t \in Slots : Pending(t) => Pending(t)' /\ job'[t].arg = job[t].arg
    BY DEF Turns, Pending, JobAt
  <2> QED BY <2>1 DEF LibInv, KeptOK
<1>3. JobsOK'
  BY DEF JobsOK, Turns
<1>4. HoldOK'
  BY DEF LibInv, HoldOK, Turns, JobAt
<1>5. MentionOK'
  <2>1. \A t \in Slots : \A id : JobMentions(job'[t], id) => Mentioned(id)
    BY DEF Turns
  <2> QED BY <2>1, MentionsStay DEF LibInv
<1> QED BY <1>1, <1>2, <1>3, <1>4, <1>5 DEF LibInv

-----------------------------------------------------------------------------
\* What a page asks for.

LEMMA PageTurns ==
  ASSUME PagesTyped, rev \in Nat, rev' \in Nat, rev <= rev', UNCHANGED home,
         NEW d \in DOMAIN page, NEW q, PageOK(q), q.rev <= rev', page' = [page EXCEPT ![d] = q]
  PROVE  /\ PagesTyped' /\ DOMAIN page' = DOMAIN page /\ page'[d] = q
         /\ \A e \in DOMAIN page \ {d} : page'[e] = page[e]
<1>1. DOMAIN page' = DOMAIN page /\ page'[d] = q /\ \A e \in DOMAIN page \ {d} : page'[e] = page[e]
  BY DEF PagesTyped
<1>2. page' = [e \in DOMAIN page' |-> page'[e]]
  BY DEF PagesTyped
<1>3. \A e \in DOMAIN page : PageOK(page[e]) /\ page[e].rev \in Nat /\ page[e].rev <= rev
  BY DEF PagesTyped, PageOK
<1>4. \A e \in DOMAIN page' : PageOK(page'[e]) /\ page'[e].rev <= rev'
  BY <1>1, <1>3
<1> QED BY <1>1, <1>2, <1>4 DEF PagesTyped

LEMMA PagesStill ==
  ASSUME PagesTyped, UNCHANGED <<page, home, rev>>
  PROVE  PagesTyped'
BY DEF PagesTyped

LEMMA WaitStays ==
  ASSUME JobsOK, WaitOK, NEW s, \A t \in Slots \ {s} : Weakens(t),
         \A d \in DOMAIN page' : d \in DOMAIN page /\ page'[d].rows = page[d].rows,
         s \in Slots /\ job'[s].op \in {"unlock", "fetch"} /\ job'[s].here /\ Device[s] \in DOMAIN page'
           => job'[s].arg.id \in Ids(page'[Device[s]].rows)
  PROVE  WaitOK'
<1> SUFFICES ASSUME NEW t \in Slots, job'[t].op \in {"unlock", "fetch"}, job'[t].here, Device[t] \in DOMAIN page'
             PROVE  job'[t].arg.id \in Ids(page'[Device[t]].rows)
  BY DEF WaitOK, Open
<1>1. CASE t = s
  BY <1>1
<1>2. CASE t # s
  <2>1. Weakens(t)
    BY <1>2
  <2>2. job[t].op \in {"unlock", "fetch"} /\ job[t].here /\ job'[t].arg = job[t].arg
    BY <2>1 DEF Weakens, IsList
  <2> QED BY <2>2 DEF WaitOK, Open
<1> QED BY <1>1, <1>2

LEMMA AskedStep ==
  ASSUME LibInv, asked \in Nat, asked' \in Numbers, asked <= asked',
         UNCHANGED <<entry, shelf, disk, rev>>, NEW s \in Slots, job[s].op = "none", Rest(s), JobOK(job'[s]),
         job'[s].step \notin {"done", "insert", "unlink"},
         job'[s].op \in {"edit", "drop", "unlock", "fetch"} => Mentioned(job'[s].arg.id),
         job'[s].op = "post" => job'[s].arg.id = asked + 1 /\ asked' = asked + 1,
         PagesTyped', \A d \in DOMAIN page' : d \in DOMAIN page /\ page'[d].rows = page[d].rows,
         job'[s].op \in {"unlock", "fetch"} /\ Device[s] \in DOMAIN page' => job'[s].arg.id \in Ids(page'[Device[s]].rows)
  PROVE  LibInv'
<1>1. \A t \in Slots \ {s} : Weakens(t)
  BY DEF Rest
<1>2. Turns(s)
  BY DEF Turns, Pending, JobAt, JobMentions
<1>3. \A t \in Slots : Turns(t)
  BY <1>1, <1>2, WeakenedTurns
<1>4. \A t \in Slots : \A id : Posts(t, id)' => Posts(t, id) \/ (t = s /\ id = asked + 1 /\ asked' = asked + 1)
  BY <1>1, WeakenedTurns DEF Posts
<1>5. WaitOK'
  BY <1>1, WaitStays DEF LibInv
<1>6. \A d \in DOMAIN page' : \A id \in Ids(page'[d].rows) : Mentioned(id)
  BY DEF Mentioned
<1> QED BY <1>3, <1>4, <1>5, <1>6, StillStep

\* The numbers of requests.
AskedOK == asked \in Nat /\ asked' \in Numbers /\ asked <= asked'

LEMMA SentRequest ==
  ASSUME JobsInv, JobsOK, NEW s \in Slots, NEW op, NEW arg, NEW step, Sends(s, Request(s, op, arg, step))
  PROVE  /\ Rest(s) /\ job[s].op = "none" /\ job'[s] = Request(s, op, arg, step)
         /\ IsJob(job'[s]) /\ job'[s].op = op /\ job'[s].arg = arg /\ job'[s].here = TRUE /\ job'[s].reply = << >>
         /\ job'[s].tok = token[Device[s]] /\ job'[s].admin = IsAdmin(token[Device[s]])
         /\ job'[s].step \in {step, "401"} /\ \A t \in Slots \ {s} : job'[t] = job[t]
         /\ (job'[s].step # "401" => Accepts(token[Device[s]])) /\ Device[s] \in home
<1>1. PICK j : j = Request(s, op, arg, step)
  OBVIOUS
<1>2. job' = [job EXCEPT ![s] = j] /\ job[s].op = "none" /\ Device[s] \in home
  BY <1>1 DEF Sends, Free
<1>3. job'[s] = j /\ Rest(s) /\ \A t \in Slots \ {s} : job'[t] = job[t]
  BY <1>2, Puts
<1>4. /\ IsJob(j) /\ j.op = op /\ j.arg = arg /\ j.reply = << >> /\ j.here = TRUE
      /\ j.tok = token[Device[s]] /\ j.admin = IsAdmin(token[Device[s]])
      /\ j.step = IF Accepts(token[Device[s]]) THEN step ELSE "401"
  BY <1>1 DEF Request, IsJob, JobOf
<1>5. j.step \in {step, "401"} /\ (j.step # "401" => Accepts(token[Device[s]]))
  BY <1>4
<1> QED BY <1>1, <1>2, <1>3, <1>4, <1>5

LEMMA AdminBoolean == ASSUME NEW t PROVE IsAdmin(t) \in BOOLEAN
BY DEF IsAdmin

LEMMA ListRequestOK ==
  ASSUME NEW s \in Slots, NEW op \in {"load", "more"}, NEW mine \in BOOLEAN, NEW offset \in Nat, op = "load" => offset = 0,
         NEW j, j = ListRequest(s, op, mine, offset)
  PROVE  /\ JobOK(j) /\ j.op = op /\ j.arg = ListArg(mine, offset, TRUE) /\ j.step \in {"select", "401"} /\ j.here = TRUE
         /\ j.tok = token[Device[s]] /\ j.admin = IsAdmin(token[Device[s]]) /\ j.reply = << >>
         /\ (j.step # "401" => Accepts(token[Device[s]]))
<1>1. PICK a, n : a = ListArg(mine, offset, n) /\ n = TRUE
  OBVIOUS
<1>2. j = Request(s, op, a, "select")
  BY <1>1 DEF ListRequest, ListArg
<1>3. /\ IsJob(j) /\ j.op = op /\ j.arg = a /\ j.reply = << >> /\ j.here = TRUE
      /\ j.tok = token[Device[s]] /\ j.admin = IsAdmin(token[Device[s]])
      /\ j.step = IF Accepts(token[Device[s]]) THEN "select" ELSE "401"
  BY <1>2 DEF Request, IsJob, JobOf
<1>4. n \in BOOLEAN /\ a.mine = mine /\ a.offset = offset /\ a.newest = n /\ a = ListArg(a.mine, a.offset, a.newest)
  BY <1>1 DEF ListArg
<1>5. j.admin \in BOOLEAN /\ j.here \in BOOLEAN /\ j.step \in {"select", "401"}
  BY <1>3, AdminBoolean
<1>6. IsList(j) /\ j.step \in JobSteps /\ j.op \in LibraryOps
  BY <1>3, <1>5 DEF IsList, JobSteps, Ended, LibraryOps
<1>7. JobOK(j)
  BY <1>3, <1>4, <1>5, <1>6 DEF JobOK
<1> QED BY <1>1, <1>3, <1>5, <1>7

\* A page of which only what it waits for has changed.
LEMMA WaitingPage ==
  ASSUME NEW p, PageOK(p), NEW due, NEW failed, NEW fetching, NEW q,
         q = PageOf(p.mine, due, failed, p.rows, p.more, fetching, p.unlocked, p.key, p.rev, p.skipped, p.relocked),
         due \in BOOLEAN, failed \in BOOLEAN, fetching \in BOOLEAN
  PROVE  /\ PageOK(q) /\ q.rows = p.rows /\ q.rev = p.rev /\ q.mine = p.mine /\ q.unlocked = p.unlocked /\ q.key = p.key
         /\ q.more = p.more /\ q.skipped = p.skipped /\ q.relocked = p.relocked /\ q.due = due /\ q.failed = failed
         /\ q.fetching = fetching
<1>1. /\ IsPage(q) /\ q.mine = p.mine /\ q.due = due /\ q.failed = failed /\ q.rows = p.rows /\ q.more = p.more
      /\ q.fetching = fetching /\ q.unlocked = p.unlocked /\ q.key = p.key /\ q.rev = p.rev /\ q.skipped = p.skipped
      /\ q.relocked = p.relocked
  BY PageOfIs
<1> QED BY <1>1 DEF PageOK

LEMMA LoadDueStep ==
  ASSUME LibInv, JobsInv, AskedOK, NEW s \in Slots, LoadDue(s), UNCHANGED <<entry, shelf, disk, rev, home>>
  PROVE  LibInv'
<1> DEFINE d == Device[s]
           p == page[d]
<1>0. d \in DOMAIN page /\ PageOK(p) /\ p.rev <= rev /\ p.mine \in BOOLEAN /\ p.rev \in Nat /\ job[s].op = "none"
      /\ JobsOK /\ PagesTyped /\ rev \in Nat
  BY DEF LibInv, PagesTyped, PageOK, LoadDue, Open, Free, TableOK
<1>1. Load(s, p.mine)
  BY DEF LoadDue
<1>2. Rest(s) /\ job'[s] = ListRequest(s, "load", p.mine, 0)
  BY <1>0, <1>1, LoadWeakens
<1>3. JobOK(job'[s]) /\ job'[s].op = "load" /\ job'[s].step \in {"select", "401"}
  <2>1. PICK j, mine, z, op : j = job'[s] /\ mine = p.mine /\ z = 0 /\ op = "load"
    OBVIOUS
  <2>2. j = ListRequest(s, op, mine, z) /\ mine \in BOOLEAN /\ z \in Nat /\ op \in {"load", "more"} /\ (op = "load" => z = 0)
    BY <1>0, <1>2, <2>1
  <2>3. JobOK(j)
    BY <2>2, ListRequestOK
  <2>4. j.op = op
    BY <2>2 DEF ListRequest, Request
  <2>5. j.step \in {"select", "401"}
    BY <2>2, ListRequestOK
  <2> QED BY <2>1, <2>3, <2>4, <2>5
<1>4. PICK q : q = WithDue(p)
  OBVIOUS
<1>5. page' = [page EXCEPT ![d] = q]
  BY <1>4 DEF LoadDue, WithDue
<1>6. q = PageOf(p.mine, FALSE, p.failed, p.rows, p.more, p.fetching, p.unlocked, p.key, p.rev, p.skipped, p.relocked)
  BY <1>0, <1>4, WithPage
<1>7. PageOK(q) /\ q.rows = p.rows /\ q.rev = p.rev
  <2>1. PICK f : f = FALSE
    OBVIOUS
  <2>2. q = PageOf(p.mine, f, p.failed, p.rows, p.more, p.fetching, p.unlocked, p.key, p.rev, p.skipped, p.relocked)
    BY <1>6, <2>1
  <2> HIDE DEF p
  <2>3. f \in BOOLEAN /\ p.failed \in BOOLEAN /\ p.fetching \in BOOLEAN
    BY <1>0, <2>1 DEF PageOK
  <2>4. PageOK(p)
    BY <1>0
  <2> QED BY <2>2, <2>3, <2>4, WaitingPage
<1>8. PagesTyped' /\ DOMAIN page' = DOMAIN page /\ page'[d] = q /\ \A e \in DOMAIN page \ {d} : page'[e] = page[e]
  <2>1. q.rev <= rev'
    BY <1>0, <1>7
  <2> HIDE DEF p
  <2>2. PageOK(q) /\ PagesTyped /\ d \in DOMAIN page /\ rev \in Nat /\ rev' \in Nat /\ rev <= rev' /\ UNCHANGED home
    BY <1>0, <1>7
  <2>3. /\ PagesTyped' /\ DOMAIN page' = DOMAIN page /\ page'[d] = q
        /\ \A e \in DOMAIN page \ {d} : page'[e] = page[e]
    BY <1>5, <2>1, <2>2, PageTurns
  <2> QED BY <2>3
<1>9. \A e \in DOMAIN page' : e \in DOMAIN page /\ page'[e].rows = page[e].rows
  BY <1>7, <1>8
<1> QED BY <1>0, <1>2, <1>3, <1>8, <1>9, AskedStep DEF AskedOK

LEMMA LoadMoreStep ==
  ASSUME LibInv, JobsInv, AskedOK, NEW s \in Slots, LoadMore(s), UNCHANGED <<entry, shelf, disk, rev, home>>
  PROVE  LibInv'
<1> DEFINE d == Device[s]
           p == page[d]
<1>0. d \in DOMAIN page /\ PageOK(p) /\ p.rev <= rev /\ p.mine \in BOOLEAN /\ p.rev \in Nat /\ JobsOK /\ PagesTyped
      /\ rev \in Nat /\ p.rows \in Seq(PageRow)
  BY DEF LibInv, PagesTyped, PageOK, LoadMore, Open, TableOK, RowsOK
<1>1. PICK j, n : j = ListRequest(s, "more", p.mine, n) /\ n = Len(p.rows)
  OBVIOUS
<1>2. Free(s) /\ job' = [job EXCEPT ![s] = j]
  BY <1>1 DEF LoadMore, Sends
<1>3. Rest(s) /\ job'[s] = j /\ job[s].op = "none"
  BY <1>0, <1>2, Puts DEF Free
<1>n. n \in Nat
  BY <1>0, <1>1, LenProperties
<1>4. JobOK(j) /\ j.op = "more" /\ j.step \in {"select", "401"}
  <2>1. PICK mine, op : mine = p.mine /\ op = "more"
    OBVIOUS
  <2>2. j = ListRequest(s, op, mine, n) /\ mine \in BOOLEAN /\ op \in {"load", "more"} /\ (op = "load" => n = 0)
    BY <1>0, <1>1, <2>1
  <2>3. JobOK(j)
    BY <1>n, <2>2, ListRequestOK
  <2>4. j.op = op
    BY <2>2 DEF ListRequest, Request
  <2>5. j.step \in {"select", "401"}
    BY <1>n, <2>2, ListRequestOK
  <2> QED BY <2>1, <2>3, <2>4, <2>5
<1>5. PICK q : q = WithFetching(p, TRUE)
  OBVIOUS
<1>6. page' = [page EXCEPT ![d] = q]
  BY <1>5 DEF LoadMore, WithFetching
<1>7. q = PageOf(p.mine, p.due, p.failed, p.rows, p.more, TRUE, p.unlocked, p.key, p.rev, p.skipped, p.relocked)
  BY <1>0, <1>5, WithPage
<1>8. PageOK(q) /\ q.rows = p.rows /\ q.rev = p.rev
  <2>1. PICK f : f = TRUE
    OBVIOUS
  <2>2. q = PageOf(p.mine, p.due, p.failed, p.rows, p.more, f, p.unlocked, p.key, p.rev, p.skipped, p.relocked)
    BY <1>7, <2>1
  <2> HIDE DEF p
  <2>3. f \in BOOLEAN /\ p.due \in BOOLEAN /\ p.failed \in BOOLEAN
    BY <1>0, <2>1 DEF PageOK
  <2>4. PageOK(p)
    BY <1>0
  <2> QED BY <2>2, <2>3, <2>4, WaitingPage
<1>9. PagesTyped' /\ DOMAIN page' = DOMAIN page /\ page'[d] = q /\ \A e \in DOMAIN page \ {d} : page'[e] = page[e]
  <2>1. q.rev <= rev'
    BY <1>0, <1>8
  <2> HIDE DEF p
  <2>2. PageOK(q) /\ PagesTyped /\ d \in DOMAIN page /\ rev \in Nat /\ rev' \in Nat /\ rev <= rev' /\ UNCHANGED home
    BY <1>0, <1>8
  <2>3. /\ PagesTyped' /\ DOMAIN page' = DOMAIN page /\ page'[d] = q
        /\ \A e \in DOMAIN page \ {d} : page'[e] = page[e]
    BY <1>6, <2>1, <2>2, PageTurns
  <2> QED BY <2>3
<1>10. \A e \in DOMAIN page' : e \in DOMAIN page /\ page'[e].rows = page[e].rows
  BY <1>8, <1>9
<1> QED BY <1>3, <1>4, <1>9, <1>10, AskedStep DEF AskedOK

LEMMA SentStep ==
  ASSUME LibInv, JobsInv, AskedOK, UNCHANGED <<entry, shelf, disk, rev, home, page>>,
         NEW s \in Slots, NEW op \in {"post", "edit", "drop", "unlock", "fetch"}, NEW arg, NEW step \in {"save", "read"},
         op = "post" <=> step = "save",
         Sends(s, Request(s, op, arg, step)), op \in {"post", "edit"} => arg.pw \in Keys /\ arg.mine \in BOOLEAN,
         op = "fetch" => arg.pw \in Keys, op = "unlock" => arg.pw \in Passwords, op # "post" => Mentioned(arg.id),
         op = "post" => arg.id = asked + 1 /\ asked' = asked + 1,
         op \in {"unlock", "fetch"} => Open(Device[s]) /\ arg.id \in Ids(page[Device[s]].rows)
  PROVE  LibInv'
<1>1. Rest(s) /\ job[s].op = "none" /\ job'[s].op = op /\ job'[s].arg = arg /\ job'[s].here = TRUE
      /\ job'[s].admin = IsAdmin(token[Device[s]]) /\ job'[s].step \in {step, "401"}
  <2>0. JobsOK
    BY DEF LibInv
  <2>1. Rest(s) /\ job[s].op = "none"
    BY <2>0, SentRequest
  <2>2. job'[s].op = op
    BY <2>0, SentRequest
  <2>6. job'[s].arg = arg
    <3>1. job = [t \in Slots |-> job[t]]
      BY DEF JobsInv
    <3>2. job' = [job EXCEPT ![s] = Request(s, op, arg, step)]
      BY DEF Sends
    <3>3. job'[s] = Request(s, op, arg, step)
      BY <3>1, <3>2
    <3> QED BY <3>3 DEF Request
  <2>3. job'[s].here = TRUE
    BY <2>0, SentRequest
  <2>4. job'[s].admin = IsAdmin(token[Device[s]])
    BY <2>0, SentRequest
  <2>5. job'[s].step \in {step, "401"}
    BY <2>0, SentRequest
  <2> QED BY <2>1, <2>2, <2>3, <2>4, <2>5, <2>6
<1>2. job'[s].admin \in BOOLEAN /\ job'[s].here \in BOOLEAN
  BY <1>1, AdminBoolean
<1>3. ~IsList(job'[s]) /\ job'[s].step \in JobSteps /\ job'[s].op \in LibraryOps
  BY <1>1 DEF IsList, JobSteps, Ended, LibraryOps
<1>4. job'[s].op \in {"unlock", "fetch"} => arg.pw \in Keys
  BY <1>1 DEF Keys
<1>5. JobOK(job'[s])
  BY <1>1, <1>2, <1>3, <1>4 DEF JobOK
<1>6. PagesTyped'
  BY PagesStill DEF LibInv
<1> QED BY <1>1, <1>5, <1>6, AskedStep DEF AskedOK, Open

LEMMA LibraryAsksStep ==
  ASSUME LibInv, JobsInv, AskedOK, NEW s \in Slots, LibraryAsks(s), UNCHANGED <<entry, shelf, disk, rev, pageVars>>
  PROVE  LibInv'
<1>0. UNCHANGED home /\ \A d \in DOMAIN page : PageOK(page[d])
  BY DEF pageVars, LibInv, PagesTyped
<1>m. \A d \in DOMAIN page : \A id \in Ids(page[d].rows) : Mentioned(id)
  BY DEF Mentioned
<1>1. CASE LoadDue(s)
  BY <1>0, <1>1, LoadDueStep
<1>2. CASE LoadMore(s)
  BY <1>0, <1>2, LoadMoreStep
<1>3. CASE SubmitPassword(s)
  <2>1. PICK id \in Ids(page[Device[s]].rows), pw \in Passwords : Sends(s, Request(s, "unlock", [id |-> id, pw |-> pw], "read"))
    BY <1>3 DEF SubmitPassword
  <2>2. Open(Device[s]) /\ UNCHANGED page
    BY <1>3 DEF SubmitPassword
  <2>3. PICK arg : arg = [id |-> id, pw |-> pw]
    OBVIOUS
  <2>4. arg.id = id /\ arg.pw = pw /\ Sends(s, Request(s, "unlock", arg, "read")) /\ Mentioned(id)
    BY <1>m, <2>1, <2>2, <2>3 DEF Open
  <2> QED BY <1>0, <2>2, <2>4, SentStep
<1>4. CASE OpenRow(s)
  <2>0. Open(Device[s]) /\ UNCHANGED page
    BY <1>4 DEF OpenRow
  <2>1. PICK id \in page[Device[s]].unlocked : Sends(s, FetchRequest(s, id, page[Device[s]].key[id]))
    BY <1>4 DEF OpenRow
  <2>2. PICK arg : arg = [id |-> id, pw |-> page[Device[s]].key[id]]
    OBVIOUS
  <2>3. id \in Ids(page[Device[s]].rows) /\ id \in FileIds /\ page[Device[s]].key[id] \in Keys
    <3>1. PageOK(page[Device[s]])
      BY <1>0, <2>0 DEF Open
    <3>2. id \in Ids(page[Device[s]].rows) /\ id \in FileIds
      BY <3>1, RowsIds DEF PageOK
    <3> QED BY <3>1, <3>2 DEF PageOK
  <2>4. arg.id = id /\ arg.pw \in Keys /\ Sends(s, Request(s, "fetch", arg, "read")) /\ Mentioned(id)
    BY <1>m, <2>0, <2>1, <2>2, <2>3 DEF Open, FetchRequest
  <2> QED BY <1>0, <2>0, <2>3, <2>4, SentStep
<1>o. ASSUME NEW row \in Offered(Device[s]) PROVE Mentioned(row.id)
  <2>1. CASE Open(Device[s])
    <3>1. row \in {[id |-> r.id, private |-> r.private] :
            r \in {page[Device[s]].rows[i] : i \in {k \in 1 .. Len(page[Device[s]].rows) : page[Device[s]].rows[k].mine}}}
      BY <1>o, <2>1 DEF Offered
    <3>2. PICK i \in 1 .. Len(page[Device[s]].rows) : row.id = page[Device[s]].rows[i].id
      BY <3>1
    <3>3. row.id \in Ids(page[Device[s]].rows)
      BY <3>2 DEF Ids
    <3> QED BY <1>m, <2>1, <3>3 DEF Open
  <2>2. CASE ~Open(Device[s])
    <3>1. row \in {[id |-> id, private |-> Locked(id)] : id \in {x \in FileIds : entry[x] # NoEntry}}
      BY <1>o, <2>2 DEF Offered
    <3>2. row.id \in FileIds /\ entry[row.id] # NoEntry
      BY <3>1
    <3> QED BY <3>2 DEF Mentioned
  <2> QED BY <2>1, <2>2
<1>b. Mine(Device[s]) \in BOOLEAN
  BY DEF Mine
<1>5. CASE Upload(s) /\ UNCHANGED page
  <2>1. PICK pw \in Keys : Counted /\ Sends(s, Request(s, "post", [id |-> asked + 1, pw |-> pw, mine |-> Mine(Device[s])], "save"))
    BY <1>5 DEF Upload, Keys
  <2>2. PICK arg, mine : arg = [id |-> asked + 1, pw |-> pw, mine |-> mine] /\ mine = Mine(Device[s])
    OBVIOUS
  <2>3. arg.id = asked + 1 /\ arg.pw \in Keys /\ arg.mine \in BOOLEAN /\ Sends(s, Request(s, "post", arg, "save"))
    BY <1>b, <2>1, <2>2
  <2>4. asked' = asked + 1
    BY <2>1 DEF Counted
  <2> QED BY <1>0, <1>5, <2>3, <2>4, SentStep
<1>6. CASE EditModal(s) /\ UNCHANGED page
  <2>1. PICK row \in Offered(Device[s]), private \in BOOLEAN, pw \in Keys :
          Sends(s, Request(s, "edit", [id |-> row.id, private |-> private, pw |-> pw, mine |-> Mine(Device[s])], "read"))
    BY <1>6 DEF EditModal, Keys
  <2>2. PICK arg, mine : arg = [id |-> row.id, private |-> private, pw |-> pw, mine |-> mine] /\ mine = Mine(Device[s])
    OBVIOUS
  <2>3. arg.id = row.id /\ arg.pw \in Keys /\ arg.mine \in BOOLEAN /\ Sends(s, Request(s, "edit", arg, "read"))
    BY <1>b, <2>1, <2>2
  <2>4. Mentioned(arg.id)
    BY <1>o, <2>3
  <2> QED BY <1>0, <1>6, <2>3, <2>4, SentStep
<1>7. CASE Remove(s) /\ UNCHANGED page
  <2>1. PICK row \in Offered(Device[s]) : Sends(s, Request(s, "drop", [id |-> row.id], "read"))
    BY <1>7 DEF Remove
  <2>2. PICK arg : arg = [id |-> row.id]
    OBVIOUS
  <2>3. arg.id = row.id /\ Sends(s, Request(s, "drop", arg, "read"))
    BY <2>1, <2>2
  <2>4. Mentioned(arg.id)
    BY <1>o, <2>3
  <2> QED BY <1>0, <1>7, <2>3, <2>4, SentStep
<1> QED BY <1>1, <1>2, <1>3, <1>4, <1>5, <1>6, <1>7 DEF LibraryAsks

-----------------------------------------------------------------------------
\* What the handlers do.

LEMMA FollowsOK ==
  ASSUME NEW s \in Slots, JobOK(job[s]), NEW step, NEW reply, Follows(s, step, reply), job[s].op # "none", step \in JobSteps,
         IsList(job[s]) => step \in {"select", "done", "401"} /\ (step = "done" => reply.rev \in Nat /\ RowsOK(reply.rows)),
         job[s].op = "post" => step \notin {"read", "unlink", "check", "update", "delete", "select", "stat"},
         job[s].op = "drop" => step \in {"read", "delete", "unlink", "done", "error", "403", "401"},
         job[s].op = "drop" /\ step \in {"unlink", "done"} =>
           reply.from \in Nat /\ reply.to \in Nat /\ reply.to \in {reply.from, reply.from + 1}
  PROVE  JobOK(job'[s])
<1>1. /\ job'[s].op = job[s].op /\ job'[s].step = step /\ job'[s].admin = job[s].admin /\ job'[s].arg = job[s].arg
      /\ job'[s].reply = reply /\ job'[s].here = job[s].here
  BY DEF Follows
<1>2. IsList(job'[s]) = IsList(job[s])
  BY <1>1 DEF IsList
<1>3. /\ job'[s].here \in BOOLEAN /\ job'[s].admin \in BOOLEAN /\ job'[s].step \in JobSteps
      /\ job'[s].op \in {"none"} \cup DeskOps \cup LibraryOps /\ job'[s].op # "none"
  BY <1>1 DEF JobOK
<1>4. IsList(job'[s]) =>
        /\ job'[s].arg = ListArg(job'[s].arg.mine, job'[s].arg.offset, job'[s].arg.newest)
        /\ job'[s].arg.mine \in BOOLEAN /\ job'[s].arg.offset \in Nat /\ job'[s].arg.newest \in BOOLEAN
        /\ job'[s].op = "load" => job'[s].arg.offset = 0
        /\ job'[s].step \in {"select", "done", "401"}
        /\ job'[s].step = "done" => job'[s].reply.rev \in Nat /\ RowsOK(job'[s].reply.rows)
  <2>1. CASE ~IsList(job[s])
    BY <1>2, <2>1
  <2>2. CASE IsList(job[s])
    <3>1. /\ job[s].arg = ListArg(job[s].arg.mine, job[s].arg.offset, job[s].arg.newest)
          /\ job[s].arg.mine \in BOOLEAN /\ job[s].arg.offset \in Nat /\ job[s].arg.newest \in BOOLEAN
          /\ job[s].op = "load" => job[s].arg.offset = 0
      BY <2>2 DEF JobOK
    <3> QED BY <1>1, <2>2, <3>1
  <2> QED BY <2>1, <2>2
<1>5. /\ job'[s].op \in {"post", "edit"} => job'[s].arg.pw \in Keys /\ job'[s].arg.mine \in BOOLEAN
      /\ job'[s].op \in {"unlock", "fetch"} => job'[s].arg.pw \in Keys
      /\ job'[s].op = "unlock" => job'[s].arg.pw \in Passwords
  BY <1>1 DEF JobOK
<1>6. /\ job'[s].op = "post" => job'[s].step \notin {"read", "unlink", "check", "update", "delete", "select", "stat"}
      /\ job'[s].op = "drop" => job'[s].step \in {"read", "delete", "unlink", "done", "error", "403", "401"}
      /\ job'[s].op = "drop" /\ job'[s].step \in {"unlink", "done"} =>
           job'[s].reply.from \in Nat /\ job'[s].reply.to \in Nat
           /\ job'[s].reply.to \in {job'[s].reply.from, job'[s].reply.from + 1}
  BY <1>1
<1> QED BY <1>3, <1>4, <1>5, <1>6 DEF JobOK

\* The handler only goes on.
TableStays == UNCHANGED <<asked, entry, shelf, disk, rev, page, home>>

LEMMA FollowsStays ==
  ASSUME LibInv, AskedOK, TableStays, NEW s \in Slots, NEW step, NEW reply, Follows(s, step, reply), JobOK(job'[s]), ~Pending(s),
         job[s].op = "drop" => step \notin {"unlink", "done"}, job[s].op = "post" => step \notin {"save", "insert"},
         IsList(job[s]) /\ step = "done" => reply.rev <= rev /\ \A id \in Ids(reply.rows) : Mentioned(id)
  PROVE  LibInv'
<1>0. /\ job'[s].op = job[s].op /\ job'[s].step = step /\ job'[s].arg = job[s].arg /\ job'[s].reply = reply
      /\ job'[s].here = job[s].here /\ \A t \in Slots \ {s} : job'[t] = job[t] /\ Weakens(t)
  BY DEF Follows, Rest
<1>1. \A id : JobMentions(job'[s], id) => Mentioned(id)
  <2> SUFFICES ASSUME NEW id, JobMentions(job'[s], id) PROVE Mentioned(id)
    OBVIOUS
  <2>1. CASE IsList(job[s]) /\ step = "done" /\ id \in Ids(reply.rows)
    BY <2>1
  <2>2. CASE job[s].op \in {"edit", "drop", "unlock", "fetch"} /\ job[s].arg.id = id
    BY <2>2 DEF Mentioned, JobMentions
  <2> QED BY <1>0, <2>1, <2>2 DEF JobMentions, IsList
<1>2. Turns(s)
  BY <1>0, <1>1 DEF Turns, JobAt, IsList
<1>3. \A t \in Slots : Turns(t)
  BY <1>0, <1>2, WeakenedTurns
<1>4. \A t \in Slots : \A id : Posts(t, id)' => Posts(t, id) \/ (t = s /\ id = asked + 1 /\ asked' = asked + 1)
  <2>1. \A id : ~Posts(s, id)'
    BY <1>0 DEF Posts
  <2> QED BY <1>0, <2>1, WeakenedTurns
<1>5. UNCHANGED <<page, home, rev, entry, shelf, disk>>
  BY DEF TableStays
<1>6. PagesTyped'
  BY <1>5, PagesStill DEF LibInv
<1>7. WaitOK'
  <2>1. \A d \in DOMAIN page' : d \in DOMAIN page /\ page'[d].rows = page[d].rows
    BY <1>5
  <2>2. job'[s].op \in {"unlock", "fetch"} /\ job'[s].here /\ Device[s] \in DOMAIN page'
           => job'[s].arg.id \in Ids(page'[Device[s]].rows)
    BY <1>0, <1>5 DEF LibInv, WaitOK, Open
  <2>3. JobsOK /\ WaitOK /\ \A t \in Slots \ {s} : Weakens(t)
    BY <1>0 DEF LibInv
  <2> QED BY <2>1, <2>2, <2>3, WaitStays
<1>8. \A d \in DOMAIN page' : \A id \in Ids(page'[d].rows) : Mentioned(id)
  BY <1>5 DEF Mentioned
<1> QED BY <1>3, <1>4, <1>5, <1>6, <1>7, <1>8, StillStep DEF AskedOK

\* A handler that is no list, upload or deletion about to change something.
LEMMA ReadStep ==
  ASSUME LibInv, JobsInv, AskedOK, TableStays, NEW s \in Slots, NEW step, JobGoes(s, step),
         job[s].op \in {"edit", "unlock", "fetch", "drop"}, step \in JobSteps, job[s].step = "read" \/ job[s].op \in {"edit", "fetch"},
         job[s].op = "drop" => step \in {"delete", "error", "403"}
  PROVE  LibInv'
<1>0. JobsOK /\ JobOK(job[s])
  BY DEF LibInv, JobsOK
<1>1. Follows(s, step, job[s].reply)
  BY <1>0, JobFollows
<1>2. ~IsList(job[s]) /\ ~Pending(s)
  BY DEF IsList, Pending, JobAt
<1>3. JobOK(job'[s])
  BY <1>0, <1>1, <1>2, FollowsOK
<1> QED BY <1>1, <1>2, <1>3, FollowsStays

LEMMA ReadingsStep ==
  ASSUME LibInv, JobsInv, AskedOK, UNCHANGED <<asked, home>>, NEW s \in Slots,
         OwnerRead(s) \/ UnlockRead(s) \/ FetchRead(s) \/ FetchStat(s)
  PROVE  LibInv'
<1>1. CASE OwnerRead(s)
  <2>1. PICK step \in {"error", "403", "delete", "update"} : JobGoes(s, step) /\ (job[s].op = "drop" => step # "update")
    BY <1>1 DEF OwnerRead
  <2>2. TableStays /\ job[s].op \in {"edit", "drop"} /\ job[s].step = "read"
    BY <1>1 DEF OwnerRead, TableStays, libraryVars
  <2> QED BY <2>1, <2>2, ReadStep DEF JobSteps, Ended
<1>2. CASE UnlockRead(s)
  <2>1. PICK step \in {"error", "403", "done"} : JobGoes(s, step)
    BY <1>2 DEF UnlockRead
  <2>2. TableStays /\ job[s].op = "unlock" /\ job[s].step = "read"
    BY <1>2 DEF UnlockRead, TableStays, libraryVars, JobAt
  <2> QED BY <2>1, <2>2, ReadStep DEF JobSteps, Ended
<1>3. CASE FetchRead(s)
  <2>1. PICK step \in {"error", "403", "stat"} : JobGoes(s, step)
    BY <1>3 DEF FetchRead
  <2>2. TableStays /\ job[s].op = "fetch" /\ job[s].step = "read"
    BY <1>3 DEF FetchRead, TableStays, libraryVars, JobAt
  <2> QED BY <2>1, <2>2, ReadStep DEF JobSteps, Ended
<1>4. CASE FetchStat(s)
  <2>1. PICK step \in {"error", "done"} : JobGoes(s, step)
    BY <1>4 DEF FetchStat
  <2>2. TableStays /\ job[s].op = "fetch"
    BY <1>4 DEF FetchStat, TableStays, libraryVars, JobAt
  <2> QED BY <2>1, <2>2, ReadStep DEF JobSteps, Ended
<1> QED BY <1>1, <1>2, <1>3, <1>4

\* The rows of a list.
Found(j) == Selected(j, j.arg.mine)
LEMMA SelectedIs ==
  ASSUME TableOK, NEW j, NEW mine
  PROVE  LET all == Selected(j, mine)
             K == {i \in 1 .. Len(shelf) : mine => entry[shelf[i]].owner = Who(j.tok)}
         IN /\ all = Picked(shelf, K) /\ K \in SUBSET (1 .. Len(shelf)) /\ all \in Seq(FileIds)
            /\ \A i \in 1 .. Len(all) : entry[all[i]] # NoEntry
            /\ \A i, k \in 1 .. Len(all) : all[i] = all[k] => i = k
<1> DEFINE K == {i \in 1 .. Len(shelf) : mine => entry[shelf[i]].owner = Who(j.tok)}
           all == Selected(j, mine)
<1>1. all = Picked(shelf, K) /\ K \in SUBSET (1 .. Len(shelf)) /\ shelf \in Seq(FileIds)
  BY DEF Selected, TableOK
<1> HIDE DEF all, K
<1>2. /\ all \in Seq(FileIds) /\ Len(all) \in Nat
      /\ \A m \in 1 .. Len(all) : Nth(K, m) \in K /\ all[m] = shelf[Nth(K, m)]
      /\ \A m, o \in 1 .. Len(all) : m < o => Nth(K, m) < Nth(K, o)
  BY <1>1, PickedIs
<1>3. \A i \in 1 .. Len(shelf) : shelf[i] \in FileIds /\ entry[shelf[i]] # NoEntry
  BY <1>1, ElementOfSeq DEF TableOK
<1>4. \A i \in 1 .. Len(all) : entry[all[i]] # NoEntry
  BY <1>1, <1>2, <1>3
<1>5. \A i, k \in 1 .. Len(all) : all[i] = all[k] => i = k
  <2> SUFFICES ASSUME NEW i \in 1 .. Len(all), NEW k \in 1 .. Len(all), i < k, all[i] = all[k] PROVE FALSE
    BY <1>2
  <2>1. PICK x \in K, y \in K : x = Nth(K, i) /\ y = Nth(K, k) /\ all[i] = shelf[x] /\ all[k] = shelf[y] /\ x < y
    BY <1>2
  <2>2. x = y
    BY <1>1, <2>1 DEF TableOK
  <2> QED BY <1>1, <2>1, <2>2
<1> QED BY <1>1, <1>2, <1>4, <1>5 DEF all, K
Span(n, offset) == IF n >= offset THEN n - offset ELSE 0

LEMMA PartIs ==
  ASSUME NEW S, NEW list \in Seq(S), NEW offset \in Nat, NEW n \in Nat, n <= Len(list),
         NEW q, q = SubSeq(list, offset + 1, n), NEW len, len = Span(n, offset)
  PROVE  /\ q \in Seq(S) /\ Len(q) = len /\ len \in Nat
         /\ \A i \in 1 .. len : i + offset \in 1 .. n /\ q[i] = list[i + offset]
<1>1. CASE n >= offset
  <2>1. offset + 1 \in 1 .. Len(list) + 1 /\ n \in (offset + 1) - 1 .. Len(list) /\ Len(list) \in Nat
    BY <1>1, LenProperties
  <2>2. /\ q \in Seq(S) /\ Len(q) = n - (offset + 1) + 1
        /\ \A i \in 1 .. n - (offset + 1) + 1 : (offset + 1) + i - 1 \in 1 .. Len(list) /\ q[i] = list[(offset + 1) + i - 1]
    BY <2>1, SubSeqProperties
  <2>3. \A i \in 1 .. n - offset : i + offset \in 1 .. n /\ q[i] = list[i + offset]
    <3> TAKE i \in 1 .. n - offset
    <3>1. (offset + 1) + i - 1 = i + offset /\ i \in 1 .. n - (offset + 1) + 1 /\ i + offset \in 1 .. n
      BY <1>1
    <3> QED BY <2>2, <3>1
  <2>4. Len(q) = n - offset /\ n - offset \in Nat
    BY <1>1, <2>2
  <2> QED BY <1>1, <2>2, <2>3, <2>4 DEF Span
<1>2. CASE n < offset
  <2>1. q = << >>
    BY <1>2, SubSeqEmpty
  <2>2. << >> \in Seq(S) /\ Len(<< >>) = 0
    OBVIOUS
  <2>3. ~(n >= offset)
    BY <1>2
  <2>4. q \in Seq(S) /\ Len(q) = 0 /\ 1 .. 0 = {}
    BY <2>1, <2>2
  <2> QED BY <2>3, <2>4 DEF Span
<1>3. n >= offset \/ n < offset
  OBVIOUS
<1> QED BY <1>1, <1>2, <1>3

-----------------------------------------------------------------------------
\* The list handler.

Last(found, offset) == IF offset + PageSize < Len(found) THEN offset + PageSize ELSE Len(found)
Sent(found, offset) == Span(Last(found, offset), offset)

Part(found, offset) == SubSeq(found, offset + 1, Last(found, offset))
RowsOf(j, ids) == [i \in 1 .. Len(ids) |-> RowOf(j, ids[i])]

\* The rows sent: the entries found from the offset on.
IsListed(j, rows) ==
  LET found == Selected(j, j.arg.mine)
      offset == j.arg.offset
  IN
  /\ Len(rows) = Sent(found, offset) /\ Sent(found, offset) \in Nat
  /\ \A i \in 1 .. Len(rows) :
       /\ i + offset \in 1 .. Len(found)
       /\ rows[i].id = found[i + offset] /\ rows[i].private = Locked(found[i + offset])

LEMMA RowOfIs ==
  ASSUME NEW j, NEW id \in FileIds, NEW row, row = RowOf(j, id)
  PROVE  row \in PageRow /\ row.id = id /\ row.private = Locked(id)
<1>1. PICK private, mine, open :
        private = Locked(id) /\ mine = (entry[id].owner = Who(j.tok)) /\ open = (~Locked(id) \/ Privileged(j, id))
  OBVIOUS
<1>2. private \in BOOLEAN /\ mine \in BOOLEAN /\ open \in BOOLEAN
  BY <1>1 DEF Locked
<1>3. row = [id |-> id, private |-> private, mine |-> mine, open |-> open]
  BY <1>1 DEF RowOf
<1> QED BY <1>1, <1>2, <1>3 DEF PageRow

LEMMA ListedIs ==
  ASSUME TableOK, NEW j, j.arg.offset \in Nat, NEW ids, NEW rows,
         ids = Part(Selected(j, j.arg.mine), j.arg.offset), rows = RowsOf(j, ids)
  PROVE  /\ IsListed(j, rows) /\ RowsOK(rows)
         /\ \A id \in Ids(rows) : id \in FileIds /\ entry[id] # NoEntry
<1>1. PICK found, offset, n : found = Selected(j, j.arg.mine) /\ offset = j.arg.offset /\ n = Last(found, offset)
  OBVIOUS
<1>2. /\ found \in Seq(FileIds) /\ \A i \in 1 .. Len(found) : entry[found[i]] # NoEntry
      /\ \A i, k \in 1 .. Len(found) : found[i] = found[k] => i = k
  <2>1. found = Selected(j, j.arg.mine)
    BY <1>1
  <2> QED BY <2>1, SelectedIs
<1>3. offset \in Nat /\ n \in Nat /\ n <= Len(found) /\ Len(found) \in Nat
  <2>1. Len(found) \in Nat /\ offset \in Nat /\ PageSize \in Nat
    BY <1>1, <1>2, LenProperties, LibraryAssumption
  <2> QED BY <1>1, <2>1 DEF Last
<1>4. PICK len : len = Span(n, offset)
  OBVIOUS
<1>5. ids = SubSeq(found, offset + 1, n)
  BY <1>1 DEF Part
<1>6. ids \in Seq(FileIds) /\ Len(ids) = len /\ len \in Nat /\ \A i \in 1 .. len : i + offset \in 1 .. n /\ ids[i] = found[i + offset]
  BY <1>2, <1>3, <1>4, <1>5, PartIs
<1>7. \A i \in 1 .. len : ids[i] \in FileIds
  BY <1>6, ElementOfSeq
<1>8. rows = [i \in 1 .. len |-> RowOf(j, ids[i])]
  BY <1>6 DEF RowsOf
<1>9. ASSUME NEW i \in 1 .. len
      PROVE  rows[i] \in PageRow /\ rows[i].id = ids[i] /\ rows[i].private = Locked(ids[i])
  <2>1. rows[i] = RowOf(j, ids[i])
    BY <1>8
  <2> QED BY <1>7, <2>1, RowOfIs
<1>10. rows \in Seq(PageRow) /\ Len(rows) = len
  <2>2. \A i \in 1 .. len : RowOf(j, ids[i]) \in PageRow
    BY <1>8, <1>9
  <2> QED BY <1>6, <1>8, <2>2
<1>11. \A i \in 1 .. len : i + offset \in 1 .. Len(found)
  BY <1>3, <1>6
<1>12. Spread(rows)
  <2> SUFFICES ASSUME NEW i \in 1 .. len, NEW k \in 1 .. len, rows[i].id = rows[k].id PROVE i = k
    BY <1>10 DEF Spread
  <2>1. found[i + offset] = found[k + offset]
    BY <1>6, <1>9
  <2>2. i + offset = k + offset
    BY <1>2, <1>11, <2>1
  <2> QED BY <1>3, <2>2
<1>13. len = Sent(found, offset)
  BY <1>1, <1>4 DEF Sent
<1>14. IsListed(j, rows)
  <2>1. /\ Len(rows) = Sent(found, offset) /\ Sent(found, offset) \in Nat
        /\ \A i \in 1 .. Len(rows) :
             /\ i + offset \in 1 .. Len(found)
             /\ rows[i].id = found[i + offset] /\ rows[i].private = Locked(found[i + offset])
    <3>1. Len(rows) = Sent(found, offset) /\ Sent(found, offset) \in Nat
      BY <1>6, <1>10, <1>13
    <3>2. ASSUME NEW i \in 1 .. len
          PROVE  /\ i + offset \in 1 .. Len(found)
                 /\ rows[i].id = found[i + offset] /\ rows[i].private = Locked(found[i + offset])
      <4>1. rows[i].id = ids[i] /\ rows[i].private = Locked(ids[i]) /\ ids[i] = found[i + offset]
        BY <1>6, <1>9
      <4> QED BY <1>11, <4>1
    <3> QED BY <1>10, <3>1, <3>2
  <2> QED BY <1>1, <2>1 DEF IsListed
<1>15. ASSUME NEW id \in Ids(rows) PROVE id \in FileIds /\ entry[id] # NoEntry
  <2>1. PICK i \in 1 .. len : id = rows[i].id
    BY <1>10, <1>15 DEF Ids
  <2>2. id = ids[i] /\ ids[i] = found[i + offset] /\ i + offset \in 1 .. Len(found)
    BY <1>6, <1>9, <1>11, <2>1
  <2> QED BY <1>2, <1>7, <2>2
<1> QED BY <1>10, <1>12, <1>14, <1>15 DEF RowsOK

\* What the handler answers.
LEMMA ListSelectIs ==
  ASSUME LibInv, JobsInv, NEW s \in Slots, ListSelect(s)
  PROVE  \E rows, reply :
           /\ reply = [rev |-> rev, rows |-> rows] /\ IsListed(job[s], rows) /\ RowsOK(rows)
           /\ \A id \in Ids(rows) : id \in FileIds /\ entry[id] # NoEntry
           /\ Follows(s, "done", reply) /\ IsList(job[s]) /\ job[s].step = "select"
<1> DEFINE j == job[s]
           found == Selected(j, j.arg.mine)
<1>0. IsList(j) /\ j.step = "select" /\ j.arg.offset \in Nat /\ TableOK /\ JobsOK
  BY DEF ListSelect, LibInv, JobsOK, JobOK, IsList
<1>1. PICK ids, rows : ids = Part(found, j.arg.offset) /\ rows = RowsOf(j, ids)
  OBVIOUS
<1>2. job' = [job EXCEPT ![s].step = "done", ![s].reply = [rev |-> rev, rows |-> rows]]
  BY <1>1 DEF ListSelect, Last, Part, RowsOf
<1>3. /\ IsListed(j, rows) /\ RowsOK(rows) /\ \A id \in Ids(rows) : id \in FileIds /\ entry[id] # NoEntry
  BY <1>0, <1>1, ListedIs
<1>4. PICK reply, step : reply = [rev |-> rev, rows |-> rows] /\ step = "done"
  OBVIOUS
<1>5. Follows(s, step, reply)
  BY <1>0, <1>2, <1>4, JobReplies
<1> QED BY <1>0, <1>3, <1>4, <1>5

LEMMA ListSelectStep ==
  ASSUME LibInv, JobsInv, AskedOK, UNCHANGED <<asked, home>>, NEW s \in Slots, ListSelect(s)
  PROVE  LibInv'
<1>1. PICK rows, reply :
        /\ reply = [rev |-> rev, rows |-> rows] /\ RowsOK(rows)
        /\ \A id \in Ids(rows) : id \in FileIds /\ entry[id] # NoEntry
        /\ Follows(s, "done", reply) /\ IsList(job[s]) /\ job[s].step = "select"
  BY ListSelectIs
<1>2. TableStays
  BY DEF ListSelect, TableStays, libraryVars
<1>3. reply.rev = rev /\ reply.rows = rows /\ rev \in Nat /\ rev <= rev
  BY <1>1 DEF LibInv, TableOK
<1>4. JobOK(job[s]) /\ job[s].op \in {"load", "more"} /\ ~Pending(s)
  BY <1>1 DEF LibInv, JobsOK, IsList, Pending, JobAt
<1>5. PICK step : step = "done"
  OBVIOUS
<1>6. Follows(s, step, reply) /\ step \in JobSteps
  BY <1>1, <1>5 DEF JobSteps, Ended
<1>7. JobOK(job'[s])
  BY <1>1, <1>3, <1>4, <1>5, <1>6, FollowsOK
<1>8. \A id \in Ids(reply.rows) : Mentioned(id)
  BY <1>1, <1>3 DEF Mentioned
<1> QED BY <1>1, <1>2, <1>3, <1>4, <1>5, <1>6, <1>7, <1>8, FollowsStays

-----------------------------------------------------------------------------
\* The handlers that change the table or the directory.

LEMMA MentionsShift ==
  ASSUME MentionOK, UNCHANGED asked, NEW s,
         \A id : Mentioned(id)' => Mentioned(id) \/ Posts(s, id),
         \A t \in Slots : \A id : Posts(t, id)' => Posts(t, id),
         \A id : Posts(s, id)' => ~Mentioned(id)', s \in Slots
  PROVE  MentionOK'
<1>1. ASSUME NEW id, Mentioned(id)' PROVE id \in FileIds /\ id <= asked
  BY <1>1 DEF MentionOK
<1>2. ASSUME NEW t \in Slots, NEW id, Posts(t, id)'
      PROVE  id \in FileIds /\ id <= asked /\ ~Mentioned(id)' /\ \A u \in Slots : Posts(u, id)' => u = t
  <2>1. id \in FileIds /\ id <= asked /\ ~Mentioned(id) /\ \A u \in Slots : Posts(u, id) => u = t
    BY <1>2 DEF MentionOK
  <2>2. ~Mentioned(id)'
    BY <1>2, <2>1
  <2> QED BY <2>1, <2>2
<1> QED BY <1>1, <1>2 DEF MentionOK

\* What every handler leaves: the other requests, the owner's request but for its step.
LEMMA HandlerFrame ==
  ASSUME LibInv, NEW s \in Slots, NEW step, NEW reply, Follows(s, step, reply), JobOK(job'[s]),
         UNCHANGED <<asked, home>>, DOMAIN page' = DOMAIN page, \A d \in DOMAIN page : page'[d].rows = page[d].rows
  PROVE  /\ JobsOK' /\ WaitOK'
         /\ \A t \in Slots \ {s} : job'[t] = job[t]
         /\ job'[s].op = job[s].op /\ job'[s].step = step /\ job'[s].arg = job[s].arg /\ job'[s].reply = reply
<1>0. /\ job'[s].op = job[s].op /\ job'[s].step = step /\ job'[s].arg = job[s].arg /\ job'[s].reply = reply
      /\ job'[s].here = job[s].here /\ \A t \in Slots \ {s} : job'[t] = job[t] /\ Weakens(t)
  BY DEF Follows, Rest
<1>1. JobsOK'
  BY <1>0 DEF LibInv, JobsOK
<1>2. WaitOK'
  <2>1. \A d \in DOMAIN page' : d \in DOMAIN page /\ page'[d].rows = page[d].rows
    OBVIOUS
  <2>2. job'[s].op \in {"unlock", "fetch"} /\ job'[s].here /\ Device[s] \in DOMAIN page'
           => job'[s].arg.id \in Ids(page'[Device[s]].rows)
    BY <1>0, <2>1 DEF LibInv, WaitOK, Open
  <2>3. JobsOK /\ WaitOK /\ \A t \in Slots \ {s} : Weakens(t)
    BY <1>0 DEF LibInv
  <2> QED BY <2>1, <2>2, <2>3, WaitStays
<1> QED BY <1>0, <1>1, <1>2

\* An upload names an entry that nothing knows of.
LEMMA PostKnows ==
  ASSUME LibInv, NEW s \in Slots, job[s].op = "post", job[s].step \in {"save", "insert"}
  PROVE  LET id == job[s].arg.id IN
         /\ Posts(s, id) /\ id \in FileIds /\ ~Mentioned(id) /\ entry[id] = NoEntry
         /\ \A t \in Slots : Posts(t, id) => t = s
         /\ \A t \in Slots : job[t].op \in {"edit", "drop", "unlock", "fetch"} => job[t].arg.id # id
<1> DEFINE id == job[s].arg.id
<1>1. Posts(s, id)
  BY DEF Posts
<1>2. id \in FileIds /\ ~Mentioned(id) /\ \A t \in Slots : Posts(t, id) => t = s
  BY <1>1 DEF LibInv, MentionOK
<1>3. entry[id] = NoEntry /\ \A t \in Slots : job[t].op \in {"edit", "drop", "unlock", "fetch"} => job[t].arg.id # id
  BY <1>2 DEF Mentioned, JobMentions
<1> QED BY <1>1, <1>2, <1>3

LEMMA KnownEntry ==
  ASSUME LibInv, NEW s \in Slots, job[s].op \in {"edit", "drop", "unlock", "fetch"}
  PROVE  LET id == job[s].arg.id IN
         id \in FileIds /\ Mentioned(id) /\ \A t \in Slots : ~Posts(t, id)
<1>1. Mentioned(job[s].arg.id)
  BY DEF Mentioned, JobMentions
<1> QED BY <1>1 DEF LibInv, MentionOK

LEMMA UploadSaveStep ==
  ASSUME LibInv, JobsInv, UNCHANGED <<asked, home>>, NEW s \in Slots, UploadSave(s)
  PROVE  LibInv'
<1> DEFINE id == job[s].arg.id
<1>0. /\ job[s].op = "post" /\ job[s].step = "save" /\ JobsOK /\ JobOK(job[s]) /\ JobGoes(s, "insert")
      /\ disk' = disk \cup {id} /\ UNCHANGED <<entry, shelf, rev, page>>
  BY DEF UploadSave, JobAt, LibInv, JobsOK
<1>1. Follows(s, "insert", job[s].reply)
  BY <1>0, JobFollows
<1>2. ~IsList(job[s])
  BY <1>0 DEF IsList
<1>3. JobOK(job'[s])
  <2>1. PICK step : step = "insert"
    OBVIOUS
  <2>2. Follows(s, step, job[s].reply) /\ step \in JobSteps
    BY <1>1, <2>1 DEF JobSteps
  <2> QED BY <1>0, <1>2, <2>1, <2>2, FollowsOK
<1>4. /\ JobsOK' /\ WaitOK'
      /\ \A t \in Slots \ {s} : job'[t] = job[t]
      /\ job'[s].op = job[s].op /\ job'[s].step = "insert" /\ job'[s].arg = job[s].arg
  BY <1>0, <1>1, <1>3, HandlerFrame
<1>5. id \in FileIds /\ Posts(s, id)
  BY <1>0, PostKnows
<1>6. TableOK'
  BY <1>0, <1>5 DEF LibInv, TableOK
<1>7. KeptOK'
  <2> SUFFICES ASSUME NEW x \in disk', entry'[x] = NoEntry
               PROVE  \E t \in Slots : Pending(t)' /\ job'[t].arg.id = x
    BY DEF KeptOK
  <2>1. CASE x = id
    BY <1>0, <1>4, <2>1 DEF Pending, JobAt
  <2>2. CASE x # id
    <3>1. PICK t \in Slots : Pending(t) /\ job[t].arg.id = x
      BY <1>0, <2>2 DEF LibInv, KeptOK
    <3>2. t # s
      BY <1>0, <3>1 DEF Pending, JobAt
    <3> QED BY <1>4, <3>1, <3>2 DEF Pending, JobAt
  <2> QED BY <2>1, <2>2
<1>8. PagesTyped'
  BY <1>0, PagesStill DEF LibInv
<1>9. HoldOK'
  <2>1. ASSUME NEW t \in Slots, t # s
        PROVE  /\ IsList(job'[t]) /\ job'[t].step = "done" => job'[t].reply.rev <= rev'
               /\ job'[t].op = "drop" /\ job'[t].step \in {"unlink", "done"} =>
                    entry'[job'[t].arg.id] = NoEntry /\ job'[t].reply.to <= rev'
               /\ job'[t].op = "post" /\ job'[t].step = "insert" => job'[t].arg.id \in disk'
    BY <1>0, <1>4, <2>1 DEF LibInv, HoldOK, JobAt
  <2>2. ~IsList(job'[s]) /\ job'[s].op # "drop" /\ job'[s].arg.id \in disk'
    BY <1>0, <1>4 DEF IsList
  <2> QED BY <2>1, <2>2 DEF HoldOK, JobAt
<1>10. MentionOK'
  <2>1. \A t \in Slots : \A x : JobMentions(job'[t], x) => JobMentions(job[t], x)
    BY <1>0, <1>4 DEF JobMentions, IsList
  <2>2. \A x : Mentioned(x)' => Mentioned(x)
    BY <1>0, <2>1 DEF Mentioned
  <2>3. \A t \in Slots : \A x : Posts(t, x)' => Posts(t, x)
    BY <1>0, <1>4 DEF Posts
  <2>4. \A x : Posts(s, x)' => ~Mentioned(x)'
    BY <2>2, <2>3 DEF LibInv, MentionOK
  <2> QED BY <2>2, <2>3, <2>4, MentionsShift DEF LibInv
<1> QED BY <1>4, <1>6, <1>7, <1>8, <1>9, <1>10 DEF LibInv

\* The directory loses a file that no entry needs.
LEMMA UnlinkStep ==
  ASSUME LibInv, JobsInv, UNCHANGED <<asked, home, entry, shelf, rev, page>>, NEW s \in Slots, NEW step,
         (JobAt(s, "post", "insert") /\ step = "error") \/ (JobAt(s, "drop", "unlink") /\ step = "done"),
         JobGoes(s, step), disk' = disk \ {job[s].arg.id}
  PROVE  LibInv'
<1> DEFINE id == job[s].arg.id
<1>0. JobsOK /\ JobOK(job[s]) /\ Pending(s) /\ job[s].op \in {"post", "drop"}
  BY DEF LibInv, JobsOK, Pending, JobAt
<1>1. Follows(s, step, job[s].reply)
  BY <1>0, JobFollows
<1>2. ~IsList(job[s]) /\ step \in JobSteps
  BY <1>0 DEF IsList, JobSteps, Ended
<1>r. job[s].op = "drop" /\ step \in {"unlink", "done"} =>
        job[s].reply.from \in Nat /\ job[s].reply.to \in Nat /\ job[s].reply.to \in {job[s].reply.from, job[s].reply.from + 1}
  BY <1>0 DEF JobAt, JobOK
<1>3. JobOK(job'[s])
  <2>1. job[s].op = "drop" => step = "done"
    BY DEF JobAt
  <2>2. job[s].op = "post" => step = "error"
    BY DEF JobAt
  <2> QED BY <1>0, <1>1, <1>2, <1>r, <2>1, <2>2, FollowsOK
<1>4. /\ JobsOK' /\ WaitOK'
      /\ \A t \in Slots \ {s} : job'[t] = job[t]
      /\ job'[s].op = job[s].op /\ job'[s].step = step /\ job'[s].arg = job[s].arg /\ job'[s].reply = job[s].reply
  BY <1>1, <1>3, HandlerFrame
<1>5. entry[id] = NoEntry /\ id \in FileIds
  <2>1. CASE JobAt(s, "post", "insert")
    BY <2>1, PostKnows DEF JobAt
  <2>2. CASE JobAt(s, "drop", "unlink")
    BY <2>2, KnownEntry DEF JobAt, LibInv, HoldOK
  <2> QED BY <2>1, <2>2
<1>6. TableOK'
  BY <1>5 DEF LibInv, TableOK
<1>7. KeptOK'
  <2> SUFFICES ASSUME NEW x \in disk', entry'[x] = NoEntry
               PROVE  \E t \in Slots : Pending(t)' /\ job'[t].arg.id = x
    BY DEF KeptOK
  <2>1. PICK t \in Slots : Pending(t) /\ job[t].arg.id = x
    BY DEF LibInv, KeptOK
  <2> QED BY <1>4, <2>1 DEF Pending, JobAt
<1>8. PagesTyped'
  BY PagesStill DEF LibInv
<1>9. HoldOK'
  <2>1. ASSUME NEW t \in Slots, t # s
        PROVE  /\ IsList(job'[t]) /\ job'[t].step = "done" => job'[t].reply.rev <= rev'
               /\ job'[t].op = "drop" /\ job'[t].step \in {"unlink", "done"} =>
                    entry'[job'[t].arg.id] = NoEntry /\ job'[t].reply.to <= rev'
               /\ job'[t].op = "post" /\ job'[t].step = "insert" => job'[t].arg.id \in disk'
    <3>1. job'[t] = job[t]
      BY <1>4, <2>1
    <3>2. /\ IsList(job[t]) /\ job[t].step = "done" => job[t].reply.rev <= rev
          /\ job[t].op = "drop" /\ job[t].step \in {"unlink", "done"} =>
               entry[job[t].arg.id] = NoEntry /\ job[t].reply.to <= rev
          /\ job[t].op = "post" /\ job[t].step = "insert" => job[t].arg.id \in disk
      BY DEF LibInv, HoldOK, JobAt
    <3>3. ASSUME job[t].op = "post", job[t].step = "insert" PROVE job[t].arg.id # id
      <4>1. CASE JobAt(s, "post", "insert")
        <5>1. \A u \in Slots : Posts(u, id) => u = s
          BY <4>1, PostKnows DEF JobAt
        <5>2. Posts(t, job[t].arg.id)
          BY <3>3 DEF Posts
        <5> QED BY <2>1, <5>1, <5>2
      <4>2. CASE JobAt(s, "drop", "unlink")
        <5>1. job[s].op = "drop"
          BY <4>2 DEF JobAt
        <5>2. \A u \in Slots : job[u].op \in {"edit", "drop", "unlock", "fetch"} => job[u].arg.id # job[t].arg.id
          BY <3>3, PostKnows
        <5> QED BY <5>1, <5>2
      <4> QED BY <4>1, <4>2
    <3> QED BY <3>1, <3>2, <3>3
  <2>2. ~IsList(job'[s])
    BY <1>0, <1>4 DEF IsList
  <2>3. ~(job'[s].op = "post" /\ job'[s].step = "insert")
    BY <1>4 DEF JobAt
  <2>4. job'[s].op = "drop" /\ job'[s].step \in {"unlink", "done"} => entry'[job'[s].arg.id] = NoEntry /\ job'[s].reply.to <= rev'
    BY <1>4, <1>5 DEF LibInv, HoldOK, JobAt
  <2> QED BY <2>1, <2>2, <2>3, <2>4 DEF HoldOK, JobAt
<1>10. MentionOK'
  <2>1. \A t \in Slots : \A x : JobMentions(job'[t], x) => JobMentions(job[t], x)
    BY <1>0, <1>4 DEF JobMentions, IsList
  <2>2. \A x : Mentioned(x)' => Mentioned(x)
    BY <2>1 DEF Mentioned
  <2>3. \A t \in Slots : \A x : Posts(t, x)' => Posts(t, x)
    <3>1. \A x : ~Posts(s, x)'
      BY <1>4 DEF Posts, JobAt
    <3> QED BY <1>4, <3>1 DEF Posts
  <2>4. \A x : Posts(s, x)' => ~Mentioned(x)'
    BY <2>2, <2>3 DEF LibInv, MentionOK
  <2> QED BY <2>2, <2>3, <2>4, MentionsShift DEF LibInv
<1> QED BY <1>4, <1>6, <1>7, <1>8, <1>9, <1>10 DEF LibInv

-----------------------------------------------------------------------------
\* Entries come and go.

ShelfOK(list) ==
  /\ list \in Seq(FileIds)
  /\ \A i, k \in 1 .. Len(list) : list[i] = list[k] => i = k
OnShelf(list, id) == \E i \in 1 .. Len(list) : list[i] = id

LEMMA TableShelf ==
  TableOK <=> /\ entry = [id \in FileIds |-> entry[id]] /\ \A id \in FileIds : EntryOK(entry[id])
              /\ ShelfOK(shelf) /\ \A id \in FileIds : entry[id] # NoEntry <=> OnShelf(shelf, id)
              /\ disk \subseteq FileIds /\ \A id \in FileIds : entry[id] # NoEntry => id \in disk
              /\ rev \in Nat \ {0}
BY DEF TableOK, ShelfOK, OnShelf

LEMMA FrontIs ==
  ASSUME NEW list, ShelfOK(list), NEW id \in FileIds, ~OnShelf(list, id), NEW q, q = <<id>> \o list
  PROVE  /\ ShelfOK(q) /\ OnShelf(q, id) /\ \A x \in FileIds \ {id} : OnShelf(q, x) <=> OnShelf(list, x)
         /\ Len(list) \in Nat /\ Len(q) = Len(list) + 1 /\ q[1] = id /\ \A i \in 1 .. Len(list) : q[i + 1] = list[i]
<1>0. PICK front : front = <<id>>
  OBVIOUS
<1>1. front \in Seq(FileIds) /\ Len(front) = 1 /\ front[1] = id
  BY <1>0
<1>2. list \in Seq(FileIds) /\ q = front \o list
  BY <1>0 DEF ShelfOK
<1>3. /\ q \in Seq(FileIds) /\ Len(q) = 1 + Len(list) /\ Len(list) \in Nat
      /\ \A i \in 1 .. Len(q) : q[i] = IF i <= 1 THEN front[i] ELSE list[i - 1]
  BY <1>1, <1>2, ConcatProperties
<1>4. q[1] = id
  BY <1>1, <1>3
<1>5. \A i \in 1 .. Len(list) : i + 1 \in 1 .. Len(q) /\ q[i + 1] = list[i]
  <2> TAKE i \in 1 .. Len(list)
  <2>1. i + 1 \in 1 .. Len(q) /\ ~(i + 1 <= 1) /\ (i + 1) - 1 = i
    BY <1>3
  <2> QED BY <1>3, <2>1
<1>6. \A i \in 1 .. Len(q) : (i = 1 /\ q[i] = id) \/ (i - 1 \in 1 .. Len(list) /\ q[i] = list[i - 1])
  BY <1>1, <1>3
<1>7. \A i \in 1 .. Len(list) : list[i] # id
  BY DEF OnShelf
<1>8. \A i, k \in 1 .. Len(q) : q[i] = q[k] => i = k
  <2> SUFFICES ASSUME NEW i \in 1 .. Len(q), NEW k \in 1 .. Len(q), q[i] = q[k] PROVE i = k
    OBVIOUS
  <2>1. CASE i = 1 \/ k = 1
    BY <1>6, <1>7, <2>1
  <2>2. CASE i # 1 /\ k # 1
    <3>1. i - 1 \in 1 .. Len(list) /\ k - 1 \in 1 .. Len(list) /\ list[i - 1] = list[k - 1]
      BY <1>6, <2>2
    <3>2. i - 1 = k - 1
      BY <3>1 DEF ShelfOK
    <3> QED BY <3>2
  <2> QED BY <2>1, <2>2
<1>9. OnShelf(q, id)
  <2>1. 1 \in 1 .. Len(q)
    BY <1>3
  <2> QED BY <1>4, <2>1 DEF OnShelf
<1>10. ASSUME NEW x \in FileIds \ {id} PROVE OnShelf(q, x) <=> OnShelf(list, x)
  BY <1>5, <1>6 DEF OnShelf
<1> QED BY <1>3, <1>4, <1>5, <1>8, <1>9, <1>10 DEF ShelfOK

KeptPlaces(list, id) == {i \in 1 .. Len(list) : list[i] # id}

LEMMA LeftOnShelf ==
  ASSUME NEW list, ShelfOK(list), NEW id, NEW q, q = Picked(list, KeptPlaces(list, id))
  PROVE  /\ ShelfOK(q) /\ ~OnShelf(q, id) /\ \A x \in FileIds \ {id} : OnShelf(q, x) <=> OnShelf(list, x)
<1>0. PICK K : K = {i \in 1 .. Len(list) : list[i] # id} /\ q = Picked(list, K)
  BY DEF KeptPlaces
<1>p. q = Picked(list, K)
  BY <1>0
<1>1. list \in Seq(FileIds) /\ K \in SUBSET (1 .. Len(list))
  BY <1>0 DEF ShelfOK
<1>2. /\ q \in Seq(FileIds) /\ Len(q) \in Nat
      /\ \A m \in 1 .. Len(q) : Nth(K, m) \in K /\ q[m] = list[Nth(K, m)]
      /\ \A m, o \in 1 .. Len(q) : m < o => Nth(K, m) < Nth(K, o)
      /\ \A k \in K : \E m \in 1 .. Len(q) : Nth(K, m) = k /\ q[m] = list[k]
  BY <1>1, <1>p, PickedIs
<1>3. \A i, k \in 1 .. Len(q) : q[i] = q[k] => i = k
  <2> SUFFICES ASSUME NEW i \in 1 .. Len(q), NEW k \in 1 .. Len(q), i < k, q[i] = q[k] PROVE FALSE
    BY <1>2
  <2>1. PICK x \in K, y \in K : x = Nth(K, i) /\ y = Nth(K, k) /\ q[i] = list[x] /\ q[k] = list[y] /\ x < y
    BY <1>2
  <2>2. x = y
    BY <1>1, <2>1 DEF ShelfOK
  <2> QED BY <1>1, <2>1, <2>2
<1>4. ~OnShelf(q, id)
  BY <1>0, <1>2 DEF OnShelf
<1>5. ASSUME NEW x \in FileIds \ {id} PROVE OnShelf(q, x) <=> OnShelf(list, x)
  <2>1. ASSUME OnShelf(q, x) PROVE OnShelf(list, x)
    BY <1>0, <1>1, <1>2, <2>1 DEF OnShelf
  <2>2. ASSUME OnShelf(list, x) PROVE OnShelf(q, x)
    <3>1. PICK k \in 1 .. Len(list) : list[k] = x
      BY <2>2 DEF OnShelf
    <3>2. k \in K
      BY <1>0, <1>5, <3>1
    <3> QED BY <1>2, <3>1, <3>2 DEF OnShelf
  <2> QED BY <2>1, <2>2
<1> QED BY <1>2, <1>3, <1>4, <1>5 DEF ShelfOK

LEMMA UploadStoredStep ==
  ASSUME LibInv, JobsInv, UNCHANGED <<asked, home, page, disk>>, NEW s \in Slots, JobAt(s, "post", "insert"),
         NEW w, w # None, entry' = [entry EXCEPT ![job[s].arg.id] = [owner |-> w, pw |-> job[s].arg.pw]],
         shelf' = <<job[s].arg.id>> \o shelf, rev' = rev + 1, JobGoes(s, "done")
  PROVE  LibInv'
<1> DEFINE id == job[s].arg.id
<1>0. /\ job[s].op = "post" /\ job[s].step = "insert" /\ JobsOK /\ JobOK(job[s]) /\ TableOK /\ rev \in Nat /\ id \in disk
  BY DEF JobAt, LibInv, JobsOK, TableOK, HoldOK
<1>1. Follows(s, "done", job[s].reply)
  BY <1>0, JobFollows
<1>2. ~IsList(job[s])
  BY <1>0 DEF IsList
<1>3. JobOK(job'[s])
  <2>1. PICK step : step = "done"
    OBVIOUS
  <2>2. Follows(s, step, job[s].reply) /\ step \in JobSteps
    BY <1>1, <2>1 DEF JobSteps, Ended
  <2> QED BY <1>0, <1>2, <2>1, <2>2, FollowsOK
<1>4. /\ JobsOK' /\ WaitOK'
      /\ \A t \in Slots \ {s} : job'[t] = job[t]
      /\ job'[s].op = job[s].op /\ job'[s].step = "done" /\ job'[s].arg = job[s].arg
  BY <1>1, <1>3, HandlerFrame
<1>5. /\ id \in FileIds /\ Posts(s, id) /\ entry[id] = NoEntry /\ ~Mentioned(id)
      /\ \A t \in Slots : Posts(t, id) => t = s
      /\ \A t \in Slots : job[t].op \in {"edit", "drop", "unlock", "fetch"} => job[t].arg.id # id
  BY <1>0, PostKnows
<1>6. PICK e : e = [owner |-> w, pw |-> job[s].arg.pw]
  OBVIOUS
<1>7. EntryOK(e) /\ e # NoEntry
  <2>1. job[s].arg.pw \in Keys
    BY <1>0 DEF JobOK
  <2>2. e.owner = w /\ e.pw = job[s].arg.pw /\ e = [owner |-> e.owner, pw |-> e.pw]
    BY <1>6
  <2>3. NoEntry.owner = None
    BY DEF NoEntry
  <2> QED BY <2>1, <2>2, <2>3 DEF EntryOK
<1>8. entry'[id] = e /\ entry' = [x \in FileIds |-> entry'[x]] /\ \A x \in FileIds \ {id} : entry'[x] = entry[x]
  <2>1. entry = [x \in FileIds |-> entry[x]]
    BY <1>0 DEF TableOK
  <2> QED BY <1>5, <1>6, <2>1
<1>9. TableOK'
  <2>1. /\ ShelfOK(shelf) /\ (\A x \in FileIds : entry[x] # NoEntry <=> OnShelf(shelf, x)) /\ disk \subseteq FileIds
        /\ \A x \in FileIds : EntryOK(entry[x]) /\ (entry[x] # NoEntry => x \in disk)
    BY <1>0, TableShelf
  <2>2. ~OnShelf(shelf, id)
    BY <1>5, <2>1
  <2>3. PICK q : q = <<id>> \o shelf
    OBVIOUS
  <2>4. ShelfOK(q) /\ OnShelf(q, id) /\ \A x \in FileIds \ {id} : OnShelf(q, x) <=> OnShelf(shelf, x)
    <3>1. PICK list, i : list = shelf /\ i = id
      OBVIOUS
    <3>2. ShelfOK(list) /\ i \in FileIds /\ ~OnShelf(list, i) /\ q = <<i>> \o list
      BY <1>5, <2>1, <2>2, <2>3, <3>1
    <3>3. ShelfOK(q)
      BY <3>2, FrontIs
    <3>4. OnShelf(q, i) /\ \A x \in FileIds \ {i} : OnShelf(q, x) <=> OnShelf(list, x)
      BY <3>2, FrontIs
    <3> QED BY <3>1, <3>3, <3>4
  <2>5. shelf' = q
    BY <2>3
  <2>6. ShelfOK(shelf') /\ \A x \in FileIds : entry'[x] # NoEntry <=> OnShelf(shelf', x)
    BY <1>7, <1>8, <2>1, <2>4, <2>5
  <2>7. \A x \in FileIds : EntryOK(entry'[x]) /\ (entry'[x] # NoEntry => x \in disk')
    BY <1>0, <1>7, <1>8, <2>1
  <2>8. rev' \in Nat \ {0} /\ disk' \subseteq FileIds
    BY <1>0, <2>1
  <2> QED BY <1>8, <2>6, <2>7, <2>8 DEF TableOK, ShelfOK, OnShelf
<1>10. KeptOK'
  <2> SUFFICES ASSUME NEW x \in disk', entry'[x] = NoEntry
               PROVE  \E t \in Slots : Pending(t)' /\ job'[t].arg.id = x
    BY DEF KeptOK
  <2>1. x # id /\ x \in FileIds
    BY <1>0, <1>7, <1>8 DEF TableOK
  <2>2. PICK t \in Slots : Pending(t) /\ job[t].arg.id = x
    BY <1>8, <2>1 DEF LibInv, KeptOK
  <2>3. t # s
    BY <2>1, <2>2
  <2> QED BY <1>4, <2>2, <2>3 DEF Pending, JobAt
<1>11. PagesTyped'
  <2>1. ASSUME NEW d \in DOMAIN page PROVE PageOK(page[d]) /\ page[d].rev <= rev + 1
    <3>1. PageOK(page[d]) /\ page[d].rev <= rev /\ page[d].rev \in Nat
      BY DEF LibInv, PagesTyped, PageOK
    <3> QED BY <1>0, <3>1
  <2> QED BY <2>1 DEF LibInv, PagesTyped
<1>12. HoldOK'
  <2>1. ASSUME NEW t \in Slots, t # s
        PROVE  /\ IsList(job'[t]) /\ job'[t].step = "done" => job'[t].reply.rev <= rev'
               /\ job'[t].op = "drop" /\ job'[t].step \in {"unlink", "done"} =>
                    entry'[job'[t].arg.id] = NoEntry /\ job'[t].reply.to <= rev'
               /\ job'[t].op = "post" /\ job'[t].step = "insert" => job'[t].arg.id \in disk'
    <3>1. job'[t] = job[t]
      BY <1>4, <2>1
    <3>2. /\ IsList(job[t]) /\ job[t].step = "done" => job[t].reply.rev <= rev /\ job[t].reply.rev \in Nat
          /\ job[t].op = "drop" /\ job[t].step \in {"unlink", "done"} =>
               entry[job[t].arg.id] = NoEntry /\ job[t].reply.to <= rev /\ job[t].reply.to \in Nat
          /\ job[t].op = "post" /\ job[t].step = "insert" => job[t].arg.id \in disk
      BY DEF LibInv, HoldOK, JobAt, JobsOK, JobOK
    <3>3. job[t].op = "drop" => job[t].arg.id # id /\ job[t].arg.id \in FileIds
      BY <1>5, KnownEntry
    <3> QED BY <1>0, <1>8, <3>1, <3>2, <3>3
  <2>2. ~IsList(job'[s]) /\ job'[s].op # "drop" /\ job'[s].step # "insert"
    BY <1>0, <1>4 DEF IsList
  <2> QED BY <2>1, <2>2 DEF HoldOK, JobAt
<1>13. MentionOK'
  <2>1. \A t \in Slots : \A x : JobMentions(job'[t], x) => JobMentions(job[t], x)
    BY <1>0, <1>4 DEF JobMentions, IsList
  <2>2. \A x : Mentioned(x)' => Mentioned(x) \/ Posts(s, x)
    <3> SUFFICES ASSUME NEW x, Mentioned(x)', x # id PROVE Mentioned(x)
      BY <1>5
    <3> QED BY <1>8, <2>1 DEF Mentioned
  <2>3. \A t \in Slots : \A x : Posts(t, x)' => Posts(t, x)
    BY <1>0, <1>4 DEF Posts
  <2>4. \A x : Posts(s, x)' => ~Mentioned(x)'
    BY <1>4 DEF Posts
  <2> QED BY <2>2, <2>3, <2>4, MentionsShift DEF LibInv
<1> QED BY <1>4, <1>9, <1>10, <1>11, <1>12, <1>13 DEF LibInv

LEMMA DropDeleteStep ==
  ASSUME LibInv, JobsInv, UNCHANGED <<asked, home>>, NEW s \in Slots, DropDelete(s)
  PROVE  LibInv'
<1> DEFINE id == job[s].arg.id
<1>0. /\ job[s].op = "drop" /\ job[s].step = "delete" /\ JobsOK /\ JobOK(job[s]) /\ TableOK /\ rev \in Nat
      /\ UNCHANGED <<disk, page>> /\ entry' = [entry EXCEPT ![id] = NoEntry] /\ rev' = IF entry[id] = NoEntry THEN rev ELSE rev + 1
      /\ shelf' = Picked(shelf, {i \in 1 .. Len(shelf) : shelf[i] # id})
  BY DEF DropDelete, JobAt, LibInv, JobsOK, TableOK
<1>1. PICK step, reply : step = "unlink" /\ reply = [from |-> rev, to |-> rev']
  OBVIOUS
<1>2. Follows(s, step, reply)
  <2>1. job' = [job EXCEPT ![s].step = step, ![s].reply = reply]
    BY <1>1 DEF DropDelete
  <2> QED BY <1>0, <2>1, JobReplies
<1>r. rev' \in Nat \ {0} /\ rev' \in {rev, rev + 1} /\ rev <= rev'
  BY <1>0 DEF TableOK
<1>f. reply.from = rev /\ reply.to = rev'
  BY <1>1
<1>l. ~IsList(job[s])
  BY <1>0 DEF IsList
<1>3. JobOK(job'[s])
  <2>1. step \in JobSteps
    BY <1>1 DEF JobSteps
  <2>2. reply.from \in Nat /\ reply.to \in Nat /\ reply.to \in {reply.from, reply.from + 1}
    BY <1>0, <1>f, <1>r
  <2> QED BY <1>0, <1>1, <1>2, <1>l, <2>1, <2>2, FollowsOK
<1>4. /\ JobsOK' /\ WaitOK'
      /\ \A t \in Slots \ {s} : job'[t] = job[t]
      /\ job'[s].op = job[s].op /\ job'[s].step = step /\ job'[s].arg = job[s].arg /\ job'[s].reply = reply
  BY <1>0, <1>2, <1>3, HandlerFrame
<1>5. id \in FileIds /\ Mentioned(id) /\ \A t \in Slots : ~Posts(t, id)
  BY <1>0, KnownEntry
<1>8. entry'[id] = NoEntry /\ entry' = [x \in FileIds |-> entry'[x]] /\ \A x \in FileIds \ {id} : entry'[x] = entry[x]
  <2>1. entry = [x \in FileIds |-> entry[x]]
    BY <1>0 DEF TableOK
  <2> QED BY <1>0, <1>5, <2>1
<1>9. TableOK'
  <2>1. /\ ShelfOK(shelf) /\ (\A x \in FileIds : entry[x] # NoEntry <=> OnShelf(shelf, x)) /\ disk \subseteq FileIds
        /\ \A x \in FileIds : EntryOK(entry[x]) /\ (entry[x] # NoEntry => x \in disk)
    BY <1>0, TableShelf
  <2>2. ShelfOK(shelf') /\ ~OnShelf(shelf', id) /\ \A x \in FileIds \ {id} : OnShelf(shelf', x) <=> OnShelf(shelf, x)
    <3>1. PICK list, x, q : list = shelf /\ x = id /\ q = Picked(list, KeptPlaces(list, x))
      OBVIOUS
    <3>0. ShelfOK(list)
      BY <2>1, <3>1
    <3>2. ShelfOK(q) /\ ~OnShelf(q, x) /\ \A y \in FileIds \ {x} : OnShelf(q, y) <=> OnShelf(list, y)
      BY <3>0, <3>1, LeftOnShelf
    <3>3. shelf' = q
      BY <1>0, <3>1 DEF KeptPlaces
    <3> QED BY <3>1, <3>2, <3>3
  <2>6. \A x \in FileIds : entry'[x] # NoEntry <=> OnShelf(shelf', x)
    BY <1>8, <2>1, <2>2
  <2>7. \A x \in FileIds : EntryOK(entry'[x]) /\ (entry'[x] # NoEntry => x \in disk')
    <3>1. EntryOK(NoEntry)
      BY DEF EntryOK
    <3> QED BY <1>0, <1>8, <2>1, <3>1
  <2>8. disk' \subseteq FileIds
    BY <1>0, <2>1
  <2> QED BY <1>8, <1>r, <2>2, <2>6, <2>7, <2>8 DEF TableOK, ShelfOK, OnShelf
<1>10. KeptOK'
  <2> SUFFICES ASSUME NEW x \in disk', entry'[x] = NoEntry
               PROVE  \E t \in Slots : Pending(t)' /\ job'[t].arg.id = x
    BY DEF KeptOK
  <2>1. CASE x = id
    BY <1>0, <1>1, <1>4, <2>1 DEF Pending, JobAt
  <2>2. CASE x # id
    <3>1. x \in FileIds /\ x \in disk
      BY <1>0 DEF TableOK
    <3>2. PICK t \in Slots : Pending(t) /\ job[t].arg.id = x
      BY <1>8, <2>2, <3>1 DEF LibInv, KeptOK
    <3>3. t # s
      BY <2>2, <3>2
    <3> QED BY <1>4, <3>2, <3>3 DEF Pending, JobAt
  <2> QED BY <2>1, <2>2
<1>11. PagesTyped'
  <2>1. ASSUME NEW d \in DOMAIN page PROVE PageOK(page[d]) /\ page[d].rev <= rev'
    <3>1. PageOK(page[d]) /\ page[d].rev <= rev /\ page[d].rev \in Nat
      BY DEF LibInv, PagesTyped, PageOK
    <3> QED BY <1>0, <1>r, <3>1
  <2> QED BY <1>0, <2>1 DEF LibInv, PagesTyped
<1>12. HoldOK'
  <2>1. ASSUME NEW t \in Slots, t # s
        PROVE  /\ IsList(job'[t]) /\ job'[t].step = "done" => job'[t].reply.rev <= rev'
               /\ job'[t].op = "drop" /\ job'[t].step \in {"unlink", "done"} =>
                    entry'[job'[t].arg.id] = NoEntry /\ job'[t].reply.to <= rev'
               /\ job'[t].op = "post" /\ job'[t].step = "insert" => job'[t].arg.id \in disk'
    <3>1. job'[t] = job[t]
      BY <1>4, <2>1
    <3>2. /\ IsList(job[t]) /\ job[t].step = "done" => job[t].reply.rev <= rev /\ job[t].reply.rev \in Nat
          /\ job[t].op = "drop" /\ job[t].step \in {"unlink", "done"} =>
               entry[job[t].arg.id] = NoEntry /\ job[t].reply.to <= rev /\ job[t].reply.to \in Nat
          /\ job[t].op = "post" /\ job[t].step = "insert" => job[t].arg.id \in disk
      BY DEF LibInv, HoldOK, JobAt, JobsOK, JobOK
    <3>3. job[t].op = "drop" => job[t].arg.id \in FileIds
      BY KnownEntry
    <3> QED BY <1>0, <1>8, <1>r, <3>1, <3>2, <3>3
  <2>2. ~IsList(job'[s]) /\ job'[s].op # "post" /\ entry'[job'[s].arg.id] = NoEntry /\ job'[s].reply.to <= rev'
    BY <1>0, <1>4, <1>8, <1>f, <1>r DEF IsList
  <2> QED BY <2>1, <2>2 DEF HoldOK, JobAt
<1>13. MentionOK'
  <2>1. \A t \in Slots : \A x : JobMentions(job'[t], x) => JobMentions(job[t], x)
    BY <1>0, <1>4 DEF JobMentions, IsList
  <2>2. \A x : Mentioned(x)' => Mentioned(x)
    BY <1>0, <1>8, <2>1 DEF Mentioned
  <2>3. \A t \in Slots : \A x : Posts(t, x)' => Posts(t, x)
    BY <1>0, <1>4 DEF Posts
  <2>4. \A x : Posts(s, x)' => ~Mentioned(x)'
    BY <1>0, <1>4 DEF Posts
  <2> QED BY <2>2, <2>3, <2>4, MentionsShift DEF LibInv
<1> QED BY <1>4, <1>9, <1>10, <1>11, <1>12, <1>13 DEF LibInv

WithPw(e, pw) == [e EXCEPT !.pw = pw]

LEMMA RelockedPage ==
  ASSUME NEW p, PageOK(p), NEW x, x \subseteq FileIds, NEW q, q = WithRelocked(p, x)
  PROVE  /\ PageOK(q) /\ q.rows = p.rows /\ q.rev = p.rev /\ q.mine = p.mine /\ q.unlocked = p.unlocked /\ q.key = p.key
         /\ q.more = p.more /\ q.skipped = p.skipped /\ q.relocked = x /\ q.due = p.due /\ q.failed = p.failed
         /\ q.fetching = p.fetching
<1>1. q = PageOf(p.mine, p.due, p.failed, p.rows, p.more, p.fetching, p.unlocked, p.key, p.rev, p.skipped, x)
  BY WithPage
<1>2. /\ IsPage(q) /\ q.mine = p.mine /\ q.due = p.due /\ q.failed = p.failed /\ q.rows = p.rows /\ q.more = p.more
      /\ q.fetching = p.fetching /\ q.unlocked = p.unlocked /\ q.key = p.key /\ q.rev = p.rev /\ q.skipped = p.skipped
      /\ q.relocked = x
  BY <1>1, PageOfIs
<1> QED BY <1>2 DEF PageOK

\* What an edit does to the pages.
Relock(id, changed) ==
  page' = [d \in DOMAIN page |-> IF changed THEN WithRelocked(page[d], page[d].relocked \cup {id}) ELSE page[d]]

LEMMA RelockIs ==
  ASSUME \A d \in DOMAIN page : PageOK(page[d]), NEW id \in FileIds, NEW changed \in BOOLEAN, Relock(id, changed)
  PROVE  /\ page' = [d \in DOMAIN page' |-> page'[d]] /\ DOMAIN page' = DOMAIN page
         /\ \A d \in DOMAIN page : LET p == page[d] q == page'[d] IN
              /\ PageOK(q) /\ q.rows = p.rows /\ q.rev = p.rev /\ q.mine = p.mine /\ q.unlocked = p.unlocked
              /\ q.key = p.key /\ q.more = p.more /\ q.skipped = p.skipped /\ q.due = p.due /\ q.failed = p.failed
              /\ q.fetching = p.fetching /\ q.relocked = IF changed THEN p.relocked \cup {id} ELSE p.relocked
<1>1. DOMAIN page' = DOMAIN page /\ page' = [d \in DOMAIN page' |-> page'[d]]
  BY DEF Relock
<1>2. ASSUME NEW d \in DOMAIN page
      PROVE  LET p == page[d] q == page'[d] IN
              /\ PageOK(q) /\ q.rows = p.rows /\ q.rev = p.rev /\ q.mine = p.mine /\ q.unlocked = p.unlocked
              /\ q.key = p.key /\ q.more = p.more /\ q.skipped = p.skipped /\ q.due = p.due /\ q.failed = p.failed
              /\ q.fetching = p.fetching /\ q.relocked = IF changed THEN p.relocked \cup {id} ELSE p.relocked
  <2>1. CASE changed
    <3>1. PICK p, q, x : p = page[d] /\ q = page'[d] /\ x = p.relocked \cup {id}
      OBVIOUS
    <3>2. PageOK(p) /\ q = WithRelocked(p, x) /\ x \subseteq FileIds
      BY <2>1, <3>1 DEF Relock, PageOK
    <3>3. /\ PageOK(q) /\ q.rows = p.rows /\ q.rev = p.rev /\ q.mine = p.mine /\ q.unlocked = p.unlocked /\ q.key = p.key
          /\ q.more = p.more /\ q.skipped = p.skipped /\ q.relocked = x /\ q.due = p.due /\ q.failed = p.failed
          /\ q.fetching = p.fetching
      BY <3>2, RelockedPage
    <3> QED BY <2>1, <3>1, <3>3
  <2>2. CASE ~changed
    BY <2>2 DEF Relock
  <2> QED BY <2>1, <2>2
<1> QED BY <1>1, <1>2

\* An edit of an entry, and what it does to the pages.
EditsEntry(s, e) ==
  LET id == job[s].arg.id IN
  /\ entry[id] # NoEntry /\ entry' = [entry EXCEPT ![id] = e] /\ e.owner = entry[id].owner
  /\ e = [owner |-> e.owner, pw |-> e.pw] /\ e.pw \in Keys
  /\ rev' = rev + 1 /\ JobGoes(s, "done") /\ UNCHANGED <<shelf, disk>>
  /\ \E changed \in BOOLEAN : changed = (e.pw # entry[id].pw) /\ Relock(id, changed)

LEMMA EditIs ==
  ASSUME LibInv, NEW s \in Slots, EditUpdate(s)
  PROVE  \/ \E step \in {"done", "error"} : JobGoes(s, step) /\ UNCHANGED libraryVars
         \/ \E e : EditsEntry(s, e)
<1> DEFINE a == job[s].arg
           id == a.id
           pw == IF ~a.private THEN None ELSE IF a.pw # None THEN a.pw ELSE entry[id].pw
<1>0. job[s].op = "edit" /\ job[s].step = "update" /\ JobOK(job[s]) /\ TableOK
  BY DEF EditUpdate, JobAt, LibInv, JobsOK
<1>1. CASE JobGoes(s, "done") /\ UNCHANGED <<entry, rev, page>>
  BY <1>1 DEF EditUpdate, libraryVars
<1>2. CASE JobGoes(s, "error") /\ UNCHANGED <<entry, rev, page>>
  BY <1>2 DEF EditUpdate, libraryVars
<1>3. CASE /\ entry[id] # NoEntry
           /\ entry' = [entry EXCEPT ![id].pw = pw]
           /\ rev' = rev + 1
           /\ page' = [d \in DOMAIN page |-> IF pw # entry[id].pw
                THEN [page[d] EXCEPT !.relocked = @ \cup {id}] ELSE page[d]]
           /\ JobGoes(s, "done")
  <2>1. id \in FileIds /\ EntryOK(entry[id]) /\ a.pw \in Keys
    BY <1>0, KnownEntry DEF TableOK, JobOK
  <2>2. PICK w, old : entry[id] = [owner |-> w, pw |-> old] /\ w # None /\ old \in Keys
    BY <1>3, <2>1 DEF EntryOK
  <2>3. PICK k : k = pw
    OBVIOUS
  <2>4. k \in Keys
    BY <2>1, <2>2, <2>3 DEF Keys
  <2>5. PICK e : e = WithPw(entry[id], k)
    OBVIOUS
  <2>6. e = [owner |-> w, pw |-> k]
    BY <2>2, <2>5 DEF WithPw
  <2>7. entry' = [entry EXCEPT ![id] = e]
    BY <1>3, <2>3, <2>5 DEF WithPw
  <2>8. PICK changed : changed = (k # entry[id].pw)
    OBVIOUS
  <2>9. Relock(id, changed)
    BY <1>3, <2>3, <2>8 DEF Relock, WithRelocked
  <2>10. e.owner = w /\ e.pw = k /\ e = [owner |-> e.owner, pw |-> e.pw] /\ entry[id].owner = w
    BY <2>2, <2>6
  <2>11. UNCHANGED <<shelf, disk>>
    BY DEF EditUpdate
  <2>12. changed \in BOOLEAN /\ changed = (e.pw # entry[id].pw)
    BY <2>8, <2>10
  <2>13. EditsEntry(s, e)
    BY <1>3, <2>4, <2>7, <2>9, <2>10, <2>11, <2>12 DEF EditsEntry
  <2> QED BY <2>13
<1> QED BY <1>1, <1>2, <1>3 DEF EditUpdate

LEMMA EditedStep ==
  ASSUME LibInv, JobsInv, UNCHANGED <<asked, home>>, NEW s \in Slots, JobAt(s, "edit", "update"), NEW e, EditsEntry(s, e)
  PROVE  LibInv'
<1> DEFINE id == job[s].arg.id
<1>0. /\ job[s].op = "edit" /\ job[s].step = "update" /\ JobsOK /\ JobOK(job[s]) /\ TableOK /\ rev \in Nat
      /\ UNCHANGED <<disk, shelf>> /\ rev' = rev + 1 /\ entry' = [entry EXCEPT ![id] = e] /\ JobGoes(s, "done")
  BY DEF EditsEntry, JobAt, LibInv, JobsOK, TableOK
<1>1. PICK step : step = "done"
  OBVIOUS
<1>2. Follows(s, step, job[s].reply)
  BY <1>0, <1>1, JobFollows
<1>l. ~IsList(job[s]) /\ step \in JobSteps
  BY <1>0, <1>1 DEF IsList, JobSteps, Ended
<1>3. JobOK(job'[s])
  BY <1>0, <1>1, <1>2, <1>l, FollowsOK
<1>5. id \in FileIds /\ Mentioned(id) /\ \A t \in Slots : ~Posts(t, id)
  BY <1>0, KnownEntry
<1>p. PICK changed \in BOOLEAN : Relock(id, changed)
  BY DEF EditsEntry
<1>q. /\ page' = [d \in DOMAIN page' |-> page'[d]] /\ DOMAIN page' = DOMAIN page
      /\ \A d \in DOMAIN page : PageOK(page'[d]) /\ page'[d].rows = page[d].rows /\ page'[d].rev = page[d].rev
  <2>1. \A d \in DOMAIN page : PageOK(page[d])
    BY DEF LibInv, PagesTyped
  <2> QED BY <1>5, <1>p, <2>1, RelockIs
<1>4. /\ JobsOK' /\ WaitOK'
      /\ \A t \in Slots \ {s} : job'[t] = job[t]
      /\ job'[s].op = job[s].op /\ job'[s].step = step /\ job'[s].arg = job[s].arg
  BY <1>2, <1>3, <1>q, HandlerFrame
<1>6. EntryOK(e) /\ e # NoEntry /\ entry[id] # NoEntry
  <2>1. EntryOK(entry[id]) /\ entry[id] # NoEntry
    BY <1>0, <1>5 DEF TableOK, EditsEntry
  <2>2. e.owner # None
    BY <2>1 DEF EntryOK, EditsEntry
  <2>3. NoEntry.owner = None
    BY DEF NoEntry
  <2> QED BY <2>1, <2>2, <2>3 DEF EntryOK, EditsEntry
<1>8. entry'[id] = e /\ entry' = [x \in FileIds |-> entry'[x]] /\ \A x \in FileIds \ {id} : entry'[x] = entry[x]
  <2>1. entry = [x \in FileIds |-> entry[x]]
    BY <1>0 DEF TableOK
  <2> QED BY <1>0, <1>5, <2>1
<1>e. \A x \in FileIds : entry'[x] = NoEntry <=> entry[x] = NoEntry
  BY <1>6, <1>8
<1>9. TableOK'
  <2>1. \A x \in FileIds : EntryOK(entry'[x])
    BY <1>0, <1>6, <1>8 DEF TableOK
  <2> QED BY <1>0, <1>8, <1>e, <2>1 DEF TableOK
<1>10. KeptOK'
  <2> SUFFICES ASSUME NEW x \in disk', entry'[x] = NoEntry
               PROVE  \E t \in Slots : Pending(t)' /\ job'[t].arg.id = x
    BY DEF KeptOK
  <2>1. x \in FileIds /\ entry[x] = NoEntry /\ x \in disk
    BY <1>0, <1>e DEF TableOK
  <2>2. PICK t \in Slots : Pending(t) /\ job[t].arg.id = x
    BY <2>1 DEF LibInv, KeptOK
  <2>3. t # s
    BY <1>0, <2>2 DEF Pending, JobAt
  <2> QED BY <1>4, <2>2, <2>3 DEF Pending, JobAt
<1>11. PagesTyped'
  <2>1. ASSUME NEW d \in DOMAIN page PROVE PageOK(page'[d]) /\ page'[d].rev <= rev'
    <3>1. page[d].rev <= rev /\ page[d].rev \in Nat
      BY DEF LibInv, PagesTyped, PageOK
    <3> QED BY <1>0, <1>q, <3>1
  <2> QED BY <1>q, <2>1 DEF LibInv, PagesTyped
<1>12. HoldOK'
  <2>1. ASSUME NEW t \in Slots, t # s
        PROVE  /\ IsList(job'[t]) /\ job'[t].step = "done" => job'[t].reply.rev <= rev'
               /\ job'[t].op = "drop" /\ job'[t].step \in {"unlink", "done"} =>
                    entry'[job'[t].arg.id] = NoEntry /\ job'[t].reply.to <= rev'
               /\ job'[t].op = "post" /\ job'[t].step = "insert" => job'[t].arg.id \in disk'
    <3>1. job'[t] = job[t]
      BY <1>4, <2>1
    <3>2. /\ IsList(job[t]) /\ job[t].step = "done" => job[t].reply.rev <= rev /\ job[t].reply.rev \in Nat
          /\ job[t].op = "drop" /\ job[t].step \in {"unlink", "done"} =>
               entry[job[t].arg.id] = NoEntry /\ job[t].reply.to <= rev /\ job[t].reply.to \in Nat
          /\ job[t].op = "post" /\ job[t].step = "insert" => job[t].arg.id \in disk
      BY DEF LibInv, HoldOK, JobAt, JobsOK, JobOK
    <3>3. job[t].op = "drop" => job[t].arg.id \in FileIds
      BY KnownEntry
    <3> QED BY <1>0, <1>e, <3>1, <3>2, <3>3
  <2>2. ~IsList(job'[s]) /\ job'[s].op \notin {"post", "drop"}
    BY <1>0, <1>4 DEF IsList
  <2> QED BY <2>1, <2>2 DEF HoldOK, JobAt
<1>13. MentionOK'
  <2>1. \A t \in Slots : \A x : JobMentions(job'[t], x) => JobMentions(job[t], x)
    BY <1>0, <1>4 DEF JobMentions, IsList
  <2>2. \A x : Mentioned(x)' => Mentioned(x)
    BY <1>e, <1>q, <2>1 DEF Mentioned
  <2>3. \A t \in Slots : \A x : Posts(t, x)' => Posts(t, x)
    BY <1>0, <1>4 DEF Posts
  <2>4. \A x : Posts(s, x)' => ~Mentioned(x)'
    BY <1>0, <1>4 DEF Posts
  <2> QED BY <2>2, <2>3, <2>4, MentionsShift DEF LibInv
<1> QED BY <1>4, <1>9, <1>10, <1>11, <1>12, <1>13 DEF LibInv

LEMMA LibraryHandlesStep ==
  ASSUME LibInv, JobsInv, AskedOK, UNCHANGED <<asked, home>>, NEW s \in Slots, LibraryHandles(s)
  PROVE  LibInv'
<1>1. CASE ListSelect(s)
  BY <1>1, ListSelectStep
<1>2. CASE UploadSave(s)
  BY <1>2, UploadSaveStep
<1>3. CASE UploadInsert(s)
  <2>1. JobAt(s, "post", "insert") /\ UNCHANGED page
    BY <1>3 DEF UploadInsert
  <2>2. CASE Who(job[s].tok) = None
    <3>1. PICK step : step = "error"
      OBVIOUS
    <3>2. UNCHANGED <<entry, shelf, rev>> /\ JobGoes(s, step) /\ disk' = disk \ {job[s].arg.id}
      BY <1>3, <2>2, <3>1 DEF UploadInsert
    <3> QED BY <2>1, <3>1, <3>2, UnlinkStep
  <2>3. CASE Who(job[s].tok) # None
    <3>1. PICK w : w = Who(job[s].tok)
      OBVIOUS
    <3>2. /\ w # None /\ entry' = [entry EXCEPT ![job[s].arg.id] = [owner |-> w, pw |-> job[s].arg.pw]]
          /\ shelf' = <<job[s].arg.id>> \o shelf /\ rev' = rev + 1 /\ JobGoes(s, "done") /\ UNCHANGED disk
      BY <1>3, <2>3, <3>1 DEF UploadInsert
    <3> QED BY <2>1, <3>2, UploadStoredStep
  <2> QED BY <2>2, <2>3
<1>4. CASE OwnerRead(s) \/ UnlockRead(s) \/ FetchRead(s) \/ FetchStat(s)
  BY <1>4, ReadingsStep
<1>5. CASE EditUpdate(s)
  <2>0. JobAt(s, "edit", "update")
    BY <1>5 DEF EditUpdate
  <2>1. CASE \E step \in {"done", "error"} : JobGoes(s, step) /\ UNCHANGED libraryVars
    <3>1. PICK step \in {"done", "error"} : JobGoes(s, step) /\ TableStays
      BY <2>1 DEF TableStays, libraryVars
    <3>2. step \in JobSteps /\ job[s].op = "edit"
      BY <2>0 DEF JobSteps, Ended, JobAt
    <3> QED BY <3>1, <3>2, ReadStep
  <2>2. CASE \E e : EditsEntry(s, e)
    BY <2>0, <2>2, EditedStep
  <2> QED BY <1>5, <2>1, <2>2, EditIs
<1>6. CASE DropDelete(s)
  BY <1>6, DropDeleteStep
<1>7. CASE DropUnlink(s)
  <2>1. PICK step : step = "done"
    OBVIOUS
  <2>2. JobAt(s, "drop", "unlink") /\ JobGoes(s, step) /\ disk' = disk \ {job[s].arg.id} /\ UNCHANGED <<entry, shelf, rev, page>>
    BY <1>7, <2>1 DEF DropUnlink
  <2> QED BY <2>1, <2>2, UnlinkStep
<1> QED BY <1>1, <1>2, <1>3, <1>4, <1>5, <1>6, <1>7 DEF LibraryHandles

-----------------------------------------------------------------------------
\* Answers.

Waiting(s) == job[s].here /\ Open(Device[s])
PageAnswered(s, lost) ==
  page' = [e \in DOMAIN page \cap home' |-> IF e = Device[s] /\ Waiting(s) THEN After(s, page[e], lost) ELSE page[e]]

LEMMA AfterRev ==
  ASSUME LibInv, NEW s \in Slots, NEW p, PageOK(p), p.rev <= rev, NEW lost \in BOOLEAN, NEW q, q = After(s, p, lost)
  PROVE  q.rev <= rev
<1> DEFINE j == job[s]
<1>0. p.rev \in Nat /\ rev \in Nat /\ 0 <= rev
  BY DEF LibInv, TableOK, PageOK
<1>1. IsLoaded(s, p, q) \/ IsLoadedMore(s, p, q) \/ IsDeleted(s, p, q) \/ IsUnlocked(s, p, q) \/ IsAnswered(s, p, q)
  <2>1. JobOK(job[s])
    BY DEF LibInv, JobsOK
  <2> QED BY <2>1, AfterIs
<1>2. CASE IsLoaded(s, p, q)
  <2>1. q.rev = j.reply.rev
    BY <1>2 DEF IsLoaded, PageOf
  <2>2. j.reply.rev <= rev
    BY <1>2 DEF IsLoaded, JobAt, LibInv, HoldOK, IsList
  <2> QED BY <2>1, <2>2
<1>3. CASE IsLoadedMore(s, p, q)
  <2>1. q.rev \in {p.rev, 0}
    BY <1>3 DEF IsLoadedMore, PageOf
  <2> QED BY <1>0, <2>1
<1>4. CASE IsDeleted(s, p, q)
  <2>1. q.rev \in {j.reply.to, 0}
    BY <1>4 DEF IsDeleted, PageOf
  <2>2. j.reply.to <= rev
    BY <1>4 DEF IsDeleted, JobAt, LibInv, HoldOK
  <2> QED BY <1>0, <2>1, <2>2
<1>5. CASE IsUnlocked(s, p, q)
  <2>1. q.rev = p.rev
    BY <1>5 DEF IsUnlocked, PageOf
  <2> QED BY <2>1
<1>6. CASE IsAnswered(s, p, q)
  <2>1. q.rev = p.rev
    BY <1>6 DEF IsAnswered, PageOf
  <2> QED BY <2>1
<1> QED BY <1>1, <1>2, <1>3, <1>4, <1>5, <1>6

LEMMA PageAnsweredIs ==
  ASSUME LibInv, NEW s \in Slots, NEW lost \in BOOLEAN, PageAnswered(s, lost), UNCHANGED rev
  PROVE  /\ PagesTyped' /\ DOMAIN page' = DOMAIN page \cap home'
         /\ \A e \in DOMAIN page' : \A id \in Ids(page'[e].rows) : Mentioned(id)
         /\ \A e \in DOMAIN page' : e # Device[s] \/ ~Waiting(s) => page'[e] = page[e]
         /\ Device[s] \in DOMAIN page' /\ Waiting(s) => page'[Device[s]] = After(s, page[Device[s]], lost)
<1> DEFINE d == Device[s]
<1>0. \A e \in DOMAIN page : PageOK(page[e]) /\ page[e].rev <= rev
  BY DEF LibInv, PagesTyped
<1>1. /\ DOMAIN page' = DOMAIN page \cap home' /\ page' = [e \in DOMAIN page' |-> page'[e]]
      /\ \A e \in DOMAIN page' : e # d \/ ~Waiting(s) => page'[e] = page[e]
      /\ d \in DOMAIN page' /\ Waiting(s) => page'[d] = After(s, page[d], lost)
  BY DEF PageAnswered
<1>m. \A e \in DOMAIN page : \A id \in Ids(page[e].rows) : Mentioned(id)
  BY DEF Mentioned
<1>2. ASSUME d \in DOMAIN page', Waiting(s)
      PROVE  PageOK(page'[d]) /\ page'[d].rev <= rev /\ \A id \in Ids(page'[d].rows) : Mentioned(id)
  <2>1. PICK p, q : p = page[d] /\ q = After(s, p, lost)
    OBVIOUS
  <2>2. JobOK(job[s]) /\ PageOK(p) /\ p.rev <= rev
    BY <1>0, <1>1, <1>2, <2>1 DEF LibInv, JobsOK
  <2>3. job[s].op = "unlock" => job[s].arg.id \in Ids(p.rows)
    BY <1>2, <2>1 DEF LibInv, WaitOK, Waiting
  <2>4. PageOK(q)
    BY <2>1, <2>2, <2>3, AfterOK
  <2>5. \A id \in Ids(q.rows) : id \in Ids(p.rows) \/ (IsList(job[s]) /\ job[s].step = "done" /\ id \in Ids(job[s].reply.rows))
    BY <2>1, <2>2, <2>3, AfterOK
  <2>6. q.rev <= rev
    BY <2>1, <2>2, AfterRev
  <2>7. \A id \in Ids(q.rows) : Mentioned(id)
    BY <1>1, <1>2, <1>m, <2>1, <2>5 DEF Mentioned, JobMentions
  <2> QED BY <1>1, <1>2, <2>1, <2>4, <2>6, <2>7
<1>3. ASSUME NEW e \in DOMAIN page'
      PROVE  PageOK(page'[e]) /\ page'[e].rev <= rev /\ \A id \in Ids(page'[e].rows) : Mentioned(id)
  BY <1>0, <1>1, <1>2, <1>m
<1>4. PagesTyped'
  BY <1>1, <1>3 DEF PagesTyped
<1> QED BY <1>1, <1>3, <1>4

\* The answer of a request that leaves the rows of the page as they are.
LEMMA RowsStay ==
  ASSUME LibInv, NEW s \in Slots, NEW lost \in BOOLEAN, PageAnswered(s, lost), UNCHANGED rev,
         lost \/ job[s].op \notin {"load", "more", "drop"}
  PROVE  \A e \in DOMAIN page' : e \in DOMAIN page /\ page'[e].rows = page[e].rows
<1> DEFINE d == Device[s]
<1>1. /\ DOMAIN page' = DOMAIN page \cap home'
      /\ \A e \in DOMAIN page' : e # d \/ ~Waiting(s) => page'[e] = page[e]
      /\ d \in DOMAIN page' /\ Waiting(s) => page'[d] = After(s, page[d], lost)
  BY DEF PageAnswered
<1>2. ASSUME d \in DOMAIN page', Waiting(s) PROVE page'[d].rows = page[d].rows
  <2>1. PICK p, q : p = page[d] /\ q = After(s, p, lost)
    OBVIOUS
  <2>2. JobOK(job[s]) /\ PageOK(p)
    BY <1>1, <1>2, <2>1 DEF LibInv, JobsOK, PagesTyped
  <2>3. job[s].op = "unlock" => job[s].arg.id \in Ids(p.rows)
    BY <1>2, <2>1 DEF LibInv, WaitOK, Waiting
  <2>4. IsUnlocked(s, p, q) \/ IsAnswered(s, p, q)
    <3>1. \/ ~lost /\ (IsLoaded(s, p, q) \/ IsLoadedMore(s, p, q) \/ IsDeleted(s, p, q) \/ IsUnlocked(s, p, q))
          \/ IsAnswered(s, p, q)
      BY <2>1, <2>2, AfterIs
    <3> QED BY <3>1 DEF IsLoaded, IsLoadedMore, IsDeleted, JobAt
  <2>5. IsAnswered(s, p, q) \/ IsUnlocked(s, p, q) => q.rows = p.rows
    BY <2>1, <2>2, <2>3, AfterOK
  <2> QED BY <1>1, <1>2, <2>1, <2>4, <2>5
<1> QED BY <1>1, <1>2

LEMMA AnsweredStep ==
  ASSUME LibInv, UNCHANGED <<asked, entry, shelf, disk, rev>>, asked \in Nat, asked \in Numbers,
         NEW s \in Slots, job[s].step \in Ended, NEW lost \in BOOLEAN, PageAnswered(s, lost),
         \A t \in Slots \ {s} : Weakens(t), JobOK(job'[s]), job'[s].op \notin {"post", "edit", "drop"},
         job'[s].step \notin {"done", "insert", "unlink"},
         job'[s].op \in {"unlock", "fetch"} => job[s].op = "unlock" /\ job'[s].arg.id = job[s].arg.id,
         WaitOK'
  PROVE  LibInv'
<1>1. Turns(s)
  <2>1. ~Pending(s)
    BY DEF Pending, JobAt, Ended
  <2>2. \A id : JobMentions(job'[s], id) => Mentioned(id)
    BY DEF JobMentions, Mentioned
  <2> QED BY <2>1, <2>2 DEF Turns
<1>2. \A t \in Slots : Turns(t)
  BY <1>1, WeakenedTurns
<1>3. \A t \in Slots : \A id : Posts(t, id)' => Posts(t, id) \/ (t = s /\ id = asked + 1 /\ asked' = asked + 1)
  <2>1. \A id : ~Posts(s, id)'
    BY DEF Posts
  <2> QED BY <2>1, WeakenedTurns
<1>4. PagesTyped' /\ \A e \in DOMAIN page' : \A id \in Ids(page'[e].rows) : Mentioned(id)
  BY PageAnsweredIs
<1>5. asked' \in Numbers /\ asked <= asked'
  OBVIOUS
<1> QED BY <1>2, <1>3, <1>4, <1>5, StillStep

LEMMA FetchRequestIs ==
  ASSUME NEW s \in Slots, NEW id, NEW pw \in Keys, NEW j, j = FetchRequest(s, id, pw)
  PROVE  /\ JobOK(j) /\ j.op = "fetch" /\ j.arg.id = id /\ j.arg.pw = pw /\ j.step \in {"read", "401"} /\ j.here = TRUE
         /\ j.tok = token[Device[s]] /\ j.admin = IsAdmin(token[Device[s]]) /\ IsJob(j)
<1>1. PICK a, op : a = [id |-> id, pw |-> pw] /\ op = "fetch"
  OBVIOUS
<1>2. j = Request(s, op, a, "read")
  BY <1>1 DEF FetchRequest
<1>3. /\ IsJob(j) /\ j.op = op /\ j.arg = a /\ j.reply = << >> /\ j.here = TRUE
      /\ j.tok = token[Device[s]] /\ j.admin = IsAdmin(token[Device[s]])
      /\ j.step = IF Accepts(token[Device[s]]) THEN "read" ELSE "401"
  BY <1>2 DEF Request, IsJob, JobOf
<1>4. a.id = id /\ a.pw = pw
  BY <1>1
<1>5. j.admin \in BOOLEAN /\ j.here \in BOOLEAN /\ j.step \in {"read", "401"}
  BY <1>3, AdminBoolean
<1>6. ~IsList(j) /\ j.step \in JobSteps /\ j.op \in LibraryOps
  BY <1>1, <1>3, <1>5 DEF IsList, JobSteps, Ended, LibraryOps
<1>7. JobOK(j)
  BY <1>1, <1>3, <1>4, <1>5, <1>6 DEF JobOK
<1> QED BY <1>1, <1>3, <1>4, <1>5, <1>7

LEMMA LibraryAnswerStep ==
  ASSUME LibInv, JobsInv, AskedOK, NEW s \in Slots, LibraryAnswer(s)
  PROVE  LibInv'
<1> DEFINE d == Device[s]
           j == job[s]
           again == Waiting(s) /\ j.step = "done"
<1>0. /\ j.op \in LibraryOps /\ j.step \in Ended /\ UNCHANGED <<asked, entry, shelf, disk, rev>>
      /\ JobsOK /\ JobOK(j) /\ asked \in Nat /\ asked \in Numbers
  BY DEF LibraryAnswer, LibInv, JobsOK, AskedOK
<1>1. PICK lost : lost = FALSE
  OBVIOUS
<1>2. PageAnswered(s, lost) /\ lost \in BOOLEAN
  BY <1>1 DEF LibraryAnswer, PageAnswered, Waiting
<1>p. /\ DOMAIN page' = DOMAIN page \cap home'
      /\ \A e \in DOMAIN page' : e # d \/ ~Waiting(s) => page'[e] = page[e]
  BY <1>2 DEF PageAnswered
<1>3. CASE again /\ j.op \in {"post", "edit"}
  <2>1. PICK mine, z, op : mine = j.arg.mine /\ z = 0 /\ op = "load"
    OBVIOUS
  <2>2. Load(s, mine)
    BY <1>3, <2>1 DEF LibraryAnswer, Waiting
  <2>3. /\ Rest(s) /\ job'[s] = ListRequest(s, op, mine, z)
        /\ \A t \in Slots \ {s} : job'[t].here = job[t].here
    BY <1>0, <2>1, <2>2, LoadWeakens
  <2>4. mine \in BOOLEAN
    BY <1>0, <1>3, <2>1 DEF JobOK
  <2>5. JobOK(job'[s]) /\ job'[s].step \in {"select", "401"}
    <3>1. z \in Nat /\ op \in {"load", "more"} /\ (op = "load" => z = 0)
      BY <2>1
    <3>2. PICK r : r = ListRequest(s, op, mine, z)
      OBVIOUS
    <3>3. JobOK(r)
      BY <2>4, <3>1, <3>2, ListRequestOK
    <3>4. r.step \in {"select", "401"}
      BY <2>4, <3>1, <3>2, ListRequestOK
    <3> QED BY <2>3, <3>2, <3>3, <3>4
  <2>6. job'[s].op = "load"
    BY <2>1, <2>3 DEF ListRequest, Request
  <2>7. \A e \in DOMAIN page' : e \in DOMAIN page /\ page'[e].rows = page[e].rows
    BY <1>0, <1>2, <1>3, RowsStay
  <2>8. WaitOK'
    <3>1. JobsOK /\ WaitOK /\ \A t \in Slots \ {s} : Weakens(t)
      BY <2>3 DEF LibInv, Rest
    <3>2. ~(job'[s].op \in {"unlock", "fetch"})
      BY <2>6
    <3> QED BY <2>7, <3>1, <3>2, WaitStays
  <2>9. \A t \in Slots \ {s} : Weakens(t)
    BY <2>3 DEF Rest
  <2>10. job'[s].op \notin {"post", "edit", "drop", "unlock", "fetch"} /\ job'[s].step \notin {"done", "insert", "unlink"}
    BY <2>5, <2>6
  <2> QED BY <1>0, <1>2, <2>5, <2>8, <2>9, <2>10, AnsweredStep
<1>4. CASE ~(again /\ j.op \in {"post", "edit"})
  <2>1. PICK new : new = IF again /\ j.op = "unlock" THEN FetchRequest(s, j.arg.id, j.arg.pw) ELSE NoJob
    OBVIOUS
  <2>2. job' = [t \in Slots |-> IF t # s THEN IF Device[t] = d THEN Waits(t) ELSE job[t] ELSE new]
    BY <1>4, <2>1 DEF LibraryAnswer, Waiting
  <2>3. job'[s] = new /\ \A t \in Slots \ {s} : job'[t] = IF Device[t] = d THEN Waits(t) ELSE job[t]
    BY <2>2
  <2>4. ASSUME NEW t \in Slots \ {s}
        PROVE  Weakens(t) /\ (job'[t].op \in {"unlock", "fetch"} /\ job'[t].here /\ Device[t] \in DOMAIN page'
                                => job'[t].arg.id \in Ids(page'[Device[t]].rows))
    <3>1. CASE Device[t] = d
      <4>1. job'[t] = Waits(t)
        BY <2>3, <3>1
      <4>2. Weakens(t) /\ job'[t].arg = job[t].arg
        BY <1>0, <4>1, WaitsWeakens
      <4>3. job'[t].here = (job[t].here /\ Device[t] \in home'
              /\ (job[t].op \in {"unlock", "fetch"} => job[t].arg.id \in Ids(page'[Device[t]].rows)))
        BY <1>0, <4>1, WaitsWeakens
      <4>4. job'[t].op = job[t].op
        BY <4>2 DEF Weakens
      <4> QED BY <4>2, <4>3, <4>4
    <3>2. CASE Device[t] # d
      <4>1. job'[t] = job[t]
        BY <2>3, <3>2
      <4>2. Weakens(t)
        BY <1>0, <4>1, SameWeakens
      <4>3. job[t].op \in {"unlock", "fetch"} /\ job[t].here /\ Device[t] \in DOMAIN page'
                                => job[t].arg.id \in Ids(page'[Device[t]].rows)
        BY <1>p, <3>2 DEF LibInv, WaitOK, Open
      <4> QED BY <4>1, <4>2, <4>3
    <3> QED BY <3>1, <3>2
  <2>5. CASE again /\ j.op = "unlock"
    <3>0. PICK id, pw : id = j.arg.id /\ pw = j.arg.pw
      OBVIOUS
    <3>1. new = FetchRequest(s, id, pw) /\ pw \in Keys
      BY <1>0, <2>1, <2>5, <3>0 DEF JobOK
    <3>2. JobOK(new) /\ new.op = "fetch" /\ new.arg.id = id /\ new.step \in {"read", "401"}
      <4>1. JobOK(new)
        BY <3>1, FetchRequestIs
      <4>2. new.step \in {"read", "401"}
        BY <3>1, FetchRequestIs
      <4> QED BY <3>1, <4>1, <4>2 DEF FetchRequest, Request
    <3>3. \A e \in DOMAIN page' : e \in DOMAIN page /\ page'[e].rows = page[e].rows
      BY <1>0, <1>2, <2>5, RowsStay
    <3>4. Device[s] \in DOMAIN page' => id \in Ids(page'[Device[s]].rows)
      BY <2>5, <3>0, <3>3 DEF Waiting, Open, LibInv, WaitOK
    <3>5. WaitOK'
      BY <2>3, <2>4, <3>2, <3>4 DEF WaitOK, Open
    <3>6. job'[s].op \notin {"post", "edit", "drop"} /\ job'[s].step \notin {"done", "insert", "unlink"}
      BY <2>3, <3>2
    <3>7. job'[s].op \in {"unlock", "fetch"} => job[s].op = "unlock" /\ job'[s].arg.id = job[s].arg.id
      BY <2>3, <2>5, <3>0, <3>2
    <3>8. JobOK(job'[s]) /\ \A t \in Slots \ {s} : Weakens(t)
      BY <2>3, <2>4, <3>2
    <3> QED BY <1>0, <1>2, <3>5, <3>6, <3>7, <3>8, AnsweredStep
  <2>6. CASE ~(again /\ j.op = "unlock")
    <3>1. new = NoJob
      BY <2>1, <2>6
    <3>2. JobOK(new) /\ new.op = "none" /\ new.step = "idle"
      BY <3>1, NoJobFields
    <3>5. WaitOK'
      BY <2>3, <2>4, <3>2 DEF WaitOK, Open
    <3>6. job'[s].op \notin {"post", "edit", "drop", "unlock", "fetch"} /\ job'[s].step \notin {"done", "insert", "unlink"}
      BY <2>3, <3>2
    <3>8. JobOK(job'[s]) /\ \A t \in Slots \ {s} : Weakens(t)
      BY <2>3, <2>4, <3>2
    <3> QED BY <1>0, <1>2, <3>5, <3>6, <3>8, AnsweredStep
  <2> QED BY <2>5, <2>6
<1> QED BY <1>3, <1>4

\* The answer that is lost.
LEMMA LostAnswers ==
  ASSUME LibInv, NEW s \in Slots, LibraryLost(s), NEW lost, lost = TRUE
  PROVE  PageAnswered(s, lost)
<1> DEFINE d == Device[s]
<1>1. page = [e \in DOMAIN page |-> page[e]] /\ DOMAIN page \cap home' = DOMAIN page
  BY DEF LibInv, PagesTyped, LibraryLost
<1>2. CASE Waiting(s)
  <2>1. PICK q : q = After(s, page[d], lost)
    OBVIOUS
  <2>2. page' = [page EXCEPT ![d] = q] /\ d \in DOMAIN page
    BY <1>2, <2>1 DEF LibraryLost, Waiting, Open
  <2>3. page' = [e \in DOMAIN page |-> IF e = d THEN q ELSE page[e]]
    BY <1>1, <2>2
  <2>4. PICK w : w = Waiting(s)
    OBVIOUS
  <2>5. page' = [e \in DOMAIN page \cap home' |-> IF e = d /\ w THEN After(s, page[e], lost) ELSE page[e]]
    BY <1>1, <1>2, <2>1, <2>3, <2>4
  <2> QED BY <2>4, <2>5 DEF PageAnswered
<1>3. CASE ~Waiting(s)
  <2>1. page' = page
    BY <1>3 DEF LibraryLost, Waiting
  <2> QED BY <1>1, <1>3, <2>1 DEF PageAnswered
<1> QED BY <1>2, <1>3

LEMMA LibraryLostStep ==
  ASSUME LibInv, JobsInv, AskedOK, NEW s \in Slots, LibraryLost(s)
  PROVE  LibInv'
<1> DEFINE d == Device[s]
<1>0. /\ job[s].op \in LibraryOps /\ job[s].step \in Ended /\ UNCHANGED <<asked, entry, shelf, disk, rev, home>>
      /\ JobsOK /\ asked \in Nat /\ asked \in Numbers
  BY DEF LibraryLost, LibInv, JobsOK, AskedOK
<1>1. PICK lost : lost = TRUE
  OBVIOUS
<1>2. PageAnswered(s, lost) /\ lost \in BOOLEAN
  BY <1>1, LostAnswers
<1>3. PICK new : new = NoJob
  OBVIOUS
<1>4. job' = [job EXCEPT ![s] = new]
  BY <1>3 DEF LibraryLost
<1>5. job'[s] = new /\ Rest(s) /\ \A t \in Slots \ {s} : job'[t] = job[t]
  BY <1>0, <1>4, Puts
<1>6. JobOK(new) /\ new.op = "none" /\ new.step = "idle"
  BY <1>3, NoJobFields
<1>7. \A t \in Slots \ {s} : Weakens(t)
  BY <1>5 DEF Rest
<1>8. job'[s].op \notin {"post", "edit", "drop", "unlock", "fetch"} /\ job'[s].step \notin {"done", "insert", "unlink"}
  BY <1>5, <1>6
<1>9. WaitOK'
  <2>1. DOMAIN page' \subseteq DOMAIN page
    BY <1>2 DEF PageAnswered
  <2>2. ASSUME NEW t \in Slots \ {s}, job'[t].op \in {"unlock", "fetch"}, job'[t].here, Device[t] \in DOMAIN page'
        PROVE  job'[t].arg.id \in Ids(page'[Device[t]].rows)
    <3>1. job'[t] = job[t]
      BY <1>5
    <3>2. job[t].arg.id \in Ids(page[Device[t]].rows)
      BY <2>1, <2>2, <3>1 DEF LibInv, WaitOK, Open
    <3>3. page'[Device[t]].rows = page[Device[t]].rows
      BY <1>0, <1>1, <1>2, <2>2, RowsStay
    <3> QED BY <2>2, <3>1, <3>2, <3>3
  <2> QED BY <1>8, <2>2 DEF WaitOK, Open
<1> QED BY <1>0, <1>2, <1>5, <1>6, <1>7, <1>8, <1>9, AnsweredStep

-----------------------------------------------------------------------------
\* Pages are opened, and steps around the library.

LEMMA VisitStep ==
  ASSUME LibInv, JobsInv, UNCHANGED <<asked, entry, shelf, disk, rev, home>>, asked \in Nat, asked \in Numbers, NEW d, Visit(d)
  PROVE  LibInv'
<1>0. /\ JobsOK /\ PagesTyped /\ rev \in Nat /\ 0 <= rev /\ d \in home
  BY DEF LibInv, TableOK, Visit
<1>1. AllWeaken /\ \A t \in Slots : job'[t].arg = job[t].arg /\ (Device[t] = d => job'[t].here = FALSE)
                                    /\ (Device[t] # d => job'[t] = job[t])
  <2>1. job' = LeavesJobs(d)
    BY DEF Visit
  <2> QED BY <1>0, <2>1, LeavesWeaken
<1>2. \A t \in Slots : Weakens(t)
  BY <1>1 DEF AllWeaken
<1>3. /\ DOMAIN page' = DOMAIN page \cup {d} /\ page' = [e \in DOMAIN page' |-> page'[e]]
      /\ page'[d] = FreshPage /\ \A e \in DOMAIN page \ {d} : page'[e] = page[e]
  BY DEF Visit
<1>4. PageOK(FreshPage) /\ FreshPage.rev = 0 /\ Ids(FreshPage.rows) = {}
  BY FreshIs
<1>5. PagesTyped'
  BY <1>0, <1>3, <1>4 DEF PagesTyped
<1>6. \A e \in DOMAIN page' : \A id \in Ids(page'[e].rows) : Mentioned(id)
  BY <1>3, <1>4 DEF Mentioned
<1>7. WaitOK'
  <2> SUFFICES ASSUME NEW t \in Slots, job'[t].op \in {"unlock", "fetch"}, job'[t].here, Device[t] \in DOMAIN page'
               PROVE  job'[t].arg.id \in Ids(page'[Device[t]].rows)
    BY DEF WaitOK, Open
  <2>1. Device[t] # d /\ job'[t] = job[t]
    BY <1>1
  <2> QED BY <1>3, <2>1 DEF LibInv, WaitOK, Open
<1>8. \A t \in Slots : Turns(t) /\ \A id : Posts(t, id)' => Posts(t, id)
  BY <1>2, WeakenedTurns
<1>9. asked' \in Numbers /\ asked <= asked'
  OBVIOUS
<1>10. PICK s : s = d
  OBVIOUS
<1>11. \A t \in Slots : \A id : Posts(t, id)' => Posts(t, id) \/ (t = s /\ id = asked + 1 /\ asked' = asked + 1)
  BY <1>8
<1> QED BY <1>5, <1>6, <1>7, <1>8, <1>9, <1>11, StillStep

LEMMA ToggleMineStep ==
  ASSUME LibInv, JobsInv, UNCHANGED <<asked, entry, shelf, disk, rev, home>>, asked \in Nat, asked \in Numbers, NEW d, ToggleMine(d)
  PROVE  LibInv'
<1> DEFINE p == page[d]
<1>0. d \in DOMAIN page /\ PageOK(p) /\ p.rev <= rev /\ JobsOK /\ PagesTyped /\ UNCHANGED job /\ rev \in Nat
  BY DEF LibInv, PagesTyped, ToggleMine, Open, TableOK
<1>1. PICK q : q = WithMine(p)
  OBVIOUS
<1>2. page' = [page EXCEPT ![d] = q]
  BY <1>1 DEF ToggleMine, WithMine
<1>3. PICK mine, due : mine = ~p.mine /\ due = TRUE
  OBVIOUS
<1>4. q = PageOf(mine, due, p.failed, p.rows, p.more, p.fetching, p.unlocked, p.key, p.rev, p.skipped, p.relocked)
  BY <1>0, <1>1, <1>3, WithPage
<1>5. mine \in BOOLEAN /\ due \in BOOLEAN
  BY <1>3
<1>6. /\ IsPage(q) /\ q.mine = mine /\ q.due = due /\ q.failed = p.failed /\ q.rows = p.rows /\ q.more = p.more
      /\ q.fetching = p.fetching /\ q.unlocked = p.unlocked /\ q.key = p.key /\ q.rev = p.rev /\ q.skipped = p.skipped
      /\ q.relocked = p.relocked
  BY <1>4, PageOfIs
<1>7. PageOK(q) /\ q.rev <= rev'
  BY <1>0, <1>5, <1>6 DEF PageOK
<1>8. /\ PagesTyped' /\ DOMAIN page' = DOMAIN page /\ page'[d] = q
      /\ \A e \in DOMAIN page \ {d} : page'[e] = page[e]
  <2>1. rev' \in Nat /\ rev <= rev' /\ UNCHANGED home
    BY <1>0
  <2> HIDE DEF p
  <2> QED BY <1>0, <1>2, <1>7, <2>1, PageTurns
<1>9. \A e \in DOMAIN page' : e \in DOMAIN page /\ page'[e].rows = page[e].rows
  BY <1>6, <1>8
<1>10. \A t \in Slots : Weakens(t)
  BY <1>0, SameWeakens
<1>11. \A t \in Slots : Turns(t) /\ \A id : Posts(t, id)' => Posts(t, id)
  BY <1>10, WeakenedTurns
<1>12. WaitOK'
  BY <1>0, <1>9 DEF LibInv, WaitOK, Open
<1>13. \A e \in DOMAIN page' : \A id \in Ids(page'[e].rows) : Mentioned(id)
  BY <1>9 DEF Mentioned
<1>14. PICK s : s = d
  OBVIOUS
<1>15. \A t \in Slots : \A id : Posts(t, id)' => Posts(t, id) \/ (t = s /\ id = asked + 1 /\ asked' = asked + 1)
  BY <1>11
<1>16. asked' \in Numbers /\ asked <= asked'
  OBVIOUS
<1> QED BY <1>8, <1>11, <1>12, <1>13, <1>15, <1>16, StillStep

LEMMA LibraryStepKeeps ==
  ASSUME LibInv, JobsInv, AskedOK, asked \in Numbers, LibraryStep
  PROVE  LibInv'
<1>0. asked \in Nat
  BY DEF AskedOK
<1>1. ASSUME NEW s \in Slots, LibraryAsks(s), UNCHANGED <<entry, shelf, disk, rev, pageVars>> PROVE LibInv'
  BY <1>1, LibraryAsksStep
<1>2. ASSUME NEW s \in Slots, LibraryHandles(s), UNCHANGED <<asked, pageVars>> PROVE LibInv'
  <2>1. UNCHANGED <<asked, home>>
    BY <1>2 DEF pageVars
  <2> QED BY <1>2, <2>1, LibraryHandlesStep
<1>3. ASSUME NEW s \in Slots, LibraryAnswer(s) \/ LibraryLost(s) PROVE LibInv'
  BY <1>3, LibraryAnswerStep, LibraryLostStep
<1>4. ASSUME NEW d \in Devices, Visit(d) \/ ToggleMine(d), UNCHANGED <<asked, entry, shelf, disk, rev, pageVars>> PROVE LibInv'
  <2>1. UNCHANGED <<asked, entry, shelf, disk, rev, home>>
    BY <1>4 DEF pageVars
  <2> QED BY <1>0, <1>4, <2>1, VisitStep, ToggleMineStep
<1> QED BY <1>1, <1>2, <1>3, <1>4 DEF LibraryStep

\* The pages when somebody is signed out or is an administrator no more.
LEMMA LeavesLibraryIs ==
  ASSUME PagesTyped, LeavesLibrary
  PROVE  /\ PagesTyped' /\ DOMAIN page' = DOMAIN page \cap home'
         /\ \A d \in DOMAIN page' : LET p == page[d] q == page'[d] IN
              /\ q.rows = p.rows /\ q.rev = p.rev /\ q.mine = p.mine /\ q.unlocked = p.unlocked
              /\ q.key = p.key /\ q.more = p.more /\ q.skipped = p.skipped /\ q.due = p.due /\ q.failed = p.failed
              /\ q.fetching = p.fetching /\ q.relocked = IF Demoted(token[d].name) THEN FileIds ELSE p.relocked
<1>1. DOMAIN page' = DOMAIN page \cap home' /\ page' = [d \in DOMAIN page' |-> page'[d]] /\ UNCHANGED rev
  BY DEF LeavesLibrary
<1>2. ASSUME NEW d \in DOMAIN page'
      PROVE  LET p == page[d] q == page'[d] IN
              /\ PageOK(q) /\ q.rows = p.rows /\ q.rev = p.rev /\ q.mine = p.mine /\ q.unlocked = p.unlocked
              /\ q.key = p.key /\ q.more = p.more /\ q.skipped = p.skipped /\ q.due = p.due /\ q.failed = p.failed
              /\ q.fetching = p.fetching /\ q.relocked = IF Demoted(token[d].name) THEN FileIds ELSE p.relocked
  <2>0. PageOK(page[d])
    BY <1>1 DEF PagesTyped
  <2>1. CASE Demoted(token[d].name)
    <3>1. PICK p, q, x : p = page[d] /\ q = page'[d] /\ x = FileIds
      OBVIOUS
    <3>2. PageOK(p) /\ q = WithRelocked(p, x) /\ x \subseteq FileIds
      BY <1>1, <2>0, <2>1, <3>1 DEF LeavesLibrary, WithRelocked
    <3>3. /\ PageOK(q) /\ q.rows = p.rows /\ q.rev = p.rev /\ q.mine = p.mine /\ q.unlocked = p.unlocked /\ q.key = p.key
          /\ q.more = p.more /\ q.skipped = p.skipped /\ q.relocked = x /\ q.due = p.due /\ q.failed = p.failed
          /\ q.fetching = p.fetching
      BY <3>2, RelockedPage
    <3> QED BY <2>1, <3>1, <3>3
  <2>2. CASE ~Demoted(token[d].name)
    <3>1. page'[d] = page[d]
      BY <1>1, <2>2 DEF LeavesLibrary
    <3> QED BY <2>0, <2>2, <3>1
  <2> QED BY <2>1, <2>2
<1>3. PagesTyped'
  BY <1>1, <1>2 DEF PagesTyped
<1> QED BY <1>1, <1>2, <1>3

LEMMA AroundStep ==
  ASSUME LibInv, AskedOK, LeavesLibrary, NEW s,
         \A t \in Slots \ {s} : Weakens(t),
         s \in Slots => /\ JobOK(job'[s]) /\ job[s].op \notin LibraryOps /\ job'[s].op \notin LibraryOps
  PROVE  LibInv'
<1>0. /\ PagesTyped' /\ DOMAIN page' = DOMAIN page \cap home'
      /\ \A d \in DOMAIN page' : page'[d].rows = page[d].rows
  BY LeavesLibraryIs DEF LibInv
<1>1. \A d \in DOMAIN page' : d \in DOMAIN page /\ page'[d].rows = page[d].rows
  BY <1>0
<1>2. s \in Slots => Turns(s) /\ \A id : ~Posts(s, id)'
  BY DEF Turns, Pending, JobAt, JobMentions, IsList, LibraryOps, Posts
<1>3. \A t \in Slots : Turns(t)
  BY <1>2, WeakenedTurns
<1>4. \A t \in Slots : \A id : Posts(t, id)' => Posts(t, id) \/ (t = s /\ id = asked + 1 /\ asked' = asked + 1)
  BY <1>2, WeakenedTurns
<1>5. WaitOK'
  <2>1. JobsOK /\ WaitOK
    BY DEF LibInv
  <2>2. s \in Slots /\ job'[s].op \in {"unlock", "fetch"} /\ job'[s].here /\ Device[s] \in DOMAIN page'
           => job'[s].arg.id \in Ids(page'[Device[s]].rows)
    BY DEF LibraryOps
  <2> QED BY <1>1, <2>1, <2>2, WaitStays
<1>6. \A d \in DOMAIN page' : \A id \in Ids(page'[d].rows) : Mentioned(id)
  BY <1>1 DEF Mentioned
<1>7. UNCHANGED <<entry, shelf, disk, rev>>
  BY DEF LeavesLibrary
<1> QED BY <1>0, <1>3, <1>4, <1>5, <1>6, <1>7, StillStep DEF AskedOK

-----------------------------------------------------------------------------
\* The desk, once more: what its requests are of, and that they are none of the library.

SignupOf(id, name, pw, bundle, number) ==
  [id |-> id, name |-> name, pw |-> pw, bundle |-> bundle, number |-> number]
IsSignup(r) == /\ r = SignupOf(r.id, r.name, r.pw, r.bundle, r.number)
               /\ r.id \in Numbers /\ r.id # None /\ SignupOK(r) /\ r.number \in Phones \cup {NoPhone}

\* The argument of a request of the desk.
DeskArg(s, j) ==
  /\ j.op = "register" => IsSignup(j.arg) /\ j.arg.id = asked + 1
  /\ j.op = "phone" => j.arg.number \in Phones /\ j.arg.id = asked + 1 /\ (j.step = "401" \/ j.tok \in Token)
  /\ j.op = "admit" => \E row \in listed[Device[s]] :
       /\ row.kind = "signup" /\ ~row.taken /\ j.arg.id = row.id /\ j.arg.number \in {row.number, NoPhone}
       /\ j.arg.who = asked + 1
  /\ j.op = "assign" => j.arg.name \in Names /\ j.arg.number \in Phones \cup {NoPhone}

LEMMA RequestOK ==
  ASSUME NEW s, NEW op \in DeskOps, NEW arg, NEW step \in JobSteps, NEW j, j = Request(s, op, arg, step)
  PROVE  JobOK(j) /\ IsJob(j) /\ j.op = op /\ j.arg = arg
<1>1. j = [op |-> op, tok |-> token[Device[s]], admin |-> IsAdmin(token[Device[s]]), arg |-> arg, reply |-> << >>,
           here |-> TRUE, step |-> IF Accepts(token[Device[s]]) THEN step ELSE "401"]
  BY DEF Request
<1>2. IsJob(j) /\ j.op = op /\ j.arg = arg
  BY <1>1 DEF IsJob, JobOf
<1>3. j.here \in BOOLEAN /\ j.admin \in BOOLEAN
  BY <1>1 DEF IsAdmin
<1>4. j.step \in JobSteps
  BY <1>1 DEF JobSteps, Ended
<1> QED BY <1>2, <1>3, <1>4 DEF JobOK, IsList, DeskOps

LEMMA AdminRequestOK ==
  ASSUME NEW s, NEW op \in DeskOps, NEW arg, NEW step \in JobSteps, NEW j, j = AdminRequest(s, op, arg, step)
  PROVE  JobOK(j) /\ IsJob(j) /\ j.op = op /\ j.arg = arg
<1>1. PICK next : next = IF IsAdmin(token[Device[s]]) THEN step ELSE "403"
  OBVIOUS
<1>2. next \in JobSteps /\ j = Request(s, op, arg, next)
  BY <1>1 DEF AdminRequest, JobSteps, Ended
<1> QED BY <1>2, RequestOK

LEMMA DeskAskOK ==
  ASSUME AccountsInv, NEW s \in Slots, DeskAsks(s)
  PROVE  \E j : DeskAsk(s, j) /\ JobOK(j) /\ DeskArg(s, j)
<1>a. "update" \in JobSteps /\ "check" \in JobSteps /\ "select" \in JobSteps /\ "insert" \in JobSteps /\ "409" \in JobSteps
  BY DEF JobSteps, Ended
<1>1. ASSUME NEW op \in DeskOps \ {"desk"}, NEW arg, NEW step \in JobSteps, Counted, UNCHANGED approvalVars,
             Sends(s, Request(s, op, arg, step)), op \notin {"register", "admit", "verify", "assign"},
             op = "phone" => arg.id = asked + 1 /\ arg.number \in Phones
      PROVE  \E j : DeskAsk(s, j) /\ JobOK(j) /\ DeskArg(s, j)
  <2>1. PICK j : j = Request(s, op, arg, step)
    OBVIOUS
  <2>2. IsJob(j) /\ j.op = op /\ j.arg = arg /\ JobOK(j)
    BY <2>1, RequestOK
  <2>3. job[s].op = "none" /\ job' = [job EXCEPT ![s] = j]
    BY <1>1, <2>1 DEF Sends, Free
  <2>4. DeskAsk(s, j)
    BY <1>1, <2>2, <2>3 DEF DeskAsk, Counted
  <2>5. j.step = "401" \/ j.tok \in Token
    <3>1. token[Device[s]] \in Token \cup {NoToken}
      BY Constants DEF AccountsInv, ServerOK
    <3> QED BY <2>1, <3>1 DEF Request, Accepts
  <2>6. DeskArg(s, j)
    BY <1>1, <2>2, <2>5 DEF DeskArg
  <2> QED BY <2>2, <2>4, <2>6
<1>2. ASSUME NEW op \in DeskOps \ {"desk"}, NEW arg, Decides(s, op, arg), op \notin {"register", "phone"},
             op = "admit" => arg.who = asked + 1 /\ arg.admin \in BOOLEAN /\ \E row \in listed[Device[s]] :
               row.kind = "signup" /\ ~row.taken /\ arg.id = row.id /\ arg.number \in {row.number, NoPhone},
             op = "assign" => arg.name \in Names /\ arg.number \in Phones \cup {NoPhone},
             op = "verify" => arg \in listed[Device[s]] /\ arg.kind = "phone"
      PROVE  \E j : DeskAsk(s, j) /\ JobOK(j) /\ DeskArg(s, j)
  <2>1. PICK j : j = AdminRequest(s, op, arg, "update")
    OBVIOUS
  <2>0. PICK step : step = "update"
    OBVIOUS
  <2>2. IsJob(j) /\ j.op = op /\ j.arg = arg /\ JobOK(j)
    BY <1>a, <2>0, <2>1, AdminRequestOK
  <2>3. job[s].op = "none" /\ job' = [job EXCEPT ![s] = j] /\ Counted /\ UNCHANGED approvalVars
    BY <1>2, <2>1 DEF Decides, Sends, Free
  <2>4. DeskAsk(s, j)
    BY <1>2, <2>2, <2>3 DEF DeskAsk, Counted
  <2>5. DeskArg(s, j)
    BY <1>2, <2>2 DEF DeskArg
  <2> QED BY <2>2, <2>4, <2>5
<1>3. CASE HandleRegister(s)
  <2>1. PICK n \in Names, pw \in Passwords, number \in Phones \cup {NoPhone}, keys \in BOOLEAN :
          LET b == IF keys THEN [pub |-> asked + 1, lock |-> pw] ELSE NoBundle IN
          job' = [job EXCEPT ![s] = [NoJob EXCEPT !.op = "register",
            !.arg = [id |-> asked + 1, name |-> n, pw |-> pw, bundle |-> b, number |-> number],
            !.step = IF Exists(n) THEN "409" ELSE "insert"]]
    BY <1>3 DEF HandleRegister
  <2>2. PICK b, id : id = asked + 1 /\ b = IF keys THEN [pub |-> asked + 1, lock |-> pw] ELSE NoBundle
    OBVIOUS
  <2>3. PICK a : a = [id |-> id, name |-> n, pw |-> pw, bundle |-> b, number |-> number]
    OBVIOUS
  <2>4. asked < MaxRequests /\ asked' = asked + 1 /\ id \in Numbers /\ id # None
    BY <1>3, <2>2, Names1 DEF HandleRegister, Counted, AccountsInv
  <2>5. b \in Bundles /\ (b # NoBundle => b.lock = pw /\ b.pub # None)
    BY <2>2, <2>4 DEF Bundles
  <2>6. /\ a.id = id /\ a.name = n /\ a.pw = pw /\ a.bundle = b /\ a.number = number
        /\ a = SignupOf(a.id, a.name, a.pw, a.bundle, a.number)
    BY <2>3 DEF SignupOf
  <2>6a. SignupOK(a)
    BY <2>5, <2>6 DEF SignupOK
  <2>6b. IsSignup(a)
    BY <2>4, <2>6, <2>6a DEF IsSignup
  <2>7. PICK step : step = IF Exists(n) THEN "409" ELSE "insert"
    OBVIOUS
  <2>8. PICK j : j = [NoJob EXCEPT !.op = "register", !.arg = a, !.step = step]
    OBVIOUS
  <2>9. j = JobOf("register", step, << >>, FALSE, a, << >>, FALSE)
    BY <2>8 DEF NoJob, JobOf
  <2>10. IsJob(j) /\ j.op = "register" /\ j.arg = a /\ j.step = step /\ j.here = FALSE /\ j.admin = FALSE
    BY <2>9 DEF IsJob, JobOf
  <2>11. job' = [job EXCEPT ![s] = j]
    BY <2>1, <2>2, <2>3, <2>7, <2>8
  <2>12. DeskAsk(s, j)
    BY <1>3, <2>4, <2>6a, <2>10, <2>11 DEF HandleRegister, Free, DeskAsk, DeskOps
  <2>13. JobOK(j)
    BY <1>a, <2>7, <2>10 DEF JobOK, IsList, DeskOps
  <2>14. DeskArg(s, j)
    BY <2>2, <2>6, <2>6b, <2>10 DEF DeskArg
  <2> QED BY <2>12, <2>13, <2>14
<1>4. CASE HandleRequestPhone(s)
  <2>1. PICK number \in Phones :
          Sends(s, Request(s, "phone", [number |-> number, id |-> asked + 1], "check"))
    BY <1>4 DEF HandleRequestPhone
  <2>2. PICK a : a = [number |-> number, id |-> asked + 1]
    OBVIOUS
  <2>3. Sends(s, Request(s, "phone", a, "check")) /\ a.id = asked + 1 /\ a.number \in Phones
    BY <2>1, <2>2
  <2> QED BY <1>1, <1>4, <1>a, <2>3 DEF HandleRequestPhone, DeskOps
<1>5. CASE HandleCancelPhone(s)
  BY <1>1, <1>5, <1>a DEF HandleCancelPhone, DeskOps
<1>6. CASE HandleRemovePhone(s)
  BY <1>1, <1>6, <1>a DEF HandleRemovePhone, DeskOps
<1>7. CASE Refresh(s)
  <2>1. PICK j, op, arg, step : j = AdminRequest(s, op, arg, step) /\ op = "desk" /\ arg = << >> /\ step = "select"
    OBVIOUS
  <2>2. IsJob(j) /\ j.op = "desk" /\ JobOK(j)
    <3>1. op \in DeskOps /\ step \in JobSteps
      BY <1>a, <2>1 DEF DeskOps
    <3> QED BY <2>1, <3>1, AdminRequestOK
  <2>3. j.step # "done"
    BY <2>1, AdminRequestIs
  <2>4. job[s].op = "none" /\ job' = [job EXCEPT ![s] = j] /\ UNCHANGED asked /\ UNCHANGED approvalVars
    BY <1>7, <2>1 DEF Refresh, Sends, Free, RefreshRequest
  <2>5. DeskAsk(s, j)
    BY <2>2, <2>3, <2>4 DEF DeskAsk, DeskOps
  <2>6. DeskArg(s, j)
    BY <2>2 DEF DeskArg
  <2> QED BY <2>2, <2>5, <2>6
<1>8. CASE AssignManually(s)
  <2>1. PICK n \in Names, number \in Phones \cup {NoPhone} : Decides(s, "assign", [name |-> n, number |-> number])
    BY <1>8 DEF AssignManually
  <2>2. PICK a : a = [name |-> n, number |-> number]
    OBVIOUS
  <2>3. Decides(s, "assign", a) /\ a.name \in Names /\ a.number \in Phones \cup {NoPhone}
    BY <2>1, <2>2
  <2> QED BY <1>2, <2>3 DEF DeskOps
<1>9. ASSUME NEW row \in listed[Device[s]], Approve(s, row)
      PROVE  \E j : DeskAsk(s, j) /\ JobOK(j) /\ DeskArg(s, j)
  <2>1. CASE row.kind = "phone" /\ Decides(s, "verify", row)
    BY <1>2, <2>1 DEF DeskOps
  <2>2. CASE /\ row.kind = "signup"
             /\ \E number \in {row.number, NoPhone}, admin \in BOOLEAN :
                  Decides(s, "admit", [id |-> row.id, who |-> asked + 1, number |-> number, admin |-> admin])
    <3>1. PICK number \in {row.number, NoPhone}, admin \in BOOLEAN :
            Decides(s, "admit", [id |-> row.id, who |-> asked + 1, number |-> number, admin |-> admin])
      BY <2>2
    <3>2. PICK a : a = [id |-> row.id, who |-> asked + 1, number |-> number, admin |-> admin]
      OBVIOUS
    <3>3. a.who = asked + 1 /\ a.admin \in BOOLEAN /\ Decides(s, "admit", a) /\ a.id = row.id /\ a.number = number
      BY <3>1, <3>2
    <3>4. row.kind = "signup" /\ ~row.taken /\ number \in {row.number, NoPhone}
      BY <1>9, <2>2 DEF Approve
    <3>5. \E r \in listed[Device[s]] : r.kind = "signup" /\ ~r.taken /\ a.id = r.id /\ a.number \in {r.number, NoPhone}
      BY <3>3, <3>4
    <3> QED BY <1>2, <3>3, <3>5 DEF DeskOps
  <2> QED BY <1>9, <2>1, <2>2 DEF Approve
<1>10. ASSUME NEW row, Reject(s, row)
       PROVE  \E j : DeskAsk(s, j) /\ JobOK(j) /\ DeskArg(s, j)
  BY <1>2, <1>10 DEF Reject, DeskOps
<1> QED BY <1>3, <1>4, <1>5, <1>6, <1>7, <1>8, <1>9, <1>10 DEF DeskAsks

-----------------------------------------------------------------------------
\* Steps beside the library.

LEMMA DeskFollows ==
  ASSUME JobsInv, JobsOK, NEW s \in Slots, NEW step \in JobSteps, NEW reply, job[s].op \in DeskOps, Follows(s, step, reply)
  PROVE  /\ JobOK(job'[s]) /\ job'[s].op \in DeskOps /\ job[s].op \notin LibraryOps /\ job'[s].op \notin LibraryOps
         /\ \A t \in Slots \ {s} : Weakens(t)
<1>1. JobOK(job[s]) /\ job[s].op \notin LibraryOps /\ job[s].op # "none"
  BY DEF JobsOK, DeskOps, LibraryOps
<1>2. job'[s].op = job[s].op /\ job'[s].step = step /\ job'[s].admin = job[s].admin /\ job'[s].here = job[s].here
      /\ \A t \in Slots \ {s} : Weakens(t)
  BY DEF Follows, Rest
<1>3. JobOK(job'[s])
  BY <1>1, <1>2 DEF JobOK, IsList, LibraryOps
<1> QED BY <1>1, <1>2, <1>3

LEMMA DeskHandlesOK ==
  ASSUME JobsInv, JobsOK, NEW s \in Slots, DeskHandles(s)
  PROVE  /\ JobOK(job'[s]) /\ job[s].op \notin LibraryOps /\ job'[s].op \notin LibraryOps
         /\ \A t \in Slots \ {s} : Weakens(t)
<1> DEFINE Goal == /\ JobOK(job'[s]) /\ job[s].op \notin LibraryOps /\ job'[s].op \notin LibraryOps
                   /\ \A t \in Slots \ {s} : Weakens(t)
<1>1. ASSUME NEW step \in JobSteps, job[s].op \in DeskOps, JobGoes(s, step)
      PROVE  Goal
  <2>1. PICK reply : reply = job[s].reply
    OBVIOUS
  <2>2. Follows(s, step, reply)
    BY <1>1, <2>1, JobFollows
  <2> QED BY <1>1, <2>2, DeskFollows
<1>2. CASE DeskSelect(s)
  <2>1. PICK reply, step : reply = [rows |-> PhoneRows \cup SignupRows] /\ step = "done"
    OBVIOUS
  <2>2. job' = [job EXCEPT ![s].step = step, ![s].reply = reply] /\ step \in JobSteps /\ job[s].op \in DeskOps
    BY <1>2, <2>1 DEF DeskSelect, JobAt, DeskOps, JobSteps, Ended
  <2>3. Follows(s, step, reply)
    BY <2>2, JobReplies
  <2> QED BY <2>2, <2>3, DeskFollows
<1>3. CASE ~DeskSelect(s)
  <2>1. job[s].op \in DeskOps
    BY <1>3 DEF DeskHandles, RegisterInsert, PhoneCheck, PhoneInsert, CancelDelete, RemoveUpdate, VerifyUpdate,
               AdmitInsert, RefuseUpdate, AssignUpdate, JobAt, DeskOps
  <2>2. \E step \in {"done", "409", "error", "insert"} : JobGoes(s, step)
    <3>1. CASE RegisterInsert(s) \/ PhoneInsert(s) \/ RemoveUpdate(s)
      BY <3>1 DEF RegisterInsert, PhoneInsert, RemoveUpdate
    <3>2. CASE PhoneCheck(s)
      <4>1. PICK step : step = IF Who(job[s].tok) = None \/ Taken(job[s].arg.number, None) THEN "error" ELSE "insert"
        OBVIOUS
      <4> QED BY <3>2, <4>1 DEF PhoneCheck
    <3>3. CASE CancelDelete(s)
      <4>1. PICK step : step = IF Of(Who(job[s].tok)) = {} THEN "error" ELSE "done"
        OBVIOUS
      <4> QED BY <3>3, <4>1 DEF CancelDelete
    <3>4. CASE VerifyUpdate(s)
      <4>1. PICK found : found = {r \in wanted : r.id = job[s].arg.id /\ r.for \in Accounts}
        OBVIOUS
      <4>2. PICK step : step = IF found = {} THEN "error" ELSE "409"
        OBVIOUS
      <4> QED BY <3>4, <4>1, <4>2 DEF VerifyUpdate
    <3>5. CASE AdmitInsert(s)
      <4>1. PICK found : found = {r \in signups : r.id = job[s].arg.id}
        OBVIOUS
      <4>2. PICK step : step = IF found = {} THEN "error" ELSE "409"
        OBVIOUS
      <4> QED BY <3>5, <4>1, <4>2 DEF AdmitInsert
    <3>6. CASE RefuseUpdate(s)
      <4>1. PICK step : step = IF \E other \in PhoneRows \cup SignupRows : other.id = job[s].arg.id THEN "done" ELSE "error"
        OBVIOUS
      <4> QED BY <3>6, <4>1 DEF RefuseUpdate
    <3>7. CASE AssignUpdate(s)
      <4>1. PICK step : step = IF job[s].arg.number = NoPhone THEN "done" ELSE IF user[job[s].arg.name].who = None THEN "error" ELSE "409"
        OBVIOUS
      <4> QED BY <3>7, <4>1 DEF AssignUpdate
    <3> QED BY <1>3, <3>1, <3>2, <3>3, <3>4, <3>5, <3>6, <3>7 DEF DeskHandles
  <2>3. PICK step \in JobSteps : JobGoes(s, step)
    BY <2>2 DEF JobSteps, Ended
  <2> QED BY <1>1, <2>1, <2>3
<1> QED BY <1>2, <1>3

LEMMA DeskAnswerOK ==
  ASSUME JobsInv, JobsOK, NEW s \in Slots, DeskAnswer(s)
  PROVE  /\ JobOK(job'[s]) /\ job[s].op \notin LibraryOps /\ job'[s].op \notin LibraryOps
         /\ \A t \in Slots \ {s} : Weakens(t)
<1>1. PICK f : /\ f = RefreshRequest(s) \/ f = NoJob
               /\ job' = [t \in Slots |-> IF t # s THEN Left(t) ELSE f]
  BY DEF DeskAnswer
<1>2. JobOK(f) /\ f.op \notin LibraryOps
  <2>1. CASE f = RefreshRequest(s)
    <3>1. PICK op, arg, step : op = "desk" /\ arg = << >> /\ step = "select"
      OBVIOUS
    <3>2. f = AdminRequest(s, op, arg, step) /\ op \in DeskOps /\ step \in JobSteps
      BY <2>1, <3>1 DEF RefreshRequest, DeskOps, JobSteps
    <3> QED BY <3>1, <3>2, AdminRequestOK DEF LibraryOps
  <2> QED BY <1>1, <2>1, NoJobFields DEF LibraryOps
<1>3. ASSUME NEW t \in Slots \ {s} PROVE Weakens(t)
  <2>1. PICK h : h = (job[t].here /\ Device[t] \in home')
    OBVIOUS
  <2>2. job'[t] = WithHere(job[t], h)
    BY <1>1, <2>1 DEF Left, WithHere
  <2>3. h \in BOOLEAN /\ (h => job[t].here)
    BY <2>1
  <2> QED BY <2>2, <2>3, HereWeakens
<1>4. job[s].op \notin LibraryOps
  BY DEF DeskAnswer, DeskOps, LibraryOps
<1> QED BY <1>1, <1>2, <1>3, <1>4

\* What a step beside the library does to the requests.
Around ==
  \E s : /\ \A t \in Slots \ {s} : Weakens(t)
         /\ s \in Slots => JobOK(job'[s]) /\ job[s].op \notin LibraryOps /\ job'[s].op \notin LibraryOps

LEMMA ApprovalsAround ==
  ASSUME AccountsInv, JobsInv, JobsOK, ApprovalsStep
  PROVE  Around
<1>1. ASSUME NEW s \in Slots, DeskAsks(s) PROVE Around
  <2>1. PICK j : DeskAsk(s, j) /\ JobOK(j)
    BY <1>1, DeskAskOK
  <2>2. job[s].op = "none" /\ job' = [job EXCEPT ![s] = j] /\ j.op \in DeskOps
    BY <2>1 DEF DeskAsk
  <2>3. job'[s] = j /\ \A t \in Slots \ {s} : Weakens(t)
    BY <2>2, Puts DEF Rest
  <2> QED BY <2>1, <2>2, <2>3 DEF Around, DeskOps, LibraryOps
<1>2. ASSUME NEW s \in Slots, DeskHandles(s) PROVE Around
  BY <1>2, DeskHandlesOK DEF Around
<1>3. ASSUME NEW s \in Slots, DeskAnswer(s) PROVE Around
  BY <1>3, DeskAnswerOK DEF Around
<1> QED BY <1>1, <1>2, <1>3 DEF ApprovalsStep

LEMMA InitLib == OfficeInit => LibInv
<1> SUFFICES ASSUME OfficeInit PROVE LibInv
  OBVIOUS
<1>0. OfficeInv /\ asked \in Numbers /\ (\A s \in Slots : job[s] = NoJob) /\ LibraryInit /\ IdsOK
  <2>1. \A s \in Slots : job[s] = NoJob
    BY DEF OfficeInit
  <2>2. asked \in Numbers
    BY InitTypes DEF OfficeInv, AccountsInv, ServerOK
  <2> QED BY <2>1, <2>2, InitTypes, InitIds DEF OfficeInit
<1>1. asked \in Nat /\ Numbers = 0 .. MaxRequests /\ None = 0 /\ MaxRequests \in Nat
  BY <1>0, Constants DEF Numbers, None
<1>2. PICK n \in 0 .. asked : shelf = [i \in 1 .. n |-> n + 1 - i]
  BY <1>0 DEF LibraryInit
<1>3. /\ Len(shelf) = n /\ n \in Nat /\ n <= asked /\ \A i \in 1 .. n : shelf[i] = n + 1 - i
      /\ shelf = [i \in 1 .. n |-> shelf[i]]
  BY <1>1, <1>2
<1>4. \A i \in 1 .. n : shelf[i] \in FileIds /\ shelf[i] <= n
  BY <1>0, <1>1, <1>3 DEF FileIds
<1>5. shelf \in Seq(FileIds)
  BY <1>3, <1>4
<1>6. \A id \in FileIds : id <= n <=> \E i \in 1 .. n : shelf[i] = id
  <2> TAKE id \in FileIds
  <2>1. id \in Nat /\ id >= 1
    BY <1>1 DEF FileIds
  <2>2. ASSUME id <= n PROVE \E i \in 1 .. n : shelf[i] = id
    <3>1. n + 1 - id \in 1 .. n /\ shelf[n + 1 - id] = id
      BY <1>3, <2>1, <2>2
    <3> QED BY <3>1
  <2> QED BY <1>4, <2>2
<1>7. \A id \in FileIds : entry[id] # NoEntry <=> \E i \in 1 .. Len(shelf) : shelf[i] = id
  BY <1>0, <1>3, <1>6 DEF LibraryInit
<1>8. \A id \in FileIds : EntryOK(entry[id])
  <2> TAKE id \in FileIds
  <2> SUFFICES ASSUME entry[id] # NoEntry PROVE EntryOK(entry[id])
    BY DEF EntryOK
  <2>1. PICK w \in Accounts, pw \in {None} \cup Passwords : entry[id] = [owner |-> w, pw |-> pw]
    BY <1>0 DEF LibraryInit
  <2>2. w # None
    BY <1>0 DEF Accounts, IdsOK
  <2> QED BY <2>1, <2>2 DEF EntryOK, Keys
<1>9. entry = [id \in FileIds |-> entry[id]]
  BY <1>0 DEF LibraryInit
<1>10. \A i, k \in 1 .. Len(shelf) : shelf[i] = shelf[k] => i = k
  BY <1>3
<1>11. disk \subseteq FileIds /\ rev = 1 /\ \A id \in FileIds : entry[id] # NoEntry <=> id \in disk
  BY <1>0, <1>3, <1>4, <1>7 DEF LibraryInit
<1>12. TableOK /\ KeptOK
  BY <1>5, <1>7, <1>8, <1>9, <1>10, <1>11 DEF TableOK, KeptOK
<1>13. PICK open \in SUBSET home : page = [d \in open |-> FreshPage]
  BY <1>0 DEF LibraryInit
<1>14. PageOK(FreshPage) /\ FreshPage.rev = 0 /\ Ids(FreshPage.rows) = {}
  BY FreshIs
<1>15. DOMAIN page = open /\ page = [d \in DOMAIN page |-> page[d]] /\ \A d \in DOMAIN page : page[d] = FreshPage
  BY <1>13
<1>16. PagesTyped
  BY <1>11, <1>14, <1>15 DEF PagesTyped
<1>17. JobsOK
  BY <1>0, NoJobFields DEF JobsOK
<1>18. HoldOK /\ WaitOK
  BY <1>0, NoJobFields DEF HoldOK, WaitOK, IsList, JobAt
<1>19. \A s \in Slots : \A id : ~JobMentions(job[s], id) /\ ~Posts(s, id)
  BY <1>0, NoJobFields DEF JobMentions, Posts, IsList
<1>20. \A id : Mentioned(id) => id \in FileIds /\ id <= asked
  <2> TAKE id
  <2> HAVE Mentioned(id)
  <2>1. id \in FileIds /\ entry[id] # NoEntry
    BY <1>14, <1>15, <1>19 DEF Mentioned
  <2>2. id <= n /\ id \in Nat
    BY <1>1, <1>3, <1>6, <1>7, <2>1 DEF FileIds
  <2> QED BY <1>1, <1>3, <2>1, <2>2
<1>21. MentionOK
  BY <1>19, <1>20 DEF MentionOK
<1> QED BY <1>12, <1>16, <1>17, <1>18, <1>21 DEF LibInv

LEMMA LibStep ==
  ASSUME OfficeInv, OfficeInv', LibInv, Traffic, [OfficeNext]_officeVars
  PROVE  LibInv'
<1>0. /\ AskedOK /\ asked \in Numbers /\ JobsInv /\ AccountsInv /\ JobsOK
  <2>1. asked \in Numbers /\ asked' \in Numbers
    BY DEF OfficeInv, AccountsInv, ServerOK
  <2>2. asked \in Nat /\ asked <= asked'
    BY AskedGrows
  <2> QED BY <2>1, <2>2 DEF AskedOK, OfficeInv, LibInv
<1>1. ASSUME Around, LeavesLibrary PROVE LibInv'
  BY <1>0, <1>1, AroundStep DEF Around
<1>2. CASE SignInNext /\ job' = [s \in Slots |-> Left(s)] /\ LeavesLibrary
  <2>1. \A t \in Slots : Weakens(t)
    BY <1>0, <1>2, LeftWeaken DEF AllWeaken
  <2>2. PICK s : s \notin Slots
    <3>1. \E s : s \notin Slots
      BY NoSetContainsEverything
    <3> QED BY <3>1
  <2> QED BY <1>1, <1>2, <2>1, <2>2 DEF Around
<1>3. CASE ApprovalsStep /\ LeavesLibrary
  BY <1>0, <1>1, <1>3, ApprovalsAround
<1>4. CASE LibraryStep
  BY <1>0, <1>4, LibraryStepKeeps
<1>5. CASE UNCHANGED officeVars
  <2>1. UNCHANGED <<job, entry, shelf, disk, rev, page, home, asked, user>>
    BY <1>5 DEF officeVars, libraryVars, allVars, vars, pageVars
  <2>2. LeavesLibrary
    <3>1. \A n : ~Demoted(n)
      BY <2>1 DEF Demoted
    <3>2. page = [d \in DOMAIN page |-> page[d]] /\ DOMAIN page \cap home' = DOMAIN page
      BY <2>1 DEF LibInv, PagesTyped
    <3> QED BY <2>1, <3>1, <3>2 DEF LeavesLibrary
  <2>3. \A t \in Slots : Weakens(t)
    BY <1>0, <2>1, SameWeakens
  <2>4. PICK s : s \notin Slots
    BY NoSetContainsEverything
  <2> QED BY <1>1, <2>2, <2>3, <2>4 DEF Around
<1> QED BY <1>2, <1>3, <1>4, <1>5 DEF OfficeNext

-----------------------------------------------------------------------------
\* What the invariant says of the types.

\* A list without repetition has as many entries as places.
LEMMA SpreadCounts ==
  ASSUME NEW n \in Nat, NEW f, \A i, k \in 1 .. n : f[i] = f[k] => i = k
  PROVE  n = Cardinality({f[i] : i \in 1 .. n})
<1> DEFINE S == {f[i] : i \in 1 .. n}
           g == [i \in 1 .. n |-> f[i]]
<1>1. g \in Bijection(1 .. n, S)
  <2>1. g \in [1 .. n -> S]
    OBVIOUS
  <2>2. \A i, k \in 1 .. n : g[i] = g[k] => i = k
    OBVIOUS
  <2>3. \A x \in S : \E i \in 1 .. n : g[i] = x
    OBVIOUS
  <2> HIDE DEF g, S
  <2> QED BY <2>1, <2>2, <2>3 DEF Bijection, Injection, Surjection, IsInjective
<1>2. ExistsBijection(1 .. n, S)
  BY <1>1 DEF ExistsBijection
<1> HIDE DEF S
<1>3. Cardinality(S) = n
  BY <1>2, FS_CountingElements
<1> QED BY <1>3 DEF S

LEMMA LibraryTypesAre ==
  ASSUME LibInv
  PROVE  LibraryTypeOK
<1>1. shelf \in Seq(FileIds) /\ Len(shelf) \in Nat /\ \A i, k \in 1 .. Len(shelf) : shelf[i] = shelf[k] => i = k
  BY DEF LibInv, TableOK
<1>2. Len(shelf) = Cardinality({shelf[i] : i \in 1 .. Len(shelf)})
  BY <1>1, SpreadCounts
<1>3. \A id \in FileIds : entry[id] # NoEntry <=> \E i \in 1 .. Len(shelf) : shelf[i] = id
  BY DEF LibInv, TableOK
<1>4. {shelf[i] : i \in 1 .. Len(shelf)} \subseteq disk
  <2>1. \A i \in 1 .. Len(shelf) : shelf[i] \in FileIds
    BY <1>1
  <2> QED BY <1>3, <2>1 DEF LibInv, TableOK
<1>5. \A id \in disk : entry[id] # NoEntry \/ \E s \in Slots :
        (JobAt(s, "post", "insert") \/ JobAt(s, "drop", "unlink")) /\ job[s].arg.id = id
  BY DEF LibInv, KeptOK, Pending
<1>6. DOMAIN page \subseteq home
  BY DEF LibInv, PagesTyped
<1>7. ASSUME NEW d \in DOMAIN page
      PROVE  LET p == page[d] IN
             /\ DOMAIN p = DOMAIN FreshPage
             /\ Len(p.rows) = Cardinality(Ids(p.rows)) /\ p.unlocked \subseteq Ids(p.rows)
  <2>1. PICK p : p = page[d]
    OBVIOUS
  <2>2. PageOK(p)
    BY <2>1 DEF LibInv, PagesTyped
  <2>3. DOMAIN p = DOMAIN FreshPage
    <3>1. PICK mine, due, failed, rows, more, fetching, unlocked, key, v, skips, relocked :
            p = PageOf(mine, due, failed, rows, more, fetching, unlocked, key, v, skips, relocked)
      BY <2>2 DEF PageOK, IsPage
    <3> QED BY <3>1 DEF PageOf, FreshPage
  <2>4. PICK f : f = [i \in 1 .. Len(p.rows) |-> p.rows[i].id]
    OBVIOUS
  <2>5. Len(p.rows) \in Nat /\ \A i, k \in 1 .. Len(p.rows) : f[i] = f[k] => i = k
    BY <2>2, <2>4 DEF PageOK, RowsOK, Spread
  <2>6. Len(p.rows) = Cardinality({f[i] : i \in 1 .. Len(p.rows)})
    BY <2>5, SpreadCounts
  <2>7. {f[i] : i \in 1 .. Len(p.rows)} = Ids(p.rows)
    BY <2>4 DEF Ids
  <2>8. p.unlocked \subseteq Ids(p.rows)
    BY <2>2 DEF PageOK
  <2> QED BY <2>1, <2>3, <2>6, <2>7, <2>8
<1> QED BY <1>2, <1>3, <1>4, <1>5, <1>6, <1>7 DEF LibraryTypeOK

LEMMA JobTypesAre ==
  ASSUME JobsInv, LibInv
  PROVE  JobTypeOK
<1> SUFFICES ASSUME NEW s \in Slots
             PROVE  /\ DOMAIN job[s] = DOMAIN NoJob
                    /\ job[s].op = "none" <=> job[s] = NoJob
                    /\ job[s].step \in JobSteps
  BY DEF JobTypeOK, JobSteps
<1>1. IsJob(job[s]) /\ JobOK(job[s])
  BY DEF JobsInv, LibInv, JobsOK
<1>2. PICK op, step, tok, admin, arg, reply, here : job[s] = JobOf(op, step, tok, admin, arg, reply, here)
  BY <1>1 DEF IsJob
<1>3. DOMAIN job[s] = DOMAIN NoJob
  BY <1>2 DEF JobOf, NoJob
<1>4. NoJob.op = "none"
  BY NoJobIs
<1> QED BY <1>1, <1>3, <1>4 DEF JobOK

LibState == TokensInv /\ LibInv

LEMMA LibStateStep ==
  ASSUME LibState, [OfficeNext]_officeVars
  PROVE  LibState' /\ Change /\ Traffic
<1>1. TokensInv' /\ Change /\ Traffic
  BY TokensInvStep DEF LibState
<1>2. LibInv'
  BY <1>1, LibStep DEF LibState, TokensInv
<1> QED BY <1>1, <1>2 DEF LibState

LEMMA InitLibState == OfficeInit => LibState
BY TokensInvInit, InitLib DEF LibState

\* Requests of the library and of the desk are whole, an entry of the table has its file
\* and its place in the order, a file that no entry has is about to be removed or entered
\* (public_files.go:139, 347), and pages list each entry once and have unlocked no other
\* (PublicFiles.js:577).
THEOREM LibraryTypes == OfficeSpec => [](JobTypeOK /\ LibraryTypeOK)
<1>1. LibState => JobTypeOK /\ LibraryTypeOK
  BY LibraryTypesAre, JobTypesAre DEF LibState, TokensInv, OfficeInv
<1>2. LibState /\ [OfficeNext]_officeVars => LibState'
  BY LibStateStep
<1> QED BY <1>1, <1>2, InitLibState, PTL DEF OfficeSpec

-----------------------------------------------------------------------------
\* Registrations and telephone numbers: types, and what is there once only.

\* Somebody who has or had an account.
Past(w) ==
  \/ w \in Names
  \/ w \in Numbers \ {None} /\ w <= asked /\ \A kind \in Kinds, s \in Slots : ~Promise(kind, s, w)

NumbersOK ==
  /\ \A w \in DOMAIN phone : Past(w) /\ phone[w] \in Phones
  /\ \A v, w \in Accounts : HasPhone(v) /\ HasPhone(w) /\ phone[v] = phone[w] => v = w
  /\ \A r \in wanted : /\ r = [id |-> r.id, for |-> r.for, number |-> r.number]
                       /\ r.id \in Numbers /\ Past(r.for) /\ r.number \in Phones
  /\ \A q, r \in wanted : q.for = r.for => q = r
  /\ replaced \subseteq Persons

\* What a page shows or is about to.
OnList(row) ==
  (\E d \in Devices : row \in listed[d]) \/ (\E s \in Slots : JobAt(s, "desk", "done") /\ row \in job[s].reply.rows)

SignupsOK ==
  \A r \in signups : IsSignup(r) /\ r.id <= asked /\ \A q \in signups : q.id = r.id \/ q.name = r.name => q = r

\* A row shows the number of its registration, which stays.
ListedOK ==
  \A row : OnList(row) => /\ row.id \in Numbers
                          /\ row.kind = "signup" => row.id <= asked /\ \A r \in signups : r.id = row.id => r.number = row.number

ArgOK(s) ==
  LET j == job[s] IN
    /\ j.op = "register" => IsSignup(j.arg)
    /\ j.op = "phone" => j.arg.number \in Phones /\ j.arg.id \in Numbers /\ (j.step = "401" \/ j.tok \in Token)
    /\ j.op = "admit" => /\ j.arg.id \in Nat /\ j.arg.id <= asked
                         /\ \A r \in signups : r.id = j.arg.id => j.arg.number \in {r.number, NoPhone}
    /\ j.op = "assign" => j.arg.name \in Names /\ j.arg.number \in Phones \cup {NoPhone}

DeskJobsOK == \A s \in Slots : ArgOK(s)

\* The id of a registration that is to come is new.
FreshOK ==
  \A s \in Slots : JobAt(s, "register", "insert") =>
    /\ job[s].arg.id <= asked
    /\ \A r \in signups : r.id # job[s].arg.id
    /\ \A row : OnList(row) /\ row.kind = "signup" => row.id # job[s].arg.id
    /\ \A t \in Slots : job[t].op = "admit" => job[t].arg.id # job[s].arg.id
    /\ \A t \in Slots : JobAt(t, "register", "insert") /\ job[t].arg.id = job[s].arg.id => t = s

SignupsInv == SignupsOK /\ ListedOK /\ DeskJobsOK /\ FreshOK

LEMMA ApprovalsTypesAre ==
  ASSUME NumbersOK, SignupsInv
  PROVE  ApprovalsTypeOK
<1>1. \A w : Past(w) => w \in Persons
  BY DEF Past, Persons
<1>2. DOMAIN phone \subseteq Persons /\ \A w \in DOMAIN phone : phone[w] \in Phones
  BY <1>1 DEF NumbersOK
<1>3. \A w \in Accounts : HasPhone(w) => ~Taken(phone[w], w)
  BY DEF NumbersOK, Taken
<1>4. ASSUME NEW r \in wanted
      PROVE  r \in [id : Numbers, for : Persons, number : Phones] /\ Of(r.for) = {r}
  <2>1. r \in [id : Numbers, for : Persons, number : Phones]
    BY <1>1 DEF NumbersOK
  <2>2. Of(r.for) = {r}
    BY DEF NumbersOK, Of
  <2> QED BY <2>1, <2>2
<1>5. ASSUME NEW r \in signups
      PROVE  /\ r \in [id : Numbers, name : Names, pw : Passwords, bundle : Bundles, number : Phones \cup {NoPhone}]
             /\ {x \in signups : x.name = r.name} = {r}
  <2>1. IsSignup(r)
    BY DEF SignupsInv, SignupsOK
  <2>2. r \in [id : Numbers, name : Names, pw : Passwords, bundle : Bundles, number : Phones \cup {NoPhone}]
    BY <2>1 DEF IsSignup, SignupOf, SignupOK
  <2>3. {x \in signups : x.name = r.name} = {r}
    BY DEF SignupsInv, SignupsOK
  <2> QED BY <2>2, <2>3
<1>6. \A d \in Devices : \A row \in listed[d] : row.id \in Numbers
  BY DEF SignupsInv, ListedOK, OnList
<1>7. replaced \subseteq Persons
  BY DEF NumbersOK
<1> QED BY <1>2, <1>3, <1>4, <1>5, <1>6, <1>7 DEF ApprovalsTypeOK

LEMMA PastKept ==
  ASSUME OfficeInv, [OfficeNext]_officeVars, Traffic, NEW w, Past(w)
  PROVE  Past(w)'
<1>1. asked \in Nat /\ asked' \in Nat /\ asked <= asked' /\ Numbers \subseteq Nat
  BY AskedGrows, Constants
<1>2. CASE w \in Names
  BY <1>2 DEF Past
<1>3. CASE w \in Numbers \ {None} /\ w <= asked /\ \A kind \in Kinds, s \in Slots : ~Promise(kind, s, w)
  <2>1. w <= asked' /\ w # asked + 1
    BY <1>1, <1>3
  <2>2. \A kind \in Kinds, s \in Slots : ~Promise(kind, s, w)'
    BY <1>3, <2>1, PromisesFrom DEF NoMore, Grows
  <2> QED BY <1>3, <2>1, <2>2 DEF Past
<1> QED BY <1>2, <1>3 DEF Past

LEMMA AccountPast ==
  ASSUME OfficeInv, IdsOK, NEW w \in Accounts
  PROVE  Past(w) /\ w # None /\ w \in Persons
<1>1. PICK n \in Names : Exists(n) /\ w = user[n].who
  BY DEF Accounts
<1>2. WhoUsed(w) /\ w # None
  BY <1>1 DEF WhoUsed, IdsOK
<1>3. user[n] \in Row
  BY <1>1 DEF OfficeInv, AccountsInv, ServerOK, Exists
<1>4. w \in Persons
  BY <1>1, <1>3 DEF Row, Persons
<1>5. CASE w \in Numbers
  <2>1. w <= asked /\ \A kind \in Kinds, s \in Slots : ~Promise(kind, s, w)
    BY <1>2, <1>5 DEF IdsOK, PromisesOK
  <2> QED BY <1>2, <1>4, <1>5, <2>1 DEF Past
<1> QED BY <1>2, <1>4, <1>5 DEF Past, Persons

LEMMA AccountsFrom ==
  ASSUME OfficeInv, IdsOK, Change, NEW w \in Accounts'
  PROVE  w \in Accounts \/ ~Past(w)
<1>1. PICK k \in Names : Exists(k)' /\ w = user'[k].who
  BY DEF Accounts
<1>2. ASSUME NEW n \in Names, NEW row \in Row, Enrols(n, row), w = row.who
      PROVE  ~Past(w)
  <2>1. w \in Numbers
    BY <1>2, EnrolledId
  <2>2. PICK kind \in Kinds, s \in Slots : Promise(kind, s, w)
    BY <1>2 DEF Enrols, Kinds
  <2> QED BY <2>1, <2>2, Constants DEF Past
<1> QED BY <1>1, <1>2, WhoFrom DEF Accounts

\* The number that one of them has: nobody new has any.
LEMMA NumbersStay ==
  ASSUME OfficeInv, IdsOK, [OfficeNext]_officeVars, Change, Traffic, NumbersOK,
         UNCHANGED phone, wanted' \subseteq wanted, replaced' \subseteq Persons
  PROVE  NumbersOK'
<1>1. \A w : Past(w) => Past(w)'
  BY PastKept
<1>2. \A w \in DOMAIN phone' : Past(w)' /\ phone'[w] \in Phones
  BY <1>1 DEF NumbersOK
<1>3. \A v, w \in Accounts' : HasPhone(v)' /\ HasPhone(w)' /\ phone'[v] = phone'[w] => v = w
  <2>1. \A w \in Accounts' : HasPhone(w)' => w \in Accounts /\ HasPhone(w)
    BY AccountsFrom DEF NumbersOK, HasPhone
  <2> QED BY <2>1 DEF NumbersOK
<1>4. \A r \in wanted' : /\ r = [id |-> r.id, for |-> r.for, number |-> r.number]
                       /\ r.id \in Numbers /\ Past(r.for)' /\ r.number \in Phones
  BY <1>1 DEF NumbersOK
<1>5. \A q, r \in wanted' : q.for = r.for => q = r
  BY DEF NumbersOK
<1> QED BY <1>2, <1>3, <1>4, <1>5 DEF NumbersOK

-----------------------------------------------------------------------------
\* Registrations from the request to the decision.

\* A request goes on, or is none of those that name one.
Carries(t) ==
  job'[t].op \in {"register", "phone", "admit", "assign"} =>
    /\ job'[t].op = job[t].op /\ job'[t].arg = job[t].arg /\ job'[t].tok = job[t].tok
    /\ job[t].step = "401" => job'[t].step = "401"
    /\ job'[t].op = "register" /\ job'[t].step = "insert" => job[t].step = "insert"

NoneListed == \A row : OnList(row)' => OnList(row)

LEMMA DeskJobsStay ==
  ASSUME DeskJobsOK, NEW t \in Slots, Carries(t), asked \in Nat, asked' \in Nat, asked <= asked',
         \A r \in signups' : r \in signups \/ (job[t].op = "admit" => r.id # job[t].arg.id)
  PROVE  ArgOK(t)'
<1>1. PICK j : j = job'[t]
  OBVIOUS
<1>2. CASE j.op = "admit"
  <2>1. job[t].op = "admit" /\ j.arg = job[t].arg
    BY <1>1, <1>2 DEF Carries
  <2>2. /\ j.arg.id \in Nat /\ j.arg.id <= asked
        /\ \A r \in signups : r.id = j.arg.id => j.arg.number \in {r.number, NoPhone}
    BY <2>1 DEF DeskJobsOK, ArgOK
  <2>3. j.arg.id <= asked'
    BY <2>2
  <2>4. \A r \in signups' : r.id = j.arg.id => j.arg.number \in {r.number, NoPhone}
    BY <2>1, <2>2
  <2> QED BY <1>1, <1>2, <2>2, <2>3, <2>4 DEF ArgOK
<1>3. CASE j.op # "admit"
  BY <1>1, <1>3 DEF DeskJobsOK, ArgOK, Carries
<1> QED BY <1>2, <1>3

LEMMA SignupsStay ==
  ASSUME SignupsInv, asked \in Nat, asked' \in Nat, asked <= asked', NoneListed,
         \A t \in Slots : Carries(t), signups' \subseteq signups
  PROVE  SignupsInv'
<1>0. \A r \in signups : r.id \in Nat /\ r.id <= asked
  BY Constants DEF SignupsInv, SignupsOK, IsSignup
<1>1. SignupsOK'
  <2>1. \A r \in signups' : r.id <= asked'
    BY <1>0
  <2> QED BY <2>1 DEF SignupsInv, SignupsOK
<1>2. ListedOK'
  <2>1. \A row : OnList(row)' => row.id \in Numbers /\ row.id \in Nat
    BY Constants DEF NoneListed, SignupsInv, ListedOK
  <2>2. \A row : OnList(row)' /\ row.kind = "signup" => row.id <= asked'
    BY <2>1 DEF NoneListed, SignupsInv, ListedOK
  <2> QED BY <2>1, <2>2 DEF NoneListed, SignupsInv, ListedOK
<1>3. DeskJobsOK'
  BY DeskJobsStay DEF SignupsInv, DeskJobsOK
<1>4. FreshOK'
  <2> SUFFICES ASSUME NEW s \in Slots, JobAt(s, "register", "insert")'
               PROVE  /\ job'[s].arg.id <= asked'
                      /\ \A r \in signups' : r.id # job'[s].arg.id
                      /\ \A row : OnList(row)' /\ row.kind = "signup" => row.id # job'[s].arg.id
                      /\ \A t \in Slots : job'[t].op = "admit" => job'[t].arg.id # job'[s].arg.id
                      /\ \A t \in Slots : JobAt(t, "register", "insert")' /\ job'[t].arg.id = job'[s].arg.id => t = s
    BY DEF FreshOK
  <2>1. \A t \in Slots : JobAt(t, "register", "insert")' => JobAt(t, "register", "insert") /\ job'[t].arg = job[t].arg
    BY DEF JobAt, Carries
  <2>2. \A t \in Slots : job'[t].op = "admit" => job[t].op = "admit" /\ job'[t].arg = job[t].arg
    BY DEF Carries
  <2>3. job[s].arg.id \in Nat /\ job[s].arg.id <= asked
    <3>1. IsSignup(job[s].arg)
      BY <2>1 DEF SignupsInv, DeskJobsOK, ArgOK, JobAt
    <3> QED BY <2>1, <3>1, Constants DEF IsSignup, SignupsInv, FreshOK
  <2>4. job'[s].arg.id <= asked'
    BY <2>1, <2>3
  <2> QED BY <2>1, <2>2, <2>4 DEF SignupsInv, FreshOK, NoneListed
<1> QED BY <1>1, <1>2, <1>3, <1>4 DEF SignupsInv

LEMMA StaysCarries ==
  ASSUME \A t \in Slots : Stays(t), \A d \in Devices : listed'[d] \subseteq listed[d]
  PROVE  NoneListed /\ \A t \in Slots : Carries(t)
<1>1. \A t \in Slots : Carries(t)
  BY DEF Stays, Carries, DeskOps
<1>2. \A t \in Slots : JobAt(t, "desk", "done")' => JobAt(t, "desk", "done") /\ job'[t].reply = job[t].reply
  BY DEF Stays, JobAt, DeskOps
<1> QED BY <1>1, <1>2 DEF NoneListed, OnList

LEMMA AskSignups ==
  ASSUME JobsInv, SignupsInv, asked \in Nat, NEW s \in Slots, NEW j, DeskAsk(s, j), DeskArg(s, j), Device[s] \in Devices,
         asked' \in Numbers
  PROVE  SignupsInv'
<1>0. /\ job'[s] = j /\ \A t \in Slots \ {s} : job'[t] = job[t]
      /\ UNCHANGED <<signups, listed>> /\ asked' \in Nat /\ asked <= asked' /\ Numbers \subseteq Nat
      /\ (j.op = "desk" => j.step # "done")
  BY Constants DEF DeskAsk, JobsInv, approvalVars
<1>1. SignupsOK /\ ListedOK /\ DeskJobsOK /\ FreshOK
  BY DEF SignupsInv
<1>2. \A r \in signups : r.id \in Nat /\ r.id <= asked
  BY <1>0, <1>1 DEF SignupsOK, IsSignup
<1>3. \A row : OnList(row)' => OnList(row)
  <2>1. \A t \in Slots : JobAt(t, "desk", "done")' => JobAt(t, "desk", "done") /\ job'[t].reply = job[t].reply
    BY <1>0 DEF JobAt
  <2> QED BY <1>0, <2>1 DEF OnList
<1>4. \A row : OnList(row) /\ row.kind = "signup" => row.id \in Nat /\ row.id <= asked
  BY <1>0, <1>1 DEF ListedOK
<1>5. SignupsOK'
  <2>1. \A r \in signups' : r.id <= asked'
    BY <1>0, <1>2
  <2> QED BY <1>0, <1>1, <2>1 DEF SignupsOK
<1>6. ListedOK'
  <2>1. \A row : OnList(row)' /\ row.kind = "signup" => row.id <= asked'
    BY <1>0, <1>3, <1>4
  <2> QED BY <1>0, <1>1, <1>3, <2>1 DEF ListedOK
<1>7. \A t \in Slots : JobAt(t, "register", "insert") => job[t].arg.id \in Nat /\ job[t].arg.id <= asked
  BY <1>0, <1>1 DEF FreshOK, DeskJobsOK, ArgOK, IsSignup, JobAt
<1>8. \A t \in Slots : job[t].op = "admit" => job[t].arg.id \in Nat /\ job[t].arg.id <= asked
  BY <1>1 DEF DeskJobsOK, ArgOK
<1>9. j.op # "desk" => asked' = asked + 1
  BY DEF DeskAsk
<1>10. CASE j.op = "admit"
  <2>1. PICK row \in listed[Device[s]] : row.kind = "signup" /\ j.arg.id = row.id /\ j.arg.number \in {row.number, NoPhone}
    BY <1>10 DEF DeskArg
  <2>2. OnList(row)
    BY DEF OnList
  <2>3. row.id \in Nat /\ row.id <= asked /\ \A r \in signups : r.id = row.id => r.number = row.number
    BY <1>1, <1>4, <2>1, <2>2 DEF ListedOK
  <2>4. \A t \in Slots : JobAt(t, "register", "insert") => job[t].arg.id # row.id
    BY <1>1, <2>1, <2>2 DEF FreshOK
  <2>5. DeskJobsOK'
    <3> SUFFICES ASSUME NEW t \in Slots PROVE ArgOK(t)'
      BY DEF DeskJobsOK
    <3>1. CASE t = s
      <4>1. j.arg.id \in Nat /\ j.arg.id <= asked' /\ \A r \in signups' : r.id = j.arg.id => j.arg.number \in {r.number, NoPhone}
        BY <1>0, <2>1, <2>3
      <4> QED BY <1>0, <1>10, <3>1, <4>1 DEF ArgOK
    <3>2. CASE t # s
      <4>1. Carries(t)
        BY <1>0, <3>2 DEF Carries
      <4> QED BY <1>0, <1>1, <4>1, DeskJobsStay
    <3> QED BY <3>1, <3>2
  <2>6. \A t \in Slots : JobAt(t, "register", "insert")' => JobAt(t, "register", "insert") /\ t # s /\ job'[t] = job[t]
    BY <1>0, <1>10 DEF JobAt
  <2>7. FreshOK'
    <3> SUFFICES ASSUME NEW u \in Slots, JobAt(u, "register", "insert")'
                 PROVE  /\ job'[u].arg.id <= asked'
                        /\ \A r \in signups' : r.id # job'[u].arg.id
                        /\ \A x : OnList(x)' /\ x.kind = "signup" => x.id # job'[u].arg.id
                        /\ \A t \in Slots : job'[t].op = "admit" => job'[t].arg.id # job'[u].arg.id
                        /\ \A t \in Slots : JobAt(t, "register", "insert")' /\ job'[t].arg.id = job'[u].arg.id => t = u
      BY DEF FreshOK
    <3>1. JobAt(u, "register", "insert") /\ job'[u] = job[u] /\ job[u].arg.id # row.id
      BY <2>4, <2>6
    <3>2. job[u].arg.id <= asked'
      BY <1>0, <1>7, <3>1
    <3>3. \A t \in Slots : job'[t].op = "admit" => job'[t].arg.id # job[u].arg.id
      BY <1>0, <1>1, <2>1, <3>1 DEF FreshOK
    <3>4. \A t \in Slots : JobAt(t, "register", "insert")' /\ job'[t].arg.id = job[u].arg.id => t = u
      BY <1>1, <2>6, <3>1 DEF FreshOK
    <3> QED BY <1>0, <1>1, <1>3, <3>1, <3>2, <3>3, <3>4 DEF FreshOK
  <2> QED BY <1>5, <1>6, <2>5, <2>7 DEF SignupsInv
<1>11. CASE j.op # "admit"
  <2>1. DeskJobsOK'
    <3> SUFFICES ASSUME NEW t \in Slots PROVE ArgOK(t)'
      BY DEF DeskJobsOK
    <3>1. CASE t = s
      BY <1>0, <1>9, <1>11, <3>1 DEF DeskArg, ArgOK
    <3>2. CASE t # s
      <4>1. Carries(t)
        BY <1>0, <3>2 DEF Carries
      <4> QED BY <1>0, <1>1, <4>1, DeskJobsStay
    <3> QED BY <3>1, <3>2
  <2>2. \A t \in Slots : job'[t].op = "admit" => job[t].op = "admit" /\ t # s /\ job'[t] = job[t]
    BY <1>0, <1>11
  <2>3. FreshOK'
    <3> SUFFICES ASSUME NEW u \in Slots, JobAt(u, "register", "insert")'
                 PROVE  /\ job'[u].arg.id <= asked'
                        /\ \A r \in signups' : r.id # job'[u].arg.id
                        /\ \A x : OnList(x)' /\ x.kind = "signup" => x.id # job'[u].arg.id
                        /\ \A t \in Slots : job'[t].op = "admit" => job'[t].arg.id # job'[u].arg.id
                        /\ \A t \in Slots : JobAt(t, "register", "insert")' /\ job'[t].arg.id = job'[u].arg.id => t = u
      BY DEF FreshOK
    <3>1. CASE u = s
      <4>1. j.op = "register" /\ job'[u].arg.id = asked + 1 /\ asked' = asked + 1
        BY <1>0, <1>9, <3>1 DEF JobAt, DeskArg
      <4>2. \A x \in Nat : x <= asked => x # asked + 1
        BY <1>0
      <4>3. \A t \in Slots : JobAt(t, "register", "insert")' /\ job'[t].arg.id = asked + 1 => t = s
        BY <1>0, <1>7, <4>2 DEF JobAt
      <4>4. \A t \in Slots : job'[t].op = "admit" => job'[t].arg.id # asked + 1
        BY <1>8, <2>2, <4>2
      <4>5. \A r \in signups' : r.id # asked + 1
        BY <1>0, <1>2, <4>2
      <4>6. \A x : OnList(x)' /\ x.kind = "signup" => x.id # asked + 1
        BY <1>3, <1>4, <4>2
      <4>7. asked + 1 <= asked'
        BY <1>0, <4>1
      <4> QED BY <3>1, <4>1, <4>3, <4>4, <4>5, <4>6, <4>7
    <3>2. CASE u # s
      <4>1. JobAt(u, "register", "insert") /\ job'[u] = job[u]
        BY <1>0, <3>2 DEF JobAt
      <4>2. job[u].arg.id <= asked' /\ job[u].arg.id # asked + 1
        BY <1>0, <1>7, <4>1
      <4>3. \A t \in Slots : job'[t].op = "admit" => job'[t].arg.id # job[u].arg.id
        BY <1>1, <2>2, <4>1 DEF FreshOK
      <4>4. \A t \in Slots : JobAt(t, "register", "insert")' /\ job'[t].arg.id = job[u].arg.id => t = u
        <5> SUFFICES ASSUME NEW t \in Slots, JobAt(t, "register", "insert")', job'[t].arg.id = job[u].arg.id PROVE t = u
          OBVIOUS
        <5>1. t # s
          BY <1>0, <4>2 DEF DeskArg, JobAt
        <5> QED BY <1>0, <1>1, <4>1, <5>1 DEF FreshOK, JobAt
      <4> QED BY <1>0, <1>1, <1>3, <4>1, <4>2, <4>3, <4>4 DEF FreshOK
    <3> QED BY <3>1, <3>2
  <2> QED BY <1>5, <1>6, <2>1, <2>3 DEF SignupsInv
<1> QED BY <1>10, <1>11

-----------------------------------------------------------------------------
\* Each handler of the desk, for the registrations.

LEMMA GoesCarries ==
  ASSUME JobsInv, JobsOK, NEW s \in Slots, NEW step, JobGoes(s, step), job[s].step # "401", job[s].op # "desk",
         job[s].op = "register" => step # "insert", UNCHANGED listed
  PROVE  NoneListed /\ \A t \in Slots : Carries(t)
<1>1. Follows(s, step, job[s].reply)
  BY JobFollows
<1>2. /\ job'[s].op = job[s].op /\ job'[s].step = step /\ job'[s].tok = job[s].tok /\ job'[s].arg = job[s].arg
      /\ \A t \in Slots \ {s} : job'[t] = job[t]
  BY <1>1 DEF Follows
<1>3. \A t \in Slots : Carries(t)
  BY <1>2 DEF Carries
<1>4. \A t \in Slots : JobAt(t, "desk", "done")' => JobAt(t, "desk", "done") /\ job'[t].reply = job[t].reply
  BY <1>2 DEF JobAt
<1> QED BY <1>3, <1>4 DEF NoneListed, OnList

LEMMA InsertSignups ==
  ASSUME JobsInv, JobsOK, SignupsInv, asked \in Nat, UNCHANGED asked, NEW s \in Slots, RegisterInsert(s)
  PROVE  SignupsInv'
<1> DEFINE a == job[s].arg
<1>0. job[s].op = "register" /\ job[s].step = "insert" /\ UNCHANGED listed /\ JobAt(s, "register", "insert")
  BY DEF RegisterInsert, JobAt
<1>1. CASE JobGoes(s, "409") /\ UNCHANGED signups
  <2>1. PICK step : step = "409"
    OBVIOUS
  <2>2. NoneListed /\ \A t \in Slots : Carries(t)
    BY <1>0, <1>1, <2>1, GoesCarries
  <2> QED BY <1>1, <2>2, SignupsStay
<1>2. CASE {r \in signups : r.name = a.name} = {} /\ signups' = signups \cup {a} /\ JobGoes(s, "done")
  <2>1. PICK step : step = "done"
    OBVIOUS
  <2>2. NoneListed /\ \A t \in Slots : Carries(t)
    BY <1>0, <1>2, <2>1, GoesCarries
  <2>3. IsSignup(a) /\ a.id <= asked /\ \A r \in signups : r.id # a.id /\ r.name # a.name
    BY <1>0, <1>2 DEF SignupsInv, DeskJobsOK, ArgOK, FreshOK
  <2>4. SignupsOK'
    BY <1>2, <2>3 DEF SignupsInv, SignupsOK
  <2>5. ListedOK'
    <3>1. \A row : OnList(row) /\ row.kind = "signup" => row.id # a.id
      BY <1>0 DEF SignupsInv, FreshOK
    <3> QED BY <1>2, <2>2, <3>1 DEF SignupsInv, ListedOK, NoneListed
  <2>6. \A t \in Slots : job[t].op = "admit" => job[t].arg.id # a.id
    BY <1>0 DEF SignupsInv, FreshOK
  <2>7. DeskJobsOK'
    BY <1>2, <2>2, <2>6, DeskJobsStay DEF SignupsInv, DeskJobsOK
  <2>8. \A t \in Slots : JobAt(t, "register", "insert")' => t # s /\ JobAt(t, "register", "insert") /\ job'[t].arg = job[t].arg
    <3>1. Follows(s, step, job[s].reply)
      BY <1>2, <2>1, JobFollows
    <3>2. ~JobAt(s, "register", "insert")'
      BY <2>1, <3>1 DEF Follows, JobAt
    <3> QED BY <2>2, <3>2 DEF Carries, JobAt
  <2>9. \A t \in Slots : job'[t].op = "admit" => job[t].op = "admit" /\ job'[t].arg = job[t].arg
    BY <2>2 DEF Carries
  <2>10. FreshOK'
    <3> SUFFICES ASSUME NEW u \in Slots, JobAt(u, "register", "insert")'
                 PROVE  /\ job'[u].arg.id <= asked'
                        /\ \A r \in signups' : r.id # job'[u].arg.id
                        /\ \A x : OnList(x)' /\ x.kind = "signup" => x.id # job'[u].arg.id
                        /\ \A t \in Slots : job'[t].op = "admit" => job'[t].arg.id # job'[u].arg.id
                        /\ \A t \in Slots : JobAt(t, "register", "insert")' /\ job'[t].arg.id = job'[u].arg.id => t = u
      BY DEF FreshOK
    <3>1. u # s /\ JobAt(u, "register", "insert") /\ job'[u].arg = job[u].arg
      BY <2>8
    <3>2. a.id # job[u].arg.id
      BY <1>0, <3>1 DEF SignupsInv, FreshOK
    <3> QED BY <1>2, <2>2, <2>8, <2>9, <3>1, <3>2 DEF SignupsInv, FreshOK, NoneListed
  <2> QED BY <2>4, <2>5, <2>7, <2>10 DEF SignupsInv
<1> QED BY <1>1, <1>2 DEF RegisterInsert

LEMMA SelectSignups ==
  ASSUME JobsInv, JobsOK, NumbersOK, SignupsInv, asked \in Nat, UNCHANGED asked, NEW s \in Slots, DeskSelect(s)
  PROVE  SignupsInv'
<1>0. job[s].op = "desk" /\ job[s].step = "select" /\ UNCHANGED <<listed, signups>>
  BY DEF DeskSelect, JobAt, approvalVars
<1>1. PICK reply, step, rows : rows = PhoneRows \cup SignupRows /\ reply = [rows |-> rows] /\ step = "done"
  OBVIOUS
<1>2. Follows(s, step, reply)
  BY <1>1, JobReplies DEF DeskSelect
<1>3. /\ job'[s].op = "desk" /\ job'[s].reply.rows = rows /\ \A t \in Slots \ {s} : job'[t] = job[t]
  BY <1>0, <1>1, <1>2 DEF Follows
<1>4. \A t \in Slots : Carries(t)
  BY <1>3 DEF Carries
<1>5. \A row : OnList(row)' => OnList(row) \/ row \in PhoneRows \/ row \in SignupRows
  <2>1. \A t \in Slots : JobAt(t, "desk", "done")' => t = s \/ (JobAt(t, "desk", "done") /\ job'[t].reply = job[t].reply)
    BY <1>3 DEF JobAt
  <2> QED BY <1>0, <1>1, <1>3, <2>1 DEF OnList
<1>6. \A row \in PhoneRows : row.id \in Numbers /\ row.kind = "phone"
  BY DEF PhoneRows, NumbersOK
<1>7. \A row \in SignupRows : \E r \in signups : row.id = r.id /\ row.number = r.number
  BY DEF SignupRows
<1>8. \A row \in SignupRows : row.id \in Numbers /\ row.id <= asked /\ \A r \in signups : r.id = row.id => r.number = row.number
  BY <1>7 DEF SignupsInv, SignupsOK, IsSignup
<1>9. SignupsOK'
  BY <1>0 DEF SignupsInv, SignupsOK
<1>10. ListedOK'
  BY <1>0, <1>5, <1>6, <1>8 DEF SignupsInv, ListedOK
<1>11. DeskJobsOK'
  BY <1>0, <1>4, DeskJobsStay DEF SignupsInv, DeskJobsOK
<1>12. \A t \in Slots : JobAt(t, "register", "insert")' => JobAt(t, "register", "insert") /\ job'[t].arg = job[t].arg
  BY <1>4 DEF Carries, JobAt
<1>13. \A t \in Slots : job'[t].op = "admit" => job[t].op = "admit" /\ job'[t].arg = job[t].arg
  BY <1>4 DEF Carries
<1>14. FreshOK'
  <2> SUFFICES ASSUME NEW u \in Slots, JobAt(u, "register", "insert")'
               PROVE  /\ job'[u].arg.id <= asked'
                      /\ \A r \in signups' : r.id # job'[u].arg.id
                      /\ \A x : OnList(x)' /\ x.kind = "signup" => x.id # job'[u].arg.id
                      /\ \A t \in Slots : job'[t].op = "admit" => job'[t].arg.id # job'[u].arg.id
                      /\ \A t \in Slots : JobAt(t, "register", "insert")' /\ job'[t].arg.id = job'[u].arg.id => t = u
    BY DEF FreshOK
  <2>1. JobAt(u, "register", "insert") /\ job'[u].arg = job[u].arg
    BY <1>12
  <2>2. \A x : OnList(x)' /\ x.kind = "signup" => x.id # job[u].arg.id
    BY <1>5, <1>6, <1>7, <2>1 DEF SignupsInv, FreshOK
  <2> QED BY <1>0, <1>12, <1>13, <2>1, <2>2 DEF SignupsInv, FreshOK
<1> QED BY <1>9, <1>10, <1>11, <1>14 DEF SignupsInv

LEMMA HandlesSignups ==
  ASSUME JobsInv, JobsOK, NumbersOK, SignupsInv, asked \in Nat, UNCHANGED asked, NEW s \in Slots, DeskHandles(s)
  PROVE  SignupsInv'
<1>1. ASSUME NEW step, JobGoes(s, step), job[s].step # "401", job[s].op # "desk",
             job[s].op # "register", UNCHANGED listed, signups' \subseteq signups
      PROVE  SignupsInv'
  <2>1. NoneListed /\ \A t \in Slots : Carries(t)
    BY <1>1, GoesCarries
  <2> QED BY <1>1, <2>1, SignupsStay
<1>2. CASE PhoneCheck(s)
  BY <1>1, <1>2 DEF PhoneCheck, JobAt, approvalVars
<1>3. CASE PhoneInsert(s)
  BY <1>1, <1>3 DEF PhoneInsert, JobAt
<1>4. CASE CancelDelete(s)
  BY <1>1, <1>4 DEF CancelDelete, JobAt
<1>5. CASE RemoveUpdate(s)
  BY <1>1, <1>5 DEF RemoveUpdate, JobAt
<1>6. CASE VerifyUpdate(s)
  BY <1>1, <1>6 DEF VerifyUpdate, JobAt
<1>7. CASE AdmitInsert(s)
  <2>1. signups' \subseteq signups /\ UNCHANGED listed /\ job[s].op = "admit" /\ job[s].step = "update"
    BY <1>7 DEF AdmitInsert, JobAt
  <2>2. \E step : JobGoes(s, step)
    BY <1>7 DEF AdmitInsert
  <2> QED BY <1>1, <2>1, <2>2
<1>8. CASE RefuseUpdate(s)
  BY <1>1, <1>8 DEF RefuseUpdate, JobAt
<1>9. CASE AssignUpdate(s)
  BY <1>1, <1>9 DEF AssignUpdate, JobAt
<1> QED BY <1>2, <1>3, <1>4, <1>5, <1>6, <1>7, <1>8, <1>9, InsertSignups, SelectSignups DEF DeskHandles

LEMMA AnswerSignups ==
  ASSUME JobsInv, PagesOK, SignupsInv, asked \in Nat, NEW s \in Slots, DeskAnswer(s), Device[s] \in Devices
  PROVE  SignupsInv'
<1>0. UNCHANGED <<asked, signups>>
  BY DEF DeskAnswer
<1>1. Others(s) /\ job'[s].op \in {"none", "desk"} /\ (job'[s].op = "desk" => job'[s].step # "done")
  BY DeskAnswerIs
<1>2. \A t \in Slots : Carries(t)
  BY <1>1 DEF Others, Stays, Carries, DeskOps
<1>3. \A t \in Slots : JobAt(t, "desk", "done")' => JobAt(t, "desk", "done") /\ job'[t].reply = job[t].reply
  BY <1>1 DEF Others, Stays, JobAt, DeskOps
<1>4. \A d \in Devices : \A row \in listed'[d] : OnList(row)
  <2> TAKE d \in Devices
  <2>1. listed' = [listed EXCEPT ![Device[s]] = IF Device[s] \notin home' THEN {}
                  ELSE IF job[s].op = "desk" /\ job[s].step = "done" /\ job[s].here THEN job[s].reply.rows ELSE @]
        /\ listed = [e \in Devices |-> listed[e]]
    BY DEF DeskAnswer, PagesOK
  <2>2. listed'[d] = listed[d] \/ listed'[d] = {} \/ (JobAt(s, "desk", "done") /\ listed'[d] = job[s].reply.rows)
    BY <2>1 DEF JobAt
  <2> QED BY <2>2 DEF OnList
<1>5. NoneListed
  BY <1>3, <1>4 DEF NoneListed, OnList
<1> QED BY <1>0, <1>2, <1>5, SignupsStay

LEMMA SignupsStep ==
  ASSUME OfficeInv, OfficeInv', JobsOK, PagesOK, NumbersOK, SignupsInv, Traffic, [OfficeNext]_officeVars
  PROVE  SignupsInv'
<1>0. asked \in Nat /\ asked' \in Nat /\ asked <= asked' /\ JobsInv /\ AccountsInv /\ asked' \in Numbers
  BY AskedGrows DEF OfficeInv, AccountsInv, ServerOK
<1>1. ASSUME \A t \in Slots : Stays(t), \A d \in Devices : listed'[d] \subseteq listed[d], UNCHANGED signups
      PROVE  SignupsInv'
  BY <1>0, <1>1, StaysCarries, SignupsStay
<1>2. LeavesDesk => UNCHANGED signups /\ \A d \in Devices : listed'[d] \subseteq listed[d]
  BY DEF LeavesDesk
<1>3. CASE SignInNext /\ job' = [s \in Slots |-> Left(s)] /\ LeavesDesk
  BY <1>0, <1>1, <1>2, <1>3, LeftStays
<1>4. CASE LibraryStep /\ LeavesDesk
  BY <1>0, <1>1, <1>2, <1>4, LibraryStays
<1>5. CASE UNCHANGED officeVars
  <2>1. UNCHANGED <<job, signups, listed>>
    BY <1>5 DEF officeVars, approvalVars
  <2>2. \A t \in Slots : Stays(t)
    BY <1>0, <2>1 DEF Stays, JobsInv
  <2> QED BY <1>1, <2>1, <2>2
<1>6. CASE ApprovalsStep
  <2>1. ASSUME NEW s \in Slots, DeskAsks(s) PROVE SignupsInv'
    <3>1. PICK j : DeskAsk(s, j) /\ DeskArg(s, j)
      BY <1>0, <2>1, DeskAskOK
    <3>2. Device[s] \in Devices
      BY Constants
    <3> QED BY <1>0, <3>1, <3>2, AskSignups
  <2>2. ASSUME NEW s \in Slots, DeskHandles(s), UNCHANGED <<asked, pageVars>> PROVE SignupsInv'
    BY <1>0, <2>2, HandlesSignups
  <2>3. ASSUME NEW s \in Slots, DeskAnswer(s) PROVE SignupsInv'
    <3>1. Device[s] \in Devices
      BY Constants
    <3> QED BY <1>0, <2>3, <3>1, AnswerSignups
  <2> QED BY <1>6, <2>1, <2>2, <2>3 DEF ApprovalsStep
<1> QED BY <1>3, <1>4, <1>5, <1>6 DEF OfficeNext

-----------------------------------------------------------------------------
\* Each handler of the desk, for the numbers.

StepOK == OfficeInv /\ IdsOK /\ Change /\ Traffic /\ [OfficeNext]_officeVars

\* A number is granted to somebody when no other account has it, or taken away.
LEMMA GrantNumbers ==
  ASSUME StepOK, NumbersOK, NEW w, NEW number, phone' = WithPhone(w, number),
         number = NoPhone \/ (number \in Phones /\ Past(w)' /\ ~Taken(number, w))
  PROVE  /\ \A v \in DOMAIN phone' : Past(v)' /\ phone'[v] \in Phones
         /\ \A u, v \in Accounts' : HasPhone(u)' /\ HasPhone(v)' /\ phone'[u] = phone'[v] => u = v
<1>1. \A v : Past(v) => Past(v)'
  BY PastKept DEF StepOK
<1>2. \A v \in DOMAIN phone' : \/ v = w /\ phone'[v] = number /\ number # NoPhone
                               \/ v # w /\ v \in DOMAIN phone /\ phone'[v] = phone[v]
  BY WithPhoneIs
<1>3. \A v \in DOMAIN phone' : Past(v)' /\ phone'[v] \in Phones
  BY <1>1, <1>2 DEF NumbersOK
<1>4. \A v \in Accounts' : v \in DOMAIN phone => v \in Accounts
  BY AccountsFrom DEF StepOK, NumbersOK
<1>5. ASSUME NEW u \in Accounts', NEW v \in Accounts', u \in DOMAIN phone', v \in DOMAIN phone', phone'[u] = phone'[v]
      PROVE  u = v
  <2>1. CASE u = w \/ v = w
    <3>1. \A x \in Accounts \ {w} : x \in DOMAIN phone /\ number # NoPhone => phone[x] # number
      BY <1>2, <2>1 DEF Taken, HasPhone
    <3> QED BY <1>2, <1>4, <1>5, <2>1, <3>1
  <2>2. CASE u # w /\ v # w
    BY <1>2, <1>4, <1>5, <2>2 DEF NumbersOK, HasPhone
  <2> QED BY <2>1, <2>2
<1> QED BY <1>3, <1>5 DEF HasPhone

\* What is pending is wanted by those who were there.
LEMMA KeptWanted ==
  ASSUME StepOK, NumbersOK, wanted' \subseteq wanted
  PROVE  /\ \A r \in wanted' : /\ r = [id |-> r.id, for |-> r.for, number |-> r.number]
                               /\ r.id \in Numbers /\ Past(r.for)' /\ r.number \in Phones
         /\ \A q, r \in wanted' : q.for = r.for => q = r
<1>1. \A v : Past(v) => Past(v)'
  BY PastKept DEF StepOK
<1> QED BY <1>1 DEF NumbersOK

LEMMA AddedWanted ==
  ASSUME StepOK, NumbersOK, NEW x, x = [id |-> x.id, for |-> x.for, number |-> x.number], x.id \in Numbers,
         Past(x.for)', x.number \in Phones, \A r \in wanted : r.for # x.for, wanted' = wanted \cup {x}
  PROVE  /\ \A r \in wanted' : /\ r = [id |-> r.id, for |-> r.for, number |-> r.number]
                               /\ r.id \in Numbers /\ Past(r.for)' /\ r.number \in Phones
         /\ \A q, r \in wanted' : q.for = r.for => q = r
<1>1. \A v : Past(v) => Past(v)'
  BY PastKept DEF StepOK
<1> QED BY <1>1 DEF NumbersOK

LEMMA PhoneInsertNumbers ==
  ASSUME StepOK, NumbersOK, DeskJobsOK, NEW s \in Slots, PhoneInsert(s)
  PROVE  NumbersOK'
<1>a. PICK w, a : w = Who(job[s].tok) /\ a = job[s].arg
  OBVIOUS
<1>0. /\ a.number \in Phones /\ a.id \in Numbers /\ job[s].tok \in Token /\ UNCHANGED phone
  BY <1>a DEF PhoneInsert, JobAt, DeskJobsOK, ArgOK
<1>1. CASE UNCHANGED <<wanted, replaced>>
  <2>1. wanted' \subseteq wanted /\ replaced' \subseteq Persons
    BY <1>1 DEF NumbersOK
  <2> QED BY <1>0, <2>1, NumbersStay DEF StepOK
<1>2. ASSUME w # None,
             wanted' = IF Of(w) = {} THEN wanted \cup {[id |-> a.id, for |-> w, number |-> a.number]}
                       ELSE {IF r.for = w THEN [r EXCEPT !.number = a.number] ELSE r : r \in wanted},
             replaced' = IF \E r \in Of(w) : OnDesk(r.id) THEN replaced \cup {w} ELSE replaced
      PROVE  NumbersOK'
  <2>1. w \in Accounts
    <3>1. job[s].tok.name \in Names
      BY <1>0 DEF Token
    <3>2. Exists(job[s].tok.name)
      BY <1>2, <1>a DEF Who, Exists, Nobody
    <3> QED BY <1>a, <3>1, <3>2 DEF Who, Accounts
  <2>2. Past(w) /\ w \in Persons
    BY <2>1, AccountPast DEF StepOK
  <2>3. Past(w)'
    BY <2>2, PastKept DEF StepOK
  <2>4. replaced' \subseteq Persons
    BY <1>2, <2>2 DEF NumbersOK
  <2>5. /\ \A v \in DOMAIN phone' : Past(v)' /\ phone'[v] \in Phones
        /\ \A u, v \in Accounts' : HasPhone(u)' /\ HasPhone(v)' /\ phone'[u] = phone'[v] => u = v
    <3>1. \A v : Past(v) => Past(v)'
      BY PastKept DEF StepOK
    <3>2. \A v \in DOMAIN phone' : Past(v)' /\ phone'[v] \in Phones
      BY <1>0, <3>1 DEF NumbersOK
    <3>3. \A v \in Accounts' : v \in DOMAIN phone => v \in Accounts
      BY AccountsFrom DEF StepOK, NumbersOK
    <3> QED BY <1>0, <3>2, <3>3 DEF NumbersOK, HasPhone
  <2>6. CASE Of(w) = {}
    <3>1. PICK x : x = [id |-> a.id, for |-> w, number |-> a.number]
      OBVIOUS
    <3>2. x.id = a.id /\ x.for = w /\ x.number = a.number /\ x = [id |-> x.id, for |-> x.for, number |-> x.number]
      BY <3>1
    <3>3. \A r \in wanted : r.for # x.for
      BY <2>6, <3>2 DEF Of
    <3>4. wanted' = wanted \cup {x}
      BY <1>2, <2>6, <3>1
    <3>5. x.id \in Numbers /\ Past(x.for)' /\ x.number \in Phones
      BY <1>0, <2>3, <3>2
    <3>6. /\ \A r \in wanted' : /\ r = [id |-> r.id, for |-> r.for, number |-> r.number]
                               /\ r.id \in Numbers /\ Past(r.for)' /\ r.number \in Phones
          /\ \A q, r \in wanted' : q.for = r.for => q = r
      BY <3>2, <3>3, <3>4, <3>5, AddedWanted
    <3> QED BY <2>4, <2>5, <3>6 DEF NumbersOK
  <2>7. CASE Of(w) # {}
    <3>1. PICK number : number = a.number
      OBVIOUS
    <3>2. wanted' = {IF r.for = w THEN WithNumber(r, number) ELSE r : r \in wanted}
      BY <1>2, <2>7, <3>1 DEF WithNumber
    <3>3. \A r \in wanted : /\ WithNumber(r, number) = [id |-> r.id, for |-> r.for, number |-> number]
      BY WithNumberIs DEF NumbersOK
    <3>4. \A q \in wanted' : \E r \in wanted : /\ q.for = r.for /\ q.id = r.id /\ q.number \in {r.number, number}
                                               /\ q = [id |-> q.id, for |-> q.for, number |-> q.number]
                                               /\ q = IF r.for = w THEN WithNumber(r, number) ELSE r
      <4> TAKE q \in wanted'
      <4>1. PICK r \in wanted : q = IF r.for = w THEN WithNumber(r, number) ELSE r
        BY <3>2
      <4>2. CASE r.for = w
        <5>1. q = [id |-> r.id, for |-> r.for, number |-> number]
          BY <3>3, <4>1, <4>2
        <5>2. q.for = r.for /\ q.id = r.id /\ q.number = number /\ q = [id |-> q.id, for |-> q.for, number |-> q.number]
          BY <5>1
        <5> QED BY <4>1, <5>2
      <4>3. CASE r.for # w
        <5>1. r = [id |-> r.id, for |-> r.for, number |-> r.number]
          BY DEF NumbersOK
        <5>2. q = r
          BY <4>1, <4>3
        <5> QED BY <4>1, <5>1, <5>2
      <4> QED BY <4>2, <4>3
    <3>5. \A v : Past(v) => Past(v)'
      BY PastKept DEF StepOK
    <3>6. \A r \in wanted' : /\ r = [id |-> r.id, for |-> r.for, number |-> r.number]
                             /\ r.id \in Numbers /\ Past(r.for)' /\ r.number \in Phones
      BY <1>0, <3>1, <3>4, <3>5 DEF NumbersOK
    <3>7. \A p, q \in wanted' : p.for = q.for => p = q
      BY <3>4 DEF NumbersOK
    <3> QED BY <2>4, <2>5, <3>6, <3>7 DEF NumbersOK
  <2> QED BY <2>6, <2>7
<1> QED BY <1>a, <1>1, <1>2 DEF PhoneInsert

LEMMA VerifyNumbers ==
  ASSUME StepOK, NumbersOK, NEW s \in Slots, VerifyUpdate(s)
  PROVE  NumbersOK'
<1>0. UNCHANGED replaced
  BY DEF VerifyUpdate
<1>1. CASE UNCHANGED <<phone, wanted>>
  <2>1. wanted' \subseteq wanted /\ replaced' \subseteq Persons
    BY <1>0, <1>1 DEF NumbersOK
  <2> QED BY <1>1, <2>1, NumbersStay DEF StepOK
<1>2. ASSUME NEW r \in wanted, r.for \in Accounts, ~Taken(r.number, r.for),
             phone' = WithPhone(r.for, r.number), wanted' = wanted \ {r}
      PROVE  NumbersOK'
  <2>1. Past(r.for)' /\ r.number \in Phones
    BY <1>2, PastKept DEF NumbersOK, StepOK
  <2>2. PICK w, number : w = r.for /\ number = r.number
    OBVIOUS
  <2>3. phone' = WithPhone(w, number) /\ number \in Phones /\ Past(w)' /\ ~Taken(number, w)
    BY <1>2, <2>1, <2>2
  <2>4. /\ \A v \in DOMAIN phone' : Past(v)' /\ phone'[v] \in Phones
        /\ \A u, v \in Accounts' : HasPhone(u)' /\ HasPhone(v)' /\ phone'[u] = phone'[v] => u = v
    BY <2>3, GrantNumbers
  <2>5. /\ \A q \in wanted' : /\ q = [id |-> q.id, for |-> q.for, number |-> q.number]
                               /\ q.id \in Numbers /\ Past(q.for)' /\ q.number \in Phones
         /\ \A p, x \in wanted' : p.for = x.for => p = x
    BY <1>2, KeptWanted
  <2> QED BY <1>0, <2>4, <2>5 DEF NumbersOK
<1> QED BY <1>1, <1>2 DEF VerifyUpdate

LEMMA AdmitNumbers ==
  ASSUME StepOK, NumbersOK, SignupsInv, NEW s \in Slots, AdmitInsert(s), UNCHANGED asked
  PROVE  NumbersOK'
<1>a. PICK a : a = job[s].arg
  OBVIOUS
<1>0. UNCHANGED replaced
  BY DEF AdmitInsert
<1>1. CASE UNCHANGED <<phone, wanted>>
  <2>1. wanted' \subseteq wanted /\ replaced' \subseteq Persons
    BY <1>0, <1>1 DEF NumbersOK
  <2> QED BY <1>1, <2>1, NumbersStay DEF StepOK
<1>2. ASSUME NEW r \in signups, r.id = a.id, ~Taken(a.number, None), JobGoes(s, "done"),
             phone' = WithPhone(a.who, a.number),
             wanted' = IF r.number = a.number THEN wanted
                       ELSE wanted \cup {[id |-> a.who, for |-> a.who, number |-> r.number]}
      PROVE  NumbersOK'
  <2>1. JobAt(s, "admit", "update") /\ a.who \in Numbers \ {None} /\ a.number \in {r.number, NoPhone}
        /\ r.number \in Phones \cup {NoPhone}
    BY <1>2, <1>a DEF AdmitInsert, JobAt, StepOK, OfficeInv, JobsInv, SignupsInv, DeskJobsOK, ArgOK, SignupsOK, IsSignup
  <2>2. Promise("admit", s, a.who)
    BY <1>a, <2>1 DEF Promise
  <2>3. a.who <= asked /\ \A other \in Kinds, u \in Slots : Promise(other, u, a.who) => other = "admit" /\ u = s
    BY <2>1, <2>2 DEF StepOK, IdsOK, PromisesOK, Kinds
  <2>4. ~Promise("admit", s, a.who)'
    <3>1. job'[s].step = "done"
      BY <1>2, JobGoesProceeds DEF Proceeds, StepOK, OfficeInv
    <3> QED BY <3>1 DEF Promise, JobAt
  <2>5. \A kind \in Kinds, u \in Slots : ~Promise(kind, u, a.who)'
    <3>1. asked \in Nat
      BY AskedGrows DEF StepOK
    <3>2. NoMore
      BY <3>1, PromisesFrom DEF Grows, StepOK
    <3> QED BY <2>3, <2>4, <3>2 DEF NoMore
  <2>6. Past(a.who)'
    BY <2>1, <2>3, <2>5 DEF Past
  <2>7. a.number = NoPhone \/ (a.number \in Phones /\ Past(a.who)' /\ ~Taken(a.number, a.who))
    <3>1. \A v \in Accounts : v # None
      BY AccountPast DEF StepOK
    <3>2. ~Taken(a.number, a.who)
      BY <1>2, <3>1 DEF Taken
    <3> QED BY <2>1, <2>6, <3>2
  <2>8. /\ \A v \in DOMAIN phone' : Past(v)' /\ phone'[v] \in Phones
        /\ \A u, v \in Accounts' : HasPhone(u)' /\ HasPhone(v)' /\ phone'[u] = phone'[v] => u = v
    <3>1. PICK w, number : w = a.who /\ number = a.number
      OBVIOUS
    <3>2. phone' = WithPhone(w, number)
      BY <1>2, <3>1
    <3>3. number = NoPhone \/ (number \in Phones /\ Past(w)' /\ ~Taken(number, w))
      BY <2>7, <3>1
    <3> QED BY <3>2, <3>3, GrantNumbers
  <2>9. /\ \A q \in wanted' : /\ q = [id |-> q.id, for |-> q.for, number |-> q.number]
                               /\ q.id \in Numbers /\ Past(q.for)' /\ q.number \in Phones
         /\ \A p, x \in wanted' : p.for = x.for => p = x
    <3>1. CASE r.number = a.number
      <4>1. wanted' \subseteq wanted
        BY <1>2, <3>1
      <4> QED BY <4>1, KeptWanted
    <3>2. CASE r.number # a.number
      <4>1. PICK x : x = [id |-> a.who, for |-> a.who, number |-> r.number]
        OBVIOUS
      <4>2. x.id = a.who /\ x.for = a.who /\ x.number = r.number /\ x = [id |-> x.id, for |-> x.for, number |-> x.number]
        BY <4>1
      <4>3. wanted' = wanted \cup {x} /\ x.number \in Phones /\ x.id \in Numbers /\ Past(x.for)'
        BY <1>2, <2>1, <2>6, <3>2, <4>1, <4>2
      <4>4. \A q \in wanted : q.for # x.for
        <5>1. ~Past(a.who)
          <6>1. a.who \notin Names
            BY <2>1, Constants
          <6>2. \E kind \in Kinds, u \in Slots : Promise(kind, u, a.who)
            BY <2>2 DEF Kinds
          <6> QED BY <6>1, <6>2 DEF Past
        <5> QED BY <4>2, <5>1 DEF NumbersOK
      <4> QED BY <4>2, <4>3, <4>4, AddedWanted
    <3> QED BY <3>1, <3>2
  <2> QED BY <1>0, <2>8, <2>9 DEF NumbersOK
<1> QED BY <1>a, <1>1, <1>2 DEF AdmitInsert

LEMMA AssignNumbers ==
  ASSUME StepOK, NumbersOK, DeskJobsOK, NEW s \in Slots, AssignUpdate(s)
  PROVE  NumbersOK'
<1>b. PICK a, w : a = job[s].arg /\ w = user[a.name].who
  OBVIOUS
<1>0. UNCHANGED <<wanted, replaced>> /\ a.name \in Names /\ a.number \in Phones \cup {NoPhone}
  BY <1>b DEF AssignUpdate, JobAt, DeskJobsOK, ArgOK
<1>a. wanted' \subseteq wanted /\ replaced' \subseteq Persons
  BY <1>0 DEF NumbersOK
<1>1. CASE UNCHANGED phone
  BY <1>a, <1>1, NumbersStay DEF StepOK
<1>2. CASE w # None /\ ~Taken(a.number, w) /\ phone' = WithPhone(w, a.number)
  <2>1. w \in Accounts
    <3>1. Exists(a.name)
      BY <1>2, <1>b DEF Exists, Nobody
    <3> QED BY <1>0, <1>b, <3>1 DEF Accounts
  <2>2. Past(w)'
    BY <2>1, AccountPast, PastKept DEF StepOK
  <2>3. PICK v, number : v = w /\ number = a.number
    OBVIOUS
  <2>4. phone' = WithPhone(v, number) /\ (number = NoPhone \/ (number \in Phones /\ Past(v)' /\ ~Taken(number, v)))
    BY <1>0, <1>2, <2>2, <2>3
  <2>5. /\ \A x \in DOMAIN phone' : Past(x)' /\ phone'[x] \in Phones
        /\ \A u, x \in Accounts' : HasPhone(u)' /\ HasPhone(x)' /\ phone'[u] = phone'[x] => u = x
    BY <2>4, GrantNumbers
  <2>6. /\ \A q \in wanted' : /\ q = [id |-> q.id, for |-> q.for, number |-> q.number]
                               /\ q.id \in Numbers /\ Past(q.for)' /\ q.number \in Phones
         /\ \A p, x \in wanted' : p.for = x.for => p = x
    BY <1>a, KeptWanted
  <2> QED BY <1>a, <2>5, <2>6 DEF NumbersOK
<1> QED BY <1>b, <1>1, <1>2 DEF AssignUpdate

LEMMA NumbersStep ==
  ASSUME StepOK, NumbersOK, SignupsInv
  PROVE  NumbersOK'
<1>0. NumbersOK /\ DeskJobsOK /\ replaced \subseteq Persons
  BY DEF SignupsInv, NumbersOK
<1>1. ASSUME UNCHANGED <<phone, replaced>>, wanted' \subseteq wanted PROVE NumbersOK'
  BY <1>0, <1>1, NumbersStay DEF StepOK
<1>2. ASSUME NEW s \in Slots, DeskHandles(s), UNCHANGED asked PROVE NumbersOK'
  <2>1. CASE RegisterInsert(s) \/ PhoneCheck(s) \/ DeskSelect(s)
    BY <1>1, <2>1 DEF RegisterInsert, PhoneCheck, DeskSelect, approvalVars
  <2>2. CASE CancelDelete(s) \/ RefuseUpdate(s)
    BY <1>1, <2>2 DEF CancelDelete, RefuseUpdate
  <2>3. CASE RemoveUpdate(s)
    <3>1. PICK w, number : w = Who(job[s].tok) /\ number = NoPhone
      OBVIOUS
    <3>2. phone' = WithPhone(w, number) /\ UNCHANGED <<wanted, replaced>>
      BY <2>3, <3>1 DEF RemoveUpdate
    <3>3. /\ \A v \in DOMAIN phone' : Past(v)' /\ phone'[v] \in Phones
          /\ \A u, v \in Accounts' : HasPhone(u)' /\ HasPhone(v)' /\ phone'[u] = phone'[v] => u = v
      BY <3>1, <3>2, GrantNumbers
    <3>4. /\ \A q \in wanted' : /\ q = [id |-> q.id, for |-> q.for, number |-> q.number]
                               /\ q.id \in Numbers /\ Past(q.for)' /\ q.number \in Phones
          /\ \A p, x \in wanted' : p.for = x.for => p = x
      <4>1. wanted' \subseteq wanted
        BY <3>2
      <4> QED BY <4>1, KeptWanted
    <3> QED BY <1>0, <3>2, <3>3, <3>4 DEF NumbersOK
  <2> QED BY <1>0, <1>2, <2>1, <2>2, <2>3, PhoneInsertNumbers, VerifyNumbers, AdmitNumbers, AssignNumbers DEF DeskHandles
<1>3. CASE ApprovalsStep
  <2>1. ASSUME NEW s \in Slots, DeskAsks(s) PROVE NumbersOK'
    <3>1. PICK j : DeskAsk(s, j)
      BY <2>1, DeskAsksIs DEF StepOK, OfficeInv
    <3>2. UNCHANGED <<phone, wanted, replaced>>
      BY <3>1 DEF DeskAsk, approvalVars
    <3> QED BY <1>1, <3>2
  <2>2. ASSUME NEW s \in Slots, DeskAnswer(s) PROVE NumbersOK'
    BY <1>1, <2>2 DEF DeskAnswer
  <2> QED BY <1>2, <1>3, <2>1, <2>2 DEF ApprovalsStep
<1>4. CASE LeavesDesk
  BY <1>1, <1>4 DEF LeavesDesk
<1>5. CASE UNCHANGED officeVars
  BY <1>1, <1>5 DEF officeVars, approvalVars
<1> QED BY <1>3, <1>4, <1>5 DEF StepOK, OfficeNext

-----------------------------------------------------------------------------
\* All of it.

OfficeState == LibState /\ DeskInv /\ PagesOK /\ NumbersOK /\ SignupsInv

LEMMA InitApprovals == OfficeInit => NumbersOK /\ SignupsInv
<1> SUFFICES ASSUME OfficeInit PROVE NumbersOK /\ SignupsInv
  OBVIOUS
<1>1. /\ phone = << >> /\ wanted = {} /\ signups = {} /\ replaced = {} /\ listed = [d \in Devices |-> {}]
      /\ \A s \in Slots : job[s] = NoJob
  BY DEF OfficeInit, ApprovalsInit
<1>2. \A s \in Slots : job[s].op = "none"
  BY <1>1, NoJobIs
<1>3. DOMAIN phone = {}
  BY <1>1
<1>4. NumbersOK
  BY <1>1, <1>3 DEF NumbersOK, HasPhone
<1>5. \A row : ~OnList(row)
  BY <1>1, <1>2 DEF OnList, JobAt
<1>6. SignupsInv
  BY <1>1, <1>2, <1>5 DEF SignupsInv, SignupsOK, ListedOK, DeskJobsOK, ArgOK, FreshOK, JobAt
<1> QED BY <1>4, <1>6

LEMMA OfficeStateStep ==
  ASSUME OfficeState, [OfficeNext]_officeVars
  PROVE  OfficeState'
<1>1. LibState' /\ Change /\ Traffic
  BY LibStateStep DEF OfficeState
<1>2. OfficeInv /\ OfficeInv' /\ IdsOK /\ JobsOK
  BY <1>1 DEF OfficeState, LibState, TokensInv, LibInv
<1>3. StepOK
  BY <1>1, <1>2 DEF StepOK
<1>4. NumbersOK'
  BY <1>3, NumbersStep DEF OfficeState
<1>5. SignupsInv'
  BY <1>1, <1>2, SignupsStep DEF OfficeState
<1>6. (DeskInv /\ PagesOK)'
  BY <1>1, <1>2, DeskInvStep DEF OfficeState
<1> QED BY <1>1, <1>4, <1>5, <1>6 DEF OfficeState

LEMMA StateTypes == OfficeState => OfficeTypeOK
<1> SUFFICES ASSUME OfficeState PROVE OfficeTypeOK
  OBVIOUS
<1>1. SignInTypeOK
  BY SignInTypes DEF OfficeState, LibState, TokensInv
<1>2. JobTypeOK /\ LibraryTypeOK
  BY LibraryTypesAre, JobTypesAre DEF OfficeState, LibState, TokensInv, OfficeInv
<1>3. ApprovalsTypeOK
  BY ApprovalsTypesAre DEF OfficeState
<1> QED BY <1>1, <1>2, <1>3 DEF OfficeTypeOK

\* All variables of Office keep their types, whatever requests of accounts, of the desk and
\* of the library overlap: nobody has two registrations or pending numbers, no number has
\* two accounts (phone.go:65, 85), and the library is as above.
THEOREM OfficeTypeOKTheorem == OfficeSpec => []OfficeTypeOK
<1>1. OfficeInit => OfficeState
  BY InitLibState, InitDesk, InitApprovals DEF OfficeState
<1>2. OfficeState /\ [OfficeNext]_officeVars => OfficeState'
  BY OfficeStateStep
<1> QED BY <1>1, <1>2, StateTypes, PTL DEF OfficeSpec
===============================================================================
