------------------------------- MODULE MCOffice -------------------------------
\* Three names, two devices; the first can wait for two answers at once.
EXTENDS Office, TLC

CONSTANTS root, ann, eve, w1, w2, p1, p2, d1, d2, s1, s2, s3

CONSTANT MaxActs   \* bound: what a user does on the page of the library without changing an entry

VARIABLES
  scene,   \* what the users are about
  acts

MCDevice == (s1 :> d1) @@ (s2 :> d1) @@ (s3 :> d2)

Kept(d) == identity[d].name

On(d) == IF d \in home THEN token[d].name ELSE None

\* Two administrators with two requests; a user on the first device and an
\* administrator, or the same user, on the second, with three; the user signed out by
\* an expired session and an administrator, with three and a lost answer; and the first
\* sign-ins of the bootstrapped administrator, with four, or three and a lost answer.
AboutAccounts ==
  /\ entry = [id \in FileIds |-> NoEntry] /\ shelf = << >> /\ page = << >> /\ acts = 0
  /\ user[root].bundle # NoBundle \/ home = {}
  /\ \/ /\ user[ann].admin /\ user[eve] = Nobody
        /\ On(d1) = root /\ On(d2) = ann /\ asked = 2 /\ faults = MaxFaults
     \/ /\ user[ann] = Nobody /\ user[eve] # Nobody /\ ~user[eve].admin
        /\ \/ On(d1) = eve /\ On(d2) \in {root, eve} /\ faults = MaxFaults
           \/ On(d1) = None /\ On(d2) = root /\ Kept(d1) = eve /\ faults = 0
        /\ asked = 1
     \/ /\ user[ann] = Nobody /\ user[eve] = Nobody /\ user[root].bundle = NoBundle
        /\ \/ asked = 0 /\ faults = MaxFaults
           \/ asked = 1 /\ faults = 0

\* A user, or somebody who has no account yet, and an administrator; three requests.
AboutRequests ==
  /\ entry = [id \in FileIds |-> NoEntry] /\ shelf = << >> /\ page = << >> /\ acts = 0
  /\ user[root].bundle # NoBundle /\ user[eve] # Nobody /\ ~user[eve].admin /\ user[ann] = Nobody
  /\ On(d1) \in {None, eve} /\ Kept(d1) = On(d1) /\ On(d2) = root /\ asked = 1 /\ faults = MaxFaults

\* A user with the page of the library, which has two entries, and an administrator
\* elsewhere; two requests that change something, where the locked entry is the user's,
\* or one and a lost answer.
AboutFiles ==
  /\ user[root].bundle # NoBundle /\ user[eve] # Nobody /\ ~user[eve].admin /\ user[ann] = Nobody
  /\ On(d1) = eve /\ On(d2) = root
  /\ shelf = <<2, 1>>
  /\ \E o \in {root, eve} :
       entry = [id \in FileIds |-> CASE id = 1 -> [owner |-> o, pw |-> w1]
                  [] id = 2 -> [owner |-> IF o = eve THEN root ELSE eve, pw |-> None] [] OTHER -> NoEntry]
  /\ \/ asked = 2 /\ faults = MaxFaults /\ acts = 3 /\ entry[1].owner = eve
     \/ asked = 3 /\ faults = 0 /\ acts = 2
  /\ page = (d1 :> FreshPage)

MCInit ==
  /\ SignInInit /\ job = [s \in Slots |-> NoJob]
  /\ \A n \in Names : user[n].pw \in {None, w1}
  /\ user[root].admin
  /\ \A n \in Names \ {root} : user[n].bundle = NoBundle => user[n] = Nobody
  /\ acts \in 0 .. MaxActs
  /\ page \in {<< >>, d1 :> FreshPage}
  /\ scene \in {"accounts", "requests", "files"}
  /\ \/ scene = "accounts" /\ AboutAccounts
     \/ scene = "requests" /\ AboutRequests
     \/ scene = "files" /\ AboutFiles
  /\ ApprovalsInit /\ LibraryInit

\* An account is created with the first password, and changed to the second. On the
\* second device the first administrator only looks after others.
AccountsStep ==
  /\ SignInNext /\ UNCHANGED <<job, approvalVars, libraryVars>>
  /\ \A s \in Slots :
       /\ req'[s].op = "create" => req'[s].pw = w1 /\ ~req'[s].admin
       /\ req'[s].op \in {"reset", "password"} => req'[s].pw = w2
       /\ Device[s] = d2 /\ req'[s].tok.who = root =>
            req'[s].op \notin {"rename", "password", "revoke"}

\* One name and one password are asked for, by somebody with keys; manual assignment is
\* for eve, whose account may be deleted.
RequestsStep ==
  /\ \/ ApprovalsStep /\ LeavesLibrary
     \/ /\ SignInNext /\ job' = [s \in Slots |-> Left(s)] /\ LeavesLibrary /\ LeavesDesk
        /\ \A s \in Slots : req'[s] # Idle =>
             job[s].op = "none" /\ req'[s].op = "delete" /\ req'[s].name = eve
        /\ identity' = identity
  /\ \A s \in Slots :
       LET a == job'[s].arg IN
       /\ job'[s].op = "register" => a.name = ann /\ a.pw = w1 /\ a.bundle # NoBundle
       /\ job'[s].op = "assign" => a.name = eve

Acts ==
  \/ \E s \in Slots : job[s].op = "none" /\ job'[s].op \in {"more", "unlock", "fetch"}
  \/ page'[d1].mine # page[d1].mine
  \/ page' # page /\ page'[d1] = FreshPage

\* The page is on the first device, and what it asks for never fails for want of a session.
FilesStep ==
  /\ LibraryStep /\ LeavesDesk
  /\ DOMAIN page' = {d1}
  /\ acts' = (IF Acts THEN acts + 1 ELSE acts) /\ acts' <= MaxActs
  /\ \A s \in Slots :
       job'[s].op \in {"post", "edit"} => job'[s].arg.pw \in {None, w1}

MCNext ==
  /\ UNCHANGED scene
  /\ \/ scene = "accounts" /\ AccountsStep /\ UNCHANGED acts
     \/ scene = "requests" /\ RequestsStep /\ UNCHANGED acts
     \/ scene = "files" /\ FilesStep

MCSpec == MCInit /\ [][MCNext]_<<officeVars, scene, acts>>

\* An answer that changes nothing on its page is taken at once: it only frees a slot.
Steady ==
  LET Dull(s) == \/ req[s].step \in {"403", "409", "error"} /\ req[s].op # "upload"
                 \/ req[s].op = "login" /\ req[s].step = "401"
                 \/ req[s].op \in {"revoke", "create", "delete", "role", "reset"} /\ req[s].step = "done"
      waiting == {s \in Slots : Dull(s)}
  IN waiting # {} => \E s \in waiting : req'[s] = Idle

\* What nobody else could see is done at once: a download, the file of an entry that is
\* stored or gone, and answers that change nothing on their page.
Prompt ==
  LET waiting == {s \in Slots :
        \/ job[s].op = "fetch" \/ JobAt(s, "post", "save") \/ JobAt(s, "drop", "unlink")
        \/ job[s].step \in {"403", "409", "error"} /\ ~IsList(job[s])
        \/ scene = "files" /\ Device[s] = d2 /\ job[s].step = "done"}
  IN waiting # {} => \E s \in waiting : job'[s] # job[s]

Slots1 == Permutations({s1, s2})
=============================================================================
