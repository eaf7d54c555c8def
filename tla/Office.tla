--------------------------------- MODULE Office ---------------------------------
(***************************************************************************)
(* The application around the sign-in: registrations, telephone numbers    *)
(* and the library on top of the accounts and sessions of module SignIn.   *)
(* A device that is signed out closes the pages of all of them.            *)
(***************************************************************************)
EXTENDS Approvals, Library

officeVars == <<allVars, job, approvalVars, libraryVars>>

OfficeTypeOK == SignInTypeOK /\ JobTypeOK /\ ApprovalsTypeOK /\ LibraryTypeOK

OfficeInit ==
  /\ SignInInit /\ job = [s \in Slots |-> NoJob]
  /\ ApprovalsInit /\ LibraryInit

Demoted(n) == n \in Names /\ user[n].admin /\ ~user'[n].admin

\* handleLoggedOut: every page of the application is unmounted. To those of an administrator
\* who is none any more all entries are locked anew.
LeavesLibrary ==
  /\ page' = [d \in DOMAIN page \cap home' |->
       IF Demoted(token[d].name) THEN [page[d] EXCEPT !.relocked = FileIds] ELSE page[d]]
  /\ UNCHANGED <<entry, shelf, disk, rev>>

LeavesDesk ==
  /\ listed' = [d \in Devices |-> IF d \in home' THEN listed[d] ELSE {}]
  /\ UNCHANGED <<phone, wanted, signups, vetted, replaced>>

OfficeNext ==
  \/ /\ SignInNext
     /\ \A s \in Slots : req'[s] # Idle => job[s].op = "none"
     /\ job' = [s \in Slots |-> Left(s)]
     /\ LeavesLibrary /\ LeavesDesk
  \/ ApprovalsStep /\ LeavesLibrary
  \/ LibraryStep /\ LeavesDesk

OfficeSpec == OfficeInit /\ [][OfficeNext]_officeVars
===================================================================================
