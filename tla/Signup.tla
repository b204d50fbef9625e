-------------------------------- MODULE Signup --------------------------------
(***************************************************************************)
(* Who comes to own a company.  CompanyService.signup looks for a free     *)
(* slug, stores the company, its owner and the owner's role, and answers   *)
(* with a session; query by query, without a transaction.  Afterwards      *)
(* EmployeesService.invite takes any role its caller names, OWNER included *)
(* (what else an invitation does is in Invitations).                       *)
(*                                                                         *)
(* Companies are keyed by their slug, which is unique in the schema.       *)
(***************************************************************************)
EXTENDS Naturals, Sequences, FiniteSets

CONSTANTS
  Candidates,   \* company name -> the slugs uniqueSlug tries, in their order
  Signups,      \* the calls of signup, each by somebody else
  Invitees      \* the people somebody invites as an OWNER

VARIABLES
  companies,    \* slug -> the users stored for the company, those who have the role OWNER
  signups,      \* call of signup -> its next query, or how it ended, and its locals
  invited       \* invitee -> the same of the call of invite about her

signupVars == <<companies, signups, invited>>

SlugsOf(name) == {Candidates[name][n] : n \in DOMAIN Candidates[name]}
AllSlugs == UNION {SlugsOf(name) : name \in DOMAIN Candidates}

\* Whatever the name, the first candidate is its slug.
ASSUME CandidatesAssumption ==
  \A name \in DOMAIN Candidates : Candidates[name] \in Seq(AllSlugs) \ {<<>>}

ASSUME InviteesAssumption == Signups \cap Invitees = {}

NoCompany == [users |-> {}, owners |-> {}, stored |-> FALSE]
NotCalled == [pc |-> "none"]

SignupInit ==
  /\ companies = [s \in AllSlugs |-> NoCompany]
  /\ signups = [u \in Signups |-> NotCalled]
  /\ invited = [i \in Invitees |-> NotCalled]

Now(u, call) == signups' = [signups EXCEPT ![u] = call] /\ UNCHANGED invited
At(u, pc) == signups[u].pc = pc
SlugOf(u) == Candidates[signups[u].name][signups[u].n]

----------------------------------------------------------------------------
SignupStart(u) ==
  /\ At(u, "none")
  /\ \E name \in DOMAIN Candidates : Now(u, [pc |-> "find", name |-> name, n |-> 1])
  /\ UNCHANGED companies

\* uniqueSlug: one query per candidate until one is free.
FindSlug(u) ==
  /\ At(u, "find")
  /\ \/ /\ ~companies[SlugOf(u)].stored
        /\ Now(u, [signups[u] EXCEPT !.pc = "company"])
     \/ /\ companies[SlugOf(u)].stored /\ signups[u].n < Len(Candidates[signups[u].name])
        /\ Now(u, [signups[u] EXCEPT !.n = @ + 1])
  /\ UNCHANGED companies

\* Seeded fault: a slug is free whoever has taken it since it was looked up.
SlugFreeAlways(slug) == TRUE

\* The unique index on Company.slug.
SlugFree(slug) == ~companies[slug].stored

CreateCompany(u) ==
  /\ At(u, "company")
  /\ \/ /\ SlugFree(SlugOf(u))
        /\ companies' = [companies EXCEPT ![SlugOf(u)].stored = TRUE]
        /\ Now(u, [signups[u] EXCEPT !.pc = "owner"])
     \/ /\ ~SlugFree(SlugOf(u))
        /\ Now(u, [signups[u] EXCEPT !.pc = "refused"])
        /\ UNCHANGED companies

\* createOwner: the company is new, so the address is free in it.
CreateOwner(u) ==
  /\ At(u, "owner")
  /\ companies' = [companies EXCEPT ![SlugOf(u)].users = @ \cup {u}]
  /\ Now(u, [signups[u] EXCEPT !.pc = "role"])

AssignOwnerRole(u) ==
  /\ At(u, "role")
  /\ companies' = [companies EXCEPT ![SlugOf(u)].owners = @ \cup {u}]
  /\ Now(u, [signups[u] EXCEPT !.pc = "tokens"])

IssueTokens(u) ==
  /\ At(u, "tokens")
  /\ Now(u, [signups[u] EXCEPT !.pc = "answered"])
  /\ UNCHANGED companies

\* A query fails or the process dies: what is stored stays.
SignupFails(u) ==
  /\ signups[u].pc \notin {"none", "answered", "refused", "cut", "abandoned"}
  /\ Now(u, [signups[u] EXCEPT !.pc = IF @ \in {"owner", "role"} THEN "abandoned" ELSE "cut"])
  /\ UNCHANGED companies

----------------------------------------------------------------------------
(* invite with the role OWNER *)

\* Somebody who may invite: an owner, or whoever she has made HR.
InviteAsOwner(i, slug) ==
  /\ invited[i] = NotCalled /\ companies[slug].owners # {}
  /\ companies' = [companies EXCEPT ![slug].users = @ \cup {i}]
  /\ invited' = [invited EXCEPT ![i] = [pc |-> "role", slug |-> slug]]
  /\ UNCHANGED signups

AssignInvitedRole(i) ==
  /\ invited[i].pc = "role"
  /\ companies' = [companies EXCEPT ![invited[i].slug].owners = @ \cup {i}]
  /\ invited' = [invited EXCEPT ![i].pc = "done"]
  /\ UNCHANGED signups

InviteAsOwnerFails(i) ==
  /\ invited[i].pc = "role"
  /\ invited' = [invited EXCEPT ![i].pc = "cut"]
  /\ UNCHANGED <<companies, signups>>

SignupNext ==
  \/ \E u \in Signups :
       \/ SignupStart(u) \/ FindSlug(u) \/ CreateCompany(u) \/ CreateOwner(u)
       \/ AssignOwnerRole(u) \/ IssueTokens(u) \/ SignupFails(u)
  \/ \E i \in Invitees :
       \/ \E slug \in AllSlugs : InviteAsOwner(i, slug)
       \/ AssignInvitedRole(i) \/ InviteAsOwnerFails(i)

SignupSpec == SignupInit /\ [][SignupNext]_signupVars

----------------------------------------------------------------------------
\* The signups that have stored the company of a slug and given it no owner.
Unfinished(slug) ==
  {u \in Signups : signups[u].pc \in {"owner", "role", "abandoned"} /\ SlugOf(u) = slug}

\* docs/03-domain-model.md:88: "a Company always has exactly one OWNER user".  What is
\* left of it in the code: a company with an owner has one founder, who signed it
\* up and is an owner, whoever else was invited as one; it is without an owner
\* only while its signup is under way or because that was cut short, when the
\* slug stays taken; and an answered signup has a company of its own, whose
\* founder is its caller.
CompaniesAreOwned ==
  /\ \A s \in AllSlugs :
       /\ companies[s].owners # {} => Cardinality(companies[s].owners \cap Signups) = 1
       /\ companies[s].stored /\ companies[s].owners = {} => Unfinished(s) # {}
  /\ \A u \in Signups : At(u, "answered") =>
       companies[SlugOf(u)].users \cap Signups = {u} /\ u \in companies[SlugOf(u)].owners
=============================================================================
