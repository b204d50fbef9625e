-------------------------------- MODULE Hiring --------------------------------
(***************************************************************************)
(* RecruitmentService: the stages of candidates and their offers, composed *)
(* with Invitations, whose invite hireCandidate calls in its midst.        *)
(*                                                                         *)
(* Interviews and job openings gate none of these operations.              *)
(***************************************************************************)
EXTENDS Invitations, Sequences

CONSTANTS
  EmailOf,    \* candidate -> e-mail; one person may apply twice
  MaxOffers   \* offers made to the candidates in all

ASSUME EmailOfAssumption == EmailOf \in [Hires -> Emails]
ASSUME MaxOffersAssumption == MaxOffers \in Nat

VARIABLES
  stage,   \* candidate -> stage
  offers,  \* candidate -> status of the offers, the latest last
  raced    \* history: candidates with two calls in flight, or one that ended early

hireVars == <<stage, offers, raced>>
vars == <<inviteVars, hireVars>>

----------------------------------------------------------------------------

Candidates == Hires
Stages == {"APPLIED", "SCREENING", "INTERVIEW", "OFFER", "HIRED", "REJECTED"}
Closed == {"HIRED", "REJECTED"}
Offer == {"SENT", "ACCEPTED"}

HireCall ==
  [op : {"invite"}, pc : {"latest", "accept", "hired"}, email : Emails,
   code : Codes \cup {None}, hire : Candidates, offer : Nat]
HireInviteCall ==
  [op : {"invite"}, pc : InvitePcs, email : Emails, code : Codes \cup {None},
   hire : Candidates, offer : Nat]
StageCall ==
  [op : {"stage"}, pc : {"offer", "stage"}, email : Emails, hire : Candidates,
   to : Stages \ {"APPLIED", "HIRED"}]

About(k) ==
  {c \in Calls : calls[c].pc # "idle" /\ "hire" \in DOMAIN calls[c] /\ calls[c].hire = k}

\* A call about k starts.
Start(c, k, call) ==
  /\ calls[c] = Idle
  /\ Put(c, call)
  /\ raced' = IF About(k) = {} THEN raced ELSE raced \cup {k}

----------------------------------------------------------------------------

AddCandidate(k) ==
  /\ stage[k] = "NONE"
  /\ stage' = [stage EXCEPT ![k] = "APPLIED"]
  /\ UNCHANGED <<inviteVars, offers, raced>>

Forward(from) ==
  CASE from = "APPLIED" -> "SCREENING"
    [] from = "SCREENING" -> "INTERVIEW"
    [] from = "INTERVIEW" -> "OFFER"
    [] from = "OFFER" -> "HIRED"

StageChange(k, pc, to) ==
  [op |-> "stage", pc |-> pc, email |-> EmailOf[k], hire |-> k, to |-> to]

\* Seeded fault: HIRED is a stage to advance to like the others.
AdvancesToAny(k) == stage[k] \notin Closed \cup {"NONE"}

\* HIRED is left to hireCandidate.
Advances(k) == stage[k] \notin Closed \cup {"NONE", "OFFER"}

AdvanceStart(c, k) ==
  /\ Advances(k)
  /\ Start(c, k, StageChange(k, "stage", Forward(stage[k])))
  /\ UNCHANGED <<users, employees, failures, cut, stage, offers>>

RejectStart(c, k) ==
  /\ stage[k] \notin Closed \cup {"NONE"}
  /\ Start(c, k, StageChange(k, "stage", "REJECTED"))
  /\ UNCHANGED <<users, employees, failures, cut, stage, offers>>

\* Seeded fault: offers are also made to candidates who are HIRED.
InPipelineOrHired(k) == stage[k] \notin {"REJECTED", "NONE"}

InPipeline(k) == stage[k] \notin Closed \cup {"NONE"}

OffersMade == UNION {{<<k, i>> : i \in DOMAIN offers[k]} : k \in Candidates}

OfferStart(c, k) ==
  /\ InPipeline(k)
  /\ Cardinality(OffersMade) < MaxOffers
  /\ Start(c, k, StageChange(k, "offer", "OFFER"))
  /\ UNCHANGED <<users, employees, failures, cut, stage, offers>>

\* Calls that overlap store no more offers than the bound either.
CreateOffer(c) ==
  LET k == calls[c].hire IN
  /\ At(c, "offer")
  /\ Cardinality(OffersMade) < MaxOffers
  /\ offers' = [offers EXCEPT ![k] = Append(@, "SENT")]
  /\ Goto(c, "stage")
  /\ UNCHANGED <<users, employees, failures, cut, stage, raced>>

UpdateStage(c) ==
  /\ At(c, "stage")
  /\ stage' = [stage EXCEPT ![calls[c].hire] = calls[c].to]
  /\ Return(c)
  /\ UNCHANGED <<users, employees, failures, cut, offers, raced>>

\* hireCandidate, also the last step of advanceCandidate, refuses HIRED only.
HireStart(c, k) ==
  /\ stage[k] \notin {"NONE", "HIRED"}
  /\ Start(c, k, [op |-> "invite", pc |-> "latest", email |-> EmailOf[k], code |-> None,
                  hire |-> k, offer |-> 0])
  /\ UNCHANGED <<users, employees, failures, cut, stage, offers>>

\* Seeded fault: the candidate is marked HIRED although invite refused.
AfterLatestHired(c) == IF users[calls[c].email] = NoUser THEN "check" ELSE "hired"

AfterLatest(c) == "check"

\* Seeded fault: the offers are read in ascending order of their creation.
EarliestOf(k) == IF offers[k] = <<>> THEN 0 ELSE 1

\* The offer read first in descending order of creation; 0 stands for none.
LatestOf(k) == Len(offers[k])

\* latestOfferForCandidate; then invite takes over.
LatestOffer(c) ==
  /\ At(c, "latest")
  /\ calls' = [calls EXCEPT ![c].offer = LatestOf(calls[c].hire), ![c].pc = AfterLatest(c)]
  /\ UNCHANGED <<users, employees, failures, cut, hireVars>>

OfferToAccept(c) == calls[c].offer > 0

Invited(c) ==
  /\ At(c, "return")
  /\ calls[c].hire # None
  /\ Goto(c, IF OfferToAccept(c) THEN "accept" ELSE "hired")
  /\ UNCHANGED <<users, employees, failures, cut, hireVars>>

AcceptOffer(c) ==
  /\ At(c, "accept")
  /\ offers' = [offers EXCEPT ![calls[c].hire][calls[c].offer] = "ACCEPTED"]
  /\ Goto(c, "hired")
  /\ UNCHANGED <<users, employees, failures, cut, stage, raced>>

MarkHired(c) ==
  /\ At(c, "hired")
  /\ stage' = [stage EXCEPT ![calls[c].hire] = "HIRED"]
  /\ Return(c)
  /\ UNCHANGED <<users, employees, failures, cut, offers, raced>>

\* A step of Invitations; one that fails a call about a candidate is noted.
InviteStep ==
  /\ InviteNext
  /\ raced' = raced \cup {k \in Candidates : failures' # failures /\
                            \E c \in About(k) : calls'[c] = Idle}
  /\ UNCHANGED <<stage, offers>>

----------------------------------------------------------------------------

Init ==
  /\ InviteInit
  /\ stage = [k \in Candidates |-> "NONE"]
  /\ offers = [k \in Candidates |-> <<>>]
  /\ raced = {}

Next ==
  \/ InviteStep
  \/ \E k \in Candidates : AddCandidate(k)
  \/ \E c \in Calls :
       \/ \E k \in Candidates :
            \/ AdvanceStart(c, k) \/ RejectStart(c, k)
            \/ OfferStart(c, k) \/ HireStart(c, k)
       \/ CreateOffer(c) \/ UpdateStage(c)
       \/ LatestOffer(c) \/ Invited(c) \/ AcceptOffer(c) \/ MarkHired(c)

Spec == Init /\ [][Next]_vars

----------------------------------------------------------------------------
(* Properties *)

\* Rows and calls have the shape the schema and the code give them.
TypeOK ==
  /\ RowsOK
  /\ calls \in [Calls -> {Idle} \cup InviteCall \cup CreateCall \cup AcceptCall
                        \cup HireCall \cup HireInviteCall \cup StageCall]
  /\ stage \in [Candidates -> Stages \cup {"NONE"}]
  /\ offers \in [Candidates -> Seq(Offer)]
  /\ raced \subseteq Candidates

\* recruitment.service.ts:143: a candidate who is HIRED has been invited: the
\* user and the employee exist, whatever overlapped or failed.
HiredIsInvited ==
  \A k \in Candidates : stage[k] = "HIRED" => EmployeesOf(EmailOf[k]) # {}

\* A person who applied twice, or is hired twice at once, is hired once.
HiredOnce ==
  \A k, l \in Candidates :
    stage[k] = "HIRED" /\ stage[l] = "HIRED" /\ EmailOf[k] = EmailOf[l] => k = l

\* The offer of a candidate hired by calls that do not overlap is ACCEPTED: the
\* latest one, and it alone.
HiredAcceptedLatest ==
  \A k \in Candidates \ raced : stage[k] = "HIRED" =>
    \A i \in DOMAIN offers[k] : offers[k][i] = "ACCEPTED" <=> i = Len(offers[k])

\* A candidate who is HIRED stays HIRED as long as calls do not overlap.
HiredIsFinal ==
  [][\A k \in Candidates : stage[k] = "HIRED" /\ stage'[k] # "HIRED" => k \in raced]_stage
=============================================================================
