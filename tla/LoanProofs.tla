----------------------------- MODULE LoanProofs -----------------------------
(***************************************************************************)
(* Loans and debts of a contract that was set up by `initialize`. Every loan *)
(* has its approved proposal, every member's loan counters count the loans   *)
(* on the book, and the flag that keeps a borrower in the DAO is backed by a *)
(* running loan: all three fall together, as a settled loan clears the flag  *)
(* and moves the counters of the member the book names as its borrower. A    *)
(* debt is settled by paying it in full, and its interest is shared among    *)
(* the members as it comes in, without owing them more than was received.    *)
(***************************************************************************)
EXTENDS CallProofs

(* Ids are handed out in order, and only members make proposals: a borrower  *)
(* may have left since, but repay and mark_loan_defaulted find their record. *)
ProposalsIssued ==
    \A id \in LoanIds : loanProposals[id].status # "None" =>
        /\ id < nextProposalId
        /\ loanProposals[id].borrower \in Registered

(* What holds of the loans beyond types and counts.                          *)
LoanFacts == ProposalsIssued /\ LoanBook /\ ExitLockBacked /\ TrackRecord

(* The inductive invariant.                                                  *)
LoansInv == CountsInv /\ LoanFacts

-----------------------------------------------------------------------------
(* Counting a member's loans.                                                *)
LEMMA LoansAreFinite ==
    ASSUME NEW S, S \subseteq LoanIds
    PROVE  IsFiniteSet(S) /\ Cardinality(S) \in Nat
<1>1. IsFiniteSet(LoanIds)
  <2>1. 0 \in Int /\ MaxLoanProposals - 1 \in Int
    BY BoundsAssumption
  <2>. QED  BY <2>1, FS_Interval DEF LoanIds
<1>. QED  BY <1>1, FS_Subset, FS_CardinalityType

(* A member has finitely many loans.                                         *)
LEMMA LoansOfAreFinite ==
    ASSUME NEW m, NEW statuses
    PROVE  IsFiniteSet(LoansOf(m, statuses)) /\ Cardinality(LoansOf(m, statuses)) \in Nat
<1>1. LoansOf(m, statuses) \subseteq LoanIds
  BY DEF LoansOf
<1>. QED  BY <1>1, LoansAreFinite

(* What the facts say of a loan that exists.                                 *)
LEMMA BorrowersOnBook ==
    ASSUME LoansInv, NEW id \in LoanIds, loans[id].status # "None"
    PROVE  /\ loans[id].borrower \in Accounts
           /\ IsMember(loans[id].borrower)
  BY DEF LoansInv, LoanFacts, LoanBook, ProposalsIssued, Registered

-----------------------------------------------------------------------------
(* Calls that write one proposal and leave loans and members alone.          *)
WritesProposal(id, p) ==
    /\ loanProposals' = [loanProposals EXCEPT ![id] = p]
    /\ UNCHANGED <<members, loans>>
    /\ nextProposalId' \in Nat
    /\ nextProposalId' >= nextProposalId
    /\ id < nextProposalId'
    /\ p.status = "Approved" <=> loanProposals[id].status = "Approved"
    /\ p.borrower = loanProposals[id].borrower \/ loans[id].status = "None"
    /\ p.borrower \in Registered

(* Writing a proposal that is no approved one, nor becomes one, keeps the    *)
(* facts.                                                                    *)
LEMMA ProposalWritten ==
    ASSUME LoansInv, NEW id \in LoanIds, NEW p, WritesProposal(id, p)
    PROVE  LoanFacts'
<1>. USE DEF LoansInv, LoanFacts, CountsInv, TypeOK, LoanTypes, WritesProposal
<1>1. Registered' = Registered
  BY DEF Registered, IsMember
<1>2. \A i \in LoanIds : loanProposals'[i] = IF i = id THEN p ELSE loanProposals[i]
  OBVIOUS
<1>3. LoanIds \subseteq Nat
  BY BoundsAssumption DEF LoanIds
<1>4. ProposalsIssued'
  BY <1>1, <1>2, <1>3 DEF ProposalsIssued
<1>5. LoanBook'
  BY <1>2, <1>3 DEF LoanBook
<1>6. ExitLockBacked' /\ TrackRecord'
  <2>1. \A m, statuses : LoansOf(m, statuses)' = LoansOf(m, statuses)
    BY DEF LoansOf
  <2>. QED  BY <2>1 DEF ExitLockBacked, TrackRecord
<1>. QED  BY <1>4, <1>5, <1>6

(* A new request takes an id that names nothing yet.                         *)
LEMMA RequestLoanOnBook ==
    ASSUME LoansInv, NEW m \in Accounts, NEW amount, NEW asset,
           RequestLoanInAsset(m, amount, asset)
    PROVE  LoanFacts'
<1>. DEFINE p == loanProposals'[nextProposalId]
<1>1. nextProposalId \in LoanIds
  BY BoundsAssumption
     DEF LoansInv, CountsInv, TypeOK, LoanTypes, LoanIds, RequestLoanInAsset
<1>2. loanProposals' = [loanProposals EXCEPT ![nextProposalId] = p]
  BY <1>1 DEF RequestLoanInAsset, LoansInv, CountsInv, TypeOK, LoanTypes
<1>3. p.status = "Pending" /\ p.borrower = m
  BY <1>1 DEF RequestLoanInAsset, LoansInv, CountsInv, TypeOK, LoanTypes
<1>4. loanProposals[nextProposalId].status = "None"
  BY <1>1 DEF LoansInv, LoanFacts, ProposalsIssued, CountsInv, TypeOK, LoanTypes
<1>5. loans[nextProposalId].status = "None"
  BY <1>1, <1>4 DEF LoansInv, LoanFacts, LoanBook
<1>6. m \in Registered
  BY DEF RequestLoanInAsset, MemberCall, IsActiveMember, IsMember, Registered
<1>7. nextProposalId' = nextProposalId + 1 /\ nextProposalId \in Nat
      /\ UNCHANGED <<members, loans>>
  BY DEF RequestLoanInAsset, memberVars, LoansInv, CountsInv, TypeOK, LoanTypes
<1>. HIDE DEF p
<1>8. WritesProposal(nextProposalId, p)
  BY <1>2, <1>3, <1>4, <1>5, <1>6, <1>7 DEF WritesProposal
<1>. QED  BY <1>1, <1>8, ProposalWritten

(* Editing changes an amount only.                                           *)
LEMMA EditLoanProposalOnBook ==
    ASSUME LoansInv, NEW m \in Accounts, NEW id \in LoanIds, NEW amount,
           EditLoanProposal(m, id, amount)
    PROVE  LoanFacts'
<1>. DEFINE p == [loanProposals[id] EXCEPT !.amount = amount]
<1>1. p.status = loanProposals[id].status /\ p.borrower = loanProposals[id].borrower
  BY DEF LoansInv, CountsInv, TypeOK, LoanTypes, LoanProposalRecords
<1>2. id < nextProposalId /\ p.borrower \in Registered
  BY <1>1 DEF LoansInv, LoanFacts, ProposalsIssued, EditLoanProposal, MayEdit
<1>3. /\ loanProposals' = [loanProposals EXCEPT ![id] = p]
      /\ UNCHANGED <<members, loans, nextProposalId>> /\ nextProposalId \in Nat
  BY DEF EditLoanProposal, memberVars, LoansInv, CountsInv, TypeOK, LoanTypes
<1>. HIDE DEF p
<1>4. WritesProposal(id, p)
  BY <1>1, <1>2, <1>3 DEF WritesProposal
<1>. QED  BY <1>4, ProposalWritten

(* Only a pending proposal is cancelled.                                     *)
LEMMA CancelLoanProposalOnBook ==
    ASSUME LoansInv, NEW m \in Accounts, NEW id \in LoanIds, CancelLoanProposal(m, id)
    PROVE  LoanFacts'
<1>. DEFINE p == [loanProposals[id] EXCEPT !.status = "Cancelled", !.phase = "Expired"]
<1>1. p.status = "Cancelled" /\ p.borrower = loanProposals[id].borrower
  BY DEF LoansInv, CountsInv, TypeOK, LoanTypes, LoanProposalRecords
<1>2. loanProposals[id].status = "Pending"
  BY DEF CancelLoanProposal
<1>3. id < nextProposalId /\ p.borrower \in Registered
  BY <1>1, <1>2 DEF LoansInv, LoanFacts, ProposalsIssued
<1>4. /\ loanProposals' = [loanProposals EXCEPT ![id] = p]
      /\ UNCHANGED <<members, loans, nextProposalId>> /\ nextProposalId \in Nat
  BY DEF CancelLoanProposal, memberVars, LoansInv, CountsInv, TypeOK, LoanTypes
<1>. HIDE DEF p
<1>5. WritesProposal(id, p)
  BY <1>1, <1>2, <1>3, <1>4 DEF WritesProposal
<1>. QED  BY <1>5, ProposalWritten

(* refresh_phase only ever decides what is still pending.                    *)
LEMMA RefreshedStatus ==
    ASSUME NEW p \in LoanProposalRecords
    PROVE  /\ Refreshed(p).borrower = p.borrower
           /\ Refreshed(p).status # p.status =>
                 p.status = "Pending" /\ Refreshed(p).status = "Expired"
  BY DEF Refreshed, InVoting, LoanProposalRecords

(* Only a pending proposal expires.                                          *)
LEMMA ExpireLoanProposalOnBook ==
    ASSUME LoansInv, NEW id \in LoanIds, ExpireLoanProposal(id)
    PROVE  LoanFacts'
<1>. DEFINE p == Refreshed(loanProposals[id])
<1>1. /\ p.status = "Approved" <=> loanProposals[id].status = "Approved"
      /\ p.borrower = loanProposals[id].borrower
  BY RefreshedStatus DEF LoansInv, CountsInv, TypeOK, LoanTypes
<1>2. id < nextProposalId /\ p.borrower \in Registered
  BY <1>1 DEF LoansInv, LoanFacts, ProposalsIssued, ExpireLoanProposal
<1>3. /\ loanProposals' = [loanProposals EXCEPT ![id] = p]
      /\ UNCHANGED <<members, loans, nextProposalId>> /\ nextProposalId \in Nat
  BY DEF ExpireLoanProposal, memberVars, LoansInv, CountsInv, TypeOK, LoanTypes
<1>. HIDE DEF p
<1>4. WritesProposal(id, p)
  BY <1>1, <1>2, <1>3 DEF WritesProposal
<1>. QED  BY <1>4, ProposalWritten

-----------------------------------------------------------------------------
(* Joining and leaving: the book stays, the lifetime counters survive.       *)
RewritesMember(m, r) ==
    /\ members' = [members EXCEPT ![m] = r]
    /\ UNCHANGED <<loanProposals, nextProposalId, loans>>
    /\ r.status # "NotMember"
    /\ r.has_active_loan \in {FALSE, members[m].has_active_loan}
    /\ r.total_loans = members[m].total_loans
    /\ r.repaid_loans = members[m].repaid_loans
    /\ r.active_loans = members[m].active_loans

(* Rewriting a record without touching its loan counters keeps the facts, if *)
(* the flag is not raised.                                                   *)
LEMMA MemberRewritten ==
    ASSUME LoansInv, NEW m \in Accounts, NEW r, RewritesMember(m, r)
    PROVE  LoanFacts'
<1>. USE DEF LoansInv, LoanFacts, CountsInv, TypeOK, MemberTypes, RewritesMember
<1>1. \A a \in Accounts : members'[a] = IF a = m THEN r ELSE members[a]
  OBVIOUS
<1>2. Registered \subseteq Registered'
  BY <1>1 DEF Registered, IsMember
<1>3. ProposalsIssued'
  BY <1>2 DEF ProposalsIssued
<1>4. LoanBook'
  BY DEF LoanBook
<1>5. ExitLockBacked' /\ TrackRecord'
  <2>1. \A a, statuses : LoansOf(a, statuses)' = LoansOf(a, statuses)
    BY DEF LoansOf
  <2>. QED  BY <1>1, <2>1 DEF ExitLockBacked, TrackRecord
<1>. QED  BY <1>3, <1>4, <1>5

(* register_member keeps the counters and lowers the flag.                   *)
LEMMA RegisterMemberOnBook ==
    ASSUME LoansInv, NEW m \in Accounts, RegisterMember(m)
    PROVE  LoanFacts'
<1>. DEFINE r == Joined(m)
<1>1. /\ r.status # "NotMember" /\ r.has_active_loan = FALSE
      /\ r.total_loans = members[m].total_loans
      /\ r.repaid_loans = members[m].repaid_loans
      /\ r.active_loans = members[m].active_loans
  BY DEF LoansInv, CountsInv, TypeOK, MemberTypes, MemberRecords, Joined
<1>2. /\ members' = [members EXCEPT ![m] = r]
      /\ UNCHANGED <<loanProposals, nextProposalId, loans>>
  BY DEF RegisterMember, loanVars
<1>. HIDE DEF r
<1>3. RewritesMember(m, r)
  BY <1>1, <1>2 DEF RewritesMember
<1>. QED  BY <1>3, MemberRewritten

(* exit_dao changes the status only.                                         *)
LEMMA ExitDaoOnBook ==
    ASSUME LoansInv, NEW m \in Accounts, ExitDao(m)
    PROVE  LoanFacts'
<1>. DEFINE r == [members[m] EXCEPT !.status = "Inactive"]
<1>1. /\ r.status # "NotMember" /\ r.has_active_loan = members[m].has_active_loan
      /\ r.total_loans = members[m].total_loans
      /\ r.repaid_loans = members[m].repaid_loans
      /\ r.active_loans = members[m].active_loans
  BY DEF LoansInv, CountsInv, TypeOK, MemberTypes, MemberRecords
<1>2. /\ members' = [members EXCEPT ![m] = r]
      /\ UNCHANGED <<loanProposals, nextProposalId, loans>>
  BY DEF ExitDao, loanVars
<1>. HIDE DEF r
<1>3. RewritesMember(m, r)
  BY <1>1, <1>2 DEF RewritesMember
<1>. QED  BY <1>3, MemberRewritten

-----------------------------------------------------------------------------
(* A payment or a default: one running loan of m's goes on or is settled.    *)
GoesOn(id, l) ==
    /\ loans[id].status = "Active"
    /\ loans' = [loans EXCEPT ![id] = l]
    /\ l.borrower = loans[id].borrower
    /\ l.status = "Active"
    /\ UNCHANGED <<members, loanProposals, nextProposalId>>

(* Loan id is settled as l, its borrower's record becoming r.                *)
Settles(id, l, r) ==
    LET m == loans[id].borrower
    IN  /\ loans[id].status = "Active"
        /\ loans' = [loans EXCEPT ![id] = l]
        /\ l.borrower = m
        /\ l.status \in {"Repaid", "Defaulted"}
        /\ members' = [members EXCEPT ![m] = r]
        /\ r.status = members[m].status
        /\ r.has_active_loan = FALSE
        /\ r.total_loans = members[m].total_loans
        /\ r.repaid_loans = members[m].repaid_loans
                              + (IF l.status = "Repaid" THEN 1 ELSE 0)
        /\ r.active_loans = SaturatingSub(members[m].active_loans, 1)
        /\ UNCHANGED <<loanProposals, nextProposalId>>

(* A payment that leaves something outstanding changes no count.             *)
LEMMA LoanGoesOn ==
    ASSUME LoansInv, NEW id \in LoanIds, NEW l, GoesOn(id, l)
    PROVE  LoanFacts'
<1>. USE DEF LoansInv, LoanFacts, CountsInv, TypeOK, LoanTypes, GoesOn
<1>1. \A i \in LoanIds : /\ loans'[i].borrower = loans[i].borrower
                         /\ loans'[i].status = loans[i].status
  OBVIOUS
<1>2. \A m, statuses : LoansOf(m, statuses)' = LoansOf(m, statuses)
  BY <1>1 DEF LoansOf
<1>3. ProposalsIssued' /\ LoanBook'
  BY <1>1 DEF ProposalsIssued, Registered, IsMember, LoanBook
<1>4. ExitLockBacked' /\ TrackRecord'
  BY <1>2 DEF ExitLockBacked, TrackRecord
<1>. QED  BY <1>3, <1>4

(* A loan that stops being active, with its borrower's counters moved and    *)
(* flag lowered, keeps the facts.                                            *)
LEMMA LoanSettled ==
    ASSUME LoansInv, NEW id \in LoanIds, NEW l, NEW r, Settles(id, l, r)
    PROVE  LoanFacts'
<1>. USE DEF Settles
<1>. DEFINE m == loans[id].borrower
<1>1. m \in Accounts
  BY BorrowersOnBook
<1>2. \A i \in LoanIds : loans'[i] = IF i = id THEN l ELSE loans[i]
  BY DEF LoansInv, CountsInv, TypeOK, LoanTypes
<1>3. \A a \in Accounts : members'[a] = IF a = m THEN r ELSE members[a]
  BY DEF LoansInv, CountsInv, TypeOK, MemberTypes
<1>4. ProposalsIssued' /\ LoanBook'
  BY <1>2, <1>3
     DEF LoansInv, LoanFacts, ProposalsIssued, Registered, IsMember, LoanBook
<1>5. \A a, statuses : a # m => LoansOf(a, statuses)' = LoansOf(a, statuses)
  BY <1>2 DEF LoansOf
<1>6. ExitLockBacked'
  BY <1>3, <1>5 DEF LoansInv, LoanFacts, ExitLockBacked
<1>7. \A statuses : /\ LoansOf(m, statuses)' \ {id} = LoansOf(m, statuses) \ {id}
                    /\ id \in LoansOf(m, statuses) <=> "Active" \in statuses
                    /\ id \in LoansOf(m, statuses)' <=> l.status \in statuses
  BY <1>2 DEF LoansOf
<1>8. \A statuses :
         /\ "Active" \in statuses => Cardinality(LoansOf(m, statuses)) >= 1
         /\ Cardinality(LoansOf(m, statuses)) \in Nat
         /\ Cardinality(LoansOf(m, statuses)') =
              Cardinality(LoansOf(m, statuses))
                - (IF "Active" \in statuses THEN 1 ELSE 0)
                + (IF l.status \in statuses THEN 1 ELSE 0)
  BY <1>7, LoansOfAreFinite, OneElementCounted
<1>9. TrackRecord'
  <2>1. \A a \in Accounts : a # m =>
           /\ members'[a].total_loans =
                 Cardinality(LoansOf(a, {"Active", "Repaid", "Defaulted"})')
           /\ members'[a].repaid_loans = Cardinality(LoansOf(a, {"Repaid"})')
           /\ members'[a].active_loans = Cardinality(LoansOf(a, {"Active"})')
    BY <1>3, <1>5 DEF LoansInv, LoanFacts, TrackRecord
  <2>2. /\ members[m].total_loans =
              Cardinality(LoansOf(m, {"Active", "Repaid", "Defaulted"}))
        /\ members[m].repaid_loans = Cardinality(LoansOf(m, {"Repaid"}))
        /\ members[m].active_loans = Cardinality(LoansOf(m, {"Active"}))
    BY <1>1 DEF LoansInv, LoanFacts, TrackRecord
  <2>3. r.total_loans = Cardinality(LoansOf(m, {"Active", "Repaid", "Defaulted"})')
    BY <1>8, <2>2
  <2>4. r.repaid_loans = Cardinality(LoansOf(m, {"Repaid"})')
    BY <1>8, <2>2
  <2>5. r.active_loans = Cardinality(LoansOf(m, {"Active"})')
    BY <1>8, <2>2 DEF SaturatingSub
  <2>6. members'[m] = r
    BY <1>1, <1>3
  <2>. QED  BY <2>1, <2>3, <2>4, <2>5, <2>6 DEF TrackRecord
<1>. QED  BY <1>4, <1>6, <1>9 DEF LoanFacts

(* A payment, in part or in full, keeps the facts.                           *)
LEMMA RepayAmountOnBook ==
    ASSUME LoansInv, NEW m \in Accounts, NEW id \in LoanIds, NEW amount,
           RepayAmount(m, id, amount)
    PROVE  LoanFacts'
<1>. DEFINE before == Surcharged(loans[id])
            paid == [before EXCEPT !.amount_repaid = @ + amount]
            r == RecordAfterRepayment(m)
<1>1. loans[id] \in LoanRecords /\ before \in LoanRecords
  BY SurchargedTyped DEF LoansInv, CountsInv, TypeOK, LoanTypes
<1>2. before.borrower = loans[id].borrower /\ before.status = loans[id].status
  BY <1>1 DEF Surcharged, LoanRecords
<1>3. paid.borrower = loans[id].borrower /\ paid.status = "Active"
  BY <1>1, <1>2 DEF RepayAmount, LoanRecords
<1>4. /\ [paid EXCEPT !.status = "Repaid"].borrower = loans[id].borrower
      /\ [paid EXCEPT !.status = "Repaid"].status = "Repaid"
  BY <1>1, <1>3 DEF LoanRecords
<1>5. /\ loans[id].status = "Active" /\ loans[id].borrower = m /\ IsMember(m)
      /\ UNCHANGED <<loanProposals, nextProposalId>>
  BY BorrowersOnBook DEF RepayAmount
<1>6. /\ r.status = members[m].status /\ r.has_active_loan = FALSE
      /\ r.total_loans = members[m].total_loans
      /\ r.repaid_loans = members[m].repaid_loans + 1
      /\ r.active_loans = SaturatingSub(members[m].active_loans, 1)
  BY DEF LoansInv, CountsInv, TypeOK, MemberTypes, MemberRecords, RecordAfterRepayment
<1>7. IF Outstanding(paid) = 0
      THEN /\ loans' = [loans EXCEPT ![id] = [paid EXCEPT !.status = "Repaid"]]
           /\ members' = [members EXCEPT ![m] = r]
      ELSE loans' = [loans EXCEPT ![id] = paid] /\ UNCHANGED members
  BY <1>5 DEF RepayAmount
<1>. HIDE DEF r, paid
<1>8. CASE Outstanding(paid) = 0
  <2>1. Settles(id, [paid EXCEPT !.status = "Repaid"], r)
    BY <1>4, <1>5, <1>6, <1>7, <1>8 DEF Settles
  <2>. QED  BY <2>1, LoanSettled
<1>9. CASE Outstanding(paid) # 0
  <2>1. GoesOn(id, paid)
    BY <1>3, <1>5, <1>7, <1>9 DEF GoesOn
  <2>. QED  BY <2>1, LoanGoesOn
<1>. QED  BY <1>8, <1>9

(* mark_loan_defaulted keeps the facts.                                      *)
LEMMA MarkLoanDefaultedOnBook ==
    ASSUME LoansInv, NEW id \in LoanIds, MarkLoanDefaulted(id)
    PROVE  LoanFacts'
<1>. DEFINE m == loans[id].borrower
            l == [loans[id] EXCEPT !.status = "Defaulted"]
            r == RecordAfterDefault(m)
<1>1. /\ loans[id].status = "Active" /\ m \in Accounts /\ IsMember(m)
      /\ UNCHANGED <<loanProposals, nextProposalId>>
  BY BorrowersOnBook DEF MarkLoanDefaulted
<1>2. l.borrower = m /\ l.status = "Defaulted"
  BY DEF LoansInv, CountsInv, TypeOK, LoanTypes, LoanRecords
<1>3. /\ r.status = members[m].status /\ r.has_active_loan = FALSE
      /\ r.total_loans = members[m].total_loans
      /\ r.repaid_loans = members[m].repaid_loans /\ r.repaid_loans \in Nat
      /\ r.active_loans = SaturatingSub(members[m].active_loans, 1)
  BY <1>1 DEF LoansInv, CountsInv, TypeOK, MemberTypes, MemberRecords, RecordAfterDefault
<1>4. /\ loans' = [loans EXCEPT ![id] = l]
      /\ members' = [members EXCEPT ![m] = r]
  BY <1>1 DEF MarkLoanDefaulted
<1>. HIDE DEF l, r
<1>5. Settles(id, l, r)
  BY <1>1, <1>2, <1>3, <1>4 DEF Settles
<1>. QED  BY <1>5, LoanSettled

-----------------------------------------------------------------------------
(* Ballots and disbursement, through the book they change.                   *)
LoansIn(b, m, statuses) ==
    {id \in LoanIds : b.loans[id].borrower = m /\ b.loans[id].status \in statuses}

(* A book between two ballots, of which the facts on loans hold too.         *)
BookFacts(b) ==
    /\ \A id \in LoanIds :
          /\ b.loans[id].status # "None" <=> b.proposals[id].status = "Approved"
          /\ b.loans[id].status # "None" =>
                b.loans[id].borrower = b.proposals[id].borrower
          /\ b.proposals[id].status # "None" =>
                id < nextProposalId /\ b.proposals[id].borrower \in Registered
    /\ \A m \in Accounts :
          /\ b.members[m].has_active_loan => LoansIn(b, m, {"Active"}) # {}
          /\ b.members[m].total_loans =
                Cardinality(LoansIn(b, m, {"Active", "Repaid", "Defaulted"}))
          /\ b.members[m].repaid_loans = Cardinality(LoansIn(b, m, {"Repaid"}))
          /\ b.members[m].active_loans = Cardinality(LoansIn(b, m, {"Active"}))

(* A book that ballots may go on from.                                       *)
TrueBook(b) == SoundBook(b) /\ BookFacts(b)

(* The store is a true book while the invariant holds.                       *)
LEMMA BookIsTrue == LoansInv => TrueBook(Book)
<1>. SUFFICES ASSUME LoansInv PROVE TrueBook(Book)
  OBVIOUS
<1>1. SoundBook(Book)
  BY BookIsSound DEF LoansInv
<1>2. \A m, statuses : LoansIn(Book, m, statuses) = LoansOf(m, statuses)
  BY DEF LoansIn, LoansOf, Book
<1>3. /\ Book.loans = loans /\ Book.proposals = loanProposals /\ Book.members = members
  BY DEF Book
<1>4. BookFacts(Book)
  BY <1>2, <1>3
     DEF LoansInv, LoanFacts, ProposalsIssued, LoanBook, ExitLockBacked, TrackRecord,
         BookFacts
<1>. QED  BY <1>1, <1>4 DEF TrueBook

(* A true book, once it is the store, keeps the facts.                       *)
LEMMA TrueBookBecomes ==
    ASSUME LoansInv, NEW b, TrueBook(b), BecomesBook(b), UNCHANGED nextProposalId
    PROVE  LoanFacts'
<1>. USE DEF TrueBook, SoundBook, StatusesOf, BookFacts, BecomesBook
<1>1. Registered' = Registered
  BY DEF Registered, IsMember
<1>2. \A m, statuses : LoansOf(m, statuses)' = LoansIn(b, m, statuses)
  BY DEF LoansIn, LoansOf
<1>3. ProposalsIssued' /\ LoanBook'
  BY <1>1 DEF ProposalsIssued, LoanBook
<1>4. ExitLockBacked' /\ TrackRecord'
  BY <1>2 DEF ExitLockBacked, TrackRecord
<1>. QED  BY <1>3, <1>4 DEF LoanFacts

(* Paying out an approved proposal writes a loan where there was none.       *)
LEMMA DisbursedIsTrue ==
    ASSUME CountsInv, NEW b, TrueBook(b), NEW id \in LoanIds,
           b.proposals[id].status \notin {"None", "Approved"}
    PROVE  TrueBook(Disbursed(b, id))
<1>. DEFINE d == Disbursed(b, id)
            p == b.proposals[id]
            m == p.borrower
<1>1. SoundBook(d)
  BY DisbursedIsSound DEF TrueBook
<1>2. \A i \in LoanIds : d.loans[i] = IF i = id THEN NewLoan(b, p) ELSE b.loans[i]
  BY DEF Disbursed, TrueBook, SoundBook, Books
<1>3. /\ \A i \in LoanIds : d.proposals[i].borrower = b.proposals[i].borrower
      /\ \A i \in LoanIds : d.proposals[i].status =
                              IF i = id THEN "Approved" ELSE b.proposals[i].status
  BY DEF Disbursed, TrueBook, SoundBook, Books, LoanProposalRecords
<1>4. \A a \in Accounts :
         d.members[a] = IF a = m THEN RecordAfterLoan(b.members[a]) ELSE b.members[a]
  BY DEF Disbursed, TrueBook, SoundBook, Books
<1>5. NewLoan(b, p).borrower = m /\ NewLoan(b, p).status = "Active"
  BY DEF NewLoan
<1>6. b.loans[id].status = "None" /\ m \in Registered /\ m \in Accounts
  BY DEF TrueBook, BookFacts, Registered
<1>. HIDE DEF d, p
<1>7. \A i \in LoanIds :
         /\ d.loans[i].status # "None" <=> d.proposals[i].status = "Approved"
         /\ d.loans[i].status # "None" => d.loans[i].borrower = d.proposals[i].borrower
         /\ d.proposals[i].status # "None" =>
               i < nextProposalId /\ d.proposals[i].borrower \in Registered
  BY <1>2, <1>3, <1>5, <1>6 DEF TrueBook, BookFacts, p
<1>8. \A a \in Accounts : \A statuses : a # m /\ "None" \notin statuses =>
         /\ d.members[a] = b.members[a]
         /\ LoansIn(d, a, statuses) = LoansIn(b, a, statuses)
  BY <1>2, <1>4, <1>5, <1>6 DEF LoansIn
<1>9. \A statuses : "None" \notin statuses =>
         /\ LoansIn(d, m, statuses) \ {id} = LoansIn(b, m, statuses) \ {id}
         /\ id \notin LoansIn(b, m, statuses)
         /\ id \in LoansIn(d, m, statuses) <=> "Active" \in statuses
  BY <1>2, <1>5, <1>6 DEF LoansIn
<1>10. \A statuses : "None" \notin statuses =>
         /\ Cardinality(LoansIn(b, m, statuses)) \in Nat
         /\ Cardinality(LoansIn(d, m, statuses)) =
              Cardinality(LoansIn(b, m, statuses))
                + (IF "Active" \in statuses THEN 1 ELSE 0)
  <2>. SUFFICES ASSUME NEW statuses, "None" \notin statuses
                PROVE  /\ Cardinality(LoansIn(b, m, statuses)) \in Nat
                       /\ Cardinality(LoansIn(d, m, statuses)) =
                            Cardinality(LoansIn(b, m, statuses))
                              + (IF "Active" \in statuses THEN 1 ELSE 0)
    OBVIOUS
  <2>1. IsFiniteSet(LoansIn(b, m, statuses))
    <3>1. LoansIn(b, m, statuses) \subseteq LoanIds
      BY DEF LoansIn
    <3>. QED  BY <3>1, LoansAreFinite
  <2>. QED  BY <1>9, <2>1, OneElementCounted
<1>11. /\ d.members[m].has_active_loan => LoansIn(d, m, {"Active"}) # {}
       /\ d.members[m].total_loans =
             Cardinality(LoansIn(d, m, {"Active", "Repaid", "Defaulted"}))
       /\ d.members[m].repaid_loans = Cardinality(LoansIn(d, m, {"Repaid"}))
       /\ d.members[m].active_loans = Cardinality(LoansIn(d, m, {"Active"}))
  <2>1. b.members[m] \in MemberRecords
    BY <1>6 DEF TrueBook, SoundBook, Books
  <2>2. /\ d.members[m].total_loans = b.members[m].total_loans + 1
        /\ d.members[m].repaid_loans = b.members[m].repaid_loans
        /\ d.members[m].active_loans = b.members[m].active_loans + 1
    BY <1>4, <1>6, <2>1 DEF RecordAfterLoan, MemberRecords
  <2>3. /\ b.members[m].total_loans =
              Cardinality(LoansIn(b, m, {"Active", "Repaid", "Defaulted"}))
        /\ b.members[m].repaid_loans = Cardinality(LoansIn(b, m, {"Repaid"}))
        /\ b.members[m].active_loans = Cardinality(LoansIn(b, m, {"Active"}))
    BY <1>6 DEF TrueBook, BookFacts
  <2>4. LoansIn(d, m, {"Active"}) # {}
    BY <1>9
  <2>5. d.members[m].total_loans =
          Cardinality(LoansIn(d, m, {"Active", "Repaid", "Defaulted"}))
    BY <1>10, <2>2, <2>3
  <2>6. d.members[m].repaid_loans = Cardinality(LoansIn(d, m, {"Repaid"}))
    BY <1>10, <2>2, <2>3
  <2>7. d.members[m].active_loans = Cardinality(LoansIn(d, m, {"Active"}))
    BY <1>10, <2>2, <2>3
  <2>. QED  BY <2>4, <2>5, <2>6, <2>7
<1>12. BookFacts(d)
  <2>1. \A a \in Accounts : a # m =>
           /\ d.members[a].has_active_loan => LoansIn(d, a, {"Active"}) # {}
           /\ d.members[a].total_loans =
                 Cardinality(LoansIn(d, a, {"Active", "Repaid", "Defaulted"}))
           /\ d.members[a].repaid_loans = Cardinality(LoansIn(d, a, {"Repaid"}))
           /\ d.members[a].active_loans = Cardinality(LoansIn(d, a, {"Active"}))
    BY <1>8 DEF TrueBook, BookFacts
  <2>. QED  BY <1>7, <1>11, <2>1 DEF BookFacts
<1>. QED  BY <1>1, <1>12 DEF TrueBook, d

(* A ballot decides only what is pending, and writes no loan by itself.      *)
LEMMA BallotBookIsTrue ==
    ASSUME CountsInv, NEW b, TrueBook(b), NEW voter \in Accounts, NEW id \in LoanIds,
           NEW support \in BOOLEAN, MayVoteOnLoan(b, voter, id)
    PROVE  TrueBook(BallotBook(b, voter, id, support))
<1>. DEFINE after == BallotBook(b, voter, id, support)
            q == Refreshed(b.proposals[id])
            p == CountedLoanVote(b.proposals[id], voter, support)
            decided == IF p.status = "Pending" THEN LoanOutcome(p) ELSE p
<1>1. TypeOK /\ b \in Books /\ b.proposals[id] \in LoanProposalRecords
  BY DEF CountsInv, TrueBook, SoundBook, Books
<1>2. q.status = "Approved" <=> b.proposals[id].status = "Approved"
  BY <1>1, RefreshedStatus
<1>3. p \in LoanProposalRecords /\ p.status = q.status
  BY <1>1, CountedLoanVoteTyped
<1>. HIDE DEF p, q
<1>4. LoanOutcome(p).status \in {p.status, "ApprovedPendingDisbursement", "Rejected"}
  BY <1>3 DEF LoanOutcome, LoanProposalRecords
<1>5. decided.status = "Approved" <=> b.proposals[id].status = "Approved"
  BY <1>2, <1>3, <1>4
<1>6. after.proposals[id] = decided
  BY <1>1 DEF BallotBook, Books, p
<1>7. \A i \in LoanIds : /\ after.proposals[i].borrower = b.proposals[i].borrower
                         /\ i # id => after.proposals[i] = b.proposals[i]
  BY <1>1, BallotBookProposals
<1>8. after.loans = b.loans /\ after.members = b.members
  BY DEF BallotBook
<1>9. SoundBook(after)
  BY BallotBookIsSound DEF TrueBook
<1>10. b.proposals[id].status # "None"
  BY DEF MayVoteOnLoan
<1>. HIDE DEF after, decided
<1>11. \A m, statuses : LoansIn(after, m, statuses) = LoansIn(b, m, statuses)
  BY <1>8 DEF LoansIn
<1>12. BookFacts(after)
  BY <1>5, <1>6, <1>7, <1>8, <1>10, <1>11 DEF TrueBook, BookFacts
<1>. QED  BY <1>9, <1>12 DEF TrueBook, after

(* A whole loan ballot keeps a book true.                                    *)
LEMMA LoanVoteCastIsTrue ==
    ASSUME CountsInv, NEW b, TrueBook(b), NEW voter \in Accounts, NEW id \in LoanIds,
           NEW support \in BOOLEAN, MayVoteOnLoan(b, voter, id)
    PROVE  TrueBook(LoanVoteCast(b, voter, id, support))
<1>. DEFINE after == BallotBook(b, voter, id, support)
<1>1. TrueBook(after)
  BY BallotBookIsTrue
<1>2. after.proposals[id].status = "ApprovedPendingDisbursement"
        => TrueBook(Disbursed(after, id))
  BY <1>1, DisbursedIsTrue
<1>. QED  BY <1>1, <1>2 DEF LoanVoteCast

(* Loan ballots, single or batched, keep the facts.                          *)
LEMMA LoanBallotsOnBook ==
    ASSUME LoansInv, NEW m \in Accounts,
           \/ \E id \in LoanIds, support \in BOOLEAN : VoteOnLoanProposal(m, id, support)
           \/ \E id1, id2 \in LoanIds, s1, s2 \in BOOLEAN : VoteBatch(m, id1, s1, id2, s2)
    PROVE  LoanFacts'
<1>1. CountsInv /\ TrueBook(Book)
  BY BookIsTrue DEF LoansInv
<1>2. CASE \E id \in LoanIds, support \in BOOLEAN : VoteOnLoanProposal(m, id, support)
  <2>1. PICK id \in LoanIds, support \in BOOLEAN : VoteOnLoanProposal(m, id, support)
    BY <1>2
  <2>2. TrueBook(LoanVoteCast(Book, m, id, support))
    BY <1>1, <2>1, LoanVoteCastIsTrue DEF VoteOnLoanProposal
  <2>. QED  BY <2>1, <2>2, TrueBookBecomes DEF VoteOnLoanProposal
<1>3. CASE \E id1, id2 \in LoanIds, s1, s2 \in BOOLEAN : VoteBatch(m, id1, s1, id2, s2)
  <2>1. PICK id1 \in LoanIds, id2 \in LoanIds, s1 \in BOOLEAN, s2 \in BOOLEAN :
           VoteBatch(m, id1, s1, id2, s2)
    BY <1>3
  <2>. DEFINE after1 == LoanVoteCast(Book, m, id1, s1)
  <2>2. TrueBook(after1)
    BY <1>1, <2>1, LoanVoteCastIsTrue DEF VoteBatch
  <2>3. TrueBook(LoanVoteCast(after1, m, id2, s2))
    BY <1>1, <2>1, <2>2, LoanVoteCastIsTrue DEF VoteBatch
  <2>. QED  BY <2>1, <2>3, TrueBookBecomes DEF VoteBatch
<1>. QED  BY <1>2, <1>3

(* disburse_approved_loan keeps the facts.                                   *)
LEMMA DisburseApprovedLoanOnBook ==
    ASSUME LoansInv, NEW id \in LoanIds, DisburseApprovedLoan(id)
    PROVE  LoanFacts'
<1>1. CountsInv /\ TrueBook(Book)
  BY BookIsTrue DEF LoansInv
<1>2. Book.proposals[id].status = "ApprovedPendingDisbursement"
  BY DEF DisburseApprovedLoan, Book
<1>3. TrueBook(Disbursed(Book, id))
  BY <1>1, <1>2, DisbursedIsTrue
<1>. QED  BY <1>3, TrueBookBecomes DEF DisburseApprovedLoan

-----------------------------------------------------------------------------
(* Every operation keeps the facts. Those that touch neither members nor     *)
(* loans need no more than that.                                             *)
LEMMA LoanFactsFrame ==
    LoanFacts /\ UNCHANGED memberVars /\ UNCHANGED loanVars => LoanFacts'
<1>. SUFFICES ASSUME LoanFacts, UNCHANGED memberVars, UNCHANGED loanVars
              PROVE  LoanFacts'
  OBVIOUS
<1>1. \A m, statuses : LoansOf(m, statuses)' = LoansOf(m, statuses)
  BY DEF LoansOf, loanVars
<1>2. ProposalsIssued' /\ LoanBook'
  BY DEF LoanFacts, ProposalsIssued, LoanBook, Registered, IsMember, loanVars, memberVars
<1>3. ExitLockBacked' /\ TrackRecord'
  BY <1>1 DEF LoanFacts, ExitLockBacked, TrackRecord, memberVars
<1>. QED  BY <1>2, <1>3 DEF LoanFacts

(* So every step of the contract in operation keeps the facts.               *)
LEMMA LoanFactsStep == LoansInv /\ [Operate]_vars => LoanFacts'
<1>. SUFFICES ASSUME LoansInv, [Operate]_vars PROVE LoanFacts'
  OBVIOUS
<1>0. LoanFacts
  BY DEF LoansInv
<1>1. CASE Tick \/ \E asset \in Assets, amount \in DonationAmounts : Donate(asset, amount)
  BY <1>0, <1>1, LoanFactsFrame DEF Tick, Donate
<1>2. ASSUME NEW m \in Accounts, MembershipCall(m) PROVE LoanFacts'
  <2>1. CASE RegisterMember(m)
    BY <2>1, RegisterMemberOnBook
  <2>2. CASE ExitDao(m)
    BY <2>2, ExitDaoOnBook
  <2>3. CASE \/ ClaimRewards(m) \/ \E d \in Accounts : DelegateVote(m, d)
             \/ \E amount \in StakeAmounts : Stake(m, amount) \/ Unstake(m, amount)
    BY <1>0, <2>3, LoanFactsFrame DEF ClaimRewards, DelegateVote, Stake, Unstake
  <2>. QED  BY <1>2, <2>1, <2>2, <2>3 DEF MembershipCall
<1>3. ASSUME NEW m \in Accounts, LoanCall(m) PROVE LoanFacts'
  <2>1. CASE \E amount \in LoanAmounts, asset \in Assets :
                RequestLoanInAsset(m, amount, asset)
    BY <2>1, RequestLoanOnBook
  <2>2. CASE \E id \in LoanIds : \/ \E amount \in LoanAmounts : EditLoanProposal(m, id, amount)
                                 \/ CancelLoanProposal(m, id)
    BY <2>2, EditLoanProposalOnBook, CancelLoanProposalOnBook
  <2>3. CASE \/ \E id \in LoanIds, support \in BOOLEAN : VoteOnLoanProposal(m, id, support)
             \/ \E id1, id2 \in LoanIds, s1, s2 \in BOOLEAN : VoteBatch(m, id1, s1, id2, s2)
    BY <2>3, LoanBallotsOnBook
  <2>4. CASE \E id \in LoanIds :
                \/ \E amount \in RepaymentAmounts : RepayLoanPartial(m, id, amount)
                \/ RepayLoan(m, id)
                \/ \E asset \in Assets : RepayLoanInAsset(m, id, asset)
    BY <2>4, RepayAmountOnBook DEF RepayLoanPartial, RepayLoan, RepayLoanInAsset
  <2>. QED  BY <1>3, <2>1, <2>2, <2>3, <2>4 DEF LoanCall
<1>4. CASE \E m \in Accounts : TreasuryCall(m) \/ RegistryCall(m)
  <2>1. UNCHANGED memberVars /\ UNCHANGED loanVars
    BY <1>4 DEF TreasuryCall, ProposeWithdrawalInAsset, VoteOnTreasuryProposal, CommitVote,
                RevealVote, CancelTreasuryProposal, RegistryCall, RegisterName, AttachDocument
  <2>. QED  BY <1>0, <2>1, LoanFactsFrame
<1>5. CASE PublicCall
  <2>1. CASE \E id \in LoanIds : \/ DisburseApprovedLoan(id) \/ ExpireLoanProposal(id)
                                 \/ MarkLoanDefaulted(id)
    BY <2>1, DisburseApprovedLoanOnBook, ExpireLoanProposalOnBook, MarkLoanDefaultedOnBook
  <2>2. CASE \E id \in TreasuryIds : ExecuteTreasuryProposal(id) \/ ExpireTreasuryProposal(id)
    BY <1>0, <2>2, LoanFactsFrame DEF ExecuteTreasuryProposal, ExpireTreasuryProposal
  <2>. QED  BY <1>5, <2>1, <2>2 DEF PublicCall
<1>6. CASE \E caller \in Governors : AdminCall(caller)
  <2>1. AdminFrame
    BY <1>6 DEF AdminCall, AddAdmin, RemoveAdmin, SetPauser, RevokePauser,
         SetConsensusThreshold, Pause, Unpause, ProposePolicyUpdate,
         ExecutePolicyUpdate, CancelPolicyUpdate, ProposeTokenAddition,
         ExecuteTokenAddition, RemoveToken
  <2>. QED  BY <1>0, <2>1, LoanFactsFrame DEF AdminFrame
<1>7. CASE UNCHANGED vars
  BY <1>0, <1>7, LoanFactsFrame DEF vars
<1>. QED  BY <1>1, <1>2, <1>3, <1>4, <1>5, <1>6, <1>7 DEF Operate

(* `initialize` establishes them: there is no proposal and no loan.          *)
LEMMA LoanFactsInit == Init => LoanFacts
<1>. SUFFICES ASSUME Init PROVE LoanFacts
  OBVIOUS
<1>1. \A id \in LoanIds : loans[id].status = "None" /\ loanProposals[id].status = "None"
  BY DEF Init, NoLoan, NoLoanProposal
<1>2. \A m, statuses : "None" \notin statuses => LoansOf(m, statuses) = {}
  BY <1>1 DEF LoansOf
<1>3. ProposalsIssued /\ LoanBook
  BY <1>1 DEF ProposalsIssued, LoanBook
<1>4. ExitLockBacked /\ TrackRecord
  BY <1>2, FS_EmptySet DEF Init, NoMember, ExitLockBacked, TrackRecord
<1>. QED  BY <1>3, <1>4 DEF LoanFacts

(* In every deployment set up by `initialize`, loans, proposals, flags and   *)
(* counters agree with one another.                                          *)
THEOREM LoansInvariant == OperatingSpec => []LoansInv
<1>1. Init => LoansInv
  BY CountsInit, LoanFactsInit DEF LoansInv
<1>2. LoansInv /\ [Operate]_vars => LoansInv'
  BY CountsStep, LoanFactsStep DEF LoansInv, Next
<1>. QED  BY <1>1, <1>2, PTL DEF OperatingSpec

(* A loan exists exactly for the proposals that became Approved, whether a   *)
(* ballot, a batch or disburse_approved_loan paid it out (INVARIANTS.md L1), *)
(* in every deployment set up by `initialize`.                               *)
THEOREM LoanBookKept == OperatingSpec => []LoanBook
<1>1. LoansInv => LoanBook
  BY DEF LoansInv, LoanFacts
<1>. QED  BY <1>1, LoansInvariant, PTL

(* No member is kept from leaving by a loan that is no longer running,       *)
(* however many proposals of theirs were approved at once and in whatever    *)
(* order they repaid, defaulted, left and returned.                          *)
THEOREM ExitLockIsBacked == OperatingSpec => []ExitLockBacked
<1>1. LoansInv => ExitLockBacked
  BY DEF LoansInv, LoanFacts
<1>. QED  BY <1>1, LoansInvariant, PTL

(* The counters in a member's record count the member's loans on the book.   *)
THEOREM TrackRecordKept == OperatingSpec => []TrackRecord
<1>1. LoansInv => TrackRecord
  BY DEF LoansInv, LoanFacts
<1>. QED  BY <1>1, LoansInvariant, PTL
-----------------------------------------------------------------------------
(* Debts.                                                                    *)

(* Quotes and surcharges only add to a debt.                                 *)
LEMMA DebtsOnlyGrow ==
    ASSUME NEW p \in PolicyRecords, NEW amount \in Int, NEW treasury \in Int
    PROVE  /\ amount > 0 => TotalRepayment(p, amount, treasury) >= amount
           /\ OverduePenalty(p, amount) \in Nat
<1>1. \A x, y \in Int : x > 0 /\ y > 0 => BpsCeil(x, y) >= 0 /\ BpsCeil(x, y) \in Int
  <2>1. SUFFICES ASSUME NEW x \in Int, NEW y \in Int, x > 0, y > 0
                 PROVE  BpsCeil(x, y) >= 0 /\ BpsCeil(x, y) \in Int
    OBVIOUS
  <2>2. x * y \in Nat
    BY <2>1
  <2>. QED  BY <2>2 DEF BpsCeil, BASIS_POINTS
<1>2. OverduePenalty(p, amount) \in Nat
  BY <1>1 DEF OverduePenalty, PolicyRecords
<1>3. ASSUME amount > 0 PROVE TotalRepayment(p, amount, treasury) >= amount
  <2>1. InterestRate(p, amount, treasury) \in Int
    BY QuotesAreInt
  <2>2. Interest(p, amount, treasury) >= 0 /\ Interest(p, amount, treasury) \in Int
    BY <1>1, <1>3, <2>1 DEF Interest
  <2>. QED  BY <1>3, <2>2 DEF TotalRepayment
<1>. QED  BY <1>2, <1>3

(* A loan as it is paid out.                                                 *)
NewDebt(l) ==
    /\ l.status = "Active" /\ l.amount_repaid = 0
    /\ l.total_repayment > 0 /\ InterestOf(l) >= 0

(* What a step that is no payment makes of the loan l under an id: nothing,  *)
(* the loan where there was none, or a default.                              *)
DebtStands(k, l) ==
    \/ k = l
    \/ l.status = "None" /\ NewDebt(k)
    \/ /\ l.status = "Active"
       /\ k.status = "Defaulted"
       /\ k.total_repayment = l.total_repayment
       /\ k.principal = l.principal
       /\ k.amount_repaid = l.amount_repaid

(* What a payment leaves of it.                                              *)
DebtPaid(k, l) ==
    /\ l.status = "Active"
    /\ k.total_repayment >= l.total_repayment
    /\ InterestOf(k) = InterestOf(l)
    /\ l.amount_repaid < k.amount_repaid
    /\ k.amount_repaid <= k.total_repayment
    /\ k.status = IF k.amount_repaid = k.total_repayment THEN "Repaid" ELSE "Active"

(* What any step makes of it.                                                *)
DebtMoves(k, l) == DebtStands(k, l) \/ DebtPaid(k, l)

(* A surcharge raises a debt, but not the interest of it.                    *)
LEMMA SurchargedKeepsInterest ==
    ASSUME TypeOK, NEW l \in LoanRecords
    PROVE  /\ Surcharged(l).total_repayment >= l.total_repayment
           /\ InterestOf(Surcharged(l)) = InterestOf(l)
           /\ Surcharged(l).amount_repaid = l.amount_repaid
           /\ Surcharged(l).status = l.status
<1>. DEFINE before == Surcharged(l)
            penalty == OverduePenalty(policy, Outstanding(l))
<1>1. penalty \in Nat
  <2>1. Outstanding(l) \in Int /\ policy \in PolicyRecords
    BY DEF Outstanding, LoanRecords, TypeOK, AdminTypes
  <2>. QED  BY <2>1, DebtsOnlyGrow
<1>. HIDE DEF penalty
<1>2. \/ before = l
      \/ before = [l EXCEPT !.total_repayment = @ + penalty, !.principal = @ + penalty]
  BY DEF Surcharged, penalty
<1>3. CASE before = l
  <2>1. l.total_repayment \in Int
    BY DEF LoanRecords
  <2>. QED  BY <1>3, <2>1
<1>4. CASE before = [l EXCEPT !.total_repayment = @ + penalty, !.principal = @ + penalty]
  <2>1. /\ before.total_repayment = l.total_repayment + penalty
        /\ before.principal = l.principal + penalty
        /\ before.amount_repaid = l.amount_repaid /\ before.status = l.status
    BY <1>4 DEF LoanRecords
  <2>2. l.total_repayment \in Int /\ l.principal \in Int
    BY DEF LoanRecords
  <2>. HIDE DEF before
  <2>3. before.total_repayment >= l.total_repayment /\ InterestOf(before) = InterestOf(l)
    BY <1>1, <2>1, <2>2 DEF InterestOf
  <2>. QED  BY <2>1, <2>3 DEF before
<1>. QED  BY <1>2, <1>3, <1>4

(* A payment, surcharge included.                                            *)
LEMMA PaymentMoves ==
    ASSUME TypeOK, NEW m \in Accounts, NEW id \in LoanIds, NEW amount,
           RepayAmount(m, id, amount), NEW i \in LoanIds
    PROVE  DebtMoves(loans'[i], loans[i])
<1>. DEFINE l == loans[id]
            before == Surcharged(l)
            paid == [before EXCEPT !.amount_repaid = @ + amount]
<1>1. l \in LoanRecords /\ before \in LoanRecords
  BY SurchargedTyped DEF TypeOK, LoanTypes
<1>2. /\ before.total_repayment >= l.total_repayment
      /\ InterestOf(before) = InterestOf(l)
      /\ before.amount_repaid = l.amount_repaid
      /\ before.status = l.status
  BY <1>1, SurchargedKeepsInterest
<1>3. /\ l.status = "Active" /\ amount \in 1 .. Outstanding(before)
      /\ loans' = [loans EXCEPT ![id] =
           IF Outstanding(paid) = 0 THEN [paid EXCEPT !.status = "Repaid"] ELSE paid]
  BY DEF RepayAmount
<1>4. Outstanding(before) = before.total_repayment - before.amount_repaid
  BY DEF Outstanding
<1>5. /\ paid.total_repayment = before.total_repayment
      /\ paid.principal = before.principal
      /\ paid.amount_repaid = before.amount_repaid + amount
      /\ paid.status = before.status
      /\ \A s : [paid EXCEPT !.status = s].status = s
      /\ \A s : /\ [paid EXCEPT !.status = s].total_repayment = paid.total_repayment
                /\ [paid EXCEPT !.status = s].principal = paid.principal
                /\ [paid EXCEPT !.status = s].amount_repaid = paid.amount_repaid
  <2>. HIDE DEF before
  <2>. QED  BY <1>1 DEF LoanRecords
<1>6. amount \in Int /\ amount >= 1
      /\ before.amount_repaid + amount <= before.total_repayment
  BY <1>1, <1>3, <1>4 DEF LoanRecords
<1>7. CASE i = id
  <2>. DEFINE k == loans'[id]
  <2>1. k = IF Outstanding(paid) = 0 THEN [paid EXCEPT !.status = "Repaid"] ELSE paid
    <3>. HIDE DEF paid
    <3>. QED  BY <1>3 DEF TypeOK, LoanTypes
  <2>2. Outstanding(paid) = paid.total_repayment - paid.amount_repaid
    BY DEF Outstanding
  <2>. HIDE DEF k, paid, before
  <2>3. /\ k.total_repayment = before.total_repayment
        /\ k.principal = before.principal
        /\ k.amount_repaid = before.amount_repaid + amount
        /\ k.status = IF Outstanding(paid) = 0 THEN "Repaid" ELSE "Active"
    BY <1>2, <1>3, <1>5, <2>1
  <2>4. Outstanding(paid) = 0 <=> k.amount_repaid = k.total_repayment
    BY <1>1, <1>5, <1>6, <2>2, <2>3 DEF LoanRecords
  <2>5. InterestOf(k) = InterestOf(l)
    BY <1>2, <2>3 DEF InterestOf
  <2>6. l.amount_repaid < k.amount_repaid /\ k.amount_repaid <= k.total_repayment
    BY <1>1, <1>2, <1>6, <2>3 DEF LoanRecords
  <2>. HIDE DEF l
  <2>7. DebtMoves(k, l)
    BY <1>2, <1>3, <2>3, <2>4, <2>5, <2>6 DEF DebtMoves, DebtPaid
  <2>. QED  BY <1>7, <2>7 DEF k, l
<1>8. CASE i # id
  BY <1>3, <1>8 DEF DebtMoves, DebtStands, TypeOK, LoanTypes
<1>. QED  BY <1>7, <1>8

(* A default.                                                                *)
LEMMA DefaultStands ==
    ASSUME TypeOK, NEW id \in LoanIds, MarkLoanDefaulted(id), NEW i \in LoanIds
    PROVE  DebtStands(loans'[i], loans[i])
<1>1. /\ loans' = [loans EXCEPT ![id].status = "Defaulted"]
      /\ loans[id].status = "Active" /\ loans \in [LoanIds -> LoanRecords]
  BY DEF MarkLoanDefaulted, TypeOK, LoanTypes
<1>. QED  BY <1>1 DEF DebtStands, LoanRecords

(* The amounts asked for are positive.                                       *)
PositiveAmounts ==
    \A id \in LoanIds : id < nextProposalId => loanProposals[id].amount > 0

(* A book in which the only changes to loans are loans paid out.             *)
PaysOut(b) ==
    \A i \in LoanIds : \/ b.loans[i] = loans[i]
                       \/ loans[i].status = "None" /\ NewDebt(b.loans[i])

(* Paying out writes a debt where there was none.                            *)
LEMMA DisbursedPaysOut ==
    ASSUME LoansInv, NEW b, TrueBook(b), PaysOut(b), NEW id \in LoanIds,
           b.proposals[id].status \notin {"None", "Approved"}, b.proposals[id].amount > 0
    PROVE  PaysOut(Disbursed(b, id))
<1>. DEFINE p == b.proposals[id]
<1>1. b \in Books /\ p \in LoanProposalRecords /\ TypeOK
  BY DEF TrueBook, SoundBook, Books, LoansInv, CountsInv
<1>2. loans[id].status = "None"
  BY DEF TrueBook, BookFacts, PaysOut, NewDebt
<1>3. NewDebt(NewLoan(b, p))
  <2>1. TreasuryOf(b.balance, p.asset) \in Int
    BY <1>1 DEF TreasuryOf, Books, LoanProposalRecords, TypeOK, StakeTypes
  <2>. DEFINE total == TotalRepayment(policy, p.amount, TreasuryOf(b.balance, p.asset))
  <2>2. p.amount \in Int /\ policy \in PolicyRecords
    BY <1>1 DEF TypeOK, AdminTypes, LoanProposalRecords
  <2>3. total \in Int /\ total >= p.amount
    BY <2>1, <2>2, DebtsOnlyGrow, QuotesAreInt
  <2>. DEFINE l == NewLoan(b, p)
  <2>4. /\ l.status = "Active" /\ l.amount_repaid = 0
        /\ l.total_repayment = total /\ l.principal = p.amount
    BY DEF NewLoan
  <2>. HIDE DEF total, p, l
  <2>. QED  BY <2>2, <2>3, <2>4 DEF NewDebt, InterestOf, l, p
<1>4. \A i \in LoanIds :
         Disbursed(b, id).loans[i] = IF i = id THEN NewLoan(b, p) ELSE b.loans[i]
  BY <1>1 DEF Disbursed, Books
<1>. QED  BY <1>2, <1>3, <1>4 DEF PaysOut

(* So does a ballot that decides a loan.                                     *)
LEMMA BallotPaysOut ==
    ASSUME LoansInv, NEW b, TrueBook(b), PaysOut(b), NEW voter \in Accounts,
           NEW id \in LoanIds, NEW support \in BOOLEAN, MayVoteOnLoan(b, voter, id),
           b.proposals[id].amount > 0
    PROVE  PaysOut(LoanVoteCast(b, voter, id, support))
<1>. DEFINE after == BallotBook(b, voter, id, support)
            c == LoanVoteCast(b, voter, id, support)
<1>1. TrueBook(after) /\ CountsInv /\ TypeOK /\ b \in Books
  BY BallotBookIsTrue DEF LoansInv, CountsInv, TrueBook, SoundBook
<1>2. PaysOut(after)
  BY DEF PaysOut, BallotBook
<1>3. c.proposals[id].amount = b.proposals[id].amount
  BY <1>1, BallotIsLater, FurtherKeeps
<1>4. c = after \/ /\ c = Disbursed(after, id)
                   /\ after.proposals[id].status = "ApprovedPendingDisbursement"
  BY DEF LoanVoteCast
<1>. HIDE DEF after, c
<1>5. CASE c = Disbursed(after, id)
           /\ after.proposals[id].status = "ApprovedPendingDisbursement"
  <2>1. Disbursed(after, id).proposals[id].amount = after.proposals[id].amount
    BY <1>1 DEF Disbursed, TrueBook, SoundBook, Books, LoanProposalRecords
  <2>2. PaysOut(Disbursed(after, id))
    BY <1>1, <1>2, <1>3, <1>5, <2>1, DisbursedPaysOut
  <2>. QED  BY <1>5, <2>2 DEF c
<1>. QED  BY <1>2, <1>4, <1>5 DEF c

(* In operation loans are touched by the calls on proposals, by payments and *)
(* by defaults.                                                              *)
LEMMA LoanSteps ==
    ASSUME [Operate]_vars
    PROVE  \/ UNCHANGED loanVars
           \/ LoanBallotCall
           \/ \E m \in Accounts, id \in LoanIds : \E amount : RepayAmount(m, id, amount)
           \/ \E id \in LoanIds : MarkLoanDefaulted(id)
<1>1. CASE Tick \/ \E asset \in Assets, amount \in DonationAmounts : Donate(asset, amount)
  BY <1>1 DEF Tick, Donate
<1>2. CASE \E m \in Accounts : MembershipCall(m)
  BY <1>2 DEF MembershipCall, RegisterMember, ExitDao, ClaimRewards, DelegateVote,
              Stake, Unstake
<1>3. ASSUME NEW m \in Accounts, LoanCall(m)
      PROVE  LoanBallotCall \/ \E id \in LoanIds : \E amount : RepayAmount(m, id, amount)
  <2>1. CASE \E id \in LoanIds :
                \/ \E amount \in RepaymentAmounts : RepayLoanPartial(m, id, amount)
                \/ RepayLoan(m, id)
                \/ \E asset \in Assets : RepayLoanInAsset(m, id, asset)
    BY <2>1 DEF RepayLoanPartial, RepayLoan, RepayLoanInAsset
  <2>2. CASE LoanBallotCall
    BY <2>2
  <2>. QED  BY <1>3, <2>1, <2>2 DEF LoanCall, LoanBallotCall
<1>4. CASE \E m \in Accounts : TreasuryCall(m) \/ RegistryCall(m)
  BY <1>4 DEF TreasuryCall, ProposeWithdrawalInAsset, VoteOnTreasuryProposal, CommitVote,
              RevealVote, CancelTreasuryProposal, RegistryCall, RegisterName, AttachDocument
<1>5. CASE PublicCall
  BY <1>5 DEF PublicCall, LoanBallotCall, ExecuteTreasuryProposal, ExpireTreasuryProposal
<1>6. CASE \E caller \in Governors : AdminCall(caller)
  <2>1. AdminFrame
    BY <1>6 DEF AdminCall, AddAdmin, RemoveAdmin, SetPauser, RevokePauser,
         SetConsensusThreshold, Pause, Unpause, ProposePolicyUpdate,
         ExecutePolicyUpdate, CancelPolicyUpdate, ProposeTokenAddition,
         ExecuteTokenAddition, RemoveToken
  <2>. QED  BY <2>1 DEF AdminFrame
<1>7. CASE UNCHANGED vars
  BY <1>7 DEF vars
<1>. QED  BY <1>1, <1>2, <1>3, <1>4, <1>5, <1>6, <1>7 DEF Operate

(* Every step keeps amounts positive.                                        *)
LEMMA AmountsStep ==
    ASSUME TypeOK, PositiveAmounts, [Operate]_vars
    PROVE  PositiveAmounts'
<1>1. /\ loanProposals \in [LoanIds -> LoanProposalRecords] /\ nextProposalId \in Nat
  BY DEF TypeOK, LoanTypes
<1>2. UNCHANGED <<loanProposals, nextProposalId>> => PositiveAmounts'
  BY DEF PositiveAmounts
<1>3. CASE \/ UNCHANGED loanVars
           \/ \E m \in Accounts, id \in LoanIds : \E amount : RepayAmount(m, id, amount)
           \/ \E id \in LoanIds : MarkLoanDefaulted(id)
  BY <1>2, <1>3 DEF loanVars, RepayAmount, MarkLoanDefaulted
<1>4. ASSUME NEW m \in Accounts, NEW amount \in LoanAmounts, NEW asset \in Assets,
             RequestLoanInAsset(m, amount, asset)
      PROVE  PositiveAmounts'
  <2>1. /\ nextProposalId' = nextProposalId + 1 /\ amount > 0
        /\ \A id \in LoanIds \ {nextProposalId} : loanProposals'[id] = loanProposals[id]
        /\ nextProposalId \in LoanIds => loanProposals'[nextProposalId].amount = amount
    BY <1>1, <1>4 DEF RequestLoanInAsset
  <2>2. \A id \in LoanIds : id < nextProposalId + 1 => id = nextProposalId \/ id < nextProposalId
    BY <1>1 DEF LoanIds
  <2>. QED  BY <2>1, <2>2 DEF PositiveAmounts
<1>5. ASSUME NEW m \in Accounts, NEW edited \in LoanIds, NEW amount \in LoanAmounts,
             EditLoanProposal(m, edited, amount)
      PROVE  PositiveAmounts'
  <2>1. /\ nextProposalId' = nextProposalId /\ amount > 0
        /\ \A id \in LoanIds \ {edited} : loanProposals'[id] = loanProposals[id]
        /\ loanProposals'[edited].amount = amount
    BY <1>1, <1>5 DEF EditLoanProposal, LoanProposalRecords
  <2>. QED  BY <2>1 DEF PositiveAmounts
<1>6. CASE LoanBallotCall /\ UNCHANGED nextProposalId
  <2>1. CASE Further(loanProposals', loanVoted', loanProposals, loanVoted)
    <3>1. \A id \in LoanIds : loanProposals'[id].amount = loanProposals[id].amount
      BY <2>1, FurtherKeeps
    <3>. QED  BY <1>6, <3>1 DEF PositiveAmounts
  <2>. QED  BY <1>4, <1>5, <1>6, <2>1, LoanCallKinds
<1>7. CASE LoanBallotCall /\ ~UNCHANGED nextProposalId
  <2>1. \E m \in Accounts, amount \in LoanAmounts, asset \in Assets :
           RequestLoanInAsset(m, amount, asset)
    BY <1>7 DEF LoanBallotCall, EditLoanProposal, CancelLoanProposal, VoteOnLoanProposal,
                VoteBatch, DisburseApprovedLoan, ExpireLoanProposal
  <2>. QED  BY <1>4, <2>1
<1>. QED  BY <1>3, <1>6, <1>7, LoanSteps

(* Every step but a payment lets debts stand.                                *)
LEMMA DebtsStand ==
    ASSUME LoansInv, PositiveAmounts, [Operate]_vars, NEW i \in LoanIds
    PROVE  \/ DebtStands(loans'[i], loans[i])
           \/ \E m \in Accounts, id \in LoanIds : \E amount : RepayAmount(m, id, amount)
<1>1. TypeOK /\ CountsInv /\ TrueBook(Book) /\ PaysOut(Book)
  BY BookIsTrue DEF LoansInv, CountsInv, PaysOut, Book
<1>2. \A id \in LoanIds : loanProposals[id].status # "None" => loanProposals[id].amount > 0
  BY DEF LoansInv, LoanFacts, ProposalsIssued, PositiveAmounts
<1>3. ASSUME NEW b, PaysOut(b), BecomesBook(b) PROVE DebtStands(loans'[i], loans[i])
  BY <1>3 DEF PaysOut, BecomesBook, DebtStands
<1>4. UNCHANGED loans => DebtStands(loans'[i], loans[i])
  BY DEF DebtStands
<1>5. CASE UNCHANGED loanVars
  BY <1>4, <1>5 DEF loanVars
<1>6. ASSUME NEW m \in Accounts, NEW id \in LoanIds, NEW support \in BOOLEAN,
             VoteOnLoanProposal(m, id, support)
      PROVE  DebtStands(loans'[i], loans[i])
  <2>1. MayVoteOnLoan(Book, m, id) /\ BecomesBook(LoanVoteCast(Book, m, id, support))
    BY <1>6 DEF VoteOnLoanProposal
  <2>2. Book.proposals[id].amount > 0
    BY <1>2, <2>1 DEF MayVoteOnLoan, Book
  <2>3. PaysOut(LoanVoteCast(Book, m, id, support))
    BY <1>1, <2>1, <2>2, BallotPaysOut
  <2>. QED  BY <1>3, <2>1, <2>3
<1>7. ASSUME NEW m \in Accounts, NEW id1 \in LoanIds, NEW id2 \in LoanIds,
             NEW s1 \in BOOLEAN, NEW s2 \in BOOLEAN, VoteBatch(m, id1, s1, id2, s2)
      PROVE  DebtStands(loans'[i], loans[i])
  <2>. DEFINE c == LoanVoteCast(Book, m, id1, s1)
              d == LoanVoteCast(c, m, id2, s2)
  <2>1. MayVoteOnLoan(Book, m, id1) /\ MayVoteOnLoan(c, m, id2) /\ BecomesBook(d)
    BY <1>7 DEF VoteBatch
  <2>2. Book.proposals[id1].amount > 0 /\ Book.proposals = loanProposals
    BY <1>2, <2>1 DEF MayVoteOnLoan, Book
  <2>3. PaysOut(c) /\ TrueBook(c)
    BY <1>1, <2>1, <2>2, BallotPaysOut, LoanVoteCastIsTrue
  <2>4. Further(c.proposals, c.voted, Book.proposals, Book.voted)
    BY <1>1, <2>1, BallotIsLater DEF TrueBook, SoundBook
  <2>. HIDE DEF c
  <2>5. c.proposals[id2].amount > 0
    <3>1. id2 < nextProposalId
      BY <2>1, <2>3 DEF MayVoteOnLoan, TrueBook, BookFacts
    <3>2. c.proposals[id2].amount = loanProposals[id2].amount
      BY <2>2, <2>4, FurtherKeeps
    <3>. QED  BY <3>1, <3>2 DEF PositiveAmounts
  <2>6. PaysOut(d)
    BY <2>1, <2>3, <2>5, BallotPaysOut
  <2>. HIDE DEF d
  <2>. QED  BY <1>3, <2>1, <2>6
<1>8. ASSUME NEW id \in LoanIds, DisburseApprovedLoan(id)
      PROVE  DebtStands(loans'[i], loans[i])
  <2>1. /\ Book.proposals[id].status = "ApprovedPendingDisbursement"
        /\ BecomesBook(Disbursed(Book, id))
    BY <1>8 DEF DisburseApprovedLoan, Book
  <2>2. Book.proposals[id].amount > 0
    BY <1>2, <2>1 DEF Book
  <2>3. PaysOut(Disbursed(Book, id))
    BY <1>1, <2>1, <2>2, DisbursedPaysOut
  <2>. QED  BY <1>3, <2>1, <2>3
<1>9. CASE LoanBallotCall
  <2>1. CASE UNCHANGED loans
    BY <1>4, <2>1
  <2>2. CASE ~UNCHANGED loans
    <3>1. \/ \E m \in Accounts, id \in LoanIds, support \in BOOLEAN :
                VoteOnLoanProposal(m, id, support)
          \/ \E m \in Accounts, id1, id2 \in LoanIds, s1, s2 \in BOOLEAN :
                VoteBatch(m, id1, s1, id2, s2)
          \/ \E id \in LoanIds : DisburseApprovedLoan(id)
      BY <1>9, <2>2 DEF LoanBallotCall, RequestLoanInAsset, EditLoanProposal,
                        CancelLoanProposal, ExpireLoanProposal
    <3>. QED  BY <1>6, <1>7, <1>8, <3>1
  <2>. QED  BY <2>1, <2>2
<1>10. CASE \E id \in LoanIds : MarkLoanDefaulted(id)
  BY <1>1, <1>10, DefaultStands
<1>. QED  BY <1>5, <1>9, <1>10, LoanSteps

(* Every step lets debts stand or pays one.                                  *)
LEMMA DebtsStep ==
    ASSUME LoansInv, PositiveAmounts, [Operate]_vars, NEW i \in LoanIds
    PROVE  DebtMoves(loans'[i], loans[i])
<1>1. TypeOK
  BY DEF LoansInv, CountsInv
<1>. QED  BY <1>1, DebtsStand, PaymentMoves DEF DebtMoves

(* The inductive invariant.                                                  *)
DebtsInv == LoansInv /\ PositiveAmounts /\ RepaidInFull

(* A fresh deployment has no debts.                                          *)
LEMMA DebtsInit == Init => DebtsInv
<1>1. Init => PositiveAmounts /\ RepaidInFull
  BY DEF Init, PositiveAmounts, RepaidInFull, NoLoan, LoanIds
<1>. QED  BY <1>1, CountsInit, LoanFactsInit DEF DebtsInv, LoansInv

(* Every step keeps amounts positive and loans repaid in full.               *)
LEMMA DebtsInvStep ==
    ASSUME DebtsInv, [Operate]_vars
    PROVE  DebtsInv'
<1>1. LoansInv' /\ PositiveAmounts' /\ TypeOK
  BY CountsStep, LoanFactsStep, AmountsStep DEF DebtsInv, LoansInv, CountsInv, Next
<1>2. ASSUME NEW id \in LoanIds, loans'[id].status # "None"
      PROVE  /\ loans'[id].amount_repaid \in 0 .. loans'[id].total_repayment
             /\ loans'[id].status = "Repaid"
                  <=> loans'[id].amount_repaid = loans'[id].total_repayment
  <2>. DEFINE k == loans'[id]
              l == loans[id]
  <2>1. DebtMoves(k, l)
    BY DebtsStep DEF DebtsInv
  <2>2. l \in LoanRecords /\ k \in LoanRecords
    BY <1>1 DEF TypeOK, LoanTypes, LoansInv, CountsInv
  <2>3. l.status # "None" => /\ l.amount_repaid \in 0 .. l.total_repayment
                             /\ l.status = "Repaid" <=> l.amount_repaid = l.total_repayment
    BY DEF DebtsInv, RepaidInFull
  <2>. HIDE DEF k, l
  <2>4. CASE k = l
    BY <1>2, <2>3, <2>4 DEF k
  <2>5. CASE l.status = "None" /\ NewDebt(k)
    BY <2>2, <2>5 DEF NewDebt, LoanRecords, k
  <2>6. CASE l.status = "Active" /\ k.status # "None" /\ l.status # k.status
             /\ k.total_repayment = l.total_repayment /\ k.amount_repaid = l.amount_repaid
             /\ k.status = "Defaulted"
    BY <2>2, <2>3, <2>6 DEF LoanRecords, k
  <2>7. CASE /\ l.status = "Active"
             /\ k.total_repayment >= l.total_repayment
             /\ l.amount_repaid < k.amount_repaid
             /\ k.amount_repaid <= k.total_repayment
             /\ k.status = IF k.amount_repaid = k.total_repayment THEN "Repaid" ELSE "Active"
    BY <2>2, <2>3, <2>7 DEF LoanRecords, k
  <2>. QED  BY <2>1, <2>4, <2>5, <2>6, <2>7
        DEF DebtMoves, DebtStands, DebtPaid
<1>. QED  BY <1>1, <1>2 DEF DebtsInv, RepaidInFull

(* In every deployment set up by `initialize` amounts are positive and       *)
(* loans are repaid in full.                                                 *)
THEOREM DebtsInvariant == OperatingSpec => []DebtsInv
<1>1. DebtsInv /\ [Operate]_vars => DebtsInv'
  BY DebtsInvStep
<1>. QED  BY <1>1, DebtsInit, PTL DEF OperatingSpec

(* A loan is Repaid exactly when principal, interest and every surcharge are *)
(* paid, and nobody pays more than they owe (repay_loan_internal), in every  *)
(* deployment set up by `initialize` and for every policy in force meanwhile.*)
THEOREM LoansRepaidInFull == OperatingSpec => []RepaidInFull
<1>1. DebtsInv => RepaidInFull
  BY DEF DebtsInv
<1>. QED  BY <1>1, DebtsInvariant, PTL

(* The interest of a loan is settled when it is paid out: no payment,        *)
(* surcharge or default changes it, and none of it is taken back.            *)
THEOREM InterestIsFixed == OperatingSpec => InterestFixed
<1>1. ASSUME DebtsInv, [Operate]_vars, NEW id \in LoanIds, loans[id].status # "None"
      PROVE  /\ InterestOf(loans'[id]) = InterestOf(loans[id])
             /\ InterestPaid(loans'[id]) >= InterestPaid(loans[id])
  <2>. DEFINE k == loans'[id]
              l == loans[id]
  <2>1. DebtMoves(k, l)
    BY <1>1, DebtsStep DEF DebtsInv
  <2>2. l \in LoanRecords /\ k \in LoanRecords
    BY <1>1, CountsStep DEF DebtsInv, LoansInv, CountsInv, TypeOK, LoanTypes, Next
  <2>3. InterestOf(k) = InterestOf(l) /\ k.amount_repaid >= l.amount_repaid
    BY <1>1, <2>1, <2>2
       DEF DebtMoves, DebtStands, DebtPaid, InterestOf, LoanRecords
  <2>4. InterestOf(l) \in Int /\ l.amount_repaid \in Int /\ k.amount_repaid \in Int
    BY <2>2 DEF InterestOf, LoanRecords
  <2>. HIDE DEF k, l
  <2>5. InterestPaid(k) >= InterestPaid(l)
    BY <2>3, <2>4 DEF InterestPaid, Lesser
  <2>. QED  BY <2>3, <2>5 DEF k, l
<1>2. DebtsInv /\ [Operate]_vars
        => [\A id \in LoanIds : loans[id].status # "None" =>
              /\ InterestOf(loans[id])' = InterestOf(loans[id])
              /\ InterestPaid(loans[id])' >= InterestPaid(loans[id])]_vars
  BY <1>1 DEF InterestOf, InterestPaid
<1>. QED  BY <1>2, DebtsInvariant, PTL DEF OperatingSpec, InterestFixed

-----------------------------------------------------------------------------
(* What members can claim of the interest.                                   *)

(* What each account could claim, nothing for those who left, ...            *)
Claims == [a \in Accounts |-> IF a \in ActiveMembers THEN PendingYield(a) ELSE 0]

(* ... and the interest each base-token loan has brought in.                 *)
Earned == [id \in LoanIds |-> IF id \in BaseLoans THEN InterestPaid(loans[id]) ELSE 0]

(* Both are integers.                                                        *)
LEMMA AmountsTyped ==
    TypeOK => /\ Claims \in [Accounts -> Int]
              /\ \A a \in Accounts : PendingYield(a) \in Int
              /\ Earned \in [LoanIds -> Int]
              /\ \A id \in LoanIds : InterestPaid(loans[id]) \in Int
<1>. SUFFICES ASSUME TypeOK
              PROVE  /\ \A a \in Accounts : PendingYield(a) \in Int
                     /\ \A id \in LoanIds : InterestPaid(loans[id]) \in Int
  BY DEF Claims, Earned
<1>1. \A id \in LoanIds : loans[id] \in LoanRecords
  BY DEF TypeOK, LoanTypes
<1>2. \A l \in LoanRecords : InterestPaid(l) \in Int
  BY DEF LoanRecords, InterestPaid, InterestOf, Lesser
<1>. QED  BY <1>1, <1>2, PayoutIsInt

(* The yield owed and the interest received are sums over all accounts and   *)
(* all ids.                                                                  *)
TakenOverAll ==
    /\ YieldOwed = SumFunctionOnSet(Claims, Accounts) + yieldRemainder
    /\ InterestReceived = SumFunctionOnSet(Earned, LoanIds)
    /\ SumFunctionOnSet(Claims, Accounts) \in Int
    /\ SumFunctionOnSet(Earned, LoanIds) \in Int

(* In every state ...                                                        *)
LEMMA SumsTaken == TypeOK => TakenOverAll
<1>. SUFFICES ASSUME TypeOK PROVE TakenOverAll
  OBVIOUS
<1>1. IsFiniteSet(Accounts) /\ IsFiniteSet(LoanIds)
  BY AccountsAssumption, LoansAreFinite
<1>2. /\ SumFunctionOnSet(Claims, Accounts) \in Int
      /\ SumFunctionOnSet(Earned, LoanIds) \in Int
  <2>1. /\ \A a \in Accounts : Claims[a] \in Int
        /\ \A id \in LoanIds : Earned[id] \in Int
    BY AmountsTyped
  <2>. QED  BY <1>1, <2>1, SumIsInt
<1>3. YieldOwed = SumFunctionOnSet(Claims, Accounts) + yieldRemainder
  <2>. DEFINE f == [a \in Accounts |-> PendingYield(a)]
  <2>1. ActiveMembers \subseteq Accounts /\ \A a \in ActiveMembers : f[a] \in Int
    BY AmountsTyped DEF ActiveMembers
  <2>2. \A a \in Accounts : Claims[a] = IF a \in ActiveMembers THEN f[a] ELSE 0
    BY DEF Claims
  <2>3. YieldOwed = SumFunctionOnSet(f, ActiveMembers) + yieldRemainder
    BY DEF YieldOwed
  <2>. HIDE DEF f
  <2>4. SumFunctionOnSet(f, ActiveMembers) = SumFunctionOnSet(Claims, Accounts)
    BY <1>1, <2>1, <2>2, SumOverAll
  <2>. QED  BY <2>3, <2>4
<1>4. InterestReceived = SumFunctionOnSet(Earned, LoanIds)
  <2>. DEFINE f == [id \in LoanIds |-> InterestPaid(loans[id])]
  <2>1. BaseLoans \subseteq LoanIds /\ \A id \in BaseLoans : f[id] \in Int
    BY AmountsTyped DEF BaseLoans
  <2>2. \A id \in LoanIds : Earned[id] = IF id \in BaseLoans THEN f[id] ELSE 0
    BY DEF Earned
  <2>3. InterestReceived = SumFunctionOnSet(f, BaseLoans)
    BY DEF InterestReceived
  <2>. HIDE DEF f
  <2>4. SumFunctionOnSet(f, BaseLoans) = SumFunctionOnSet(Earned, LoanIds)
    BY <1>1, <2>1, <2>2, SumOverAll
  <2>. QED  BY <2>3, <2>4
<1>. QED  BY <1>2, <1>3, <1>4 DEF TakenOverAll

(* The same of the state a step leads to, ...                                *)
LEMMA AmountsTypedNext ==
    TypeOK' => /\ Claims' \in [Accounts -> Int]
               /\ Earned' \in [LoanIds -> Int]
<1>. DEFINE Typed == Claims \in [Accounts -> Int] /\ Earned \in [LoanIds -> Int]
<1>1. TypeOK => Typed
  BY AmountsTyped
<1>. HIDE DEF Typed
<1>2. TypeOK' => Typed'
  BY <1>1, PTL
<1>. QED  BY <1>2 DEF Typed

(* ... and of the sums there.                                                *)
LEMMA SumsTakenNext == TypeOK' => TakenOverAll'
  BY SumsTaken, PTL

(* No member's snapshot is ahead of the accumulator: nobody's claim is       *)
(* negative.                                                                 *)
SnapshotsBehind == \A a \in Accounts : yieldSnapshot[a] <= yieldAccumulator

(* No loan on the books has negative interest.                               *)
InterestOwed ==
    \A id \in LoanIds : loans[id].status # "None" => InterestOf(loans[id]) >= 0

(* A step that shares out nothing.                                           *)
SharesNothing ==
    /\ UNCHANGED <<yieldAccumulator, yieldRemainder>>
    /\ \A a \in Accounts : yieldSnapshot'[a] \in {yieldSnapshot[a], yieldAccumulator}
    /\ \A a \in ActiveMembers' \ ActiveMembers : yieldSnapshot'[a] = yieldAccumulator

(* Interest is shared out by a repayment and by nothing else.                *)
LEMMA SharingSteps ==
    ASSUME CountsInv, [Operate]_vars
    PROVE  \/ SharesNothing
           \/ \E m \in Accounts, id \in LoanIds : \E amount : RepayAmount(m, id, amount)
<1>1. yieldSnapshot \in [Accounts -> Int] /\ members \in [Accounts -> MemberRecords]
  BY DEF CountsInv, TypeOK, YieldTypes, MemberTypes
<1>2. UNCHANGED yieldVars /\ ActiveMembers' = ActiveMembers => SharesNothing
  BY DEF SharesNothing, yieldVars
<1>3. UNCHANGED yieldVars /\ UNCHANGED memberVars => SharesNothing
  BY <1>2 DEF memberVars, ActiveMembers, IsActiveMember
<1>4. UNCHANGED yieldVars /\ StatusesKept => SharesNothing
  BY <1>2 DEF StatusesKept, ActiveMembers, IsActiveMember
<1>5. CASE Tick \/ \E asset \in Assets, amount \in DonationAmounts : Donate(asset, amount)
  BY <1>3, <1>5 DEF Tick, Donate
<1>6. ASSUME NEW m \in Accounts, RegisterMember(m) PROVE SharesNothing
  <2>1. \A a \in Accounts : yieldSnapshot'[a] = IF a = m THEN yieldAccumulator
                                                ELSE yieldSnapshot[a]
    BY <1>1, <1>6 DEF RegisterMember, SnapshotOnJoining
  <2>2. \A a \in Accounts : a # m => members'[a] = members[a]
    BY <1>1, <1>6 DEF RegisterMember
  <2>. QED
    BY <1>6, <2>1, <2>2 DEF RegisterMember, SharesNothing, ActiveMembers, IsActiveMember
<1>7. ASSUME NEW m \in Accounts, ExitDao(m) PROVE SharesNothing
  <2>1. \A a \in Accounts : yieldSnapshot'[a] = IF a = m THEN yieldAccumulator
                                                ELSE yieldSnapshot[a]
    BY <1>1, <1>7 DEF ExitDao
  <2>2. \A a \in Accounts : a # m => members'[a] = members[a]
    BY <1>1, <1>7 DEF ExitDao
  <2>. QED
    BY <1>7, <2>1, <2>2 DEF ExitDao, SharesNothing, ActiveMembers, IsActiveMember
<1>8. ASSUME NEW m \in Accounts, ClaimRewards(m) PROVE SharesNothing
  BY <1>1, <1>8 DEF ClaimRewards, SharesNothing, memberVars, ActiveMembers, IsActiveMember
<1>9. CASE \E m \in Accounts : MembershipCall(m)
  BY <1>3, <1>6, <1>7, <1>8, <1>9 DEF MembershipCall, DelegateVote, Stake, Unstake
<1>10. ASSUME NEW id \in LoanIds, DisburseApprovedLoan(id) PROVE SharesNothing
  <2>1. StatusesKept
    BY <1>10, DisburseApprovedLoanCounted
  <2>. QED  BY <1>4, <1>10, <2>1 DEF DisburseApprovedLoan
<1>11. CASE LoanBallotCall
  <2>1. ASSUME NEW m \in Accounts,
               \/ \E id \in LoanIds, support \in BOOLEAN : VoteOnLoanProposal(m, id, support)
               \/ \E id1, id2 \in LoanIds, s1, s2 \in BOOLEAN : VoteBatch(m, id1, s1, id2, s2)
        PROVE  SharesNothing
    <3>1. StatusesKept
      BY <2>1, LoanBallotsCounted
    <3>. QED  BY <1>4, <2>1, <3>1 DEF VoteOnLoanProposal, VoteBatch
  <2>. QED
    BY <1>3, <1>10, <1>11, <2>1 DEF LoanBallotCall, RequestLoanInAsset, EditLoanProposal,
       CancelLoanProposal, ExpireLoanProposal
<1>12. ASSUME NEW id \in LoanIds, MarkLoanDefaulted(id) PROVE SharesNothing
  <2>1. StatusesKept
    BY <1>12, MarkLoanDefaultedCounted
  <2>2. ActiveMembers' = ActiveMembers
    BY <2>1 DEF StatusesKept, ActiveMembers, IsActiveMember
  <2>. QED  BY <1>1, <1>12, <2>2 DEF MarkLoanDefaulted, SharesNothing
<1>13. CASE \E m \in Accounts : TreasuryCall(m) \/ RegistryCall(m)
  BY <1>3, <1>13
     DEF TreasuryCall, ProposeWithdrawalInAsset, VoteOnTreasuryProposal, CommitVote,
         RevealVote, CancelTreasuryProposal, RegistryCall, RegisterName, AttachDocument
<1>14. CASE \E id \in TreasuryIds : ExecuteTreasuryProposal(id) \/ ExpireTreasuryProposal(id)
  BY <1>3, <1>14 DEF ExecuteTreasuryProposal, ExpireTreasuryProposal
<1>15. CASE \E caller \in Governors : AdminCall(caller)
  <2>1. AdminFrame
    BY <1>15 DEF AdminCall, AddAdmin, RemoveAdmin, SetPauser, RevokePauser,
         SetConsensusThreshold, Pause, Unpause, ProposePolicyUpdate,
         ExecutePolicyUpdate, CancelPolicyUpdate, ProposeTokenAddition,
         ExecuteTokenAddition, RemoveToken
  <2>. QED  BY <1>3, <2>1 DEF AdminFrame
<1>16. CASE UNCHANGED vars
  BY <1>3, <1>16 DEF vars
<1>17. CASE \E m \in Accounts : LoanCall(m)
  <2>1. \/ LoanBallotCall
        \/ \E m \in Accounts, id \in LoanIds : \E amount : RepayAmount(m, id, amount)
    BY <1>17 DEF LoanCall, LoanBallotCall, RepayLoanPartial, RepayLoan, RepayLoanInAsset
  <2>. QED  BY <1>11, <2>1
<1>18. CASE PublicCall
  BY <1>11, <1>12, <1>14, <1>18 DEF PublicCall, LoanBallotCall
<1>. QED  BY <1>5, <1>9, <1>13, <1>15, <1>16, <1>17, <1>18 DEF Operate

(* Sharing nothing, claims only shrink.                                      *)
LEMMA NothingShared ==
    ASSUME TypeOK, TypeOK', SnapshotsBehind, SharesNothing
    PROVE  /\ SnapshotsBehind'
           /\ \A a \in Accounts : Claims'[a] <= Claims[a]
           /\ UNCHANGED <<yieldSnapshot, ActiveMembers>> => Claims' = Claims
<1>1. /\ yieldAccumulator \in Int /\ yieldSnapshot \in [Accounts -> Int]
      /\ yieldSnapshot' \in [Accounts -> Int]
      /\ yieldAccumulator' = yieldAccumulator
  BY DEF TypeOK, YieldTypes, SharesNothing
<1>2. SnapshotsBehind'
  BY <1>1 DEF SnapshotsBehind, SharesNothing
<1>3. \A a \in Accounts : /\ PendingYield(a) = yieldAccumulator - yieldSnapshot[a]
                          /\ PendingYield(a)' = yieldAccumulator - yieldSnapshot'[a]
  BY <1>1, <1>2 DEF SnapshotsBehind, PendingYield
<1>4. ASSUME NEW a \in Accounts PROVE Claims'[a] <= Claims[a]
  <2>1. /\ Claims[a] = IF a \in ActiveMembers THEN PendingYield(a) ELSE 0
        /\ Claims'[a] = IF a \in ActiveMembers' THEN PendingYield(a)' ELSE 0
    BY DEF Claims
  <2>2. yieldSnapshot[a] <= yieldAccumulator /\ yieldSnapshot'[a] \in {yieldSnapshot[a], yieldAccumulator}
    BY DEF SnapshotsBehind, SharesNothing
  <2>3. a \in ActiveMembers' /\ a \notin ActiveMembers => yieldSnapshot'[a] = yieldAccumulator
    BY DEF SharesNothing
  <2>4. yieldSnapshot[a] \in Int
    BY <1>1
  <2>. QED  BY <1>1, <1>3, <2>1, <2>2, <2>3, <2>4
<1>5. ASSUME UNCHANGED <<yieldSnapshot, ActiveMembers>> PROVE Claims' = Claims
  BY <1>3, <1>5 DEF Claims
<1>. QED  BY <1>2, <1>4, <1>5

(* A loan's asset is settled when it is asked for.                           *)
LEMMA AssetsFixed ==
    ASSUME LoansInv, [Operate]_vars, NEW id \in LoanIds, loans[id].status # "None"
    PROVE  loanProposals'[id].asset = loanProposals[id].asset
<1>1. TypeOK /\ id < nextProposalId
  BY DEF LoansInv, CountsInv, LoanFacts, LoanBook
<1>2. /\ loanProposals \in [LoanIds -> LoanProposalRecords] /\ nextProposalId \in Nat
      /\ id \in Nat
  BY <1>1, BoundsAssumption DEF TypeOK, LoanTypes, LoanIds
<1>3. ASSUME NEW m \in Accounts, NEW amount \in LoanAmounts, NEW asset \in Assets,
             RequestLoanInAsset(m, amount, asset)
      PROVE  loanProposals'[id] = loanProposals[id]
  BY <1>1, <1>2, <1>3 DEF RequestLoanInAsset
<1>4. ASSUME NEW m \in Accounts, NEW edited \in LoanIds, NEW amount \in LoanAmounts,
             EditLoanProposal(m, edited, amount)
      PROVE  loanProposals'[id].asset = loanProposals[id].asset
  BY <1>2, <1>4 DEF EditLoanProposal, LoanProposalRecords
<1>5. CASE Further(loanProposals', loanVoted', loanProposals, loanVoted)
  BY <1>5, FurtherKeeps
<1>6. CASE LoanBallotCall
  BY <1>1, <1>3, <1>4, <1>5, <1>6, LoanCallKinds
<1>7. CASE UNCHANGED loanProposals
  BY <1>7
<1>. QED  BY <1>6, <1>7, LoanSteps DEF loanVars, RepayAmount, MarkLoanDefaulted

(* What one debt has earned the members, when it moves.                      *)
LEMMA DebtEarns ==
    ASSUME NEW k \in LoanRecords, NEW l \in LoanRecords, DebtMoves(k, l),
           l.status # "None" => InterestOf(l) >= 0
    PROVE  /\ k.status # "None" => InterestOf(k) >= 0
           /\ l.status = "None" /\ k.status # "None" => InterestPaid(k) = 0
           /\ l.status # "None" => k.status # "None" /\ InterestPaid(k) >= InterestPaid(l)
           /\ l.status # "None" /\ DebtStands(k, l) => InterestPaid(k) = InterestPaid(l)
<1>1. /\ InterestOf(k) \in Int /\ InterestOf(l) \in Int
      /\ k.amount_repaid \in Int /\ l.amount_repaid \in Int
  BY DEF LoanRecords, InterestOf
<1>2. CASE k = l
  <2>1. InterestPaid(l) \in Int
    BY <1>1 DEF InterestPaid, Lesser
  <2>. QED  BY <1>2, <2>1
<1>3. CASE l.status = "None" /\ NewDebt(k)
  <2>1. k.amount_repaid = 0 /\ InterestOf(k) >= 0 /\ k.status # "None"
    BY <1>3 DEF NewDebt
  <2>2. InterestPaid(k) = 0
    BY <1>1, <2>1 DEF InterestPaid, Lesser
  <2>. QED  BY <1>3, <2>1, <2>2
<1>4. CASE /\ l.status = "Active" /\ k.status \in {"Active", "Repaid", "Defaulted"}
           /\ InterestOf(k) = InterestOf(l) /\ k.amount_repaid = l.amount_repaid
  <2>1. InterestPaid(k) = InterestPaid(l) /\ InterestPaid(l) \in Int
    BY <1>1, <1>4 DEF InterestPaid, Lesser
  <2>. QED  BY <1>4, <2>1
<1>5. CASE DebtPaid(k, l) /\ k # l
  <2>1. /\ l.status = "Active" /\ k.status # "None"
        /\ InterestOf(k) = InterestOf(l) /\ l.amount_repaid < k.amount_repaid
    BY <1>5 DEF DebtPaid
  <2>2. InterestPaid(k) >= InterestPaid(l)
    BY <1>1, <2>1 DEF InterestPaid, Lesser
  <2>3. ~ DebtStands(k, l)
    BY <1>1, <1>5, <2>1 DEF DebtStands
  <2>. QED  BY <1>5, <2>1, <2>2, <2>3
<1>6. DebtStands(k, l) =>
        \/ k = l
        \/ l.status = "None" /\ NewDebt(k)
        \/ /\ l.status = "Active" /\ k.status \in {"Active", "Repaid", "Defaulted"}
           /\ InterestOf(k) = InterestOf(l) /\ k.amount_repaid = l.amount_repaid
  BY DEF DebtStands, InterestOf
<1>. QED  BY <1>2, <1>3, <1>4, <1>5, <1>6 DEF DebtMoves

(* The interest received on a loan only grows, and only by a payment.        *)
LEMMA EarningsGrow ==
    ASSUME DebtsInv, InterestOwed, [Operate]_vars
    PROVE  /\ InterestOwed'
           /\ \A id \in LoanIds : /\ Earned'[id] >= Earned[id]
                                  /\ DebtStands(loans'[id], loans[id]) => Earned'[id] = Earned[id]
<1>1. TypeOK /\ TypeOK' /\ LoansInv /\ PositiveAmounts
  BY CountsStep DEF DebtsInv, LoansInv, CountsInv, Next
<1>2. ASSUME NEW id \in LoanIds
      PROVE  /\ loans'[id].status # "None" => InterestOf(loans'[id]) >= 0
             /\ Earned'[id] >= Earned[id]
             /\ DebtStands(loans'[id], loans[id]) => Earned'[id] = Earned[id]
  <2>. DEFINE k == loans'[id]
              l == loans[id]
  <2>1. k \in LoanRecords /\ l \in LoanRecords /\ DebtMoves(k, l)
    BY <1>1, DebtsStep DEF TypeOK, LoanTypes
  <2>2. l.status # "None" => InterestOf(l) >= 0
    BY DEF InterestOwed
  <2>3. l.status # "None" => loanProposals'[id].asset = loanProposals[id].asset
    BY <1>1, AssetsFixed
  <2>4. /\ Earned[id] = IF l.status # "None" /\ loanProposals[id].asset = BaseToken
                        THEN InterestPaid(l) ELSE 0
        /\ Earned'[id] = IF k.status # "None" /\ loanProposals'[id].asset = BaseToken
                         THEN InterestPaid(k) ELSE 0
    BY DEF Earned, BaseLoans, InterestPaid, InterestOf
  <2>5. Earned[id] \in Int
    BY <1>1, AmountsTyped
  <2>. HIDE DEF k, l
  <2>6. /\ k.status # "None" => InterestOf(k) >= 0
        /\ l.status = "None" /\ k.status # "None" => InterestPaid(k) = 0
        /\ l.status # "None" => k.status # "None" /\ InterestPaid(k) >= InterestPaid(l)
        /\ l.status # "None" /\ DebtStands(k, l) => InterestPaid(k) = InterestPaid(l)
    BY <2>1, <2>2, DebtEarns
  <2>7. k.status # "None" => InterestOf(k) >= 0
    BY <2>6
  <2>8. l.status = "None" => Earned[id] = 0 /\ Earned'[id] = 0
    BY <2>4, <2>6
  <2>9. l.status # "None" => /\ Earned'[id] >= Earned[id]
                             /\ DebtStands(k, l) => Earned'[id] = Earned[id]
    BY <2>3, <2>4, <2>5, <2>6
  <2>10. Earned'[id] >= Earned[id] /\ (DebtStands(k, l) => Earned'[id] = Earned[id])
    BY <2>8, <2>9
  <2>. QED  BY <2>7, <2>10 DEF k, l
<1>3. InterestOwed'
  BY <1>2 DEF InterestOwed, InterestOf
<1>. QED  BY <1>2, <1>3

(* A payment's interest is what distribute_interest is given.                *)
LEMMA PaymentDistributes ==
    ASSUME TypeOK, NEW m \in Accounts, NEW id \in LoanIds, NEW amount,
           RepayAmount(m, id, amount)
    PROVE  /\ \A i \in LoanIds : i # id => loans'[i] = loans[i]
           /\ loans[id].status = "Active" /\ loans'[id].status # "None"
           /\ UNCHANGED <<loanProposals, yieldSnapshot, activeMembers>>
           /\ IF loanProposals[id].asset = BaseToken
              THEN DistributeInterest(InterestPaid(loans'[id]) - InterestPaid(loans[id]))
              ELSE UNCHANGED <<yieldAccumulator, yieldRemainder>>
<1>. DEFINE l == loans[id]
            before == Surcharged(l)
            paid == [before EXCEPT !.amount_repaid = @ + amount]
            k == IF Outstanding(paid) = 0 THEN [paid EXCEPT !.status = "Repaid"] ELSE paid
<1>1. l \in LoanRecords /\ before \in LoanRecords
  BY SurchargedTyped DEF TypeOK, LoanTypes
<1>2. InterestPaid(before) = InterestPaid(l) /\ before.status = l.status
  BY <1>1, SurchargedKeepsInterest DEF InterestPaid
<1>3. /\ l.status = "Active"
      /\ loans' = [loans EXCEPT ![id] = k]
      /\ UNCHANGED <<loanProposals, yieldSnapshot, activeMembers>>
      /\ IF loanProposals[id].asset = BaseToken
         THEN DistributeInterest(InterestPaid(paid) - InterestPaid(before))
         ELSE UNCHANGED <<yieldAccumulator, yieldRemainder>>
  BY DEF RepayAmount
<1>. HIDE DEF before
<1>4. InterestPaid(k) = InterestPaid(paid) /\ k.status # "None"
  BY <1>1, <1>2, <1>3 DEF InterestPaid, InterestOf, LoanRecords
<1>5. loans'[id] = k /\ \A i \in LoanIds : i # id => loans'[i] = loans[i]
  <2>. HIDE DEF k
  <2>. QED  BY <1>3 DEF TypeOK, LoanTypes
<1>. HIDE DEF k, paid
<1>. QED  BY <1>2, <1>3, <1>4, <1>5

(* A division loses nothing: quotient and remainder are kept.                *)
LEMMA SharedExactly ==
    ASSUME NEW total \in Nat, NEW n \in Nat, n > 0
    PROVE  /\ total \div n \in Nat /\ total % n \in Nat
           /\ total = n * (total \div n) + (total % n)
  OBVIOUS

(* distribute_interest gives every active member the same share, and keeps   *)
(* the rest.                                                                 *)
LEMMA SharedOut ==
    ASSUME TypeOK, TypeOK', SnapshotsBehind, yieldRemainder >= 0,
           NEW interest \in Int, interest > 0,
           activeMembers = Cardinality(ActiveMembers), activeMembers > 0,
           UNCHANGED <<yieldSnapshot, ActiveMembers>>, DistributeInterest(interest)
    PROVE  /\ SnapshotsBehind' /\ yieldRemainder' >= 0
           /\ YieldOwed' = YieldOwed + interest
<1>. DEFINE n == activeMembers
            total == interest + yieldRemainder
            share == total \div n
            f == [a \in Accounts |-> PendingYield(a)]
            g == [a \in Accounts |-> PendingYield(a)']
<1>1. /\ yieldAccumulator \in Int /\ yieldRemainder \in Int
      /\ yieldSnapshot \in [Accounts -> Int] /\ n \in Nat /\ n > 0 /\ total \in Nat
  BY MembersAreFinite DEF TypeOK, YieldTypes
<1>2. /\ share \in Nat /\ total % n \in Nat
      /\ total = n * share + (total % n)
  BY <1>1, SharedExactly
<1>3. /\ yieldAccumulator' = yieldAccumulator + share
      /\ yieldRemainder' = total % n
  BY <1>1 DEF DistributeInterest, InterestToSplit
<1>. HIDE DEF share
<1>4. SnapshotsBehind' /\ yieldRemainder' >= 0
  BY <1>1, <1>2, <1>3 DEF SnapshotsBehind
<1>5. \A a \in Accounts : f[a] \in Int /\ g[a] = f[a] + share
  <2>1. \A a \in Accounts : /\ PendingYield(a) = yieldAccumulator - yieldSnapshot[a]
                            /\ PendingYield(a)' = yieldAccumulator' - yieldSnapshot[a]
    BY <1>1, <1>2, <1>3, <1>4 DEF SnapshotsBehind, PendingYield
  <2>. QED  BY <1>1, <1>2, <1>3, <2>1
<1>6. IsFiniteSet(ActiveMembers) /\ ActiveMembers \subseteq Accounts
  BY MembersAreFinite DEF ActiveMembers
<1>7. /\ YieldOwed = SumFunctionOnSet(f, ActiveMembers) + yieldRemainder
      /\ YieldOwed' = SumFunctionOnSet(g, ActiveMembers) + yieldRemainder'
  BY DEF YieldOwed
<1>. HIDE DEF f, g
<1>8. /\ SumFunctionOnSet(g, ActiveMembers) = SumFunctionOnSet(f, ActiveMembers) + n * share
      /\ SumFunctionOnSet(f, ActiveMembers) \in Int
  BY <1>2, <1>5, <1>6, SumShifted, SumIsInt
<1>9. n * share \in Int
  BY <1>1, <1>2
<1>. HIDE DEF n, total
<1>10. total = interest + yieldRemainder
  BY DEF total
<1>11. YieldOwed' = YieldOwed + interest
  BY <1>1, <1>2, <1>3, <1>7, <1>8, <1>9, <1>10
<1>. QED  BY <1>4, <1>11

(* What a payment adds to the interest received is added to the yield owed,  *)
(* unless there is nobody to share it.                                       *)
LEMMA PaymentShares ==
    ASSUME DebtsInv, SnapshotsBehind, InterestOwed, yieldRemainder >= 0, [Operate]_vars,
           NEW m \in Accounts, NEW id \in LoanIds, NEW amount, RepayAmount(m, id, amount)
    PROVE  /\ SnapshotsBehind' /\ yieldRemainder' >= 0
           /\ \/ YieldOwed' - YieldOwed = InterestReceived' - InterestReceived
              \/ /\ activeMembers = 0
                 /\ YieldOwed' = YieldOwed /\ InterestReceived' >= InterestReceived
<1>1. TypeOK /\ TypeOK' /\ CountsInv
  BY CountsStep DEF DebtsInv, LoansInv, CountsInv, Next
<1>2. /\ ActiveMembers' = ActiveMembers
      /\ activeMembers = Cardinality(ActiveMembers) /\ activeMembers \in Nat
  BY <1>1, RepayAmountCounted, MembersAreFinite
     DEF CountsInv, MembershipCounts, StatusesKept, ActiveMembers, IsActiveMember
<1>3. /\ \A i \in LoanIds : i # id => loans'[i] = loans[i]
      /\ loans[id].status = "Active" /\ loans'[id].status # "None"
      /\ UNCHANGED <<loanProposals, yieldSnapshot, activeMembers>>
      /\ IF loanProposals[id].asset = BaseToken
         THEN DistributeInterest(InterestPaid(loans'[id]) - InterestPaid(loans[id]))
         ELSE UNCHANGED <<yieldAccumulator, yieldRemainder>>
  BY <1>1, PaymentDistributes
<1>. DEFINE interest == Earned'[id] - Earned[id]
<1>4. /\ \A i \in LoanIds : Earned[i] \in Int /\ Earned'[i] \in Int
      /\ Earned'[id] >= Earned[id]
      /\ \A i \in LoanIds \ {id} : Earned[i] = Earned'[i]
  <2>1. \A i \in LoanIds : Earned[i] \in Int /\ Earned'[i] \in Int
    <3>1. TypeOK' => Earned' \in [LoanIds -> Int]
      BY AmountsTypedNext
    <3>. QED  BY <1>1, <3>1, AmountsTyped
  <2>2. \A i \in LoanIds \ {id} : DebtStands(loans'[i], loans[i])
    BY <1>3 DEF DebtStands
  <2>. QED  BY <2>1, <2>2, EarningsGrow
<1>5. InterestReceived' = InterestReceived + interest
      /\ InterestReceived \in Int /\ YieldOwed \in Int /\ interest \in Int /\ interest >= 0
  <2>1. TakenOverAll /\ TakenOverAll'
    BY <1>1, SumsTaken, SumsTakenNext
  <2>2. SumFunctionOnSet(Earned', LoanIds)
          = SumFunctionOnSet(Earned, LoanIds) - Earned[id] + Earned'[id]
    <3>1. IsFiniteSet(LoanIds)
      BY LoansAreFinite
    <3>. QED  BY <1>4, <3>1, SumOfChanged
  <2>3. yieldRemainder \in Int
    BY <1>1 DEF TypeOK, YieldTypes
  <2>. QED  BY <1>4, <2>1, <2>2, <2>3 DEF TakenOverAll
<1>6. loanProposals[id].asset = BaseToken
        => interest = InterestPaid(loans'[id]) - InterestPaid(loans[id])
  <2>1. Earned'[id] = IF loans'[id].status # "None" /\ loanProposals'[id].asset = BaseToken
                      THEN InterestPaid(loans'[id]) ELSE 0
    BY DEF Earned, BaseLoans, InterestPaid, InterestOf
  <2>2. Earned[id] = IF loans[id].status # "None" /\ loanProposals[id].asset = BaseToken
                     THEN InterestPaid(loans[id]) ELSE 0
    BY DEF Earned, BaseLoans
  <2>. QED  BY <1>3, <2>1, <2>2
<1>7. loanProposals[id].asset # BaseToken => interest = 0
  <2>1. id \notin BaseLoans' \union BaseLoans \/ loanProposals[id].asset = BaseToken
    BY <1>3 DEF BaseLoans
  <2>. QED  BY <2>1 DEF Earned
<1>8. ASSUME UNCHANGED <<yieldAccumulator, yieldRemainder>>
      PROVE  SnapshotsBehind' /\ yieldRemainder' >= 0 /\ YieldOwed' = YieldOwed
  <2>1. SnapshotsBehind' /\ yieldRemainder' >= 0
    BY <1>3, <1>8 DEF SnapshotsBehind
  <2>2. YieldOwed' = YieldOwed
    BY <1>2, <1>3, <1>8 DEF YieldOwed, PendingYield
  <2>. QED  BY <2>1, <2>2
<1>. HIDE DEF interest
<1>9. CASE UNCHANGED <<yieldAccumulator, yieldRemainder>> /\ (interest = 0 \/ activeMembers = 0)
  BY <1>5, <1>8, <1>9
<1>10. CASE interest > 0 /\ activeMembers > 0 /\ DistributeInterest(interest)
  <2>1. /\ SnapshotsBehind' /\ yieldRemainder' >= 0
        /\ YieldOwed' = YieldOwed + interest
    BY <1>1, <1>2, <1>3, <1>5, <1>10, SharedOut
  <2>. QED  BY <1>5, <2>1
<1>11. \/ UNCHANGED <<yieldAccumulator, yieldRemainder>> /\ (interest = 0 \/ activeMembers = 0)
       \/ interest > 0 /\ activeMembers > 0 /\ DistributeInterest(interest)
  <2>1. CASE loanProposals[id].asset # BaseToken
    BY <1>3, <1>7, <2>1
  <2>2. CASE loanProposals[id].asset = BaseToken
    <3>1. DistributeInterest(interest)
      BY <1>3, <1>6, <2>2
    <3>2. CASE interest = 0 \/ activeMembers = 0
      BY <1>5, <3>1, <3>2 DEF DistributeInterest
    <3>3. CASE interest > 0 /\ activeMembers > 0
      BY <3>1, <3>3
    <3>. QED  BY <1>2, <1>5, <3>2, <3>3
  <2>. QED  BY <2>1, <2>2
<1>. QED  BY <1>9, <1>10, <1>11

(* The inductive invariant of the yields: debts in order, claims not         *)
(* negative, and no more owed to members than interest was received.         *)
YieldInv ==
    DebtsInv /\ SnapshotsBehind /\ InterestOwed /\ yieldRemainder >= 0 /\ YieldBacked

(* Every step shares out exactly what it receives or owes no more than before. *)
LEMMA YieldStep ==
    ASSUME YieldInv, [Operate]_vars
    PROVE  /\ YieldInv'
           /\ (activeMembers > 0 /\ UNCHANGED <<yieldSnapshot, ActiveMembers>>)
                => YieldOwed' - YieldOwed = InterestReceived' - InterestReceived
<1>1. TypeOK /\ TypeOK' /\ CountsInv /\ DebtsInv'
  BY CountsStep, DebtsInvStep DEF YieldInv, DebtsInv, LoansInv, CountsInv, Next
<1>2. TakenOverAll /\ TakenOverAll' /\ yieldRemainder \in Int /\ yieldRemainder' \in Int
  BY <1>1, SumsTaken, SumsTakenNext DEF TypeOK, YieldTypes
<1>3. /\ YieldOwed \in Int /\ YieldOwed' \in Int
      /\ InterestReceived \in Int /\ InterestReceived' \in Int
  BY <1>2 DEF TakenOverAll
<1>4. InterestOwed'
  BY EarningsGrow DEF YieldInv
<1>5. CASE \E m \in Accounts, id \in LoanIds : \E amount : RepayAmount(m, id, amount)
  <2>1. /\ SnapshotsBehind' /\ yieldRemainder' >= 0
        /\ \/ YieldOwed' - YieldOwed = InterestReceived' - InterestReceived
           \/ /\ activeMembers = 0
              /\ YieldOwed' = YieldOwed /\ InterestReceived' >= InterestReceived
    BY <1>5, PaymentShares DEF YieldInv
  <2>. QED  BY <1>1, <1>3, <1>4, <2>1 DEF YieldInv, YieldBacked
<1>6. CASE ~ \E m \in Accounts, id \in LoanIds : \E amount : RepayAmount(m, id, amount)
  <2>1. SharesNothing
    BY <1>1, <1>6, SharingSteps
  <2>2. /\ SnapshotsBehind'
        /\ \A a \in Accounts : Claims'[a] <= Claims[a]
        /\ UNCHANGED <<yieldSnapshot, ActiveMembers>> => Claims' = Claims
    BY <1>1, <2>1, NothingShared DEF YieldInv
  <2>3. Earned' = Earned
    <3>1. \A id \in LoanIds : DebtStands(loans'[id], loans[id])
      BY <1>6, DebtsStand DEF YieldInv, DebtsInv
    <3>2. \A id \in LoanIds : Earned'[id] = Earned[id]
      BY <3>1, EarningsGrow DEF YieldInv
    <3>. QED  BY <3>2 DEF Earned
  <2>4. yieldRemainder' = yieldRemainder
    BY <2>1 DEF SharesNothing
  <2>5. SumFunctionOnSet(Claims', Accounts) <= SumFunctionOnSet(Claims, Accounts)
    <3>1. \A a \in Accounts : Claims[a] \in Int /\ Claims'[a] \in Int
      BY <1>1, AmountsTyped, AmountsTypedNext
    <3>. QED  BY <2>2, <3>1, AccountsAssumption, SumAtMost
  <2>6. InterestReceived' = InterestReceived /\ YieldOwed' <= YieldOwed
    BY <1>2, <2>3, <2>4, <2>5 DEF TakenOverAll
  <2>7. Claims' = Claims => YieldOwed' = YieldOwed
    BY <1>2, <2>4 DEF TakenOverAll
  <2>8. YieldInv'
    <3>1. YieldBacked'
      BY <1>3, <2>6 DEF YieldInv, YieldBacked
    <3>2. yieldRemainder' >= 0
      BY <2>4 DEF YieldInv
    <3>. QED  BY <1>1, <1>4, <2>2, <3>1, <3>2 DEF YieldInv
  <2>9. UNCHANGED <<yieldSnapshot, ActiveMembers>>
          => YieldOwed' - YieldOwed = InterestReceived' - InterestReceived
    BY <1>3, <2>2, <2>6, <2>7
  <2>. QED  BY <2>8, <2>9
<1>. QED  BY <1>5, <1>6

(* It is one.                                                                *)
THEOREM YieldsInvariant == OperatingSpec => []YieldInv
<1>1. Init => YieldInv
  <2>. SUFFICES ASSUME Init PROVE YieldInv
    OBVIOUS
  <2>1. DebtsInv
    BY DebtsInit
  <2>2. TypeOK
    BY <2>1 DEF DebtsInv, LoansInv, CountsInv
  <2>3. /\ SnapshotsBehind /\ InterestOwed /\ yieldRemainder = 0
        /\ \A a \in Accounts : Claims[a] = 0
        /\ \A id \in LoanIds : Earned[id] = 0
    BY DEF Init, SnapshotsBehind, InterestOwed, NoLoan, LoanIds, Claims, PendingYield,
           Earned, BaseLoans
  <2>4. SumFunctionOnSet(Claims, Accounts) = 0 /\ SumFunctionOnSet(Earned, LoanIds) = 0
    BY <2>3, SumOfZeros, AccountsAssumption, LoansAreFinite
  <2>. QED  BY <2>1, <2>2, <2>3, <2>4, SumsTaken DEF YieldInv, YieldBacked, TakenOverAll
<1>2. YieldInv /\ [Operate]_vars => YieldInv'
  BY YieldStep
<1>. QED  BY <1>1, <1>2, PTL DEF OperatingSpec

(* What members can claim, with the remainder kept, never exceeds the        *)
(* interest received, however joins, exits, returns, claims and part         *)
(* payments follow one another.                                              *)
THEOREM YieldIsBacked == OperatingSpec => []YieldBacked
<1>1. YieldInv => YieldBacked
  BY DEF YieldInv
<1>. QED  BY <1>1, YieldsInvariant, PTL

(* A step that moves no snapshot and no membership adds to what members can  *)
(* claim exactly what it adds to the interest received.                      *)
THEOREM InterestIsShared == OperatingSpec => InterestShared
<1>1. YieldInv /\ [Operate]_vars
        => [(activeMembers > 0 /\ UNCHANGED <<yieldSnapshot, ActiveMembers>>)
              => YieldOwed' - YieldOwed = InterestReceived' - InterestReceived]_vars
  BY YieldStep
<1>. QED  BY <1>1, YieldsInvariant, PTL DEF OperatingSpec, InterestShared
=============================================================================
