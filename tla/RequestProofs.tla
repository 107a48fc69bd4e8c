--------------------------- MODULE RequestProofs ---------------------------
(***************************************************************************)
(* Loans and withdrawals, from their request to the payment: ids are fresh,  *)
(* every ballot counted is one voter's, and the contract implements         *)
(* FundRequests, in every deployment, seeded or not.                        *)
(***************************************************************************)
EXTENDS MembershipProofs

-----------------------------------------------------------------------------
(* What happens to one request, in the terms of FundRequests.                *)

(* Stages and terms are of the kinds FundRequests knows.                     *)
LEMMA RequestsTyped ==
    ASSUME TypeOK
    PROVE  /\ RequestStages \in [DocumentKeys -> Fund!Stages]
           /\ RequestTerms \in Fund!Terms
<1>1. \A key \in DocumentKeys :
         Request(key).asset \in Assets /\ Request(key).amount \in Int
  BY DEF TypeOK, LoanTypes, TreasuryTypes, DocumentKeys, Request,
         LoanProposalRecords, TreasuryProposalRecords
<1>2. \A status : RequestStage(status) \in Fund!Stages
  BY DEF RequestStage, Fund!Stages
<1>3. RequestStages \in [DocumentKeys -> Fund!Stages]
  BY <1>2 DEF RequestStages
<1>4. RequestTerms \in Fund!Terms
  BY <1>1 DEF RequestTerms, Fund!Terms
<1>. QED  BY <1>3, <1>4

(* The keys of the two kinds of request are apart.                           *)
LEMMA RequestKeys ==
    /\ \A id \in LoanIds : /\ <<"Loan", id>> \in DocumentKeys
                           /\ Request(<<"Loan", id>>) = loanProposals[id]
    /\ \A id \in TreasuryIds : /\ <<"Treasury", id>> \in DocumentKeys
                               /\ Request(<<"Treasury", id>>) = treasuryProposals[id]
    /\ \A key \in DocumentKeys :
          \/ \E id \in LoanIds : key = <<"Loan", id>>
          \/ \E id \in TreasuryIds : key = <<"Treasury", id>>
  BY DEF DocumentKeys, Request

(* Rewriting a loan proposal moves one request ...                           *)
LEMMA LoanProposalMoves ==
    ASSUME TypeOK, NEW id \in LoanIds, NEW p, UNCHANGED treasuryProposals,
           loanProposals' = [loanProposals EXCEPT ![id] = p]
    PROVE  /\ RequestStages' =
                [RequestStages EXCEPT ![<<"Loan", id>>] = RequestStage(p.status)]
           /\ RequestTerms' =
                [RequestTerms EXCEPT ![<<"Loan", id>>] =
                   [asset |-> p.asset, amount |-> p.amount]]
<1>1. \A key \in DocumentKeys :
         Request(key)' = IF key = <<"Loan", id>> THEN p ELSE Request(key)
  BY DEF TypeOK, LoanTypes, DocumentKeys, Request
<1>2. \A key \in DocumentKeys :
         RequestStages'[key] =
           IF key = <<"Loan", id>> THEN RequestStage(p.status) ELSE RequestStages[key]
  BY <1>1 DEF RequestStages
<1>3. \A key \in DocumentKeys :
         RequestTerms'[key] =
           IF key = <<"Loan", id>> THEN [asset |-> p.asset, amount |-> p.amount]
           ELSE RequestTerms[key]
  BY <1>1 DEF RequestTerms
<1>. QED  BY <1>2, <1>3 DEF RequestStages, RequestTerms

(* ... and so does rewriting a withdrawal proposal.                          *)
LEMMA TreasuryProposalMoves ==
    ASSUME TypeOK, NEW id \in TreasuryIds, NEW p, UNCHANGED loanProposals,
           treasuryProposals' = [treasuryProposals EXCEPT ![id] = p]
    PROVE  /\ RequestStages' =
                [RequestStages EXCEPT ![<<"Treasury", id>>] = RequestStage(p.status)]
           /\ RequestTerms' =
                [RequestTerms EXCEPT ![<<"Treasury", id>>] =
                   [asset |-> p.asset, amount |-> p.amount]]
<1>1. \A key \in DocumentKeys :
         Request(key)' = IF key = <<"Treasury", id>> THEN p ELSE Request(key)
  BY DEF TypeOK, TreasuryTypes, DocumentKeys, Request
<1>2. \A key \in DocumentKeys :
         RequestStages'[key] =
           IF key = <<"Treasury", id>> THEN RequestStage(p.status)
           ELSE RequestStages[key]
  BY <1>1 DEF RequestStages
<1>3. \A key \in DocumentKeys :
         RequestTerms'[key] =
           IF key = <<"Treasury", id>> THEN [asset |-> p.asset, amount |-> p.amount]
           ELSE RequestTerms[key]
  BY <1>1 DEF RequestTerms
<1>. QED  BY <1>2, <1>3 DEF RequestStages, RequestTerms

(* A new request.                                                            *)
LEMMA FiledRequest ==
    ASSUME TypeOK, NEW key \in DocumentKeys,
           NEW terms \in [asset : Assets, amount : Int],
           RequestStages[key] = "unused",
           RequestStages' = [RequestStages EXCEPT ![key] = "open"],
           RequestTerms' = [RequestTerms EXCEPT ![key] = terms],
           UNCHANGED <<balance, totalStaked>>
    PROVE  Fund!Next
<1>1. RequestTerms' \in Fund!Terms
  BY RequestsTyped DEF Fund!Terms
<1>2. \A q \in DocumentKeys \ {key} : RequestTerms'[q] = RequestTerms[q]
  BY RequestsTyped DEF Fund!Terms
<1>3. Fund!File(key)
  BY <1>1, <1>2 DEF Fund!File
<1>. QED  BY <1>3 DEF Fund!Next

(* A request with another amount.                                            *)
LEMMA AmendedRequest ==
    ASSUME TypeOK, NEW key \in DocumentKeys, NEW amount \in Int,
           RequestStages[key] = "open",
           RequestStages' = [RequestStages EXCEPT ![key] = "open"],
           RequestTerms' = [RequestTerms EXCEPT ![key] =
                              [asset |-> RequestTerms[key].asset, amount |-> amount]],
           UNCHANGED <<balance, totalStaked>>
    PROVE  Fund!Next
<1>0. RequestTerms[key] \in [asset : Assets, amount : Int]
  BY RequestsTyped DEF Fund!Terms
<1>1. RequestTerms' \in Fund!Terms
  BY <1>0, RequestsTyped DEF Fund!Terms
<1>2. RequestStages' = RequestStages
  BY RequestsTyped
<1>3. RequestTerms' = [RequestTerms EXCEPT ![key].amount = RequestTerms'[key].amount]
  BY <1>0, RequestsTyped DEF Fund!Terms
<1>4. Fund!Amend(key)
  BY <1>1, <1>2, <1>3 DEF Fund!Amend
<1>. QED  BY <1>4 DEF Fund!Next

(* What a decision may make of a request.                                    *)
Decidable(key, stage) == stage \in {RequestStages[key]} \cup Fund!Onward[RequestStages[key]]
PaidNow(key, stage) == stage = "paid" /\ RequestStages[key] # "paid"

(* One request decided, and paid if that was the decision.                   *)
LEMMA DecidedRequest ==
    ASSUME TypeOK, NEW key \in DocumentKeys, NEW stage,
           Decidable(key, stage),
           RequestStages' = [RequestStages EXCEPT ![key] = stage],
           RequestTerms' = RequestTerms, UNCHANGED totalStaked,
           IF PaidNow(key, stage)
           THEN /\ balance' = Fund!Less(balance, key)
                /\ Fund!Free(balance, RequestTerms[key].asset)' >= 0
           ELSE balance' = balance
    PROVE  Fund!Next
<1>. DEFINE paid == {r \in DocumentKeys : RequestStages'[r] = "paid"
                                            /\ RequestStages[r] # "paid"}
<1>1. stage \in Fund!Stages
  BY RequestsTyped DEF Decidable, Fund!Onward, Fund!Stages
<1>2. RequestStages' \in [DocumentKeys -> Fund!Stages]
  BY <1>1, RequestsTyped
<1>3. \A r \in DocumentKeys :
         RequestStages'[r] \in {RequestStages[r]} \cup Fund!Onward[RequestStages[r]]
  BY RequestsTyped DEF Decidable
<1>4. paid = IF PaidNow(key, stage) THEN {key} ELSE {}
  BY RequestsTyped DEF PaidNow
<1>. HIDE DEF paid
<1>5. \/ paid = {} /\ balance' = balance
      \/ \E r \in paid : paid = {r} /\ balance' = Fund!Less(balance, r)
  BY <1>4
<1>6. \A r \in paid : Fund!Free(balance', RequestTerms[r].asset) >= 0
  BY <1>4 DEF Fund!Free
<1>7. Fund!Decide
  BY <1>2, <1>3, <1>5, <1>6 DEF Fund!Decide, paid
<1>. QED  BY <1>7 DEF Fund!Next

(* Two requests decided in one call (vote_batch), each paid if that was the   *)
(* decision.                                                                 *)
LEMMA DecidedRequests ==
    ASSUME TypeOK, NEW key1 \in DocumentKeys, NEW stage1,
           NEW key2 \in DocumentKeys, NEW stage2, key1 # key2,
           Decidable(key1, stage1), Decidable(key2, stage2),
           RequestStages' =
             [[RequestStages EXCEPT ![key1] = stage1] EXCEPT ![key2] = stage2],
           RequestTerms' = RequestTerms, UNCHANGED totalStaked,
           NEW between,
           IF PaidNow(key1, stage1)
           THEN /\ between = Fund!Less(balance, key1)
                /\ Fund!Free(between, RequestTerms[key1].asset) >= 0
           ELSE between = balance,
           IF PaidNow(key2, stage2)
           THEN /\ balance' = Fund!Less(between, key2)
                /\ Fund!Free(balance', RequestTerms[key2].asset) >= 0
           ELSE balance' = between
    PROVE  Fund!Next
<1>. DEFINE paid == {r \in DocumentKeys : RequestStages'[r] = "paid"
                                            /\ RequestStages[r] # "paid"}
<1>1. stage1 \in Fund!Stages /\ stage2 \in Fund!Stages
  BY RequestsTyped DEF Decidable, Fund!Onward, Fund!Stages
<1>2. RequestStages' \in [DocumentKeys -> Fund!Stages]
  BY <1>1, RequestsTyped
<1>3. \A r \in DocumentKeys :
         RequestStages'[r] \in {RequestStages[r]} \cup Fund!Onward[RequestStages[r]]
  BY RequestsTyped DEF Decidable
<1>4. paid = (IF PaidNow(key1, stage1) THEN {key1} ELSE {})
               \cup (IF PaidNow(key2, stage2) THEN {key2} ELSE {})
  BY RequestsTyped DEF PaidNow
<1>5. between \in [Assets -> Int] /\ RequestTerms \in Fund!Terms
  BY RequestsTyped DEF Fund!Less, Fund!Terms, TypeOK, WorldTypes
<1>6. PaidNow(key1, stage1) => Fund!Free(balance', RequestTerms[key1].asset) >= 0
  <2>1. CASE PaidNow(key2, stage2) /\ RequestTerms[key1].asset # RequestTerms[key2].asset
    <3>1. balance'[RequestTerms[key1].asset] = between[RequestTerms[key1].asset]
      BY <1>5, <2>1 DEF Fund!Less, Fund!Terms
    <3>. QED  BY <3>1 DEF Fund!Free
  <2>2. CASE PaidNow(key2, stage2) /\ RequestTerms[key1].asset = RequestTerms[key2].asset
    BY <2>2
  <2>3. CASE ~PaidNow(key2, stage2)
    BY <2>3
  <2>. QED  BY <2>1, <2>2, <2>3
<1>. HIDE DEF paid
<1>7. \A r \in paid : Fund!Free(balance', RequestTerms[r].asset) >= 0
  BY <1>4, <1>6
<1>8. \/ paid = {} /\ balance' = balance
      \/ \E r \in paid : paid = {r} /\ balance' = Fund!Less(balance, r)
      \/ \E r, q \in paid :
            r # q /\ paid = {r, q} /\ balance' = Fund!Less(Fund!Less(balance, r), q)
  <2>1. CASE PaidNow(key1, stage1) /\ PaidNow(key2, stage2)
    <3>1. paid = {key1, key2}
      BY <1>4, <2>1
    <3>2. balance' = Fund!Less(Fund!Less(balance, key1), key2)
      BY <2>1
    <3>. QED  BY <3>1, <3>2
  <2>2. CASE PaidNow(key1, stage1) /\ ~PaidNow(key2, stage2)
    BY <1>4, <2>2
  <2>3. CASE ~PaidNow(key1, stage1) /\ PaidNow(key2, stage2)
    BY <1>4, <2>3
  <2>4. CASE ~PaidNow(key1, stage1) /\ ~PaidNow(key2, stage2)
    BY <1>4, <2>4
  <2>. QED  BY <2>1, <2>2, <2>3, <2>4
<1>9. Fund!Decide
  <2>1. \A r \in paid : Fund!Free(balance', RequestTerms[r].asset) >= 0
    BY <1>7
  <2>. QED  BY <1>2, <1>3, <1>8, <2>1 DEF Fund!Decide, paid
<1>. QED  BY <1>9 DEF Fund!Next

-----------------------------------------------------------------------------
(* The inductive invariant.                                                  *)

(* A loan proposal that has been decided is past its ballot.                 *)
Past(p) == p.status \notin {"None", "Pending"} => p.phase \in {"Executed", "Expired"}
DecidedArePast == \A id \in LoanIds : Past(loanProposals[id])

RequestFacts == DecidedArePast /\ FreshIds /\ BallotsCounted
RequestInv == TypeOK /\ RequestFacts

-----------------------------------------------------------------------------
(* A loan ballot, with the payment it may bring, in one book.                *)

(* From book b to book c: the voter's ballot on proposal id.                 *)
Balloted(b, c, voter, id) ==
    LET p == b.proposals[id]
        q == c.proposals[id]
    IN  /\ c.proposals = [b.proposals EXCEPT ![id] = q]
        /\ c.voted = [b.voted EXCEPT ![id] = @ \cup {voter}]
        /\ q.asset = p.asset /\ q.amount = p.amount
        /\ q.votes_cast = p.votes_cast + 1
        /\ p.status = "Pending"
        /\ q.status \in {"Pending", "Rejected", "ApprovedPendingDisbursement", "Approved"}
        /\ Past(q)
        /\ IF q.status = "Approved"
           THEN /\ c.balance = [b.balance EXCEPT ![p.asset] = @ - p.amount]
                /\ TreasuryOf(c.balance, p.asset) >= 0
           ELSE c.balance = b.balance

(* Counting a ballot and deciding, before anything is paid.                  *)
LEMMA BallotCounted ==
    ASSUME TypeOK, NEW b \in Books, NEW voter \in Accounts, NEW id \in LoanIds,
           NEW support \in BOOLEAN, MayVoteOnLoan(b, voter, id), Past(b.proposals[id])
    PROVE  LET p == b.proposals[id]
               c == BallotBook(b, voter, id, support)
               q == c.proposals[id]
           IN  /\ Balloted(b, c, voter, id)
               /\ Refreshed(p).status = "Pending"
               /\ q.status # "Approved"
<1>. DEFINE p == b.proposals[id]
            counted == CountedLoanVote(p, voter, support)
            decided == IF counted.status = "Pending" THEN LoanOutcome(counted) ELSE counted
            c == BallotBook(b, voter, id, support)
            q == c.proposals[id]
<1>1. p \in LoanProposalRecords
  BY DEF Books
<1>2. /\ Refreshed(p) \in LoanProposalRecords
      /\ Refreshed(p).status = p.status /\ p.status = "Pending"
      /\ Refreshed(p).asset = p.asset /\ Refreshed(p).amount = p.amount
      /\ Refreshed(p).votes_cast = p.votes_cast
  <2>1. InVoting(p) \in LoanProposalRecords /\ Refreshed(p) \in LoanProposalRecords
    BY <1>1, RefreshedTyped
  <2>2. /\ InVoting(p).status = p.status
        /\ InVoting(p).asset = p.asset /\ InVoting(p).amount = p.amount
        /\ InVoting(p).votes_cast = p.votes_cast
        /\ InVoting(p).phase \in {p.phase, "Voting"}
        /\ p.phase \in {"Executed", "Expired"} => InVoting(p).phase = p.phase
    BY <1>1 DEF InVoting, LoanProposalRecords
  <2>. HIDE DEF p
  <2>3. Refreshed(p).phase = "Voting"
    BY DEF MayVoteOnLoan, p
  <2>4. Refreshed(p) = InVoting(p)
    BY <2>1, <2>3 DEF Refreshed, LoanProposalRecords
  <2>5. p.status \in {"None", "Pending"}
    BY <2>2, <2>3, <2>4 DEF Past, p
  <2>6. p.status # "None"
    BY DEF MayVoteOnLoan, p
  <2>. QED  BY <2>1, <2>2, <2>4, <2>5, <2>6
<1>3. /\ counted \in LoanProposalRecords
      /\ counted.status = "Pending"
      /\ counted.asset = p.asset /\ counted.amount = p.amount
      /\ counted.votes_cast = p.votes_cast + 1
  <2>1. counted \in LoanProposalRecords /\ counted.status = Refreshed(p).status
    BY <1>1, CountedLoanVoteTyped
  <2>2. /\ counted.asset = Refreshed(p).asset /\ counted.amount = Refreshed(p).amount
        /\ counted.votes_cast = Refreshed(p).votes_cast + 1
    <3>. DEFINE r == Refreshed(p)
    <3>1. r \in LoanProposalRecords
      BY <1>2
    <3>. HIDE DEF r, p
    <3>. QED  BY <3>1 DEF CountedLoanVote, r, LoanProposalRecords
  <2>. QED  BY <1>2, <2>1, <2>2
<1>. HIDE DEF p, counted
<1>4. /\ decided.asset = p.asset /\ decided.amount = p.amount
      /\ decided.votes_cast = p.votes_cast + 1
      /\ decided.status \in {"Pending", "Rejected", "ApprovedPendingDisbursement"}
      /\ Past(decided)
  BY <1>3 DEF LoanOutcome, LoanProposalRecords, Past
<1>5. /\ c.proposals = [b.proposals EXCEPT ![id] = decided]
      /\ c.voted = [b.voted EXCEPT ![id] = @ \cup {voter}]
      /\ c.balance = b.balance
  BY DEF BallotBook, counted, p
<1>. HIDE DEF decided, c
<1>6. q = decided
  BY <1>5 DEF Books
<1>7. Balloted(b, c, voter, id)
  BY <1>2, <1>4, <1>5, <1>6 DEF Balloted, p
<1>. QED  BY <1>2, <1>4, <1>6, <1>7 DEF c, p

(* The whole ballot, the payment it may bring included.                      *)
LEMMA LoanBallot ==
    ASSUME TypeOK, NEW b \in Books, NEW voter \in Accounts, NEW id \in LoanIds,
           NEW support \in BOOLEAN, MayVoteOnLoan(b, voter, id), Past(b.proposals[id])
    PROVE  Balloted(b, LoanVoteCast(b, voter, id, support), voter, id)
<1>. DEFINE after == BallotBook(b, voter, id, support)
            p == b.proposals[id]
            q == after.proposals[id]
<1>1. Balloted(b, after, voter, id) /\ q.status # "Approved"
  BY BallotCounted
<1>2. after \in Books
  BY BallotBookTyped
<1>. HIDE DEF after
<1>3. ASSUME q.status = "ApprovedPendingDisbursement", CanDisburse(after, id)
      PROVE  Balloted(b, Disbursed(after, id), voter, id)
  <2>. DEFINE c == Disbursed(after, id)
  <2>1. q \in LoanProposalRecords /\ q.asset \in Assets /\ q.amount \in Nat
    BY <1>2 DEF Books, LoanProposalRecords
  <2>2. /\ c.proposals = [after.proposals EXCEPT ![id].status = "Approved"]
        /\ c.voted = after.voted
        /\ c.balance = [after.balance EXCEPT ![q.asset] = @ - q.amount]
    BY DEF Disbursed
  <2>. HIDE DEF c
  <2>3. c.proposals[id] = [q EXCEPT !.status = "Approved"]
    BY <1>2, <2>2 DEF Books
  <2>4. /\ c.proposals[id].status = "Approved"
        /\ c.proposals[id].asset = q.asset /\ c.proposals[id].amount = q.amount
        /\ c.proposals[id].votes_cast = q.votes_cast
        /\ c.proposals[id].phase = q.phase
    BY <2>1, <2>3 DEF LoanProposalRecords
  <2>5. TreasuryOf(c.balance, q.asset) >= 0
    <3>1. TreasuryOf(after.balance, q.asset) >= q.amount
      BY <1>3 DEF CanDisburse
    <3>2. after.balance \in [Assets -> Int] /\ totalStaked \in Int
      BY <1>2 DEF Books, TypeOK, StakeTypes
    <3>3. c.balance[q.asset] = after.balance[q.asset] - q.amount
      BY <2>1, <2>2, <3>2
    <3>. QED  BY <2>1, <3>1, <3>2, <3>3 DEF TreasuryOf
  <2>6. c.proposals = [b.proposals EXCEPT ![id] = c.proposals[id]]
    BY <1>1, <1>2, <2>2, <2>3 DEF Balloted, Books
  <2>7. Past(c.proposals[id])
    BY <1>1, <1>3, <2>4 DEF Balloted, Past
  <2>8. /\ c.voted = [b.voted EXCEPT ![id] = @ \cup {voter}]
        /\ c.balance = [b.balance EXCEPT ![p.asset] = @ - p.amount]
    BY <1>1, <1>3, <2>2 DEF Balloted
  <2>9. p.status = "Pending" /\ q.asset = p.asset /\ q.amount = p.amount
        /\ q.votes_cast = p.votes_cast + 1
    BY <1>1 DEF Balloted
  <2>. QED  BY <2>4, <2>5, <2>6, <2>7, <2>8, <2>9 DEF Balloted, c
<1>. QED  BY <1>1, <1>3 DEF LoanVoteCast, after

-----------------------------------------------------------------------------
(* RequestFacts is kept.                                                     *)

(* The facts about loan proposals, of a book.                                *)
InOrder(b) ==
    /\ b \in Books
    /\ \A id \in LoanIds :
          /\ Past(b.proposals[id])
          /\ b.proposals[id].votes_cast = Cardinality(b.voted[id])
          /\ id >= nextProposalId => /\ b.proposals[id] = NoLoanProposal
                                     /\ b.loans[id] = NoLoan

(* The store is a book in order while the invariant holds ...                *)
LEMMA BookInOrder == RequestInv => InOrder(Book)
<1>. SUFFICES ASSUME RequestInv PROVE InOrder(Book)
  OBVIOUS
<1>1. Book \in Books
  BY BookTyped DEF RequestInv
<1>2. /\ Book.proposals = loanProposals /\ Book.voted = loanVoted
      /\ Book.loans = loans
  BY DEF Book
<1>. QED  BY <1>1, <1>2 DEF InOrder, RequestInv, RequestFacts, DecidedArePast,
                            FreshIds, BallotsCounted

(* ... and a book in order, once stored, restores the facts.                 *)
LEMMA InOrderKept ==
    ASSUME RequestInv, NEW b, InOrder(b), BecomesBook(b),
           UNCHANGED <<nextProposalId, treasuryVars, documents>>
    PROVE  RequestFacts'
<1>1. DecidedArePast'
  BY DEF InOrder, BecomesBook, DecidedArePast
<1>2. FreshIds'
  BY DEF InOrder, BecomesBook, FreshIds, RequestInv, RequestFacts, treasuryVars
<1>3. BallotsCounted'
  BY DEF InOrder, BecomesBook, BallotsCounted, RequestInv, RequestFacts, treasuryVars
<1>. QED  BY <1>1, <1>2, <1>3 DEF RequestFacts

(* One more voter, one more ballot.                                          *)
LEMMA VoterCounted ==
    ASSUME NEW voters \in SUBSET Accounts, NEW voter \in Accounts, voter \notin voters
    PROVE  Cardinality(voters \cup {voter}) = Cardinality(voters) + 1
  BY AccountsAssumption, FS_Subset, FS_AddElement

(* A ballot leaves the book in order.                                        *)
LEMMA BallotInOrder ==
    ASSUME TypeOK, NEW b, InOrder(b), NEW voter \in Accounts, NEW id \in LoanIds,
           NEW support \in BOOLEAN, MayVoteOnLoan(b, voter, id)
    PROVE  InOrder(LoanVoteCast(b, voter, id, support))
<1>. DEFINE c == LoanVoteCast(b, voter, id, support)
            p == b.proposals[id]
            q == c.proposals[id]
<1>1. b \in Books /\ c \in Books
  BY LoanVoteCastTyped DEF InOrder
<1>2. Balloted(b, c, voter, id)
  BY <1>1, LoanBallot DEF InOrder
<1>3. \A i \in LoanIds \ {id} : c.loans[i] = b.loans[i]
  BY <1>1 DEF LoanVoteCast, BallotBook, Disbursed, Books
<1>4. id < nextProposalId
  <2>1. p # NoLoanProposal
    BY DEF MayVoteOnLoan, NoLoanProposal
  <2>. QED  BY <2>1 DEF InOrder, TypeOK, LoanTypes, LoanIds
<1>. HIDE DEF c
<1>5. voter \notin b.voted[id] /\ b.voted[id] \in SUBSET Accounts
  BY <1>1 DEF MayVoteOnLoan, Books
<1>6. /\ \A i \in LoanIds \ {id} : /\ c.proposals[i] = b.proposals[i]
                                   /\ c.voted[i] = b.voted[i]
      /\ c.voted[id] = b.voted[id] \cup {voter}
      /\ q.votes_cast = p.votes_cast + 1
      /\ Past(q)
  BY <1>1, <1>2 DEF Balloted, Books
<1>7. q.votes_cast = Cardinality(c.voted[id])
  BY <1>5, <1>6, VoterCounted DEF InOrder
<1>8. nextProposalId \in Nat /\ LoanIds \subseteq Int
  BY DEF TypeOK, LoanTypes, LoanIds
<1>9. ASSUME NEW i \in LoanIds
      PROVE  /\ Past(c.proposals[i])
             /\ c.proposals[i].votes_cast = Cardinality(c.voted[i])
             /\ i >= nextProposalId => /\ c.proposals[i] = NoLoanProposal
                                       /\ c.loans[i] = NoLoan
  <2>1. CASE i = id
    <3>1. ~(i >= nextProposalId)
      BY <1>4, <1>8, <2>1
    <3>. QED  BY <1>6, <1>7, <2>1, <3>1
  <2>2. CASE i # id
    <3>1. /\ c.proposals[i] = b.proposals[i] /\ c.voted[i] = b.voted[i]
          /\ c.loans[i] = b.loans[i]
      BY <1>3, <1>6, <2>2
    <3>. QED  BY <3>1 DEF InOrder
  <2>. QED  BY <2>1, <2>2
<1>10. InOrder(c)
  BY <1>1, <1>9 DEF InOrder
<1>. QED  BY <1>10 DEF c

(* So does a payment.                                                        *)
LEMMA DisbursedInOrder ==
    ASSUME TypeOK, NEW b, InOrder(b), NEW id \in LoanIds,
           b.proposals[id].status = "ApprovedPendingDisbursement"
    PROVE  InOrder(Disbursed(b, id))
<1>. DEFINE c == Disbursed(b, id)
            p == b.proposals[id]
            q == c.proposals[id]
<1>1. b \in Books /\ c \in Books
  BY DisbursedTyped DEF InOrder
<1>2. id < nextProposalId
  <2>1. p # NoLoanProposal
    BY DEF NoLoanProposal
  <2>. QED  BY <2>1 DEF InOrder, TypeOK, LoanTypes, LoanIds
<1>3. /\ \A i \in LoanIds \ {id} : /\ c.proposals[i] = b.proposals[i]
                                   /\ c.loans[i] = b.loans[i]
      /\ c.voted = b.voted
      /\ q = [p EXCEPT !.status = "Approved"]
  BY <1>1 DEF Disbursed, Books
<1>4. p \in LoanProposalRecords
  BY <1>1 DEF Books
<1>. HIDE DEF c
<1>5. q.votes_cast = p.votes_cast /\ q.phase = p.phase
  BY <1>3, <1>4 DEF LoanProposalRecords
<1>6. Past(p) /\ p.votes_cast = Cardinality(b.voted[id])
  BY DEF InOrder
<1>7. Past(q) /\ q.votes_cast = Cardinality(c.voted[id])
  BY <1>3, <1>5, <1>6 DEF Past
<1>8. nextProposalId \in Nat /\ LoanIds \subseteq Int
  BY DEF TypeOK, LoanTypes, LoanIds
<1>9. ASSUME NEW i \in LoanIds
      PROVE  /\ Past(c.proposals[i])
             /\ c.proposals[i].votes_cast = Cardinality(c.voted[i])
             /\ i >= nextProposalId => /\ c.proposals[i] = NoLoanProposal
                                       /\ c.loans[i] = NoLoan
  <2>1. CASE i = id
    <3>1. ~(i >= nextProposalId)
      BY <1>2, <1>8, <2>1
    <3>. QED  BY <1>7, <2>1, <3>1
  <2>2. CASE i # id
    <3>1. /\ c.proposals[i] = b.proposals[i] /\ c.voted[i] = b.voted[i]
          /\ c.loans[i] = b.loans[i]
      BY <1>3, <2>2
    <3>. QED  BY <3>1 DEF InOrder
  <2>. QED  BY <2>1, <2>2
<1>10. InOrder(c)
  BY <1>1, <1>9 DEF InOrder
<1>. QED  BY <1>10 DEF c

(* An id that names something has been handed out.                           *)
LEMMA UsedIds ==
    ASSUME RequestInv
    PROVE  /\ \A id \in LoanIds :
                 \/ loanProposals[id].status # "None"
                 \/ loanProposals[id].borrower # NoAccount
                 \/ loans[id].status # "None"
                 => id < nextProposalId
           /\ \A id \in TreasuryIds :
                 \/ treasuryProposals[id].status # "None"
                 \/ treasuryProposals[id].proposer # NoAccount
                 => id < nextTreasuryId
<1>1. LoanIds \subseteq Int /\ TreasuryIds \subseteq Int
  BY DEF LoanIds, TreasuryIds
<1>2. nextProposalId \in Nat /\ nextTreasuryId \in Nat
  BY DEF RequestInv, TypeOK, LoanTypes, TreasuryTypes
<1>3. /\ NoLoanProposal.status = "None" /\ NoLoanProposal.borrower = NoAccount
      /\ NoLoan.status = "None"
      /\ NoTreasuryProposal.status = "None" /\ NoTreasuryProposal.proposer = NoAccount
  BY DEF NoLoanProposal, NoLoan, NoTreasuryProposal
<1>4. /\ \A id \in LoanIds : id >= nextProposalId =>
            loans[id] = NoLoan /\ loanProposals[id] = NoLoanProposal
      /\ \A id \in TreasuryIds : id >= nextTreasuryId =>
            treasuryProposals[id] = NoTreasuryProposal
  BY DEF RequestInv, RequestFacts, FreshIds
<1>5. \A n, id \in Int : id < n \/ id >= n
  OBVIOUS
<1>. QED  BY <1>1, <1>2, <1>3, <1>4, <1>5

(* Calls that touch no request, loan or document.                            *)
LEMMA RequestFactsFrame ==
    RequestFacts /\ UNCHANGED <<loanVars, treasuryVars, documents>> => RequestFacts'
  BY DEF RequestFacts, DecidedArePast, FreshIds, BallotsCounted, loanVars, treasuryVars

(* Edits, cancellations and expiries of a loan proposal.                     *)
LEMMA LoanProposalWritten ==
    ASSUME RequestInv, NEW id \in LoanIds, NEW p, loanProposals[id].status # "None",
           loanProposals' = [loanProposals EXCEPT ![id] = p],
           Past(p), p.votes_cast = loanProposals[id].votes_cast,
           UNCHANGED <<nextProposalId, loanVoted, loans, treasuryVars, documents>>
    PROVE  RequestFacts'
<1>1. \A i \in LoanIds : loanProposals'[i] = IF i = id THEN p ELSE loanProposals[i]
  BY DEF RequestInv, TypeOK, LoanTypes
<1>2. ~(id >= nextProposalId)
  BY UsedIds DEF RequestInv, TypeOK, LoanTypes, LoanIds
<1>3. DecidedArePast'
  BY <1>1 DEF RequestInv, RequestFacts, DecidedArePast
<1>4. FreshIds'
  BY <1>1, <1>2 DEF RequestInv, RequestFacts, FreshIds, treasuryVars
<1>5. BallotsCounted'
  BY <1>1 DEF RequestInv, RequestFacts, BallotsCounted, treasuryVars
<1>. QED  BY <1>3, <1>4, <1>5 DEF RequestFacts

(* Payments and defaults.                                                    *)
LEMMA LoanWritten ==
    ASSUME RequestInv, NEW id \in LoanIds, loans[id].status # "None",
           \A i \in LoanIds \ {id} : loans'[i] = loans[i],
           UNCHANGED <<loanProposals, nextProposalId, loanVoted, treasuryVars, documents>>
    PROVE  RequestFacts'
<1>1. ~(id >= nextProposalId)
  BY UsedIds DEF RequestInv, TypeOK, LoanTypes, LoanIds
<1>2. FreshIds'
  BY <1>1 DEF RequestInv, RequestFacts, FreshIds, treasuryVars
<1>. QED  BY <1>2 DEF RequestInv, RequestFacts, DecidedArePast, BallotsCounted, treasuryVars

(* What happens to a withdrawal proposal after it was made.                  *)
LEMMA TreasuryProposalWritten ==
    ASSUME RequestInv, NEW id \in TreasuryIds, NEW p, NEW voters,
           treasuryProposals[id].status # "None",
           treasuryProposals' = [treasuryProposals EXCEPT ![id] = p],
           treasuryVoted' = [treasuryVoted EXCEPT ![id] = voters],
           p.votes_cast = Cardinality(voters),
           UNCHANGED <<loanVars, nextTreasuryId, documents>>
    PROVE  RequestFacts'
<1>1. \A i \in TreasuryIds :
         /\ treasuryProposals'[i] = IF i = id THEN p ELSE treasuryProposals[i]
         /\ treasuryVoted'[i] = IF i = id THEN voters ELSE treasuryVoted[i]
  BY DEF RequestInv, TypeOK, TreasuryTypes
<1>2. ~(id >= nextTreasuryId)
  BY UsedIds DEF RequestInv, TypeOK, TreasuryTypes, TreasuryIds
<1>3. DecidedArePast'
  BY DEF RequestInv, RequestFacts, DecidedArePast, loanVars
<1>4. FreshIds'
  BY <1>1, <1>2 DEF RequestInv, RequestFacts, FreshIds, loanVars
<1>5. BallotsCounted'
  BY <1>1 DEF RequestInv, RequestFacts, BallotsCounted, loanVars
<1>. QED  BY <1>3, <1>4, <1>5 DEF RequestFacts

(* New requests get an id of their own, and no ballots.                      *)
LEMMA RequestLoanInOrder ==
    ASSUME RequestInv, NEW m \in Accounts, NEW amount, NEW asset,
           RequestLoanInAsset(m, amount, asset)
    PROVE  RequestFacts'
<1>. DEFINE id == nextProposalId
            p == loanProposals'[id]
<1>1. id \in LoanIds /\ nextProposalId \in Nat /\ LoanIds \subseteq Int
  BY BoundsAssumption DEF RequestInv, TypeOK, LoanTypes, LoanIds, RequestLoanInAsset
<1>2. \A i \in LoanIds \ {id} : loanProposals'[i] = loanProposals[i]
  BY DEF RequestLoanInAsset, RequestInv, TypeOK, LoanTypes
<1>3. p.status = "Pending" /\ p.votes_cast = 0
  BY <1>1 DEF RequestLoanInAsset, RequestInv, TypeOK, LoanTypes
<1>4. Cardinality(loanVoted[id]) = 0
  <2>1. loanProposals[id] = NoLoanProposal
    <3>1. \A i \in LoanIds : i >= nextProposalId => loanProposals[i] = NoLoanProposal
      BY DEF RequestInv, RequestFacts, FreshIds
    <3>2. nextProposalId >= nextProposalId
      BY <1>1
    <3>. QED  BY <1>1, <3>1, <3>2
  <2>2. loanProposals[id].votes_cast = 0
    BY <2>1 DEF NoLoanProposal
  <2>. QED  BY <1>1, <2>2 DEF RequestInv, RequestFacts, BallotsCounted
<1>5. /\ nextProposalId' = id + 1
      /\ UNCHANGED <<loanVoted, loans, treasuryVars, documents>>
  BY DEF RequestLoanInAsset
<1>6. DecidedArePast'
  BY <1>2, <1>3 DEF RequestInv, RequestFacts, DecidedArePast, Past
<1>7. FreshIds'
  <2>1. \A i \in LoanIds : i >= nextProposalId' => i >= id /\ i # id
    BY <1>1, <1>5
  <2>. HIDE DEF p
  <2>. QED  BY <1>1, <1>2, <1>5, <2>1 DEF RequestInv, RequestFacts, FreshIds, treasuryVars
<1>8. BallotsCounted'
  BY <1>2, <1>3, <1>4, <1>5 DEF RequestInv, RequestFacts, BallotsCounted, treasuryVars
<1>. QED  BY <1>6, <1>7, <1>8 DEF RequestFacts

(* The same for a new withdrawal proposal.                                   *)
LEMMA ProposeWithdrawalInOrder ==
    ASSUME RequestInv, NEW m \in Accounts, NEW amount, NEW asset, NEW private,
           ProposeWithdrawalInAsset(m, amount, asset, private)
    PROVE  RequestFacts'
<1>. DEFINE id == nextTreasuryId
            p == treasuryProposals'[id]
<1>1. id \in TreasuryIds /\ nextTreasuryId \in Nat /\ TreasuryIds \subseteq Int
  BY BoundsAssumption
     DEF RequestInv, TypeOK, TreasuryTypes, TreasuryIds, ProposeWithdrawalInAsset
<1>2. \A i \in TreasuryIds \ {id} : treasuryProposals'[i] = treasuryProposals[i]
  BY DEF ProposeWithdrawalInAsset, RequestInv, TypeOK, TreasuryTypes
<1>3. p.votes_cast = 0
  BY <1>1 DEF ProposeWithdrawalInAsset, RequestInv, TypeOK, TreasuryTypes
<1>4. Cardinality(treasuryVoted[id]) = 0
  <2>1. treasuryProposals[id] = NoTreasuryProposal
    <3>1. \A i \in TreasuryIds : i >= nextTreasuryId => treasuryProposals[i] = NoTreasuryProposal
      BY DEF RequestInv, RequestFacts, FreshIds
    <3>2. nextTreasuryId >= nextTreasuryId
      BY <1>1
    <3>. QED  BY <1>1, <3>1, <3>2
  <2>2. treasuryProposals[id].votes_cast = 0
    BY <2>1 DEF NoTreasuryProposal
  <2>. QED  BY <1>1, <2>2 DEF RequestInv, RequestFacts, BallotsCounted
<1>5. /\ nextTreasuryId' = id + 1
      /\ UNCHANGED <<treasuryVoted, loanVars, documents>>
  BY DEF ProposeWithdrawalInAsset
<1>6. DecidedArePast'
  BY <1>5 DEF RequestInv, RequestFacts, DecidedArePast, loanVars
<1>7. FreshIds'
  <2>1. \A i \in TreasuryIds : i >= nextTreasuryId' => i >= id /\ i # id
    BY <1>1, <1>5
  <2>. HIDE DEF p
  <2>. QED  BY <1>1, <1>2, <1>5, <2>1 DEF RequestInv, RequestFacts, FreshIds, loanVars
<1>8. BallotsCounted'
  BY <1>2, <1>3, <1>4, <1>5 DEF RequestInv, RequestFacts, BallotsCounted, loanVars
<1>. QED  BY <1>6, <1>7, <1>8 DEF RequestFacts

(* Seeding a loan or a document hands out its id.                            *)
LEMMA SeededInOrder ==
    ASSUME RequestInv, NEW caller,
           \/ \E id \in LoanIds, l \in LegacyLoans : SeedLoan(caller, id, l)
           \/ \E key \in DocumentKeys, hash \in Hashes : SeedDocument(caller, key, hash)
    PROVE  RequestFacts'
<1>0. /\ LoanIds \subseteq Int /\ TreasuryIds \subseteq Int
      /\ nextProposalId \in Nat /\ nextTreasuryId \in Nat
  BY DEF LoanIds, TreasuryIds, RequestInv, TypeOK, LoanTypes, TreasuryTypes
<1>1. CASE \E id \in LoanIds, l \in LegacyLoans : SeedLoan(caller, id, l)
  <2>1. PICK id \in LoanIds, l \in LegacyLoans : SeedLoan(caller, id, l)
    BY <1>1
  <2>2. /\ \A i \in LoanIds \ {id} : loans'[i] = loans[i]
        /\ nextProposalId' = IdPast(nextProposalId, id)
        /\ UNCHANGED <<loanProposals, loanVoted, treasuryVars, documents>>
    BY <2>1 DEF SeedLoan, RequestInv, TypeOK, LoanTypes
  <2>3. \A i \in LoanIds : i >= nextProposalId' => i >= nextProposalId /\ i # id
    BY <1>0, <2>2 DEF IdPast
  <2>4. FreshIds'
    BY <2>2, <2>3 DEF RequestInv, RequestFacts, FreshIds, treasuryVars
  <2>. QED  BY <2>2, <2>4 DEF RequestInv, RequestFacts, DecidedArePast, BallotsCounted,
                              treasuryVars
<1>2. CASE \E key \in DocumentKeys, hash \in Hashes : SeedDocument(caller, key, hash)
  <2>1. PICK key \in DocumentKeys, hash \in Hashes : SeedDocument(caller, key, hash)
    BY <1>2
  <2>2. /\ \A k \in DocumentKeys \ {key} : documents'[k] = documents[k]
        /\ UNCHANGED <<loanProposals, loanVoted, loans, treasuryProposals, treasuryVoted>>
    BY <2>1 DEF SeedDocument, RequestInv, TypeOK, DocumentTypes
  <2>3. \A i \in LoanIds : i >= nextProposalId' => i >= nextProposalId /\ <<"Loan", i>> # key
    BY <1>0, <2>1 DEF SeedDocument, IdPast
  <2>4. \A i \in TreasuryIds :
           i >= nextTreasuryId' => i >= nextTreasuryId /\ <<"Treasury", i>> # key
    BY <1>0, <2>1 DEF SeedDocument, IdPast
  <2>5. FreshIds'
    BY <2>2, <2>3, <2>4, RequestKeys DEF RequestInv, RequestFacts, FreshIds
  <2>. QED  BY <2>2, <2>5 DEF RequestInv, RequestFacts, DecidedArePast, BallotsCounted
<1>. QED  BY <1>1, <1>2

(* A document goes to a request that exists.                                 *)
LEMMA AttachDocumentInOrder ==
    ASSUME RequestInv, NEW m \in Accounts, NEW key \in DocumentKeys, NEW hash,
           AttachDocument(m, key, hash)
    PROVE  RequestFacts'
<1>1. /\ \A k \in DocumentKeys \ {key} : documents'[k] = documents[k]
      /\ UNCHANGED <<loanVars, treasuryVars>>
  BY DEF AttachDocument, RequestInv, TypeOK, DocumentTypes
<1>2. ProposalOwner(key) # NoAccount
  BY AccountsAssumption DEF AttachDocument
<1>3. \A i \in LoanIds : i >= nextProposalId => <<"Loan", i>> # key
  BY <1>2 DEF ProposalOwner, RequestInv, RequestFacts, FreshIds, NoLoanProposal
<1>4. \A i \in TreasuryIds : i >= nextTreasuryId => <<"Treasury", i>> # key
  BY <1>2 DEF ProposalOwner, RequestInv, RequestFacts, FreshIds, NoTreasuryProposal
<1>5. FreshIds'
  BY <1>1, <1>3, <1>4, RequestKeys DEF RequestInv, RequestFacts, FreshIds, loanVars,
                                       treasuryVars
<1>. QED  BY <1>1, <1>5 DEF RequestInv, RequestFacts, DecidedArePast, BallotsCounted,
                            loanVars, treasuryVars

-----------------------------------------------------------------------------
(* Every call keeps the facts, and is a step of FundRequests or none.         *)
RequestStep == RequestFacts' /\ [Fund!Next]_Fund!fundVars

(* Calls that leave both kinds of proposal alone move no request.            *)
LEMMA RequestsFrame ==
    UNCHANGED <<loanProposals, treasuryProposals>>
      => UNCHANGED <<RequestStages, RequestTerms>>
<1>. SUFFICES ASSUME UNCHANGED <<loanProposals, treasuryProposals>>
              PROVE  UNCHANGED <<RequestStages, RequestTerms>>
  OBVIOUS
<1>1. \A key : Request(key)' = Request(key)
  BY DEF Request
<1>. QED  BY <1>1 DEF RequestStages, RequestTerms

(* Calls that move no money ...                                              *)
LEMMA HoldStep ==
    ASSUME RequestFacts', UNCHANGED <<loanProposals, treasuryProposals, balance>>
    PROVE  RequestStep
<1>1. Fund!Hold
  BY RequestsFrame DEF Fund!Hold
<1>. QED  BY <1>1 DEF RequestStep, Fund!Next

(* ... and calls that bring some in.                                         *)
LEMMA ReceiveStep ==
    ASSUME TypeOK, RequestFacts',
           UNCHANGED <<loanProposals, treasuryProposals, totalStaked>>,
           NEW asset \in Assets, NEW amount \in Nat,
           balance' = [balance EXCEPT ![asset] = @ + amount]
    PROVE  RequestStep
<1>1. \A a \in Assets : balance'[a] >= balance[a]
  BY DEF TypeOK, WorldTypes
<1>2. Fund!Receive
  BY <1>1, RequestsFrame DEF Fund!Receive
<1>. QED  BY <1>2 DEF RequestStep, Fund!Next

(* What a member takes out is in the contract's base token.                  *)
LEMMA SettleStep ==
    ASSUME TypeOK, RequestFacts', UNCHANGED <<loanProposals, treasuryProposals>>,
           NEW amount \in Nat, balance[BaseToken] >= amount,
           balance' = [balance EXCEPT ![BaseToken] = @ - amount]
    PROVE  RequestStep
<1>1. balance[BaseToken] \in Int
  BY BaseTokenIsAsset DEF TypeOK, WorldTypes
<1>2. balance[BaseToken] - amount \in 0 .. balance[BaseToken]
  BY <1>1
<1>3. Fund!Settle
  BY <1>2, RequestsFrame DEF Fund!Settle
<1>. QED  BY <1>3 DEF RequestStep, Fund!Next

(* membership.rs and staking.rs.                                             *)
LEMMA MembershipCallRequests ==
    ASSUME RequestInv, NEW m \in Accounts, MembershipCall(m)
    PROVE  RequestStep
<1>. USE DEF RequestInv
<1>1. CASE RegisterMember(m)
  <2>1. RequestFacts'
    BY <1>1, RequestFactsFrame DEF RegisterMember
  <2>. QED  BY <1>1, <2>1, ReceiveStep, FeeAssumption, BaseTokenIsAsset
            DEF RegisterMember, loanVars, treasuryVars, stakeVars
<1>2. CASE ExitDao(m)
  <2>1. RequestFacts'
    BY <1>2, RequestFactsFrame DEF ExitDao
  <2>2. UNCHANGED <<loanProposals, treasuryProposals>>
    BY <1>2 DEF ExitDao, loanVars, treasuryVars
  <2>3. ExitPayout(m) \in Int
    BY PayoutIsInt
  <2>4. CASE ExitPayout(m) > 0
    <3>1. ExitPayout(m) \in Nat
      BY <2>3, <2>4
    <3>2. /\ balance[BaseToken] >= ExitPayout(m)
          /\ balance' = [balance EXCEPT ![BaseToken] = @ - ExitPayout(m)]
      BY <1>2, <2>4 DEF ExitDao
    <3>. QED  BY <2>1, <2>2, <3>1, <3>2, SettleStep
  <2>5. CASE ~(ExitPayout(m) > 0)
    BY <1>2, <2>1, <2>2, <2>5, HoldStep DEF ExitDao
  <2>. QED  BY <2>4, <2>5
<1>3. CASE ClaimRewards(m)
  <2>1. RequestFacts'
    BY <1>3, RequestFactsFrame DEF ClaimRewards
  <2>2. PendingYield(m) \in Nat
    BY <1>3, PayoutIsInt DEF ClaimRewards
  <2>3. /\ balance[BaseToken] >= PendingYield(m)
        /\ balance' = [balance EXCEPT ![BaseToken] = @ - PendingYield(m)]
        /\ UNCHANGED <<loanProposals, treasuryProposals>>
    BY <1>3 DEF ClaimRewards, loanVars, treasuryVars
  <2>. QED  BY <2>1, <2>2, <2>3, SettleStep
<1>4. CASE \/ \E delegatee \in Accounts : DelegateVote(m, delegatee)
           \/ \E amount \in StakeAmounts : Stake(m, amount) \/ Unstake(m, amount)
  <2>1. UNCHANGED <<balance, loanVars, treasuryVars, documents>>
    BY <1>4 DEF DelegateVote, Stake, Unstake
  <2>. QED  BY <2>1, RequestFactsFrame, HoldStep DEF loanVars, treasuryVars
<1>. QED  BY <1>1, <1>2, <1>3, <1>4 DEF MembershipCall

(* admin.rs, registry.rs, docs.rs, migration.rs and the clock.               *)
LEMMA OtherCallsRequests ==
    ASSUME RequestInv,
           \/ Tick
           \/ \E asset \in Assets, amount \in DonationAmounts : Donate(asset, amount)
           \/ \E m \in Accounts : RegistryCall(m)
           \/ \E caller \in Governors : AdminCall(caller)
           \/ \E caller \in Migrators : MigrationCall(caller)
    PROVE  RequestStep
<1>. USE DEF RequestInv
<1>1. CASE \E asset \in Assets, amount \in DonationAmounts : Donate(asset, amount)
  <2>1. PICK asset \in Assets, amount \in DonationAmounts : Donate(asset, amount)
    BY <1>1
  <2>2. RequestFacts'
    BY <2>1, RequestFactsFrame DEF Donate
  <2>3. amount \in Nat
    BY InputsAssumption
  <2>. QED  BY <2>1, <2>2, <2>3, ReceiveStep DEF Donate, loanVars, treasuryVars, stakeVars
<1>2. CASE \/ Tick
           \/ \E m \in Accounts, name \in Names : RegisterName(m, name)
  <2>1. UNCHANGED <<balance, loanVars, treasuryVars, documents>>
    BY <1>2 DEF Tick, RegisterName
  <2>. QED  BY <2>1, RequestFactsFrame, HoldStep DEF loanVars, treasuryVars
<1>3. CASE \E m \in Accounts, key \in DocumentKeys, hash \in Hashes :
              AttachDocument(m, key, hash)
  BY <1>3, AttachDocumentInOrder, HoldStep DEF AttachDocument, loanVars, treasuryVars
<1>4. CASE \E caller \in Governors : AdminCall(caller)
  <2>1. AdminFrame
    BY <1>4 DEF AdminCall, AddAdmin, RemoveAdmin, SetPauser, RevokePauser,
           SetConsensusThreshold, Pause, Unpause, ProposePolicyUpdate,
           ExecutePolicyUpdate, CancelPolicyUpdate, ProposeTokenAddition,
           ExecuteTokenAddition, RemoveToken
  <2>2. UNCHANGED <<balance, loanVars, treasuryVars, documents>>
    BY <2>1 DEF AdminFrame
  <2>. QED  BY <2>2, RequestFactsFrame, HoldStep DEF loanVars, treasuryVars
<1>5. CASE \E caller \in Migrators : MigrationCall(caller)
  <2>1. PICK caller \in Migrators : MigrationCall(caller)
    BY <1>5
  <2>2. CASE \/ \E id \in LoanIds, l \in LegacyLoans : SeedLoan(caller, id, l)
             \/ \E key \in DocumentKeys, hash \in Hashes : SeedDocument(caller, key, hash)
    <3>1. UNCHANGED <<balance, loanProposals, treasuryProposals>>
      BY <2>2 DEF SeedLoan, SeedDocument, treasuryVars
    <3>. QED  BY <2>2, <3>1, SeededInOrder, HoldStep
  <2>3. CASE \/ \E a \in Accounts :
                   \/ \E r \in LegacyMembers : SeedMember(caller, a, r)
                   \/ \E amount \in LegacyStakes : SeedStake(caller, a, amount)
                   \/ \E amount \in LegacyYields : SeedPendingYield(caller, a, amount)
                   \/ \E name \in Names : SeedName(caller, a, name)
             \/ LockSeeding(caller)
    <3>1. UNCHANGED <<balance, loanVars, treasuryVars, documents>>
      BY <2>3 DEF SeedMember, SeedStake, SeedPendingYield, SeedName, LockSeeding
    <3>. QED  BY <3>1, RequestFactsFrame, HoldStep DEF loanVars, treasuryVars
  <2>. QED  BY <2>1, <2>2, <2>3 DEF MigrationCall
<1>. QED  BY <1>1, <1>2, <1>3, <1>4, <1>5 DEF RegistryCall

-----------------------------------------------------------------------------
(* loans.rs.                                                                 *)
LEMMA StageOfStatus ==
    /\ RequestStage("None") = "unused" /\ RequestStage("Pending") = "open"
    /\ RequestStage("ApprovedPendingDisbursement") = "granted"
    /\ RequestStage("Approved") = "paid" /\ RequestStage("Executed") = "paid"
    /\ RequestStage("Rejected") = "closed" /\ RequestStage("Cancelled") = "closed"
    /\ RequestStage("Expired") = "closed"
  BY DEF RequestStage

(* What FundRequests allows a decision to make of a request.                 *)
LEMMA OnwardFrom ==
    /\ Fund!Onward["open"] = {"granted", "paid", "closed"}
    /\ Fund!Onward["granted"] = {"paid"}
  BY DEF Fund!Onward, Fund!Stages

(* Writing what a request already asks for changes nothing.                  *)
LEMMA TermsKept ==
    ASSUME NEW key \in DocumentKeys,
           RequestTerms' = [RequestTerms EXCEPT ![key] =
             [asset |-> Request(key).asset, amount |-> Request(key).amount]]
    PROVE  RequestTerms' = RequestTerms
  BY DEF RequestTerms

(* A decision on one proposal, paid or not.                                  *)
Settled(key, status, asset, amount) ==
    IF PaidNow(key, RequestStage(status))
    THEN /\ balance' = [balance EXCEPT ![asset] = @ - amount]
         /\ TreasuryOf(balance', asset) >= 0
    ELSE balance' = balance

(* A proposal decided is a decision in the terms of FundRequests.            *)
LEMMA RequestDecided ==
    ASSUME TypeOK, RequestFacts', NEW key \in DocumentKeys, NEW p,
           RequestStages' = [RequestStages EXCEPT ![key] = RequestStage(p.status)],
           RequestTerms' = [RequestTerms EXCEPT ![key] =
                              [asset |-> p.asset, amount |-> p.amount]],
           p.asset = Request(key).asset, p.amount = Request(key).amount,
           UNCHANGED totalStaked,
           Decidable(key, RequestStage(p.status)),
           Settled(key, p.status, p.asset, p.amount)
    PROVE  RequestStep
<1>. DEFINE stage == RequestStage(p.status)
<1>1. RequestTerms' = RequestTerms
  BY TermsKept
<1>2. RequestTerms[key].asset = p.asset /\ RequestTerms[key].amount = p.amount
  BY DEF RequestTerms
<1>3. IF PaidNow(key, stage)
      THEN /\ balance' = Fund!Less(balance, key)
           /\ Fund!Free(balance, RequestTerms[key].asset)' >= 0
      ELSE balance' = balance
  <2>1. CASE PaidNow(key, stage)
    <3>1. balance' = Fund!Less(balance, key)
      BY <1>2, <2>1 DEF Settled, Fund!Less
    <3>2. Fund!Free(balance, RequestTerms[key].asset)' >= 0
      BY <1>1, <1>2, <2>1 DEF Settled, Fund!Free, TreasuryOf
    <3>. QED  BY <2>1, <3>1, <3>2
  <2>2. CASE ~PaidNow(key, stage)
    BY <2>2 DEF Settled
  <2>. QED  BY <2>1, <2>2
<1>4. Fund!Next
  BY <1>1, <1>3, DecidedRequest
<1>. QED  BY <1>4 DEF RequestStep

(* Requests, edits and cancellations of loans.                               *)
LEMMA LoanRequestsStep ==
    ASSUME RequestInv, NEW m \in Accounts,
           \/ \E amount \in LoanAmounts, asset \in Assets :
                 RequestLoanInAsset(m, amount, asset)
           \/ \E id \in LoanIds, amount \in LoanAmounts : EditLoanProposal(m, id, amount)
           \/ \E id \in LoanIds : CancelLoanProposal(m, id)
    PROVE  RequestStep
<1>. USE DEF RequestInv
<1>0. LoanAmounts \subseteq Nat
  BY InputsAssumption
<1>1. CASE \E amount \in LoanAmounts, asset \in Assets :
              RequestLoanInAsset(m, amount, asset)
  <2>1. PICK amount \in LoanAmounts, asset \in Assets :
           RequestLoanInAsset(m, amount, asset)
    BY <1>1
  <2>. DEFINE id == nextProposalId
              key == <<"Loan", id>>
              p == [borrower |-> m, asset |-> asset, amount |-> amount,
                    editing_period_end |-> now + policy.editing_period,
                    voting_period |-> policy.voting_period,
                    phase |-> "Editing", status |-> "Pending",
                    for_votes |-> 0, against_votes |-> 0, votes_cast |-> 0]
  <2>2. id \in LoanIds /\ nextProposalId >= nextProposalId
    BY <2>1, BoundsAssumption DEF TypeOK, LoanTypes, LoanIds, RequestLoanInAsset
  <2>3. loanProposals[id] = NoLoanProposal
    <3>1. \A i \in LoanIds : i >= nextProposalId => loanProposals[i] = NoLoanProposal
      BY DEF RequestFacts, FreshIds
    <3>. QED  BY <2>2, <3>1
  <2>4. RequestStages[key] = "unused"
    BY <2>2, <2>3, RequestKeys, StageOfStatus DEF RequestStages, NoLoanProposal
  <2>5. loanProposals' = [loanProposals EXCEPT ![id] = p]
        /\ UNCHANGED <<treasuryProposals, balance, totalStaked>>
    BY <2>1 DEF RequestLoanInAsset, treasuryVars, stakeVars
  <2>6. p.status = "Pending" /\ p.asset = asset /\ p.amount = amount
    OBVIOUS
  <2>. HIDE DEF p
  <2>7. /\ RequestStages' = [RequestStages EXCEPT ![key] = "open"]
        /\ RequestTerms' = [RequestTerms EXCEPT ![key] =
                              [asset |-> asset, amount |-> amount]]
    <3>1. RequestStage(p.status) = "open"
      BY <2>6, StageOfStatus
    <3>2. /\ RequestStages' = [RequestStages EXCEPT ![key] = RequestStage(p.status)]
          /\ RequestTerms' = [RequestTerms EXCEPT ![key] =
                                [asset |-> p.asset, amount |-> p.amount]]
      BY <2>2, <2>5, LoanProposalMoves
    <3>. QED  BY <2>6, <3>1, <3>2
  <2>8. key \in DocumentKeys /\ amount \in Int
    BY <1>0, <2>2, RequestKeys
  <2>9. Fund!Next
    BY <2>4, <2>5, <2>7, <2>8, FiledRequest
  <2>. QED  BY <2>1, <2>9, RequestLoanInOrder DEF RequestStep
<1>2. CASE \E id \in LoanIds, amount \in LoanAmounts : EditLoanProposal(m, id, amount)
  <2>1. PICK id \in LoanIds, amount \in LoanAmounts : EditLoanProposal(m, id, amount)
    BY <1>2
  <2>. DEFINE key == <<"Loan", id>>
              p == [loanProposals[id] EXCEPT !.amount = amount]
  <2>2. /\ p.amount = amount /\ p.asset = loanProposals[id].asset
        /\ p.status = loanProposals[id].status /\ p.phase = loanProposals[id].phase
        /\ p.votes_cast = loanProposals[id].votes_cast
    BY DEF TypeOK, LoanTypes, LoanProposalRecords
  <2>3. /\ loanProposals' = [loanProposals EXCEPT ![id] = p]
        /\ UNCHANGED <<balance, totalStaked, nextProposalId, loanVoted, loans,
                       treasuryVars, documents>>
    BY <2>1 DEF EditLoanProposal, TypeOK, LoanTypes, stakeVars
  <2>4. loanProposals[id].status = "Pending"
    BY <2>1 DEF EditLoanProposal, MayEdit, RequestFacts, DecidedArePast, Past
  <2>. HIDE DEF p
  <2>5. RequestFacts'
    BY <2>2, <2>3, <2>4, LoanProposalWritten DEF Past
  <2>6. key \in DocumentKeys /\ Request(key) = loanProposals[id] /\ amount \in Int
    BY <1>0, RequestKeys
  <2>7. /\ RequestStages' = [RequestStages EXCEPT ![key] = "open"]
        /\ RequestTerms' = [RequestTerms EXCEPT ![key] =
                              [asset |-> p.asset, amount |-> amount]]
    <3>1. RequestStage(p.status) = "open"
      BY <2>2, <2>4, StageOfStatus
    <3>2. /\ RequestStages' = [RequestStages EXCEPT ![key] = RequestStage(p.status)]
          /\ RequestTerms' = [RequestTerms EXCEPT ![key] =
                                [asset |-> p.asset, amount |-> p.amount]]
      BY <2>3, LoanProposalMoves DEF treasuryVars
    <3>. QED  BY <2>2, <3>1, <3>2
  <2>8. RequestStages[key] = "open" /\ RequestTerms[key].asset = p.asset
    BY <2>2, <2>4, <2>6, StageOfStatus DEF RequestStages, RequestTerms
  <2>9. Fund!Next
    BY <2>3, <2>6, <2>7, <2>8, AmendedRequest
  <2>. QED  BY <2>5, <2>9 DEF RequestStep
<1>3. CASE \E id \in LoanIds : CancelLoanProposal(m, id)
  <2>1. PICK id \in LoanIds : CancelLoanProposal(m, id)
    BY <1>3
  <2>. DEFINE key == <<"Loan", id>>
              p == [loanProposals[id] EXCEPT !.status = "Cancelled", !.phase = "Expired"]
  <2>2. /\ p.amount = loanProposals[id].amount /\ p.asset = loanProposals[id].asset
        /\ p.status = "Cancelled" /\ p.phase = "Expired"
        /\ p.votes_cast = loanProposals[id].votes_cast
    BY DEF TypeOK, LoanTypes, LoanProposalRecords
  <2>3. /\ loanProposals' = [loanProposals EXCEPT ![id] = p]
        /\ loanProposals[id].status = "Pending"
        /\ UNCHANGED <<balance, totalStaked, nextProposalId, loanVoted, loans,
                       treasuryVars, documents>>
    BY <2>1 DEF CancelLoanProposal, TypeOK, LoanTypes, stakeVars
  <2>. HIDE DEF p
  <2>4. RequestFacts'
    BY <2>2, <2>3, LoanProposalWritten DEF Past
  <2>5. key \in DocumentKeys /\ Request(key) = loanProposals[id]
    BY RequestKeys
  <2>6. /\ RequestStages' = [RequestStages EXCEPT ![key] = RequestStage(p.status)]
        /\ RequestTerms' = [RequestTerms EXCEPT ![key] =
                              [asset |-> p.asset, amount |-> p.amount]]
    BY <2>3, LoanProposalMoves DEF treasuryVars
  <2>7. RequestStages[key] = "open" /\ RequestStage(p.status) = "closed"
    BY <2>2, <2>3, <2>5, StageOfStatus DEF RequestStages
  <2>8. /\ Decidable(key, RequestStage(p.status))
        /\ Settled(key, p.status, p.asset, p.amount)
    BY <2>3, <2>7, OnwardFrom DEF Decidable, Settled, PaidNow
  <2>. QED  BY <2>2, <2>3, <2>4, <2>5, <2>6, <2>8, RequestDecided
<1>. QED  BY <1>1, <1>2, <1>3

(* A loan ballot, on its own.                                                *)
LEMMA VoteOnLoanProposalStep ==
    ASSUME RequestInv, NEW m \in Accounts, NEW id \in LoanIds, NEW support \in BOOLEAN,
           VoteOnLoanProposal(m, id, support)
    PROVE  RequestStep
<1>. DEFINE c == LoanVoteCast(Book, m, id, support)
            q == c.proposals[id]
            key == <<"Loan", id>>
<1>1. InOrder(Book) /\ MayVoteOnLoan(Book, m, id) /\ BecomesBook(c)
      /\ UNCHANGED <<nextProposalId, treasuryVars, documents, totalStaked>>
  BY BookInOrder DEF VoteOnLoanProposal, stakeVars
<1>2. InOrder(c) /\ Balloted(Book, c, m, id)
  BY <1>1, BallotInOrder, LoanBallot DEF InOrder, RequestInv
<1>. HIDE DEF c
<1>3. RequestFacts'
  BY <1>1, <1>2, InOrderKept
<1>4. /\ loanProposals' = [loanProposals EXCEPT ![id] = q]
      /\ q.asset = loanProposals[id].asset /\ q.amount = loanProposals[id].amount
      /\ loanProposals[id].status = "Pending"
      /\ q.status \in {"Pending", "Rejected", "ApprovedPendingDisbursement", "Approved"}
      /\ IF q.status = "Approved"
         THEN /\ balance' = [balance EXCEPT ![q.asset] = @ - q.amount]
              /\ TreasuryOf(balance', q.asset) >= 0
         ELSE balance' = balance
  BY <1>1, <1>2 DEF Balloted, BecomesBook, Book
<1>5. key \in DocumentKeys /\ Request(key) = loanProposals[id]
  BY RequestKeys
<1>6. /\ RequestStages' = [RequestStages EXCEPT ![key] = RequestStage(q.status)]
      /\ RequestTerms' = [RequestTerms EXCEPT ![key] =
                            [asset |-> q.asset, amount |-> q.amount]]
  BY <1>1, <1>4, LoanProposalMoves DEF treasuryVars, RequestInv
<1>7. RequestStages[key] = "open"
  BY <1>4, <1>5, StageOfStatus DEF RequestStages
<1>8. /\ RequestStage(q.status) \in {"open", "closed", "granted", "paid"}
      /\ RequestStage(q.status) = "paid" <=> q.status = "Approved"
  BY <1>4, StageOfStatus
<1>9. Decidable(key, RequestStage(q.status)) /\ Settled(key, q.status, q.asset, q.amount)
  BY <1>4, <1>7, <1>8, OnwardFrom DEF Decidable, Settled, PaidNow
<1>. QED  BY <1>1, <1>3, <1>4, <1>5, <1>6, <1>9, RequestDecided DEF RequestInv

(* Two of them in one call.                                                  *)
LEMMA VoteBatchStep ==
    ASSUME RequestInv, NEW m \in Accounts, NEW id1 \in LoanIds,
           NEW id2 \in LoanIds \ {id1}, NEW s1 \in BOOLEAN, NEW s2 \in BOOLEAN,
           VoteBatch(m, id1, s1, id2, s2)
    PROVE  RequestStep
<1>. DEFINE c == LoanVoteCast(Book, m, id1, s1)
            d == LoanVoteCast(c, m, id2, s2)
            q1 == c.proposals[id1]
            q2 == d.proposals[id2]
            key1 == <<"Loan", id1>>
            key2 == <<"Loan", id2>>
<1>1. InOrder(Book) /\ MayVoteOnLoan(Book, m, id1)
      /\ MayVoteOnLoan(c, m, id2) /\ BecomesBook(d)
      /\ UNCHANGED <<nextProposalId, treasuryVars, documents, totalStaked>>
  BY BookInOrder DEF VoteBatch, stakeVars
<1>2. InOrder(c) /\ Balloted(Book, c, m, id1)
  BY <1>1, BallotInOrder, LoanBallot DEF InOrder, RequestInv
<1>. HIDE DEF c
<1>3. InOrder(d) /\ Balloted(c, d, m, id2)
  BY <1>1, <1>2, BallotInOrder, LoanBallot DEF InOrder, RequestInv
<1>. HIDE DEF d
<1>4. RequestFacts'
  BY <1>1, <1>3, InOrderKept
<1>5. /\ c.proposals = [loanProposals EXCEPT ![id1] = q1]
      /\ q1.asset = loanProposals[id1].asset /\ q1.amount = loanProposals[id1].amount
      /\ loanProposals[id1].status = "Pending"
      /\ q1.status \in {"Pending", "Rejected", "ApprovedPendingDisbursement", "Approved"}
      /\ IF q1.status = "Approved"
         THEN /\ c.balance = [balance EXCEPT ![q1.asset] = @ - q1.amount]
              /\ TreasuryOf(c.balance, q1.asset) >= 0
         ELSE c.balance = balance
  BY <1>1, <1>2 DEF Balloted, Book
<1>6. c.proposals[id2] = loanProposals[id2]
  BY <1>5 DEF RequestInv, TypeOK, LoanTypes
<1>7. /\ loanProposals' = [c.proposals EXCEPT ![id2] = q2]
      /\ q2.asset = loanProposals[id2].asset /\ q2.amount = loanProposals[id2].amount
      /\ loanProposals[id2].status = "Pending"
      /\ q2.status \in {"Pending", "Rejected", "ApprovedPendingDisbursement", "Approved"}
      /\ IF q2.status = "Approved"
         THEN /\ balance' = [c.balance EXCEPT ![q2.asset] = @ - q2.amount]
              /\ TreasuryOf(balance', q2.asset) >= 0
         ELSE balance' = c.balance
  BY <1>1, <1>3, <1>6 DEF Balloted, BecomesBook
<1>8. /\ key1 \in DocumentKeys /\ Request(key1) = loanProposals[id1]
      /\ key2 \in DocumentKeys /\ Request(key2) = loanProposals[id2]
      /\ key1 # key2
  BY RequestKeys
<1>9. \A key \in DocumentKeys :
         /\ RequestStages'[key] = IF key = key1 THEN RequestStage(q1.status)
                                  ELSE IF key = key2 THEN RequestStage(q2.status)
                                  ELSE RequestStages[key]
         /\ RequestTerms'[key] = RequestTerms[key]
  <2>1. \A i \in LoanIds : loanProposals'[i] =
           IF i = id1 THEN q1 ELSE IF i = id2 THEN q2 ELSE loanProposals[i]
    <3>1. loanProposals = [i \in LoanIds |-> loanProposals[i]]
      BY DEF RequestInv, TypeOK, LoanTypes
    <3>2. c.proposals = [loanProposals EXCEPT ![id1] = q1]
      BY <1>5
    <3>3. loanProposals' = [c.proposals EXCEPT ![id2] = q2]
      BY <1>7
    <3>4. \A i \in LoanIds : c.proposals[i] = IF i = id1 THEN q1 ELSE loanProposals[i]
      BY <3>1, <3>2
    <3>5. DOMAIN c.proposals = LoanIds
      BY <3>1, <3>2
    <3>. HIDE DEF q1, q2
    <3>6. \A i \in LoanIds : loanProposals'[i] = IF i = id2 THEN q2 ELSE c.proposals[i]
      BY <3>3, <3>5
    <3>. QED  BY <3>4, <3>6
  <2>2. \A key \in DocumentKeys : Request(key)' =
           IF key = key1 THEN q1 ELSE IF key = key2 THEN q2 ELSE Request(key)
    BY <1>1, <2>1 DEF Request, DocumentKeys, treasuryVars
  <2>3. \A key \in DocumentKeys :
           RequestStages'[key] = IF key = key1 THEN RequestStage(q1.status)
                                 ELSE IF key = key2 THEN RequestStage(q2.status)
                                 ELSE RequestStages[key]
    BY <2>2 DEF RequestStages
  <2>4. \A key \in DocumentKeys : RequestTerms'[key] = RequestTerms[key]
    BY <1>5, <1>7, <1>8, <2>2 DEF RequestTerms
  <2>. QED  BY <2>3, <2>4
<1>10. /\ RequestStages' = [[RequestStages EXCEPT ![key1] = RequestStage(q1.status)]
                              EXCEPT ![key2] = RequestStage(q2.status)]
       /\ RequestTerms' = RequestTerms
  BY <1>8, <1>9 DEF RequestStages, RequestTerms
<1>11. RequestStages[key1] = "open" /\ RequestStages[key2] = "open"
  BY <1>5, <1>7, <1>8, StageOfStatus DEF RequestStages
<1>12. /\ RequestStage(q1.status) \in {"open", "closed", "granted", "paid"}
       /\ RequestStage(q1.status) = "paid" <=> q1.status = "Approved"
       /\ RequestStage(q2.status) \in {"open", "closed", "granted", "paid"}
       /\ RequestStage(q2.status) = "paid" <=> q2.status = "Approved"
  BY <1>5, <1>7, StageOfStatus
<1>13. Decidable(key1, RequestStage(q1.status)) /\ Decidable(key2, RequestStage(q2.status))
  BY <1>11, <1>12, OnwardFrom DEF Decidable
<1>14. /\ RequestTerms[key1].asset = q1.asset /\ RequestTerms[key1].amount = q1.amount
       /\ RequestTerms[key2].asset = q2.asset /\ RequestTerms[key2].amount = q2.amount
  BY <1>5, <1>7, <1>8 DEF RequestTerms
<1>15. IF PaidNow(key1, RequestStage(q1.status))
       THEN /\ c.balance = Fund!Less(balance, key1)
            /\ Fund!Free(c.balance, RequestTerms[key1].asset) >= 0
       ELSE c.balance = balance
  BY <1>5, <1>11, <1>12, <1>14 DEF PaidNow, Fund!Less, Fund!Free, TreasuryOf
<1>16. IF PaidNow(key2, RequestStage(q2.status))
       THEN /\ balance' = Fund!Less(c.balance, key2)
            /\ Fund!Free(balance', RequestTerms[key2].asset) >= 0
       ELSE balance' = c.balance
  BY <1>7, <1>11, <1>12, <1>14 DEF PaidNow, Fund!Less, Fund!Free, TreasuryOf
<1>17. TypeOK /\ UNCHANGED totalStaked
  BY <1>1 DEF RequestInv
<1>. HIDE DEF key1, key2, q1, q2
<1>18. Fund!Next
  BY <1>8, <1>10, <1>13, <1>15, <1>16, <1>17, DecidedRequests
<1>. QED  BY <1>4, <1>18 DEF RequestStep

(* A loan paid after a wait.                                                 *)
LEMMA DisburseApprovedLoanStep ==
    ASSUME RequestInv, NEW id \in LoanIds, DisburseApprovedLoan(id)
    PROVE  RequestStep
<1>. DEFINE c == Disbursed(Book, id)
            p == loanProposals[id]
            q == c.proposals[id]
            key == <<"Loan", id>>
<1>1. InOrder(Book) /\ BecomesBook(c) /\ p.status = "ApprovedPendingDisbursement"
      /\ TreasuryOf(balance, p.asset) >= p.amount
      /\ UNCHANGED <<nextProposalId, treasuryVars, documents, totalStaked>>
  BY BookInOrder DEF DisburseApprovedLoan, stakeVars, CanDisburse, Book
<1>2. InOrder(c)
  BY <1>1, DisbursedInOrder DEF RequestInv, Book
<1>3. /\ c.proposals = [loanProposals EXCEPT ![id].status = "Approved"]
      /\ c.balance = [balance EXCEPT ![p.asset] = @ - p.amount]
  BY DEF Disbursed, Book
<1>. HIDE DEF c
<1>4. RequestFacts'
  BY <1>1, <1>2, InOrderKept
<1>5. /\ q.status = "Approved" /\ q.asset = p.asset /\ q.amount = p.amount
      /\ p.asset \in Assets /\ p.amount \in Nat
      /\ c.proposals = [loanProposals EXCEPT ![id] = q]
  BY <1>3 DEF RequestInv, TypeOK, LoanTypes, LoanProposalRecords
<1>6. TreasuryOf(balance', p.asset) >= 0
  BY <1>1, <1>3, <1>5 DEF TreasuryOf, BecomesBook, RequestInv, TypeOK, WorldTypes, StakeTypes
<1>7. key \in DocumentKeys /\ Request(key) = p
  BY RequestKeys
<1>8. loanProposals' = [loanProposals EXCEPT ![id] = q]
      /\ balance' = [balance EXCEPT ![q.asset] = @ - q.amount]
  BY <1>1, <1>3, <1>5 DEF BecomesBook
<1>9. /\ RequestStages' = [RequestStages EXCEPT ![key] = RequestStage(q.status)]
      /\ RequestTerms' = [RequestTerms EXCEPT ![key] =
                            [asset |-> q.asset, amount |-> q.amount]]
  BY <1>1, <1>8, LoanProposalMoves DEF treasuryVars, RequestInv
<1>10. RequestStages[key] = "granted" /\ RequestStage(q.status) = "paid"
  BY <1>1, <1>5, <1>7, StageOfStatus DEF RequestStages
<1>11. Decidable(key, RequestStage(q.status)) /\ Settled(key, q.status, q.asset, q.amount)
  BY <1>5, <1>6, <1>8, <1>10, OnwardFrom DEF Decidable, Settled, PaidNow
<1>. QED  BY <1>1, <1>4, <1>5, <1>7, <1>9, <1>11, RequestDecided DEF RequestInv

(* A proposal that lapsed.                                                   *)
LEMMA ExpireLoanProposalStep ==
    ASSUME RequestInv, NEW id \in LoanIds, ExpireLoanProposal(id)
    PROVE  RequestStep
<1>. DEFINE p == Refreshed(loanProposals[id])
            key == <<"Loan", id>>
<1>1. loanProposals[id] \in LoanProposalRecords
  BY DEF RequestInv, TypeOK, LoanTypes
<1>2. /\ p.asset = loanProposals[id].asset /\ p.amount = loanProposals[id].amount
      /\ p.votes_cast = loanProposals[id].votes_cast
      /\ p.status = "Expired" /\ p.phase = "Expired"
      /\ loanProposals[id].status = "Pending"
  <2>. DEFINE r == loanProposals[id]
              q == InVoting(r)
  <2>1. /\ q.asset = r.asset /\ q.amount = r.amount /\ q.votes_cast = r.votes_cast
        /\ q.status = r.status /\ q.phase \in {r.phase, "Voting"}
        /\ q \in LoanProposalRecords
    BY <1>1 DEF InVoting, LoanProposalRecords, ProposalPhases
  <2>2. p.phase = "Expired" /\ r.phase # "Expired"
    BY DEF ExpireLoanProposal
  <2>3. p = IF q.phase = "Voting" /\ now > LoanVotingEnd(q) /\ q.status = "Pending"
            THEN [q EXCEPT !.phase = "Expired", !.status = "Expired"] ELSE q
    BY DEF Refreshed
  <2>. HIDE DEF p, q, r
  <2>4. q.status = "Pending" /\ p = [q EXCEPT !.phase = "Expired", !.status = "Expired"]
    BY <2>1, <2>2, <2>3
  <2>5. /\ p.asset = q.asset /\ p.amount = q.amount /\ p.votes_cast = q.votes_cast
        /\ p.status = "Expired" /\ p.phase = "Expired"
    BY <2>1, <2>4 DEF LoanProposalRecords
  <2>. QED  BY <2>1, <2>4, <2>5 DEF r
<1>3. /\ loanProposals' = [loanProposals EXCEPT ![id] = p]
      /\ UNCHANGED <<balance, totalStaked, nextProposalId, loanVoted, loans,
                     treasuryVars, documents>>
  BY DEF ExpireLoanProposal, stakeVars
<1>. HIDE DEF p
<1>4. RequestFacts'
  BY <1>2, <1>3, LoanProposalWritten DEF Past
<1>5. key \in DocumentKeys /\ Request(key) = loanProposals[id]
  BY RequestKeys
<1>6. /\ RequestStages' = [RequestStages EXCEPT ![key] = RequestStage(p.status)]
      /\ RequestTerms' = [RequestTerms EXCEPT ![key] =
                            [asset |-> p.asset, amount |-> p.amount]]
  BY <1>3, LoanProposalMoves DEF treasuryVars, RequestInv
<1>7. RequestStages[key] = "open" /\ RequestStage(p.status) = "closed"
  BY <1>2, <1>5, StageOfStatus DEF RequestStages
<1>8. Decidable(key, RequestStage(p.status)) /\ Settled(key, p.status, p.asset, p.amount)
  BY <1>3, <1>7, OnwardFrom DEF Decidable, Settled, PaidNow
<1>. QED  BY <1>2, <1>3, <1>4, <1>5, <1>6, <1>8, RequestDecided DEF RequestInv

(* Payments and defaults.                                                    *)
LEMMA RepaymentStep ==
    ASSUME RequestInv, NEW m \in Accounts, NEW id \in LoanIds, NEW amount,
           RepayAmount(m, id, amount)
    PROVE  RequestStep
<1>1. /\ \A i \in LoanIds \ {id} : loans'[i] = loans[i]
      /\ loans[id].status # "None"
      /\ UNCHANGED <<loanProposals, nextProposalId, loanVoted, treasuryVars, documents,
                     totalStaked>>
  BY DEF RepayAmount, RequestInv, TypeOK, LoanTypes, stakeVars
<1>2. RequestFacts'
  BY <1>1, LoanWritten
<1>3. loanProposals[id].asset \in Assets
  BY DEF RequestInv, TypeOK, LoanTypes, LoanProposalRecords
<1>4. amount \in Nat
  <2>. DEFINE owed == Outstanding(Surcharged(loans[id]))
  <2>1. amount \in 1 .. owed
    BY DEF RepayAmount
  <2>. HIDE DEF owed
  <2>. QED  BY <2>1
<1>5. balance' = [balance EXCEPT ![loanProposals[id].asset] = @ + amount]
  BY DEF RepayAmount
<1>. QED  BY <1>1, <1>2, <1>3, <1>4, <1>5, ReceiveStep DEF RequestInv, treasuryVars

(* A default moves no money.                                                 *)
LEMMA MarkLoanDefaultedStep ==
    ASSUME RequestInv, NEW id \in LoanIds, MarkLoanDefaulted(id)
    PROVE  RequestStep
<1>1. /\ \A i \in LoanIds \ {id} : loans'[i] = loans[i]
      /\ loans[id].status # "None"
      /\ UNCHANGED <<loanProposals, nextProposalId, loanVoted, treasuryVars, documents,
                     balance>>
  BY DEF MarkLoanDefaulted, RequestInv, TypeOK, LoanTypes
<1>. QED  BY <1>1, LoanWritten, HoldStep DEF treasuryVars

(* So every loan call of a member is a step of FundRequests.                 *)
LEMMA LoanCallRequests ==
    ASSUME RequestInv, NEW m \in Accounts, LoanCall(m)
    PROVE  RequestStep
<1>1. CASE \/ \E amount \in LoanAmounts, asset \in Assets :
                 RequestLoanInAsset(m, amount, asset)
           \/ \E id \in LoanIds, amount \in LoanAmounts : EditLoanProposal(m, id, amount)
           \/ \E id \in LoanIds : CancelLoanProposal(m, id)
  BY <1>1, LoanRequestsStep
<1>2. CASE \E id \in LoanIds, support \in BOOLEAN : VoteOnLoanProposal(m, id, support)
  BY <1>2, VoteOnLoanProposalStep
<1>3. CASE \E id1 \in LoanIds : \E id2 \in LoanIds \ {id1}, s1, s2 \in BOOLEAN :
              VoteBatch(m, id1, s1, id2, s2)
  BY <1>3, VoteBatchStep
<1>4. CASE \E id \in LoanIds :
              \/ \E amount \in RepaymentAmounts : RepayLoanPartial(m, id, amount)
              \/ RepayLoan(m, id)
              \/ \E asset \in Assets : RepayLoanInAsset(m, id, asset)
  BY <1>4, RepaymentStep DEF RepayLoanPartial, RepayLoan, RepayLoanInAsset
<1>. QED  BY <1>1, <1>2, <1>3, <1>4 DEF LoanCall

-----------------------------------------------------------------------------
(* treasury.rs and privacy.rs.                                               *)
LEMMA ProposeWithdrawalStep ==
    ASSUME RequestInv, NEW m \in Accounts, NEW amount \in Nat, NEW asset \in Assets,
           NEW private, ProposeWithdrawalInAsset(m, amount, asset, private)
    PROVE  RequestStep
<1>. DEFINE id == nextTreasuryId
            key == <<"Treasury", id>>
            p == [proposer |-> m, asset |-> asset, amount |-> amount,
                  created_at |-> now, status |-> "Pending",
                  for_votes |-> 0, against_votes |-> 0, votes_cast |-> 0,
                  voting_period |-> policy.voting_period,
                  treasury_threshold |-> policy.treasury_threshold, private |-> private]
<1>1. id \in TreasuryIds /\ nextTreasuryId >= nextTreasuryId
  BY BoundsAssumption
     DEF RequestInv, TypeOK, TreasuryTypes, TreasuryIds, ProposeWithdrawalInAsset
<1>2. treasuryProposals[id] = NoTreasuryProposal
  <2>1. \A i \in TreasuryIds :
           i >= nextTreasuryId => treasuryProposals[i] = NoTreasuryProposal
    BY DEF RequestInv, RequestFacts, FreshIds
  <2>. QED  BY <1>1, <2>1
<1>3. RequestStages[key] = "unused"
  BY <1>1, <1>2, RequestKeys, StageOfStatus DEF RequestStages, NoTreasuryProposal
<1>4. treasuryProposals' = [treasuryProposals EXCEPT ![id] = p]
      /\ UNCHANGED <<loanProposals, balance, totalStaked>>
  BY DEF ProposeWithdrawalInAsset, loanVars, stakeVars
<1>5. p.status = "Pending" /\ p.asset = asset /\ p.amount = amount
  OBVIOUS
<1>. HIDE DEF p
<1>6. /\ RequestStages' = [RequestStages EXCEPT ![key] = "open"]
      /\ RequestTerms' = [RequestTerms EXCEPT ![key] =
                            [asset |-> asset, amount |-> amount]]
  <2>1. RequestStage(p.status) = "open"
    BY <1>5, StageOfStatus
  <2>2. /\ RequestStages' = [RequestStages EXCEPT ![key] = RequestStage(p.status)]
        /\ RequestTerms' = [RequestTerms EXCEPT ![key] =
                              [asset |-> p.asset, amount |-> p.amount]]
    BY <1>1, <1>4, TreasuryProposalMoves DEF RequestInv
  <2>. QED  BY <1>5, <2>1, <2>2
<1>7. key \in DocumentKeys /\ amount \in Int
  BY <1>1, RequestKeys
<1>8. Fund!Next
  BY <1>3, <1>4, <1>6, <1>7, FiledRequest DEF RequestInv
<1>. QED  BY <1>8, ProposeWithdrawalInOrder DEF RequestStep

(* A withdrawal proposal decided, at the ballot or after it.                 *)
LEMMA WithdrawalDecided ==
    ASSUME RequestInv, NEW id \in TreasuryIds, NEW p, NEW voters,
           treasuryProposals' = [treasuryProposals EXCEPT ![id] = p],
           treasuryVoted' = [treasuryVoted EXCEPT ![id] = voters],
           p.votes_cast = Cardinality(voters),
           UNCHANGED <<loanVars, nextTreasuryId, documents, totalStaked>>,
           p.asset = treasuryProposals[id].asset,
           p.amount = treasuryProposals[id].amount,
           \/ /\ treasuryProposals[id].status = "Pending"
              /\ p.status \in {"Pending", "Rejected", "Cancelled", "Expired",
                               "ApprovedPendingDisbursement", "Executed"}
           \/ /\ treasuryProposals[id].status = "ApprovedPendingDisbursement"
              /\ p.status = "Executed",
           IF p.status = "Executed"
           THEN /\ balance' = [balance EXCEPT ![p.asset] = @ - p.amount]
                /\ TreasuryOf(balance', p.asset) >= 0
           ELSE balance' = balance
    PROVE  RequestStep
<1>. DEFINE key == <<"Treasury", id>>
<1>1. RequestFacts'
  BY TreasuryProposalWritten
<1>2. key \in DocumentKeys /\ Request(key) = treasuryProposals[id]
  BY RequestKeys
<1>3. /\ RequestStages' = [RequestStages EXCEPT ![key] = RequestStage(p.status)]
      /\ RequestTerms' = [RequestTerms EXCEPT ![key] =
                            [asset |-> p.asset, amount |-> p.amount]]
  BY TreasuryProposalMoves DEF RequestInv, loanVars
<1>4. RequestStages[key] = RequestStage(treasuryProposals[id].status)
  BY <1>2 DEF RequestStages
<1>5. /\ RequestStages[key] = "open" =>
           RequestStage(p.status) \in {"open", "closed", "granted", "paid"}
      /\ RequestStages[key] \in {"open", "granted"}
      /\ RequestStages[key] = "granted" => RequestStage(p.status) = "paid"
      /\ RequestStage(p.status) = "paid" <=> p.status = "Executed"
  BY <1>4, StageOfStatus
<1>6. Decidable(key, RequestStage(p.status))
  BY <1>5, OnwardFrom DEF Decidable
<1>7. Settled(key, p.status, p.asset, p.amount)
  BY <1>5 DEF Settled, PaidNow
<1>. QED  BY <1>1, <1>2, <1>3, <1>6, <1>7, RequestDecided DEF RequestInv

(* What is paid out of a treasury that covers it leaves it no debt.          *)
LEMMA CoveredPayment ==
    ASSUME TypeOK, NEW asset \in Assets, NEW amount \in Nat,
           TreasuryBalance(asset) >= amount, UNCHANGED totalStaked,
           balance' = [balance EXCEPT ![asset] = @ - amount]
    PROVE  TreasuryOf(balance', asset) >= 0
  BY DEF TypeOK, WorldTypes, StakeTypes, TreasuryBalance, TreasuryOf

(* A ballot on a withdrawal, open or revealed, and what it pays.             *)
LEMMA TallyStep ==
    ASSUME RequestInv, NEW id \in TreasuryIds, NEW voter \in Accounts,
           NEW support \in BOOLEAN, Tally(id, voter, support),
           UNCHANGED <<loanVars, nextTreasuryId, documents, totalStaked>>
    PROVE  RequestStep
<1>. DEFINE old == treasuryProposals[id]
            p == CountedTreasuryVote(old, voter, support)
            status == StatusAfterVote(p)
            q == [p EXCEPT !.status = status]
            voters == treasuryVoted[id] \cup {voter}
<1>1. old \in TreasuryProposalRecords /\ treasuryVoted[id] \in SUBSET Accounts
  BY DEF RequestInv, TypeOK, TreasuryTypes
<1>2. old.status = "Pending" /\ voter \notin treasuryVoted[id]
  BY DEF Tally, MayBeTallied
<1>3. /\ p.asset = old.asset /\ p.amount = old.amount
      /\ p.votes_cast = old.votes_cast + 1
      /\ q.asset = p.asset /\ q.amount = p.amount /\ q.votes_cast = p.votes_cast
      /\ q.status = status
  BY <1>1 DEF CountedTreasuryVote, TreasuryProposalRecords
<1>4. /\ status \in {"Pending", "Rejected", "ApprovedPendingDisbursement", "Executed"}
      /\ status = "Executed" => TreasuryBalance(p.asset) >= p.amount
  BY DEF StatusAfterVote, Covered
<1>5. /\ treasuryProposals' = [treasuryProposals EXCEPT ![id] = q]
      /\ treasuryVoted' = [treasuryVoted EXCEPT ![id] = voters]
      /\ IF status = "Executed"
         THEN balance' = [balance EXCEPT ![p.asset] = @ - p.amount]
         ELSE balance' = balance
  BY DEF Tally, RequestInv, TypeOK, TreasuryTypes
<1>6. q.votes_cast = Cardinality(voters)
  <2>1. old.votes_cast = Cardinality(treasuryVoted[id])
    BY DEF RequestInv, RequestFacts, BallotsCounted
  <2>. HIDE DEF q, p, old
  <2>. QED  BY <1>1, <1>2, <1>3, <2>1, VoterCounted
<1>7. old.asset \in Assets /\ old.amount \in Nat
  BY <1>1 DEF TreasuryProposalRecords
<1>. HIDE DEF q, p, status, voters
<1>8. status = "Executed" => TreasuryOf(balance', q.asset) >= 0
  BY <1>3, <1>4, <1>5, <1>7, CoveredPayment DEF RequestInv
<1>. QED  BY <1>2, <1>3, <1>4, <1>5, <1>6, <1>8, WithdrawalDecided

(* A withdrawal's status changed outside the ballot.                         *)
Closes(id, status) ==
    /\ treasuryProposals' = [treasuryProposals EXCEPT ![id].status = status]
    /\ UNCHANGED <<treasuryVoted, loanVars, nextTreasuryId, documents, totalStaked>>
    /\ \/ /\ treasuryProposals[id].status = "Pending"
          /\ status \in {"Cancelled", "Expired"}
          /\ balance' = balance
       \/ /\ Payable(id) /\ status = "Executed"
          /\ balance' = [balance EXCEPT ![treasuryProposals[id].asset] =
                           @ - treasuryProposals[id].amount]

(* Cancelling, expiring and executing are such changes, decided or paid.     *)
LEMMA WithdrawalClosed ==
    ASSUME RequestInv, NEW id \in TreasuryIds, NEW status, Closes(id, status)
    PROVE  RequestStep
<1>. DEFINE old == treasuryProposals[id]
            q == [old EXCEPT !.status = status]
<1>1. old \in TreasuryProposalRecords
  BY DEF RequestInv, TypeOK, TreasuryTypes
<1>2. /\ q.asset = old.asset /\ q.amount = old.amount
      /\ q.votes_cast = old.votes_cast /\ q.status = status
      /\ old.asset \in Assets /\ old.amount \in Nat
  BY <1>1 DEF TreasuryProposalRecords
<1>3. /\ treasuryProposals' = [treasuryProposals EXCEPT ![id] = q]
      /\ treasuryVoted' = [treasuryVoted EXCEPT ![id] = treasuryVoted[id]]
  BY DEF Closes, RequestInv, TypeOK, TreasuryTypes
<1>4. q.votes_cast = Cardinality(treasuryVoted[id])
  BY <1>2 DEF RequestInv, RequestFacts, BallotsCounted
<1>5. status = "Executed" =>
        /\ old.status = "ApprovedPendingDisbursement"
        /\ balance' = [balance EXCEPT ![old.asset] = @ - old.amount]
        /\ TreasuryOf(balance', old.asset) >= 0
  BY <1>2, CoveredPayment DEF Closes, RequestInv, Payable, Covered
<1>6. status # "Executed" =>
        /\ old.status = "Pending" /\ status \in {"Cancelled", "Expired"}
        /\ balance' = balance
  BY DEF Closes
<1>7. IF q.status = "Executed"
      THEN /\ balance' = [balance EXCEPT ![q.asset] = @ - q.amount]
           /\ TreasuryOf(balance', q.asset) >= 0
      ELSE balance' = balance
  BY <1>2, <1>5, <1>6
<1>8. UNCHANGED <<loanVars, nextTreasuryId, documents, totalStaked>>
  BY DEF Closes
<1>9. \/ /\ old.status = "Pending"
         /\ q.status \in {"Pending", "Rejected", "Cancelled", "Expired",
                          "ApprovedPendingDisbursement", "Executed"}
      \/ old.status = "ApprovedPendingDisbursement" /\ q.status = "Executed"
  BY <1>2, <1>5, <1>6
<1>. DEFINE voters == treasuryVoted[id]
<1>10. treasuryVoted' = [treasuryVoted EXCEPT ![id] = voters]
       /\ q.votes_cast = Cardinality(voters)
       /\ q.asset = treasuryProposals[id].asset
       /\ q.amount = treasuryProposals[id].amount
  BY <1>2, <1>3, <1>4
<1>. HIDE DEF q, voters
<1>. QED  BY <1>3, <1>7, <1>8, <1>9, <1>10, WithdrawalDecided

(* So every treasury call of a member is a step of FundRequests.             *)
LEMMA TreasuryCallRequests ==
    ASSUME RequestInv, NEW m \in Accounts, TreasuryCall(m)
    PROVE  RequestStep
<1>1. CASE \E amount \in WithdrawalAmounts, asset \in Assets, private \in Privacies :
              ProposeWithdrawalInAsset(m, amount, asset, private)
  BY <1>1, InputsAssumption, ProposeWithdrawalStep
<1>2. CASE \E id \in TreasuryIds, support \in BOOLEAN :
              \/ VoteOnTreasuryProposal(m, id, support)
              \/ RevealVote(m, id, support)
  BY <1>2, TallyStep DEF VoteOnTreasuryProposal, RevealVote, stakeVars
<1>3. CASE \E id \in TreasuryIds, author \in Accounts, support \in BOOLEAN :
              CommitVote(m, id, Commitment(author, id, support))
  <2>1. UNCHANGED <<balance, loanVars, treasuryProposals, nextTreasuryId, treasuryVoted,
                    documents>>
    BY <1>3 DEF CommitVote
  <2>2. RequestFacts'
    BY <2>1 DEF RequestInv, RequestFacts, DecidedArePast, FreshIds, BallotsCounted, loanVars
  <2>. QED  BY <2>1, <2>2, HoldStep DEF loanVars
<1>4. CASE \E id \in TreasuryIds : CancelTreasuryProposal(m, id)
  BY <1>4, WithdrawalClosed DEF Closes, CancelTreasuryProposal, stakeVars
<1>. QED  BY <1>1, <1>2, <1>3, <1>4 DEF TreasuryCall

(* The calls open to anyone.                                                 *)
LEMMA PublicCallRequests ==
    ASSUME RequestInv, PublicCall
    PROVE  RequestStep
<1>1. CASE \E id \in LoanIds :
              DisburseApprovedLoan(id) \/ ExpireLoanProposal(id) \/ MarkLoanDefaulted(id)
  BY <1>1, DisburseApprovedLoanStep, ExpireLoanProposalStep, MarkLoanDefaultedStep
<1>2. CASE \E id \in TreasuryIds : ExecuteTreasuryProposal(id)
  BY <1>2, WithdrawalClosed DEF Closes, ExecuteTreasuryProposal, stakeVars
<1>3. CASE \E id \in TreasuryIds : ExpireTreasuryProposal(id)
  BY <1>3, WithdrawalClosed DEF Closes, ExpireTreasuryProposal, Lapsed, stakeVars
<1>. QED  BY <1>1, <1>2, <1>3 DEF PublicCall

-----------------------------------------------------------------------------
(* The whole contract.                                                       *)
LEMMA RequestsStep == RequestInv /\ [Next]_vars => RequestStep
<1>. SUFFICES ASSUME RequestInv, [Next]_vars PROVE RequestStep
  OBVIOUS
<1>1. CASE \E m \in Accounts : MembershipCall(m)
  BY <1>1, MembershipCallRequests
<1>2. CASE \E m \in Accounts : LoanCall(m)
  BY <1>2, LoanCallRequests
<1>3. CASE \E m \in Accounts : TreasuryCall(m)
  BY <1>3, TreasuryCallRequests
<1>4. CASE PublicCall
  BY <1>4, PublicCallRequests
<1>5. CASE \/ Tick
           \/ \E asset \in Assets, amount \in DonationAmounts : Donate(asset, amount)
           \/ \E m \in Accounts : RegistryCall(m)
           \/ \E caller \in Governors : AdminCall(caller)
           \/ \E caller \in Migrators : MigrationCall(caller)
  BY <1>5, OtherCallsRequests
<1>6. CASE UNCHANGED vars
  <2>1. UNCHANGED <<balance, loanVars, treasuryVars, documents>>
    BY <1>6 DEF vars
  <2>. QED  BY <2>1, RequestFactsFrame, HoldStep DEF loanVars, treasuryVars, RequestInv
<1>. QED  BY <1>1, <1>2, <1>3, <1>4, <1>5, <1>6 DEF Next, Operate, Migrate

(* `initialize` leaves no request and no money.                              *)
LEMMA RequestsInit == Init => RequestFacts /\ Fund!Init
<1>. SUFFICES ASSUME Init PROVE RequestFacts /\ Fund!Init
  OBVIOUS
<1>1. /\ loanProposals = [id \in LoanIds |-> NoLoanProposal]
      /\ loans = [id \in LoanIds |-> NoLoan]
      /\ loanVoted = [id \in LoanIds |-> {}]
      /\ treasuryProposals = [id \in TreasuryIds |-> NoTreasuryProposal]
      /\ treasuryVoted = [id \in TreasuryIds |-> {}]
      /\ documents = [key \in DocumentKeys |-> NoHash]
      /\ balance = [a \in Assets |-> 0] /\ totalStaked = 0
  BY DEF Init
<1>2. /\ NoLoanProposal.status = "None" /\ NoLoanProposal.votes_cast = 0
      /\ NoTreasuryProposal.status = "None" /\ NoTreasuryProposal.votes_cast = 0
  BY DEF NoLoanProposal, NoTreasuryProposal
<1>3. DecidedArePast
  BY <1>1, <1>2 DEF DecidedArePast, Past
<1>4. FreshIds
  BY <1>1, RequestKeys DEF FreshIds
<1>5. BallotsCounted
  BY <1>1, <1>2, FS_EmptySet DEF BallotsCounted
<1>6. TypeOK
  BY CountsInit DEF CountsInv
<1>7. RequestStages = [key \in DocumentKeys |-> "unused"]
  <2>1. \A key \in DocumentKeys : Request(key).status = "None"
    BY <1>1, <1>2, RequestKeys
  <2>. QED  BY <2>1, StageOfStatus DEF RequestStages
<1>8. Fund!Init
  BY <1>1, <1>6, <1>7, RequestsTyped DEF Fund!Init
<1>. QED  BY <1>3, <1>4, <1>5, <1>8 DEF RequestFacts

(* Requests, their ids and their ballots, in every deployment, seeded or not. *)
THEOREM RequestsInvariant == Spec => []RequestInv
<1>1. RequestInv /\ TypeOK' /\ [Next]_vars => RequestInv'
  BY RequestsStep DEF RequestInv, RequestStep
<1>2. Init /\ TypeOK => RequestInv
  BY RequestsInit DEF RequestInv
<1>. QED  BY <1>1, <1>2, TypeCorrect, PTL DEF Spec

(* An id handed out by request_loan or propose_withdrawal names nothing yet: *)
(* however deployments are copied, with seed_loans and seed_documents        *)
(* bumping the counters, a new request never lands on an old one.            *)
THEOREM IdsAreFresh == Spec => []FreshIds
<1>1. RequestInv => FreshIds
  BY DEF RequestInv, RequestFacts
<1>. QED  BY <1>1, RequestsInvariant, PTL

(* votes_cast, by which vote_on_loan_proposal and tally give a ballot up     *)
(* early, is always the number of members recorded as having voted.          *)
THEOREM BallotsAreCounted == Spec => []BallotsCounted
<1>1. RequestInv => BallotsCounted
  BY DEF RequestInv, RequestFacts
<1>. QED  BY <1>1, RequestsInvariant, PTL

(* The contract implements FundRequests: loans and withdrawals are decided   *)
(* once and paid at most once, as decided, and never out of members' stakes; *)
(* nothing else leaves the contract but what exit_dao and claim_rewards pay. *)
THEOREM FundsImplemented == Spec => FundsAccounted
<1>1. Init => Fund!Init
  BY RequestsInit
<1>2. RequestInv /\ [Next]_vars => [Fund!Next]_Fund!fundVars
  BY RequestsStep DEF RequestStep
<1>. QED  BY <1>1, <1>2, RequestsInvariant, PTL DEF Spec, FundsAccounted, Fund!Spec
=============================================================================
