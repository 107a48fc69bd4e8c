---------------------------- MODULE ScriptProofs ----------------------------
(***************************************************************************)
(* The two scripts that work on the contract. First the hand-over to a new   *)
(* deployment: the export is a true copy of a contract that was paused       *)
(* throughout, read as it is by many calls; whatever is done to the new      *)
(* deployment while it is seeded, an entry stays as it was last sent; and    *)
(* once all have been sent as they are in the export, the new deployment     *)
(* stands where the old one stood. Then the keeper: a run is one more caller *)
(* of the contract, so all that is proved of the contract holds beside it.   *)
(***************************************************************************)
EXTENDS Handover, Keeper, LoanProofs, GovernanceProofs

(* The ledger holds nothing of an address that never joined.                 *)
StrangersBlank ==
    \A a \in Accounts : ~IsMember(a) => members[a] = NoMember /\ stakes[a] = 0

(* A book that has nothing new of such an address.                           *)
KeepsStrangers(b) == \A a \in Accounts : ~IsMember(a) => b.members[a] = members[a]

(* Money is lent to those who have joined.                                   *)
LEMMA DisbursedKeepsStrangers ==
    ASSUME CountsInv, NEW b, TrueBook(b), KeepsStrangers(b), NEW id \in LoanIds,
           b.proposals[id].status # "None"
    PROVE  KeepsStrangers(Disbursed(b, id))
<1>. DEFINE m == b.proposals[id].borrower
<1>1. IsMember(m)
  BY DEF TrueBook, BookFacts, Registered
<1>2. Disbursed(b, id).members = [b.members EXCEPT ![m] = RecordAfterLoan(@)]
  BY DEF Disbursed
<1>. QED  BY <1>1, <1>2 DEF KeepsStrangers, TrueBook, SoundBook, Books

(* And so is a whole ballot.                                                 *)
LEMMA LoanVoteCastKeepsStrangers ==
    ASSUME CountsInv, NEW b, TrueBook(b), KeepsStrangers(b), NEW voter \in Accounts,
           NEW id \in LoanIds, NEW support \in BOOLEAN, MayVoteOnLoan(b, voter, id)
    PROVE  KeepsStrangers(LoanVoteCast(b, voter, id, support))
<1>. DEFINE after == BallotBook(b, voter, id, support)
<1>1. TrueBook(after)
  BY BallotBookIsTrue
<1>2. KeepsStrangers(after)
  BY DEF BallotBook, KeepsStrangers
<1>3. after.proposals[id].status = "ApprovedPendingDisbursement"
        => KeepsStrangers(Disbursed(after, id))
  BY <1>1, <1>2, DisbursedKeepsStrangers
<1>. QED  BY <1>2, <1>3 DEF LoanVoteCast

(* What a step does to the addresses that have not joined, and to those that *)
(* have.                                                                     *)
StrangersKept ==
    \A a \in Accounts : IF IsMember(a) THEN members'[a].status # "NotMember"
                        ELSE members'[a].status = "NotMember" => members'[a] = members[a]

(* In operation only register_member makes an address a member.              *)
LEMMA StrangersMove ==
    ASSUME LoansInv, [Operate]_vars
    PROVE  StrangersKept
<1>1. /\ CountsInv /\ TrueBook(Book) /\ members \in [Accounts -> MemberRecords]
  BY BookIsTrue DEF LoansInv, CountsInv, TypeOK, MemberTypes
<1>2. KeepsStrangers(Book)
  BY DEF KeepsStrangers, Book
<1>3. UNCHANGED members => StrangersKept
  BY DEF StrangersKept, IsMember
<1>4. ASSUME NEW b, BecomesBook(b), KeepsStrangers(b), StatusesKept PROVE StrangersKept
  BY <1>4 DEF BecomesBook, KeepsStrangers, StatusesKept, StrangersKept, IsMember
<1>5. CASE Tick \/ \E asset \in Assets, amount \in DonationAmounts : Donate(asset, amount)
  BY <1>3, <1>5 DEF Tick, Donate, memberVars
<1>6. ASSUME NEW m \in Accounts, MembershipCall(m) PROVE StrangersKept
  <2>1. CASE RegisterMember(m)
    <3>1. members' = [members EXCEPT ![m] = Joined(m)] /\ Joined(m).status = "ActiveMember"
      BY <1>1, <2>1 DEF RegisterMember, Joined, MemberRecords
    <3>. QED  BY <1>1, <3>1 DEF StrangersKept, IsMember
  <2>2. CASE ExitDao(m)
    <3>1. members' = [members EXCEPT ![m].status = "Inactive"] /\ IsMember(m)
      BY <2>2 DEF ExitDao, MemberCall, IsMember, IsActiveMember
    <3>. QED  BY <1>1, <3>1 DEF StrangersKept, IsMember, MemberRecords
  <2>3. CASE \/ ClaimRewards(m) \/ \E d \in Accounts : DelegateVote(m, d)
             \/ \E amount \in StakeAmounts : Stake(m, amount) \/ Unstake(m, amount)
    BY <1>3, <2>3 DEF ClaimRewards, DelegateVote, Stake, Unstake, memberVars
  <2>. QED  BY <1>6, <2>1, <2>2, <2>3 DEF MembershipCall
<1>7. ASSUME NEW m \in Accounts, NEW id \in LoanIds, NEW support \in BOOLEAN,
             VoteOnLoanProposal(m, id, support)
      PROVE  StrangersKept
  <2>1. StatusesKept
    BY <1>1, <1>7, LoanBallotsCounted
  <2>2. KeepsStrangers(LoanVoteCast(Book, m, id, support))
    BY <1>1, <1>2, <1>7, LoanVoteCastKeepsStrangers DEF VoteOnLoanProposal
  <2>. QED  BY <1>4, <1>7, <2>1, <2>2 DEF VoteOnLoanProposal
<1>8. ASSUME NEW m \in Accounts, NEW id1 \in LoanIds, NEW id2 \in LoanIds,
             NEW s1 \in BOOLEAN, NEW s2 \in BOOLEAN, VoteBatch(m, id1, s1, id2, s2)
      PROVE  StrangersKept
  <2>. DEFINE after1 == LoanVoteCast(Book, m, id1, s1)
              after2 == LoanVoteCast(after1, m, id2, s2)
  <2>1. StatusesKept
    BY <1>1, <1>8, LoanBallotsCounted
  <2>2. /\ MayVoteOnLoan(Book, m, id1) /\ MayVoteOnLoan(after1, m, id2)
        /\ BecomesBook(after2)
    BY <1>8 DEF VoteBatch
  <2>3. TrueBook(after1) /\ KeepsStrangers(after1)
    BY <1>1, <1>2, <2>2, LoanVoteCastIsTrue, LoanVoteCastKeepsStrangers
  <2>. HIDE DEF after1
  <2>4. KeepsStrangers(after2)
    BY <1>1, <2>2, <2>3, LoanVoteCastKeepsStrangers
  <2>. HIDE DEF after2
  <2>. QED  BY <1>4, <2>1, <2>2, <2>4
<1>9. ASSUME NEW id \in LoanIds, DisburseApprovedLoan(id) PROVE StrangersKept
  <2>1. StatusesKept
    BY <1>1, <1>9, DisburseApprovedLoanCounted
  <2>2. KeepsStrangers(Disbursed(Book, id))
    BY <1>1, <1>2, <1>9, DisbursedKeepsStrangers DEF DisburseApprovedLoan, Book
  <2>. QED  BY <1>4, <1>9, <2>1, <2>2 DEF DisburseApprovedLoan
<1>10. CASE LoanBallotCall
  <2>1. ASSUME NEW m \in Accounts,
               \/ \E id \in LoanIds, support \in BOOLEAN : VoteOnLoanProposal(m, id, support)
               \/ \E id1, id2 \in LoanIds, s1, s2 \in BOOLEAN : VoteBatch(m, id1, s1, id2, s2)
        PROVE  StrangersKept
    BY <1>7, <1>8, <2>1
  <2>. QED
    BY <1>3, <1>9, <1>10, <2>1 DEF LoanBallotCall, RequestLoanInAsset, EditLoanProposal,
       CancelLoanProposal, ExpireLoanProposal, memberVars
<1>11. ASSUME NEW m \in Accounts, NEW id \in LoanIds, NEW amount, RepayAmount(m, id, amount)
      PROVE  StrangersKept
  <2>1. StatusesKept
    BY <1>1, <1>11, RepayAmountCounted
  <2>2. \/ members' = members
        \/ IsMember(m) /\ members' = [members EXCEPT ![m] = RecordAfterRepayment(m)]
    BY <1>11 DEF RepayAmount
  <2>. QED  BY <1>1, <2>1, <2>2 DEF StatusesKept, StrangersKept, IsMember
<1>12. ASSUME NEW id \in LoanIds, MarkLoanDefaulted(id) PROVE StrangersKept
  <2>. DEFINE m == loans[id].borrower
  <2>1. StatusesKept
    BY <1>1, <1>12, MarkLoanDefaultedCounted
  <2>2. \/ members' = members
        \/ IsMember(m) /\ members' = [members EXCEPT ![m] = RecordAfterDefault(m)]
    BY <1>12 DEF MarkLoanDefaulted
  <2>. QED  BY <1>1, <2>1, <2>2 DEF StatusesKept, StrangersKept, IsMember
<1>13. CASE \E m \in Accounts : LoanCall(m)
  <2>1. \/ LoanBallotCall
        \/ \E m \in Accounts, id \in LoanIds : \E amount : RepayAmount(m, id, amount)
    BY <1>13 DEF LoanCall, LoanBallotCall, RepayLoanPartial, RepayLoan, RepayLoanInAsset
  <2>. QED  BY <1>10, <1>11, <2>1
<1>14. CASE \E m \in Accounts : TreasuryCall(m) \/ RegistryCall(m)
  BY <1>3, <1>14
     DEF TreasuryCall, ProposeWithdrawalInAsset, VoteOnTreasuryProposal, CommitVote,
         RevealVote, CancelTreasuryProposal, RegistryCall, RegisterName, AttachDocument,
         memberVars
<1>15. CASE PublicCall
  <2>1. CASE \E id \in TreasuryIds : ExecuteTreasuryProposal(id) \/ ExpireTreasuryProposal(id)
    BY <1>3, <2>1 DEF ExecuteTreasuryProposal, ExpireTreasuryProposal, memberVars
  <2>. QED  BY <1>10, <1>12, <1>15, <2>1 DEF PublicCall, LoanBallotCall
<1>16. CASE \E caller \in Governors : AdminCall(caller)
  <2>1. AdminFrame
    BY <1>16 DEF AdminCall, AddAdmin, RemoveAdmin, SetPauser, RevokePauser,
         SetConsensusThreshold, Pause, Unpause, ProposePolicyUpdate,
         ExecutePolicyUpdate, CancelPolicyUpdate, ProposeTokenAddition,
         ExecuteTokenAddition, RemoveToken
  <2>. QED  BY <1>3, <2>1 DEF AdminFrame, memberVars
<1>17. CASE UNCHANGED vars
  BY <1>3, <1>17 DEF vars, memberVars
<1>. QED  BY <1>5, <1>6, <1>13, <1>14, <1>15, <1>16, <1>17 DEF Operate

(* So the ledger stays blank for the others, whatever call it is, ...        *)
LEMMA StrangersStep ==
    ASSUME LoansInv, StrangersBlank, [Operate]_vars
    PROVE  StrangersBlank'
<1>1. TypeOK /\ StrangersKept
  BY StrangersMove DEF LoansInv, CountsInv
<1>2. \A a \in Accounts : ~IsMember(a) => stakes'[a] = stakes[a] \/ IsMember(a)'
  <2>1. ASSUME NEW m \in Accounts,
               \/ ExitDao(m)
               \/ \E amount \in StakeAmounts : Stake(m, amount) \/ Unstake(m, amount)
        PROVE  IsMember(m) /\ \A a \in Accounts \ {m} : stakes'[a] = stakes[a]
    <3>1. IsMember(m)
      <4>1. CASE \E amount \in StakeAmounts : Unstake(m, amount)
        BY <4>1 DEF Unstake, Unstakable, StrangersBlank
      <4>2. CASE ExitDao(m) \/ \E amount \in StakeAmounts : Stake(m, amount)
        BY <4>2 DEF ExitDao, Stake, MemberCall, IsActiveMember, IsMember
      <4>. QED  BY <2>1, <4>1, <4>2
    <3>2. stakes \in [Accounts -> Nat]
      BY <1>1 DEF TypeOK, StakeTypes
    <3>3. CASE ExitDao(m)
      BY <3>1, <3>2, <3>3 DEF ExitDao
    <3>4. CASE \E amount \in StakeAmounts : Stake(m, amount) \/ Unstake(m, amount)
      BY <3>1, <3>2, <3>4 DEF Stake, Unstake
    <3>. QED  BY <2>1, <3>3, <3>4
  <2>. QED  BY <2>1, StakeSteps
<1>. QED  BY <1>1, <1>2 DEF StrangersKept, StrangersBlank, IsMember

(* ... as it is at first.                                                    *)
LEMMA StrangersInit == Init => StrangersBlank
BY DEF Init, StrangersBlank

(* The types of what has been written ...                                    *)
FileRecords ==
    [admins : Seq(AdminAccounts), threshold : Nat, policy : SUBSET PolicyRecords,
     paused : BOOLEAN, total : Int, active : Int, addresses : Seq(Accounts),
     record : [Accounts -> MemberRecords], stake : [Accounts -> Nat],
     pending : [Accounts -> Nat], name : [Accounts -> Names \cup {NoName}],
     loans : [LoanIds -> LoanRecords], documents : [DocumentKeys -> Hashes \cup {NoHash}]]

(* ... and of how far the export is.                                         *)
ExportRecords ==
    [step : Reading \cup {"idle", "done", "seeding"}, at : Nat, count : Nat,
     calm : BOOLEAN, calls : Nat, mistakes : Nat]

(* The types of the hand-over's own variables.                               *)
HandoverTypes ==
    memberList \in Seq(Accounts) /\ file \in FileRecords /\ export \in ExportRecords

(* The list has every address on record, and none twice.                     *)
ListTrue ==
    /\ Range(memberList) = Registered
    /\ \A i, j \in 1 .. Len(memberList) : memberList[i] = memberList[j] => i = j

(* The pages read so far are a prefix of the list: it only grows, so a page  *)
(* never moves.                                                              *)
PagesRead ==
    LET n == Len(file.addresses)
    IN  export.step \in Reading \cup {"done"} =>
          /\ n <= Len(memberList)
          /\ \A i \in 1 .. n : file.addresses[i] = memberList[i]
          /\ export.step = "header" => n = 0
          /\ export.step # "header" => file.total <= Len(memberList)
          /\ export.step = "members" => IF export.at < file.total THEN n = export.at
                                        ELSE n >= file.total
          /\ export.step \notin {"header", "members"} => n >= file.total
          /\ export.step = "stake" => export.at <= n
          /\ export.step \in {"pending", "name"} => export.at < n

(* Row i has been read in the view that comes first of those named in late.  *)
RowRead(i, late) ==
    \/ export.step \in {"stake", "pending", "name"} /\ i <= export.at
    \/ export.step \in late /\ i = export.at + 1
    \/ export.step \in {"loans", "Loan", "Treasury", "done"}

(* What has been written of the members is what the contract holds.          *)
RowsFaithful ==
    /\ export.step # "header" => file.total = totalMembers /\ file.active = activeMembers
    /\ \A a \in Accounts : /\ file.record[a] \in {members[a], NoMember}
                           /\ file.stake[a] \in {stakes[a], 0}
                           /\ file.name[a] \in {nameOf[a], NoName}
    /\ \A i \in 1 .. Len(file.addresses) :
          LET a == file.addresses[i]
          IN  /\ file.record[a] = members[a]
              /\ RowRead(i, {"pending", "name"}) => file.stake[a] = stakes[a]
              /\ RowRead(i, {"name"}) => file.pending[a] = PendingYield(a)
              /\ RowRead(i, {}) => file.name[a] = nameOf[a]

(* The loan has been read.                                                   *)
LoanRead(id) ==
    \/ export.step = "loans" /\ id < export.at
    \/ export.step \in {"Loan", "Treasury", "done"}

(* The document has been read.                                               *)
DocumentRead(key) ==
    \/ export.step = key[1] /\ key[2] < export.at
    \/ key[1] = "Loan" /\ export.step = "Treasury"
    \/ export.step = "done"

(* What has been written of loans and documents is what the contract holds.  *)
EntriesFaithful ==
    /\ export.step \in {"loans", "Loan"} => export.count = nextProposalId
    /\ export.step = "Treasury" => export.count = nextTreasuryId
    /\ \A id \in LoanIds : /\ file.loans[id] \in {loans[id], NoLoan}
                           /\ LoanRead(id) => file.loans[id] = loans[id]
    /\ \A key \in DocumentKeys : /\ file.documents[key] \in {documents[key], NoHash}
                                 /\ DocumentRead(key) => file.documents[key] = documents[key]

(* Of a contract paused since the export began the file is a true copy, as   *)
(* far as it goes.                                                           *)
CalmFile ==
    export.calm => /\ paused /\ export.step \in Reading \cup {"done"}
                   /\ RowsFaithful /\ EntriesFaithful

(* A file fit to seed from: its counts are those of its rows, and no name    *)
(* is in it twice.                                                           *)
FileSound ==
    /\ Rows \subseteq Accounts /\ file.total = Cardinality(Rows)
    /\ file.active = Cardinality({a \in Rows : file.record[a].status = "ActiveMember"})
    /\ \A a \in Rows : file.record[a].status # "NotMember"
    /\ \A a, b \in NamedRows : file.name[a] = file.name[b] => a = b

(* A contract that is seeded.                                                *)
SeedingSound ==
    /\ TypeOK /\ MembershipCounts /\ StakesAddUp
    /\ HandoverTypes /\ FileSound
    /\ yieldAccumulator = 0
    /\ seeded \subseteq Entries
    /\ \A entry \in seeded : InPlace(entry[1], entry[2])

(* The contract in use.                                                      *)
InUse == LoansInv /\ RequestInv /\ StakesAddUp /\ NamesOneToOne /\ StrangersBlank

(* It stays in order, by the theorems on the contract.                       *)
LEMMA InUseStep == InUse /\ [Operate]_vars => InUse'
<1>. SUFFICES ASSUME InUse, [Operate]_vars PROVE InUse'
  OBVIOUS
<1>1. CountsInv /\ TypeOK /\ [Next]_vars
  BY DEF InUse, LoansInv, CountsInv, Next
<1>2. CountsInv' /\ TypeOK'
  BY <1>1, CountsStep DEF CountsInv
<1>3. LoansInv'
  BY <1>2, LoanFactsStep DEF InUse, LoansInv
<1>4. RequestInv'
  BY <1>1, <1>2, RequestsStep DEF InUse, RequestInv, RequestStep
<1>5. StakesAddUp' /\ NamesOneToOne' /\ StrangersBlank'
  BY <1>1, StakesStep, NamesStep, StrangersStep DEF InUse
<1>. QED  BY <1>3, <1>4, <1>5 DEF InUse

(* So it is at first.                                                        *)
LEMMA InUseInit == Init => InUse
<1>. SUFFICES ASSUME Init PROVE InUse
  OBVIOUS
<1>1. CountsInv /\ LoanFacts /\ RequestFacts /\ StakesAddUp /\ StrangersBlank
  BY CountsInit, LoanFactsInit, RequestsInit, StakesInit, StrangersInit
<1>2. NamesOneToOne
  BY SentinelAssumption, AccountsAssumption DEF Init, NamesOneToOne
<1>. QED  BY <1>1, <1>2 DEF InUse, LoansInv, RequestInv, CountsInv

(* The list of members holds each of them once.                              *)
LEMMA ListCounted ==
    ASSUME memberList \in Seq(Accounts), ListTrue
    PROVE  Cardinality(Registered) = Len(memberList)
<1>. DEFINE n == Len(memberList)
<1>1. n \in Nat /\ memberList \in [1 .. n -> Accounts] /\ DOMAIN memberList = 1 .. n
  OBVIOUS
<1>2. Range(memberList) = {memberList[i] : i \in 1 .. n}
  BY <1>1 DEF Range
<1>3. memberList \in Bijection(1 .. n, Registered)
  <2>1. memberList \in [1 .. n -> Registered]
    BY <1>1, <1>2 DEF ListTrue
  <2>2. IsInjective(memberList)
    BY <1>1 DEF ListTrue, IsInjective
  <2>3. \A t \in Registered : \E i \in 1 .. n : memberList[i] = t
    BY <1>2 DEF ListTrue
  <2>. QED  BY <2>1, <2>2, <2>3 DEF Bijection, Injection, Surjection
<1>4. ExistsBijection(1 .. n, Registered)
  BY <1>3 DEF ExistsBijection
<1>. QED  BY <1>1, <1>4, FS_CountingElements

(* It is only ever added to.                                                 *)
ListGrows ==
    /\ memberList' \in Seq(Accounts)
    /\ Len(memberList') >= Len(memberList)
    /\ \A i \in 1 .. Len(memberList) : memberList'[i] = memberList[i]

(* A call appends to the list at most.                                       *)
LEMMA ListedGrows ==
    ASSUME memberList \in Seq(Accounts), Listed
    PROVE  ListGrows
<1>1. CASE memberList' = memberList
  BY <1>1 DEF ListGrows
<1>2. CASE \E a \in Accounts : memberList' = Append(memberList, a)
  BY <1>2 DEF ListGrows
<1>. QED  BY <1>1, <1>2 DEF Listed

(* A list that has everyone once still does after the call.                  *)
LEMMA ListedTrue ==
    ASSUME memberList \in Seq(Accounts), ListTrue, Listed
    PROVE  ListTrue'
<1>1. CASE Registered' = Registered
  BY <1>1 DEF Listed, ListTrue
<1>2. CASE Registered' # Registered
  <2>1. PICK a \in Accounts : /\ Registered' = Registered \cup {a}
                              /\ memberList' = Append(memberList, a)
    BY <1>2 DEF Listed
  <2>. DEFINE n == Len(memberList)
  <2>2. n \in Nat /\ DOMAIN memberList = 1 .. n
    OBVIOUS
  <2>3. Len(memberList') = n + 1 /\ DOMAIN memberList' = 1 .. n + 1
    BY <2>1
  <2>4. memberList'[n + 1] = a /\ \A i \in 1 .. n : memberList'[i] = memberList[i]
    BY <2>1
  <2>5. Registered = {memberList[i] : i \in 1 .. n}
    BY <2>2 DEF ListTrue, Range
  <2>6. a \notin Registered
    BY <1>2, <2>1
  <2>. HIDE DEF n
  <2>7. Range(memberList') = Registered'
    <3>1. Range(memberList') = {memberList'[i] : i \in 1 .. n + 1}
      BY <2>3 DEF Range
    <3>2. \A i \in 1 .. n + 1 : i \in 1 .. n \/ i = n + 1
      BY <2>2
    <3>3. \A i \in 1 .. n : i \in 1 .. n + 1
      BY <2>2
    <3>4. n + 1 \in 1 .. n + 1
      BY <2>2
    <3>. QED  BY <2>1, <2>4, <2>5, <3>1, <3>2, <3>3, <3>4
  <2>8. ASSUME NEW i \in 1 .. n + 1, NEW j \in 1 .. n + 1, memberList'[i] = memberList'[j]
        PROVE  i = j
    <3>1. (i \in 1 .. n \/ i = n + 1) /\ (j \in 1 .. n \/ j = n + 1)
      BY <2>2
    <3>2. \A k \in 1 .. n : memberList'[k] # a
      BY <2>4, <2>5, <2>6
    <3>3. CASE i \in 1 .. n /\ j \in 1 .. n
      BY <2>4, <2>8, <3>3 DEF ListTrue, n
    <3>. QED  BY <2>4, <2>8, <3>1, <3>2, <3>3
  <2>. QED  BY <2>3, <2>7, <2>8 DEF ListTrue
<1>. QED  BY <1>1, <1>2

-----------------------------------------------------------------------------
(* The steps of the export.                                                  *)

(* What the reads of an export leave behind, the contract standing still.    *)
ExportKept == HandoverTypes' /\ PagesRead' /\ CalmFile'

(* Writing a field of the file with a value of its type keeps the file's     *)
(* type.                                                                     *)
LEMMA FileFields ==
    ASSUME NEW f \in FileRecords
    PROVE  /\ \A t, n \in Int : [f EXCEPT !.total = t, !.active = n] \in FileRecords
           /\ \A v \in Seq(Accounts), r \in [Accounts -> MemberRecords] :
                 [f EXCEPT !.addresses = v, !.record = r] \in FileRecords
           /\ \A v \in [Accounts -> Nat] : /\ [f EXCEPT !.stake = v] \in FileRecords
                                           /\ [f EXCEPT !.pending = v] \in FileRecords
           /\ \A v \in [Accounts -> Names \cup {NoName}] : [f EXCEPT !.name = v] \in FileRecords
           /\ \A v \in [LoanIds -> LoanRecords] : [f EXCEPT !.loans = v] \in FileRecords
           /\ \A v \in [DocumentKeys -> Hashes \cup {NoHash}] :
                 [f EXCEPT !.documents = v] \in FileRecords
  BY DEF FileRecords

(* So with the export's progress.                                            *)
LEMMA ExportFields ==
    ASSUME NEW x \in ExportRecords
    PROVE  /\ \A s \in Reading \cup {"done"}, n \in Nat :
                 [x EXCEPT !.step = s, !.at = 0, !.count = n] \in ExportRecords
           /\ \A s \in Reading : [x EXCEPT !.step = s] \in ExportRecords
           /\ \A n \in Nat, s \in Reading :
                 /\ [x EXCEPT !.at = n] \in ExportRecords
                 /\ [[x EXCEPT !.at = n] EXCEPT !.step = s] \in ExportRecords
  BY DEF ExportRecords

(* The export starts: one lemma for each of its steps from here on.          *)
LEMMA BeginKeeps ==
    ASSUME TypeOK, HandoverTypes, Begin
    PROVE  ExportKept
<1>1. /\ export' = [NotStarted EXCEPT !.step = "header", !.calm = paused]
      /\ file' = [NoFile EXCEPT !.admins = admins, !.threshold = threshold,
                                !.policy = {policy}, !.paused = paused]
      /\ UNCHANGED <<vars, memberList, seeded>>
  BY DEF Begin
<1>2. /\ admins \in Seq(AdminAccounts) /\ threshold \in Nat /\ policy \in PolicyRecords
      /\ paused \in BOOLEAN
  BY DEF TypeOK, AdminTypes
<1>3. NoMember \in MemberRecords /\ NoLoan \in LoanRecords
  BY DEF NoMember, NoLoan, MemberRecords, LoanRecords, MemberStatuses, LoanStatuses
<1>4. file' \in FileRecords
  <2>1. file' = [admins |-> admins, threshold |-> threshold, policy |-> {policy},
                 paused |-> paused, total |-> 0, active |-> 0, addresses |-> <<>>,
                 record |-> [a \in Accounts |-> NoMember],
                 stake |-> [a \in Accounts |-> 0], pending |-> [a \in Accounts |-> 0],
                 name |-> [a \in Accounts |-> NoName], loans |-> [id \in LoanIds |-> NoLoan],
                 documents |-> [key \in DocumentKeys |-> NoHash]]
    BY <1>1 DEF NoFile
  <2>2. <<>> \in Seq(Accounts) /\ {policy} \in SUBSET PolicyRecords
    BY <1>2
  <2>. QED  BY <1>2, <1>3, <2>1, <2>2 DEF FileRecords
<1>5. export' \in ExportRecords
  BY <1>1, <1>2 DEF NotStarted, ExportRecords, Reading
<1>6. HandoverTypes'
  BY <1>1, <1>4, <1>5 DEF HandoverTypes
<1>7. /\ export'.step = "header" /\ export'.calm = paused
  BY <1>1 DEF NotStarted
<1>8. /\ file'.addresses = <<>> /\ file'.record = [a \in Accounts |-> NoMember]
      /\ file'.stake = [a \in Accounts |-> 0] /\ file'.name = [a \in Accounts |-> NoName]
      /\ file'.loans = [id \in LoanIds |-> NoLoan]
      /\ file'.documents = [key \in DocumentKeys |-> NoHash]
  BY <1>1 DEF NoFile
<1>9. PagesRead'
  BY <1>1, <1>7, <1>8 DEF PagesRead, HandoverTypes
<1>10. RowsFaithful'
  BY <1>7, <1>8 DEF RowsFaithful
<1>11. \A key \in DocumentKeys : key[1] \in {"Loan", "Treasury"}
  BY DEF DocumentKeys
<1>12. EntriesFaithful'
  BY <1>7, <1>8, <1>11 DEF EntriesFaithful, LoanRead, DocumentRead
<1>. QED  BY <1>1, <1>6, <1>7, <1>9, <1>10, <1>12
          DEF ExportKept, CalmFile, Reading, vars, adminVars

(* The counts are read.                                                      *)
LEMMA ReadCountsKeeps ==
    ASSUME TypeOK, HandoverTypes, MembershipCounts, ListTrue, PagesRead, CalmFile, ReadCounts
    PROVE  ExportKept
<1>1. /\ export.step = "header" /\ export' = Go("members", 0)
      /\ file' = [file EXCEPT !.total = totalMembers, !.active = activeMembers]
      /\ UNCHANGED <<vars, memberList, seeded>>
  BY DEF ReadCounts
<1>2. totalMembers \in Int /\ activeMembers \in Int
  BY DEF TypeOK, MemberTypes
<1>3. HandoverTypes'
  BY <1>1, <1>2, FileFields, ExportFields DEF HandoverTypes, Go, Reading
<1>4. /\ export'.step = "members" /\ export'.at = 0 /\ export'.calm = export.calm
      /\ file'.total = totalMembers /\ file'.active = activeMembers
      /\ file'.addresses = file.addresses /\ file'.record = file.record
      /\ file'.stake = file.stake /\ file'.pending = file.pending
      /\ file'.name = file.name /\ file'.loans = file.loans
      /\ file'.documents = file.documents
  BY <1>1 DEF HandoverTypes, ExportRecords, FileRecords, Go
<1>5. totalMembers = Len(memberList)
  BY ListCounted DEF HandoverTypes, MembershipCounts
<1>6. PagesRead'
  BY <1>1, <1>4, <1>5 DEF PagesRead, HandoverTypes, Reading
<1>7. ASSUME export.calm PROVE RowsFaithful' /\ EntriesFaithful' /\ paused'
  <2>1. RowsFaithful /\ EntriesFaithful /\ paused
    BY <1>7 DEF CalmFile
  <2>2. RowsFaithful'
    BY <1>1, <1>4, <2>1 DEF RowsFaithful, RowRead, vars, memberVars, stakeVars, registryVars
  <2>3. \A key \in DocumentKeys : key[1] \in {"Loan", "Treasury"}
    BY DEF DocumentKeys
  <2>4. EntriesFaithful'
    BY <1>1, <1>4, <2>1, <2>3
       DEF EntriesFaithful, LoanRead, DocumentRead, vars, loanVars, treasuryVars
  <2>. QED  BY <1>1, <2>1, <2>2, <2>4 DEF vars, adminVars
<1>. QED  BY <1>3, <1>4, <1>6, <1>7 DEF ExportKept, CalmFile, Reading
(* A page holds the addresses that come next in the list.                    *)
LEMMA PageOfList ==
    ASSUME memberList \in Seq(Accounts), NEW from \in Nat, from <= Len(memberList)
    PROVE  LET page == Page(from, PageSize)
               upTo == IF from + PageSize <= Len(memberList) THEN from + PageSize
                       ELSE Len(memberList)
           IN  /\ page \in Seq(Accounts) /\ Len(page) = upTo - from
               /\ \A i \in 1 .. upTo - from : page[i] = memberList[from + i]
<1>. DEFINE n == Len(memberList)
            upTo == IF from + PageSize <= n THEN from + PageSize ELSE n
<1>1. n \in Nat /\ PageSize \in Nat \ {0} /\ upTo \in Nat /\ from <= upTo /\ upTo <= n
  BY HandoverAssumption
<1>2. Min({from + PageSize, n}) = upTo
  <2>1. CASE from + PageSize <= n
    BY <1>1, <2>1 DEF Min
  <2>2. CASE from + PageSize > n
    BY <1>1, <2>2 DEF Min
  <2>. QED  BY <1>1, <2>1, <2>2
<1>3. Page(from, PageSize) = SubSeq(memberList, from + 1, upTo)
  BY <1>2 DEF Page
<1>. HIDE DEF upTo
<1>4. /\ SubSeq(memberList, from + 1, upTo) \in Seq(Accounts)
      /\ Len(SubSeq(memberList, from + 1, upTo)) = upTo - from
      /\ \A i \in 1 .. upTo - from : SubSeq(memberList, from + 1, upTo)[i] = memberList[from + i]
  BY <1>1
<1>. QED  BY <1>3, <1>4 DEF upTo

(* A page is read.                                                           *)
LEMMA ReadPageKeeps ==
    ASSUME TypeOK, HandoverTypes, ListTrue, PagesRead, CalmFile, ReadPage
    PROVE  ExportKept
<1>1. /\ export.step = "members" /\ export.at \in Nat /\ file.total \in Int
      /\ file.addresses \in Seq(Accounts) /\ memberList \in Seq(Accounts)
      /\ UNCHANGED <<vars, memberList, seeded>>
      /\ members \in [Accounts -> MemberRecords]
  BY DEF ReadPage, HandoverTypes, ExportRecords, FileRecords, TypeOK, MemberTypes
<1>. DEFINE n == Len(file.addresses)
            len == Len(memberList)
<1>2. /\ n \in Nat /\ len \in Nat /\ n <= len /\ file.total <= len
      /\ \A i \in 1 .. n : file.addresses[i] = memberList[i]
      /\ IF export.at < file.total THEN n = export.at ELSE n >= file.total
  BY <1>1 DEF PagesRead, Reading
<1>3. CASE export.at < file.total
  <2>. DEFINE page == Page(export.at, PageSize)
              upTo == IF export.at + PageSize <= len THEN export.at + PageSize ELSE len
              record == [a \in Accounts |-> IF a \in Range(page) THEN members[a]
                                            ELSE file.record[a]]
  <2>1. /\ export' = [export EXCEPT !.at = export.at + PageSize]
        /\ file' = [file EXCEPT !.addresses = file.addresses \o page, !.record = record]
    BY <1>3 DEF ReadPage
  <2>2. /\ page \in Seq(Accounts) /\ Len(page) = upTo - export.at
        /\ \A i \in 1 .. upTo - export.at : page[i] = memberList[export.at + i]
    BY <1>1, <1>2, <1>3, PageOfList
  <2>3. n = export.at /\ upTo \in Nat /\ export.at <= upTo /\ upTo <= len
        /\ PageSize \in Nat \ {0}
    BY <1>1, <1>2, <1>3, HandoverAssumption
  <2>4. /\ file.addresses \o page \in Seq(Accounts)
        /\ Len(file.addresses \o page) = upTo
        /\ \A i \in 1 .. upTo : (file.addresses \o page)[i] = memberList[i]
    <3>. HIDE DEF page, upTo, n
    <3>1. /\ file.addresses \o page \in Seq(Accounts)
          /\ Len(file.addresses \o page) = n + Len(page)
          /\ \A i \in 1 .. n + Len(page) :
               (file.addresses \o page)[i] = IF i <= n THEN file.addresses[i] ELSE page[i - n]
      BY <1>1, <2>2, ConcatProperties DEF n
    <3>2. n + Len(page) = upTo
      BY <1>2, <2>2, <2>3
    <3>3. ASSUME NEW i \in 1 .. upTo PROVE (file.addresses \o page)[i] = memberList[i]
      <4>1. CASE i <= n
        BY <1>2, <2>3, <3>1, <3>2, <4>1
      <4>2. CASE i > n
        <5>1. i - n \in 1 .. upTo - export.at /\ export.at + (i - n) = i
          BY <1>1, <2>3, <4>2
        <5>2. (file.addresses \o page)[i] = page[i - n]
          BY <1>2, <2>3, <3>1, <3>2, <4>2
        <5>. QED  BY <2>2, <5>1, <5>2
      <4>3. i <= n \/ i > n
        <5>1. i \in Int /\ n \in Int
          BY <1>2, <2>3
        <5>. QED  BY <5>1
      <4>. QED  BY <4>1, <4>2, <4>3
    <3>. QED  BY <3>1, <3>2, <3>3
  <2>5. record \in [Accounts -> MemberRecords]
    BY <1>1 DEF HandoverTypes, FileRecords
  <2>. HIDE DEF page, record
  <2>6. HandoverTypes'
    <3>1. export.at + PageSize \in Nat /\ "members" \in Reading
      BY <1>1, <2>3 DEF Reading
    <3>2. file' \in FileRecords
      BY <2>1, <2>4, <2>5, FileFields DEF HandoverTypes
    <3>3. export' \in ExportRecords
      BY <2>1, <3>1, ExportFields DEF HandoverTypes
    <3>. QED  BY <1>1, <3>2, <3>3 DEF HandoverTypes
  <2>7. /\ export'.step = "members" /\ export'.at = export.at + PageSize
        /\ export'.calm = export.calm
        /\ file'.total = file.total /\ file'.active = file.active
        /\ file'.addresses = file.addresses \o page /\ file'.record = record
        /\ file'.stake = file.stake /\ file'.pending = file.pending
        /\ file'.name = file.name /\ file'.loans = file.loans
        /\ file'.documents = file.documents
    BY <1>1, <2>1 DEF HandoverTypes, ExportRecords, FileRecords
  <2>8. PagesRead'
    BY <1>1, <1>2, <2>3, <2>4, <2>7 DEF PagesRead
  <2>9. ASSUME export.calm PROVE RowsFaithful' /\ EntriesFaithful' /\ paused'
    <3>1. RowsFaithful /\ EntriesFaithful /\ paused
      BY <2>9 DEF CalmFile
    <3>2. \A a \in Accounts : record[a] \in {members[a], NoMember}
      BY <3>1 DEF RowsFaithful, record
    <3>3. ASSUME NEW i \in 1 .. upTo
          PROVE  record[(file.addresses \o page)[i]] = members[(file.addresses \o page)[i]]
      <4>. DEFINE a == memberList[i]
      <4>1. a \in Accounts /\ a = (file.addresses \o page)[i]
        BY <1>1, <2>3, <2>4
      <4>2. CASE i <= n
        <5>1. file.addresses[i] = a /\ i \in 1 .. n
          BY <1>2, <2>3, <4>2
        <5>2. file.record[a] = members[a]
          BY <3>1, <5>1 DEF RowsFaithful
        <5>. QED  BY <4>1, <5>2 DEF record
      <4>3. CASE i > n
        <5>1. i - n \in 1 .. upTo - export.at
          BY <2>3, <4>3
        <5>2. a = page[i - n] /\ i - n \in DOMAIN page
          BY <2>2, <2>3, <5>1
        <5>3. a \in Range(page)
          BY <5>2 DEF Range
        <5>. QED  BY <4>1, <5>3 DEF record
      <4>4. i <= n \/ i > n
        BY <1>2, <2>3
      <4>. QED  BY <4>2, <4>3, <4>4
    <3>4. RowsFaithful'
      BY <1>1, <2>4, <2>7, <3>1, <3>2, <3>3
         DEF RowsFaithful, RowRead, vars, memberVars, stakeVars, registryVars
    <3>5. \A key \in DocumentKeys : key[1] \in {"Loan", "Treasury"}
      BY DEF DocumentKeys
    <3>6. EntriesFaithful'
      BY <1>1, <2>7, <3>1, <3>5
         DEF EntriesFaithful, LoanRead, DocumentRead, vars, loanVars, treasuryVars
    <3>. QED  BY <1>1, <3>1, <3>4, <3>6 DEF vars, adminVars
  <2>. QED  BY <2>6, <2>7, <2>8, <2>9 DEF ExportKept, CalmFile, Reading
<1>4. CASE ~(export.at < file.total)
  <2>1. export' = Go("stake", 0) /\ file' = file
    BY <1>4 DEF ReadPage
  <2>2. HandoverTypes'
    BY <1>1, <2>1, ExportFields DEF HandoverTypes, Go, Reading
  <2>3. export'.step = "stake" /\ export'.at = 0 /\ export'.calm = export.calm
    BY <2>1 DEF HandoverTypes, ExportRecords, Go
  <2>4. PagesRead'
    BY <1>1, <1>2, <1>4, <2>1, <2>3 DEF PagesRead
  <2>5. ASSUME export.calm PROVE RowsFaithful' /\ EntriesFaithful' /\ paused'
    <3>1. RowsFaithful /\ EntriesFaithful /\ paused
      BY <2>5 DEF CalmFile
    <3>2. RowsFaithful'
      BY <1>1, <2>1, <2>3, <3>1
         DEF RowsFaithful, RowRead, vars, memberVars, stakeVars, registryVars
    <3>3. \A key \in DocumentKeys : key[1] \in {"Loan", "Treasury"}
      BY DEF DocumentKeys
    <3>4. EntriesFaithful'
      BY <1>1, <2>1, <2>3, <3>1, <3>3
         DEF EntriesFaithful, LoanRead, DocumentRead, vars, loanVars, treasuryVars
    <3>. QED  BY <1>1, <3>1, <3>2, <3>4 DEF vars, adminVars
  <2>. QED  BY <2>2, <2>3, <2>4, <2>5 DEF ExportKept, CalmFile, Reading
<1>. QED  BY <1>3, <1>4

(* A member's stake is read.                                                 *)
LEMMA ReadStakeKeeps ==
    ASSUME TypeOK, HandoverTypes, PagesRead, CalmFile, ReadStake
    PROVE  ExportKept
<1>1. /\ export.step = "stake" /\ export.at \in Nat /\ file.addresses \in Seq(Accounts)
      /\ UNCHANGED <<vars, memberList, seeded>>
      /\ stakes \in [Accounts -> Nat] /\ nextProposalId \in Nat
  BY DEF ReadStake, HandoverTypes, ExportRecords, FileRecords, TypeOK, StakeTypes, LoanTypes
<1>. DEFINE n == Len(file.addresses)
<1>2. n \in Nat /\ export.at <= n
  BY <1>1 DEF PagesRead, Reading
<1>3. \A key \in DocumentKeys : key[1] \in {"Loan", "Treasury"}
  BY DEF DocumentKeys
<1>4. CASE export.at < n
  <2>. DEFINE a == file.addresses[export.at + 1]
  <2>1. a \in Accounts /\ export.at + 1 \in 1 .. n
    BY <1>1, <1>2, <1>4
  <2>2. /\ file' = [file EXCEPT !.stake = [file.stake EXCEPT ![a] = stakes[a]]]
        /\ export' = [export EXCEPT !.step = "pending"]
    BY <1>4 DEF ReadStake, HandoverTypes, FileRecords
  <2>. HIDE DEF a
  <2>3. [file.stake EXCEPT ![a] = stakes[a]] \in [Accounts -> Nat]
    BY <1>1, <2>1 DEF HandoverTypes, FileRecords
  <2>4. HandoverTypes'
    <3>1. file' \in FileRecords
      BY <2>2, <2>3, FileFields DEF HandoverTypes
    <3>2. export' \in ExportRecords
      BY <2>2, ExportFields DEF HandoverTypes, Reading
    <3>. QED  BY <1>1, <3>1, <3>2 DEF HandoverTypes
  <2>5. /\ export'.step = "pending" /\ export'.at = export.at /\ export'.calm = export.calm
        /\ file'.total = file.total /\ file'.active = file.active
        /\ file'.addresses = file.addresses /\ file'.record = file.record
        /\ file'.stake = [file.stake EXCEPT ![a] = stakes[a]]
        /\ file'.pending = file.pending
        /\ file'.name = file.name /\ file'.loans = file.loans
        /\ file'.documents = file.documents
    BY <2>2 DEF HandoverTypes, ExportRecords, FileRecords
  <2>6. PagesRead'
    BY <1>1, <1>4, <2>5 DEF PagesRead, Reading
  <2>7. ASSUME export.calm PROVE RowsFaithful' /\ EntriesFaithful' /\ paused'
    <3>1. RowsFaithful /\ EntriesFaithful /\ paused
      BY <2>7 DEF CalmFile
    <3>2. file'.stake[a] = stakes[a] /\ file.stake \in [Accounts -> Nat]
      BY <2>1, <2>5 DEF HandoverTypes, FileRecords
    <3>3. \A m \in Accounts : \/ file'.stake[m] = file.stake[m]
                              \/ file'.stake[m] = stakes[m]
      BY <2>5, <3>2
    <3>4. ASSUME NEW i \in 1 .. n, i <= export.at \/ i = export.at + 1
          PROVE  file'.stake[file.addresses[i]] = stakes[file.addresses[i]]
      <4>1. CASE i <= export.at
        <5>1. file.stake[file.addresses[i]] = stakes[file.addresses[i]]
          BY <1>1, <3>1, <4>1 DEF RowsFaithful, RowRead
        <5>2. file.addresses[i] \in Accounts
          BY <1>1
        <5>. QED  BY <3>3, <5>1, <5>2
      <4>. QED  BY <3>2, <3>4, <4>1 DEF a
    <3>5. RowsFaithful'
      <4>1. /\ UNCHANGED <<totalMembers, activeMembers, members, stakes, nameOf,
                           yieldAccumulator, yieldSnapshot>>
        BY <1>1 DEF vars, memberVars, stakeVars, registryVars, yieldVars
      <4>2. /\ file'.total = totalMembers' /\ file'.active = activeMembers'
            /\ \A m \in Accounts : /\ file'.record[m] \in {members'[m], NoMember}
                                   /\ file'.stake[m] \in {stakes'[m], 0}
                                   /\ file'.name[m] \in {nameOf'[m], NoName}
        <5>1. /\ file.total = totalMembers /\ file.active = activeMembers
              /\ \A m \in Accounts : /\ file.record[m] \in {members[m], NoMember}
                                     /\ file.stake[m] \in {stakes[m], 0}
                                     /\ file.name[m] \in {nameOf[m], NoName}
          BY <1>1, <3>1 DEF RowsFaithful
        <5>. QED  BY <2>5, <3>3, <4>1, <5>1
      <4>3. ASSUME NEW i \in 1 .. n
            PROVE  LET m == file.addresses[i]
                   IN  /\ file'.record[m] = members'[m]
                       /\ RowRead(i, {"pending", "name"})' => file'.stake[m] = stakes'[m]
                       /\ RowRead(i, {"name"})' => file'.pending[m] = PendingYield(m)'
                       /\ RowRead(i, {})' => file'.name[m] = nameOf'[m]
        <5>1. /\ file.record[file.addresses[i]] = members[file.addresses[i]]
              /\ RowRead(i, {"name"}) =>
                    file.pending[file.addresses[i]] = PendingYield(file.addresses[i])
              /\ RowRead(i, {}) => file.name[file.addresses[i]] = nameOf[file.addresses[i]]
          BY <1>1, <3>1 DEF RowsFaithful
        <5>2. RowRead(i, {"pending", "name"})' => i <= export.at \/ i = export.at + 1
          BY <2>5 DEF RowRead
        <5>3. RowRead(i, {"name"})' => RowRead(i, {"name"})
          BY <1>1, <1>2, <2>5 DEF RowRead
        <5>4. RowRead(i, {})' => RowRead(i, {})
          BY <1>1, <1>2, <2>5 DEF RowRead
        <5>. QED  BY <2>5, <3>4, <4>1, <5>1, <5>2, <5>3, <5>4 DEF PendingYield
      <4>. QED  BY <1>1, <2>5, <4>2, <4>3 DEF RowsFaithful
    <3>6. EntriesFaithful'
      BY <1>1, <1>3, <2>5, <3>1
         DEF EntriesFaithful, LoanRead, DocumentRead, vars, loanVars, treasuryVars
    <3>. QED  BY <1>1, <3>1, <3>5, <3>6 DEF vars, adminVars
  <2>. QED  BY <2>4, <2>5, <2>6, <2>7 DEF ExportKept, CalmFile, Reading
<1>5. CASE ~(export.at < n)
  <2>1. export' = Go("loans", nextProposalId) /\ file' = file
    BY <1>5 DEF ReadStake
  <2>2. HandoverTypes'
    BY <1>1, <2>1, ExportFields DEF HandoverTypes, Go, Reading
  <2>3. /\ export'.step = "loans" /\ export'.at = 0 /\ export'.calm = export.calm
        /\ export'.count = nextProposalId
    BY <2>1 DEF HandoverTypes, ExportRecords, Go
  <2>4. PagesRead'
    BY <1>1, <2>1, <2>3 DEF PagesRead, Reading
  <2>5. ASSUME export.calm PROVE RowsFaithful' /\ EntriesFaithful' /\ paused'
    <3>1. RowsFaithful /\ EntriesFaithful /\ paused
      BY <2>5 DEF CalmFile
    <3>2. \A i \in 1 .. n : i <= export.at
      BY <1>1, <1>2, <1>5
    <3>3. RowsFaithful'
      BY <1>1, <2>1, <2>3, <3>1, <3>2
         DEF RowsFaithful, RowRead, vars, memberVars, stakeVars, registryVars,
             yieldVars, PendingYield
    <3>4. \A id \in LoanIds : ~(id < 0)
      BY DEF LoanIds
    <3>5. EntriesFaithful'
      BY <1>1, <1>3, <2>1, <2>3, <3>1, <3>4
         DEF EntriesFaithful, LoanRead, DocumentRead, vars, loanVars, treasuryVars
    <3>. QED  BY <1>1, <3>1, <3>3, <3>5 DEF vars, adminVars
  <2>. QED  BY <2>2, <2>3, <2>4, <2>5 DEF ExportKept, CalmFile, Reading
<1>. QED  BY <1>4, <1>5

(* A member's pending yield is read.                                         *)
LEMMA ReadPendingYieldKeeps ==
    ASSUME TypeOK, HandoverTypes, PagesRead, CalmFile, ReadPendingYield
    PROVE  ExportKept
<1>. DEFINE n == Len(file.addresses)
            a == file.addresses[export.at + 1]
<1>1. /\ export.step = "pending" /\ export.at \in Nat /\ file.addresses \in Seq(Accounts)
      /\ UNCHANGED <<vars, memberList, seeded>>
      /\ file' = [file EXCEPT !.pending = [file.pending EXCEPT ![a] = PendingYield(a)]]
      /\ export' = [export EXCEPT !.step = "name"]
  BY DEF ReadPendingYield, HandoverTypes, ExportRecords, FileRecords
<1>2. n \in Nat /\ export.at < n
  BY <1>1 DEF PagesRead, Reading
<1>3. \A key \in DocumentKeys : key[1] \in {"Loan", "Treasury"}
  BY DEF DocumentKeys
<1>4. a \in Accounts /\ export.at + 1 \in 1 .. n
  BY <1>1, <1>2
<1>5. \A m \in Accounts : PendingYield(m) \in Nat
  BY DEF PendingYield, TypeOK, YieldTypes
<1>. HIDE DEF a
<1>6. [file.pending EXCEPT ![a] = PendingYield(a)] \in [Accounts -> Nat]
  BY <1>4, <1>5 DEF HandoverTypes, FileRecords
<1>7. HandoverTypes'
  <2>1. file' \in FileRecords
    BY <1>1, <1>6, FileFields DEF HandoverTypes
  <2>2. export' \in ExportRecords
    BY <1>1, ExportFields DEF HandoverTypes, Reading
  <2>. QED  BY <1>1, <2>1, <2>2 DEF HandoverTypes
<1>8. /\ export'.step = "name" /\ export'.at = export.at /\ export'.calm = export.calm
      /\ file'.total = file.total /\ file'.active = file.active
      /\ file'.addresses = file.addresses /\ file'.record = file.record
      /\ file'.stake = file.stake
      /\ file'.pending = [file.pending EXCEPT ![a] = PendingYield(a)]
      /\ file'.name = file.name /\ file'.loans = file.loans
      /\ file'.documents = file.documents
  BY <1>1 DEF HandoverTypes, ExportRecords, FileRecords
<1>9. PagesRead'
  BY <1>1, <1>2, <1>8 DEF PagesRead, Reading
<1>10. ASSUME export.calm PROVE RowsFaithful' /\ EntriesFaithful' /\ paused'
  <2>1. RowsFaithful /\ EntriesFaithful /\ paused
    BY <1>10 DEF CalmFile
  <2>2. \A m \in Accounts : file'.pending[m] = IF m = a THEN PendingYield(m)
                                               ELSE file.pending[m]
    BY <1>4, <1>8 DEF HandoverTypes, FileRecords
  <2>3. ASSUME NEW i \in 1 .. n, i <= export.at \/ i = export.at + 1
        PROVE  file'.pending[file.addresses[i]] = PendingYield(file.addresses[i])
    <3>1. CASE i <= export.at
      <4>1. file.pending[file.addresses[i]] = PendingYield(file.addresses[i])
        BY <1>1, <2>1, <3>1 DEF RowsFaithful, RowRead
      <4>2. file.addresses[i] \in Accounts
        BY <1>1
      <4>. QED  BY <2>2, <4>1, <4>2
    <3>. QED  BY <1>4, <2>2, <2>3, <3>1 DEF a
  <2>. HIDE DEF n
  <2>4. RowsFaithful'
    <3>1. ASSUME NEW i \in 1 .. Len(file.addresses)
          PROVE  LET m == file.addresses[i]
                 IN  /\ file.record[m] = members[m]
                     /\ RowRead(i, {"pending", "name"})' => file.stake[m] = stakes[m]
                     /\ RowRead(i, {"name"})' => file'.pending[m] = PendingYield(m)
                     /\ RowRead(i, {})' => file.name[m] = nameOf[m]
      BY <1>1, <1>8, <2>1, <2>3 DEF RowsFaithful, RowRead, n
    <3>. QED  BY <1>1, <1>8, <2>1, <3>1
              DEF RowsFaithful, PendingYield, vars, memberVars, yieldVars, stakeVars,
                  registryVars
  <2>5. EntriesFaithful'
    BY <1>1, <1>3, <1>8, <2>1
       DEF EntriesFaithful, LoanRead, DocumentRead, vars, loanVars, treasuryVars
  <2>. QED  BY <1>1, <2>1, <2>4, <2>5 DEF vars, adminVars
<1>. QED  BY <1>7, <1>8, <1>9, <1>10 DEF ExportKept, CalmFile, Reading

(* A member's name is read.                                                  *)
LEMMA ReadNameKeeps ==
    ASSUME TypeOK, HandoverTypes, PagesRead, CalmFile, ReadName
    PROVE  ExportKept
<1>. DEFINE n == Len(file.addresses)
            a == file.addresses[export.at + 1]
<1>1. /\ export.step = "name" /\ export.at \in Nat /\ file.addresses \in Seq(Accounts)
      /\ UNCHANGED <<vars, memberList, seeded>>
      /\ file' = [file EXCEPT !.name = [file.name EXCEPT ![a] = nameOf[a]]]
      /\ export' = [GoOn EXCEPT !.step = "stake"]
      /\ nameOf \in [Accounts -> Names \cup {NoName}]
  BY DEF ReadName, HandoverTypes, ExportRecords, FileRecords, TypeOK, RegistryTypes
<1>2. n \in Nat /\ export.at < n
  BY <1>1 DEF PagesRead, Reading
<1>3. \A key \in DocumentKeys : key[1] \in {"Loan", "Treasury"}
  BY DEF DocumentKeys
<1>4. a \in Accounts /\ export.at + 1 \in 1 .. n
  BY <1>1, <1>2
<1>. HIDE DEF a
<1>5. [file.name EXCEPT ![a] = nameOf[a]] \in [Accounts -> Names \cup {NoName}]
  BY <1>1, <1>4 DEF HandoverTypes, FileRecords
<1>6. HandoverTypes'
  <2>1. file' \in FileRecords
    BY <1>1, <1>5, FileFields DEF HandoverTypes
  <2>2. export' \in ExportRecords
    <3>1. /\ export' = [[export EXCEPT !.at = export.at + 1] EXCEPT !.step = "stake"]
          /\ export.at + 1 \in Nat /\ "stake" \in Reading
      BY <1>1 DEF GoOn, Reading
    <3>. QED  BY <3>1, ExportFields DEF HandoverTypes
  <2>. QED  BY <1>1, <2>1, <2>2 DEF HandoverTypes
<1>7. /\ export'.step = "stake" /\ export'.at = export.at + 1 /\ export'.calm = export.calm
      /\ file'.total = file.total /\ file'.active = file.active
      /\ file'.addresses = file.addresses /\ file'.record = file.record
      /\ file'.stake = file.stake /\ file'.pending = file.pending
      /\ file'.name = [file.name EXCEPT ![a] = nameOf[a]]
      /\ file'.loans = file.loans /\ file'.documents = file.documents
  BY <1>1 DEF HandoverTypes, ExportRecords, FileRecords, GoOn
<1>8. PagesRead'
  BY <1>1, <1>2, <1>7 DEF PagesRead, Reading
<1>9. ASSUME export.calm PROVE RowsFaithful' /\ EntriesFaithful' /\ paused'
  <2>1. RowsFaithful /\ EntriesFaithful /\ paused
    BY <1>9 DEF CalmFile
  <2>2. \A m \in Accounts : file'.name[m] = IF m = a THEN nameOf[m] ELSE file.name[m]
    BY <1>4, <1>7 DEF HandoverTypes, FileRecords
  <2>3. ASSUME NEW i \in 1 .. n, i <= export.at + 1
        PROVE  LET m == file.addresses[i]
               IN  /\ file.stake[m] = stakes[m]
                   /\ file.pending[m] = PendingYield(m)
                   /\ file'.name[m] = nameOf[m]
    <3>1. i <= export.at \/ i = export.at + 1
      BY <1>1, <2>3
    <3>2. CASE i <= export.at
      <4>1. file.name[file.addresses[i]] = nameOf[file.addresses[i]]
        BY <1>1, <2>1, <3>2 DEF RowsFaithful, RowRead
      <4>2. file.addresses[i] \in Accounts
        BY <1>1
      <4>3. /\ file.stake[file.addresses[i]] = stakes[file.addresses[i]]
            /\ file.pending[file.addresses[i]] = PendingYield(file.addresses[i])
        BY <1>1, <2>1, <3>2 DEF RowsFaithful, RowRead
      <4>. QED  BY <2>2, <4>1, <4>2, <4>3
    <3>3. CASE i = export.at + 1
      <4>1. /\ file.stake[file.addresses[i]] = stakes[file.addresses[i]]
            /\ file.pending[file.addresses[i]] = PendingYield(file.addresses[i])
        BY <1>1, <2>1, <3>3 DEF RowsFaithful, RowRead
      <4>2. file.addresses[i] = a
        BY <3>3 DEF a
      <4>. QED  BY <1>4, <2>2, <4>1, <4>2
    <3>. QED  BY <3>1, <3>2, <3>3
  <2>. HIDE DEF n
  <2>4. RowsFaithful'
    <3>1. ASSUME NEW i \in 1 .. Len(file.addresses)
          PROVE  LET m == file.addresses[i]
                 IN  /\ file.record[m] = members[m]
                     /\ RowRead(i, {"pending", "name"})' => file.stake[m] = stakes[m]
                     /\ RowRead(i, {"name"})' => file.pending[m] = PendingYield(m)
                     /\ RowRead(i, {})' => file'.name[m] = nameOf[m]
      BY <1>1, <1>7, <2>1, <2>3 DEF RowsFaithful, RowRead, n
    <3>2. \A m \in Accounts : file'.name[m] \in {nameOf[m], NoName}
      BY <2>1, <2>2 DEF RowsFaithful
    <3>. QED  BY <1>1, <1>7, <2>1, <3>1, <3>2
              DEF RowsFaithful, PendingYield, vars, memberVars, yieldVars, stakeVars,
                  registryVars
  <2>5. EntriesFaithful'
    BY <1>1, <1>3, <1>7, <2>1
       DEF EntriesFaithful, LoanRead, DocumentRead, vars, loanVars, treasuryVars
  <2>. QED  BY <1>1, <2>1, <2>4, <2>5 DEF vars, adminVars
<1>. QED  BY <1>6, <1>7, <1>8, <1>9 DEF ExportKept, CalmFile, Reading

(* From the loans on, the rows are read.                                     *)
LEMMA RowsStayFaithful ==
    ASSUME RowsFaithful, UNCHANGED vars,
           export.step \in {"loans", "Loan", "Treasury"},
           export'.step \in {"loans", "Loan", "Treasury", "done"},
           file'.total = file.total, file'.active = file.active,
           file'.addresses = file.addresses, file'.record = file.record,
           file'.stake = file.stake, file'.pending = file.pending, file'.name = file.name
    PROVE  RowsFaithful'
<1>1. ASSUME NEW i \in 1 .. Len(file.addresses)
      PROVE  LET m == file.addresses[i]
             IN  /\ file.record[m] = members[m]
                 /\ file.stake[m] = stakes[m]
                 /\ file.pending[m] = PendingYield(m)
                 /\ file.name[m] = nameOf[m]
  BY DEF RowsFaithful, RowRead
<1>. QED  BY <1>1 DEF RowsFaithful, PendingYield, vars, memberVars, yieldVars, stakeVars,
                      registryVars

(* A loan is read, or there are no more.                                     *)
LEMMA ReadLoanKeeps ==
    ASSUME TypeOK, FreshIds, HandoverTypes, PagesRead, CalmFile, ReadLoan
    PROVE  ExportKept
<1>1. /\ export.step = "loans" /\ export.at \in Nat /\ export.count \in Nat
      /\ UNCHANGED <<vars, memberList, seeded>>
      /\ loans \in [LoanIds -> LoanRecords] /\ nextProposalId \in Nat
  BY DEF ReadLoan, HandoverTypes, ExportRecords, TypeOK, LoanTypes
<1>2. \A key \in DocumentKeys : key[1] \in {"Loan", "Treasury"}
  BY DEF DocumentKeys
<1>3. \A id \in LoanIds : id \in Nat
  BY DEF LoanIds
<1>4. CASE export.at < export.count
  <2>1. /\ file' = [file EXCEPT !.loans = [file.loans EXCEPT ![export.at] = loans[export.at]]]
        /\ export' = [export EXCEPT !.at = export.at + 1]
    BY <1>4 DEF ReadLoan, GoOn, HandoverTypes, FileRecords
  <2>2. [file.loans EXCEPT ![export.at] = loans[export.at]] \in [LoanIds -> LoanRecords]
    BY <1>1 DEF HandoverTypes, FileRecords
  <2>3. HandoverTypes'
    <3>1. file' \in FileRecords
      BY <2>1, <2>2, FileFields DEF HandoverTypes
    <3>2. export.at + 1 \in Nat /\ "loans" \in Reading
      BY <1>1 DEF Reading
    <3>3. export' \in ExportRecords
      BY <2>1, <3>2, ExportFields DEF HandoverTypes
    <3>. QED  BY <1>1, <3>1, <3>3 DEF HandoverTypes
  <2>4. /\ export'.step = "loans" /\ export'.at = export.at + 1
        /\ export'.calm = export.calm /\ export'.count = export.count
        /\ file'.total = file.total /\ file'.active = file.active
        /\ file'.addresses = file.addresses /\ file'.record = file.record
        /\ file'.stake = file.stake /\ file'.pending = file.pending
        /\ file'.name = file.name /\ file'.documents = file.documents
        /\ file'.loans = [file.loans EXCEPT ![export.at] = loans[export.at]]
    BY <1>1, <2>1 DEF HandoverTypes, ExportRecords, FileRecords
  <2>5. PagesRead'
    BY <1>1, <2>4 DEF PagesRead, Reading
  <2>6. ASSUME export.calm PROVE RowsFaithful' /\ EntriesFaithful' /\ paused'
    <3>1. RowsFaithful /\ EntriesFaithful /\ paused
      BY <2>6 DEF CalmFile
    <3>2. RowsFaithful'
      BY <1>1, <2>4, <3>1, RowsStayFaithful
    <3>3. \A id \in LoanIds :
             file'.loans[id] = IF id = export.at THEN loans[id] ELSE file.loans[id]
      BY <1>1, <2>4 DEF HandoverTypes, FileRecords
    <3>4. \A id \in LoanIds : id < export.at + 1 => id < export.at \/ id = export.at
      BY <1>1, <1>3
    <3>5. EntriesFaithful'
      BY <1>1, <1>2, <2>4, <3>1, <3>3, <3>4
         DEF EntriesFaithful, LoanRead, DocumentRead, vars, loanVars, treasuryVars
    <3>. QED  BY <1>1, <3>1, <3>2, <3>5 DEF vars, adminVars
  <2>. QED  BY <2>3, <2>4, <2>5, <2>6 DEF ExportKept, CalmFile, Reading
<1>5. CASE ~(export.at < export.count)
  <2>1. export' = Go("Loan", nextProposalId) /\ file' = file
    BY <1>5 DEF ReadLoan
  <2>2. HandoverTypes'
    BY <1>1, <2>1, ExportFields DEF HandoverTypes, Go, Reading
  <2>3. /\ export'.step = "Loan" /\ export'.at = 0 /\ export'.calm = export.calm
        /\ export'.count = nextProposalId
    BY <2>1 DEF HandoverTypes, ExportRecords, Go
  <2>4. PagesRead'
    BY <1>1, <2>1, <2>3 DEF PagesRead, Reading
  <2>5. ASSUME export.calm PROVE RowsFaithful' /\ EntriesFaithful' /\ paused'
    <3>1. RowsFaithful /\ EntriesFaithful /\ paused
      BY <2>5 DEF CalmFile
    <3>2. RowsFaithful'
      BY <1>1, <2>1, <2>3, <3>1, RowsStayFaithful
    <3>3. export.count = nextProposalId
      BY <1>1, <3>1 DEF EntriesFaithful
    <3>4. ASSUME NEW id \in LoanIds PROVE file.loans[id] = loans[id]
      <4>1. CASE id < export.at
        BY <1>1, <3>1, <4>1 DEF EntriesFaithful, LoanRead
      <4>2. CASE ~(id < export.at)
        <5>1. id >= nextProposalId
          BY <1>1, <1>3, <1>5, <3>3, <4>2
        <5>. QED  BY <3>1, <5>1 DEF EntriesFaithful, FreshIds
      <4>. QED  BY <4>1, <4>2
    <3>5. \A key \in DocumentKeys : key[2] \in Nat
      BY DEF DocumentKeys, LoanIds, TreasuryIds
    <3>6. EntriesFaithful'
      BY <1>1, <1>2, <2>1, <2>3, <3>1, <3>4, <3>5
         DEF EntriesFaithful, LoanRead, DocumentRead, vars, loanVars, treasuryVars
    <3>. QED  BY <1>1, <3>1, <3>2, <3>6 DEF vars, adminVars
  <2>. QED  BY <2>2, <2>3, <2>4, <2>5 DEF ExportKept, CalmFile, Reading
<1>. QED  BY <1>4, <1>5

(* A document is read, or there are no more.                                 *)
LEMMA ReadDocumentKeeps ==
    ASSUME TypeOK, FreshIds, HandoverTypes, PagesRead, CalmFile,
           NEW kind \in {"Loan", "Treasury"}, ReadDocument(kind)
    PROVE  ExportKept
<1>1. /\ export.step = kind /\ export.at \in Nat /\ export.count \in Nat
      /\ UNCHANGED <<vars, memberList, seeded>>
      /\ documents \in [DocumentKeys -> Hashes \cup {NoHash}]
      /\ nextProposalId \in Nat /\ nextTreasuryId \in Nat
  BY DEF ReadDocument, HandoverTypes, ExportRecords, TypeOK, LoanTypes, TreasuryTypes,
         DocumentTypes
<1>2. \A key \in DocumentKeys : /\ key[1] \in {"Loan", "Treasury"} /\ key[2] \in Nat
                                /\ key = <<key[1], key[2]>>
                                /\ key[1] = "Loan" => key[2] \in LoanIds
                                /\ key[1] = "Treasury" => key[2] \in TreasuryIds
  BY DEF DocumentKeys, LoanIds, TreasuryIds
<1>3. CASE export.at < export.count
  <2>. DEFINE key == <<kind, export.at>>
  <2>1. /\ file' = [file EXCEPT !.documents = [file.documents EXCEPT ![key] = documents[key]]]
        /\ export' = [export EXCEPT !.at = export.at + 1]
    BY <1>3 DEF ReadDocument, GoOn, HandoverTypes, FileRecords
  <2>2. [file.documents EXCEPT ![key] = documents[key]]
          \in [DocumentKeys -> Hashes \cup {NoHash}]
    BY <1>1 DEF HandoverTypes, FileRecords
  <2>3. HandoverTypes'
    <3>1. file' \in FileRecords
      BY <2>1, <2>2, FileFields DEF HandoverTypes
    <3>2. export.at + 1 \in Nat /\ "loans" \in Reading
      BY <1>1 DEF Reading
    <3>3. export' \in ExportRecords
      BY <2>1, <3>2, ExportFields DEF HandoverTypes
    <3>. QED  BY <1>1, <3>1, <3>3 DEF HandoverTypes
  <2>4. /\ export'.step = kind /\ export'.at = export.at + 1
        /\ export'.calm = export.calm /\ export'.count = export.count
        /\ file'.total = file.total /\ file'.active = file.active
        /\ file'.addresses = file.addresses /\ file'.record = file.record
        /\ file'.stake = file.stake /\ file'.pending = file.pending
        /\ file'.name = file.name /\ file'.loans = file.loans
        /\ file'.documents = [file.documents EXCEPT ![key] = documents[key]]
    BY <1>1, <2>1 DEF HandoverTypes, ExportRecords, FileRecords
  <2>5. PagesRead'
    BY <1>1, <2>4 DEF PagesRead, Reading
  <2>6. ASSUME export.calm PROVE RowsFaithful' /\ EntriesFaithful' /\ paused'
    <3>1. RowsFaithful /\ EntriesFaithful /\ paused
      BY <2>6 DEF CalmFile
    <3>2. RowsFaithful'
      BY <1>1, <2>4, <3>1, RowsStayFaithful
    <3>3. \A k \in DocumentKeys :
             file'.documents[k] = IF k = key THEN documents[k] ELSE file.documents[k]
      BY <1>1, <2>4 DEF HandoverTypes, FileRecords
    <3>4. ASSUME NEW k \in DocumentKeys, DocumentRead(k)'
          PROVE  file'.documents[k] = documents[k]
      <4>1. CASE k = key
        BY <3>3, <4>1
      <4>2. CASE k # key
        <5>1. DocumentRead(k)
          <6>1. CASE k[1] = kind /\ k[2] < export.at + 1
            <7>1. k[2] # export.at
              BY <1>2, <4>2, <6>1
            <7>2. k[2] < export.at
              BY <1>1, <1>2, <6>1, <7>1
            <7>. QED  BY <1>1, <6>1, <7>2 DEF DocumentRead
          <6>. QED  BY <1>1, <2>4, <3>4, <6>1 DEF DocumentRead
        <5>. QED  BY <3>1, <3>3, <4>2, <5>1 DEF EntriesFaithful
      <4>. QED  BY <4>1, <4>2
    <3>5. \A k \in DocumentKeys : file'.documents[k] \in {documents[k], NoHash}
      BY <3>1, <3>3 DEF EntriesFaithful
    <3>6. EntriesFaithful'
      BY <1>1, <2>4, <3>1, <3>4, <3>5
         DEF EntriesFaithful, LoanRead, vars, loanVars, treasuryVars
    <3>. QED  BY <1>1, <3>1, <3>2, <3>6 DEF vars, adminVars
  <2>. QED  BY <2>3, <2>4, <2>5, <2>6 DEF ExportKept, CalmFile, Reading
<1>4. CASE ~(export.at < export.count)
  <2>1. /\ export' = IF kind = "Loan" THEN Go("Treasury", nextTreasuryId) ELSE Go("done", 0)
        /\ file' = file
    BY <1>4 DEF ReadDocument
  <2>2. HandoverTypes'
    BY <1>1, <2>1, ExportFields DEF HandoverTypes, Go, Reading
  <2>3. /\ export'.step = IF kind = "Loan" THEN "Treasury" ELSE "done"
        /\ export'.at = 0 /\ export'.calm = export.calm
        /\ export'.count = IF kind = "Loan" THEN nextTreasuryId ELSE 0
    BY <2>1 DEF HandoverTypes, ExportRecords, Go
  <2>4. PagesRead'
    BY <1>1, <2>1, <2>3 DEF PagesRead, Reading
  <2>5. ASSUME export.calm PROVE RowsFaithful' /\ EntriesFaithful' /\ paused'
    <3>1. RowsFaithful /\ EntriesFaithful /\ paused
      BY <2>5 DEF CalmFile
    <3>2. RowsFaithful'
      BY <1>1, <2>1, <2>3, <3>1, RowsStayFaithful
    <3>3. export.count = IF kind = "Loan" THEN nextProposalId ELSE nextTreasuryId
      BY <1>1, <3>1 DEF EntriesFaithful
    <3>4. ASSUME NEW k \in DocumentKeys, DocumentRead(k)'
          PROVE  file.documents[k] = documents[k]
      <4>1. CASE k[1] = kind
        <5>1. CASE k[2] < export.at
          BY <1>1, <3>1, <4>1, <5>1 DEF EntriesFaithful, DocumentRead
        <5>2. CASE ~(k[2] < export.at)
          <6>1. k[2] >= export.count
            BY <1>1, <1>2, <1>4, <5>2
          <6>2. documents[k] = NoHash
            BY <1>1, <1>2, <3>3, <4>1, <6>1 DEF FreshIds
          <6>. QED  BY <3>1, <6>2 DEF EntriesFaithful
        <5>. QED  BY <5>1, <5>2
      <4>2. CASE k[1] # kind
        <5>1. kind = "Treasury" /\ k[1] = "Loan"
          <6>1. CASE kind = "Loan"
            <7>1. k[2] \in Nat /\ ~(k[2] < 0)
              BY <1>2
            <7>. QED  BY <1>2, <2>3, <3>4, <4>2, <6>1, <7>1 DEF DocumentRead
          <6>. QED  BY <1>2, <4>2, <6>1
        <5>2. DocumentRead(k)
          BY <1>1, <5>1 DEF DocumentRead
        <5>. QED  BY <3>1, <5>2 DEF EntriesFaithful
      <4>. QED  BY <4>1, <4>2
    <3>5. EntriesFaithful'
      BY <1>1, <2>1, <2>3, <3>1, <3>4
         DEF EntriesFaithful, LoanRead, vars, loanVars, treasuryVars
    <3>. QED  BY <1>1, <3>1, <3>2, <3>5 DEF vars, adminVars
  <2>. QED  BY <2>2, <2>3, <2>4, <2>5 DEF ExportKept, CalmFile, Reading
<1>. QED  BY <1>3, <1>4

-----------------------------------------------------------------------------
(* The export as a whole.                                                    *)

(* The script fails, and its file is thrown away.                            *)
LEMMA AbortKeeps ==
    ASSUME TypeOK, HandoverTypes, Abort
    PROVE  ExportKept
<1>1. /\ export' = NotStarted /\ file' = NoFile /\ UNCHANGED <<vars, memberList, seeded>>
  BY DEF Abort
<1>2. NotStarted \in ExportRecords /\ NotStarted.step = "idle" /\ NotStarted.calm = FALSE
  BY DEF NotStarted, ExportRecords
<1>3. NoFile \in FileRecords
  <2>1. NoMember \in MemberRecords /\ NoLoan \in LoanRecords
    BY DEF NoMember, NoLoan, MemberRecords, LoanRecords, MemberStatuses, LoanStatuses
  <2>2. <<>> \in Seq(Accounts) /\ <<>> \in Seq(AdminAccounts)
    OBVIOUS
  <2>. QED  BY <2>1, <2>2 DEF NoFile, FileRecords
<1>4. HandoverTypes'
  BY <1>1, <1>2, <1>3 DEF HandoverTypes
<1>5. PagesRead'
  BY <1>1, <1>2 DEF PagesRead, Reading
<1>. QED  BY <1>1, <1>2, <1>4, <1>5 DEF ExportKept, CalmFile

(* A contract that is read and used.                                         *)
ReadingSound == InUse /\ HandoverTypes /\ ListTrue /\ PagesRead /\ CalmFile /\ seeded = {}

(* So a step of the export keeps its file in order.                          *)
LEMMA ExportStep ==
    ASSUME ReadingSound, Export
    PROVE  ReadingSound'
<1>1. /\ TypeOK /\ FreshIds /\ MembershipCounts
      /\ HandoverTypes /\ ListTrue /\ PagesRead /\ CalmFile
  BY DEF ReadingSound, InUse, RequestInv, RequestFacts, LoansInv, CountsInv
<1>2. UNCHANGED <<vars, memberList, seeded>>
  BY DEF Export, Begin, ReadCounts, ReadPage, ReadStake, ReadPendingYield, ReadName,
         ReadLoan, ReadDocument, Abort
<1>3. ExportKept
  BY <1>1, BeginKeeps, ReadCountsKeeps, ReadPageKeeps, ReadStakeKeeps,
     ReadPendingYieldKeeps, ReadNameKeeps, ReadLoanKeeps, ReadDocumentKeeps, AbortKeeps
     DEF Export
<1>4. InUse'
  BY <1>2, InUseStep DEF ReadingSound
<1>5. ListTrue'
  BY <1>1, <1>2 DEF ListTrue, Registered, IsMember, vars, memberVars
<1>. QED  BY <1>2, <1>3, <1>4, <1>5 DEF ExportKept, ReadingSound

(* A call of somebody else does too: it adds to the list, and if the         *)
(* contract was paused it changes nothing the export has read.               *)
LEMMA OthersStep ==
    ASSUME ReadingSound, Others
    PROVE  ReadingSound' /\ export'.step = export.step
<1>1. /\ Operate /\ Listed /\ UNCHANGED <<file, seeded>>
      /\ HandoverTypes /\ PagesRead /\ CalmFile /\ ListTrue /\ TypeOK
  BY DEF Others, ReadingSound, InUse, RequestInv
<1>2. /\ export' \in ExportRecords
      /\ export'.step = export.step /\ export'.at = export.at
      /\ export'.count = export.count
      /\ export'.calm = (export.calm /\ paused')
  <2>1. InUse'
    BY <1>1, InUseStep DEF ReadingSound
  <2>2. paused' \in BOOLEAN
    BY <2>1 DEF InUse, RequestInv, TypeOK, AdminTypes
  <2>. DEFINE k == IF export.step # "idle" /\ now' = now THEN export.calls + 1
                   ELSE export.calls
  <2>3. k \in Nat
    BY <1>1 DEF HandoverTypes, ExportRecords
  <2>4. export' = [export EXCEPT !.calls = k, !.calm = export.calm /\ paused']
    BY DEF Others
  <2>. HIDE DEF k
  <2>. QED  BY <1>1, <2>2, <2>3, <2>4 DEF HandoverTypes, ExportRecords
<1>3. ListGrows
  BY <1>1, ListedGrows DEF HandoverTypes
<1>4. HandoverTypes'
  BY <1>1, <1>2, <1>3 DEF HandoverTypes, ListGrows
<1>5. ListTrue'
  BY <1>1, ListedTrue DEF HandoverTypes
<1>6. PagesRead'
  <2>1. Len(file.addresses) \in Nat /\ Len(memberList) \in Nat /\ file.total \in Int
        /\ Len(memberList') \in Nat
    BY <1>1, <1>3 DEF HandoverTypes, FileRecords, ListGrows
  <2>. QED  BY <1>1, <1>2, <1>3, <2>1 DEF PagesRead, ListGrows
<1>7. CalmFile'
  <2>1. SUFFICES ASSUME export'.calm PROVE CalmFile'
    BY DEF CalmFile
  <2>2. export.calm /\ paused /\ paused'
    BY <1>1, <1>2, <2>1 DEF CalmFile
  <2>3. Frozen
    BY <1>1, <2>2, FrozenStep
  <2>4. RowsFaithful /\ EntriesFaithful /\ export.step \in Reading \cup {"done"}
    BY <1>1, <2>2 DEF CalmFile
  <2>5. RowsFaithful'
    BY <1>1, <1>2, <2>3, <2>4
       DEF RowsFaithful, RowRead, PendingYield, Frozen, memberVars, stakeVars, yieldVars,
           registryVars
  <2>6. EntriesFaithful'
    BY <1>1, <1>2, <2>3, <2>4
       DEF EntriesFaithful, LoanRead, DocumentRead, Frozen, loanVars, treasuryVars
  <2>. QED  BY <1>2, <2>2, <2>4, <2>5, <2>6 DEF CalmFile
<1>8. InUse'
  BY <1>1, InUseStep DEF ReadingSound
<1>. QED  BY <1>1, <1>2, <1>4, <1>5, <1>6, <1>7, <1>8 DEF ReadingSound

-----------------------------------------------------------------------------
(* The whole list has been read once the pages have.                         *)
LEMMA PagesAreWhole == ReadingSound => PagesWhole
<1>. SUFFICES ASSUME ReadingSound,
                     export.step \in {"stake", "pending", "name", "loans", "Loan", "Treasury",
                                      "done"}
              PROVE  /\ Len(file.addresses) \in file.total .. Len(memberList)
                     /\ file.addresses = SubSeq(memberList, 1, Len(file.addresses))
  BY DEF PagesWhole, Reading
<1>. DEFINE n == Len(file.addresses)
<1>1. /\ n \in Nat /\ file.addresses \in Seq(Accounts) /\ memberList \in Seq(Accounts)
      /\ Len(memberList) \in Nat /\ file.total \in Int
  BY DEF ReadingSound, HandoverTypes, FileRecords
<1>2. /\ n <= Len(memberList) /\ n >= file.total
      /\ \A i \in 1 .. n : file.addresses[i] = memberList[i]
  BY DEF ReadingSound, PagesRead, Reading
<1>. HIDE DEF n
<1>3. /\ SubSeq(memberList, 1, n) \in Seq(Accounts) /\ Len(SubSeq(memberList, 1, n)) = n
      /\ \A i \in 1 .. n : SubSeq(memberList, 1, n)[i] = memberList[i]
  BY <1>1, <1>2
<1>4. file.addresses = SubSeq(memberList, 1, n)
  BY <1>1, <1>2, <1>3, SeqEqual DEF n
<1>. QED  BY <1>1, <1>2, <1>4 DEF n

(* A finished file of a paused contract is the contract's state.             *)
LEMMA FileIsWhole == ReadingSound => FileWhole
<1>. SUFFICES ASSUME ReadingSound, export.step = "done", export.calm
              PROVE  FileWhole
  BY DEF FileWhole
<1>. DEFINE n == Len(file.addresses)
<1>1. /\ n \in Nat /\ file \in FileRecords /\ file.addresses \in Seq(Accounts)
      /\ memberList \in Seq(Accounts)
      /\ Len(memberList) \in Nat /\ file.total \in Int
      /\ DOMAIN file.addresses = 1 .. n /\ DOMAIN memberList = 1 .. Len(memberList)
  BY DEF ReadingSound, HandoverTypes, FileRecords
<1>2. RowsFaithful /\ EntriesFaithful /\ ListTrue
  BY DEF ReadingSound, CalmFile
<1>3. /\ n <= Len(memberList) /\ n >= file.total
      /\ \A i \in 1 .. n : file.addresses[i] = memberList[i]
  BY DEF ReadingSound, PagesRead, Reading
<1>4. file.total = totalMembers /\ file.active = activeMembers
  BY <1>2 DEF RowsFaithful
<1>5. totalMembers = Len(memberList) /\ Cardinality(Registered) = Len(memberList)
  BY <1>1, <1>2, ListCounted DEF ReadingSound, InUse, LoansInv, CountsInv, MembershipCounts
<1>6. n = Len(memberList)
  BY <1>1, <1>3, <1>4, <1>5
<1>7. Rows = Registered
  <2>1. file.addresses = memberList
    BY <1>1, <1>3, <1>6, SeqEqual
  <2>. QED  BY <1>2, <2>1 DEF Rows, ListTrue
<1>8. ASSUME NEW a \in Rows
      PROVE  /\ file.record[a] = members[a] /\ file.stake[a] = stakes[a]
             /\ file.pending[a] = PendingYield(a) /\ file.name[a] = nameOf[a]
  <2>1. PICK i \in 1 .. n : a = file.addresses[i]
    BY <1>1 DEF Rows, Range
  <2>. QED  BY <1>2, <2>1 DEF RowsFaithful, RowRead
<1>9. ASSUME NEW a \in Accounts \ Registered
      PROVE  members[a] = NoMember /\ stakes[a] = 0 /\ nameOf[a] = NoName
  <2>1. StrangersBlank /\ NamesOneToOne /\ nameOf \in [Accounts -> Names \cup {NoName}]
    BY DEF ReadingSound, InUse, RequestInv, TypeOK, RegistryTypes
  <2>2. ~IsMember(a)
    BY DEF Registered
  <2>3. ~IsActiveMember(a)
    BY <2>2 DEF IsMember, IsActiveMember
  <2>4. nameOf[a] \notin Names
    <3>1. a \notin ActiveMembers \cup {NoAccount}
      BY <2>3, AccountsAssumption DEF ActiveMembers
    <3>. QED  BY <2>1, <3>1 DEF NamesOneToOne
  <2>. QED  BY <2>1, <2>2, <2>4 DEF StrangersBlank
<1>10. ASSUME NEW a \in Accounts
       PROVE  /\ file.record[a] = members[a] /\ file.stake[a] = stakes[a]
              /\ file.name[a] = nameOf[a]
  <2>1. CASE a \in Registered
    BY <1>7, <1>8, <2>1
  <2>2. CASE a \notin Registered
    BY <1>2, <1>9, <2>2 DEF RowsFaithful
  <2>. QED  BY <2>1, <2>2
<1>11. /\ file.record = members /\ file.stake = stakes /\ file.name = nameOf
  <2>1. /\ members \in [Accounts -> MemberRecords] /\ stakes \in [Accounts -> Nat]
        /\ nameOf \in [Accounts -> Names \cup {NoName}]
    BY DEF ReadingSound, InUse, RequestInv, TypeOK, MemberTypes, StakeTypes, RegistryTypes
  <2>. QED  BY <1>1, <1>10, <2>1 DEF FileRecords
<1>12. /\ file.loans = loans /\ file.documents = documents
  <2>1. /\ loans \in [LoanIds -> LoanRecords]
        /\ documents \in [DocumentKeys -> Hashes \cup {NoHash}]
    BY DEF ReadingSound, InUse, RequestInv, TypeOK, LoanTypes, DocumentTypes
  <2>. QED  BY <1>1, <1>2, <2>1 DEF EntriesFaithful, LoanRead, DocumentRead, FileRecords
<1>. QED  BY <1>4, <1>5, <1>6, <1>7, <1>8, <1>11, <1>12 DEF FileWhole

-----------------------------------------------------------------------------
(* Seeding.                                                                  *)

(* The contract's entries are typed and counted.                             *)
Counted == TypeOK /\ MembershipCounts /\ StakesAddUp

(* As in a new deployment, whatever it is initialized with.                  *)
LEMMA FreshIsInOrder == FreshDeployment => Counted
  BY FreshIsCounted, FreshIsSummed DEF CountsInv, Counted

(* Redeploy makes one.                                                       *)
LEMMA RedeployIsFresh == HandoverTypes /\ TypeOK /\ Redeploy => FreshDeployment'
<1>. SUFFICES ASSUME HandoverTypes, TypeOK, Redeploy PROVE FreshDeployment'
  OBVIOUS
<1>1. /\ file.admins \in Seq(AdminAccounts) /\ file.threshold \in Nat
      /\ file.policy \subseteq PolicyRecords
  BY DEF HandoverTypes, FileRecords
<1>2. AdminTypes'
  BY <1>1 DEF Redeploy, AdminTypes
<1>3. now' \in Nat
  BY DEF Redeploy, TypeOK, WorldTypes
<1>. QED  BY <1>2, <1>3 DEF Redeploy, FreshDeployment

(* So its entries are in order.                                              *)
LEMMA RedeployIsInOrder == HandoverTypes /\ TypeOK /\ Redeploy => Counted'
  BY RedeployIsFresh, FreshIsInOrder, PTL

(* A finished file of a paused contract is fit to seed from.                 *)
LEMMA FileIsSound ==
    ASSUME ReadingSound, export.step = "done", export.calm
    PROVE  FileSound
<1>1. /\ file.total = totalMembers /\ file.active = activeMembers
      /\ Rows = Registered /\ file.record = members /\ file.name = nameOf
  BY FileIsWhole DEF FileWhole
<1>2. /\ MembershipCounts /\ NamesOneToOne /\ NoName \notin Names
      /\ nameOf \in [Accounts -> Names \cup {NoName}]
  BY SentinelAssumption
     DEF ReadingSound, InUse, LoansInv, CountsInv, RequestInv, TypeOK, RegistryTypes
<1>3. Rows \subseteq Accounts /\ \A a \in Rows : members[a].status # "NotMember"
  BY <1>1 DEF Registered, IsMember
<1>4. {a \in Rows : file.record[a].status = "ActiveMember"} = ActiveMembers
  <2>1. \A a \in Accounts : IsActiveMember(a) => IsMember(a)
    BY DEF IsActiveMember, IsMember
  <2>. QED  BY <1>1, <2>1 DEF ActiveMembers, IsActiveMember, Registered
<1>5. ASSUME NEW a \in NamedRows, NEW b \in NamedRows, file.name[a] = file.name[b]
      PROVE  a = b
  <2>1. /\ a \in Accounts /\ b \in Accounts /\ nameOf[a] = nameOf[b] /\ nameOf[a] # NoName
    BY <1>1, <1>3, <1>5 DEF NamedRows
  <2>2. nameOf[a] \in Names
    BY <1>2, <2>1
  <2>. QED  BY <1>2, <2>1, <2>2 DEF NamesOneToOne
<1>. QED  BY <1>1, <1>2, <1>3, <1>4, <1>5 DEF FileSound, MembershipCounts

(* The new deployment, before anything is seeded.                            *)
LEMMA RedeployStep ==
    ASSUME ReadingSound, Redeploy
    PROVE  SeedingSound' /\ export'.step = "seeding"
<1>1. /\ export.step = "done" /\ export.calm /\ memberList' = <<>>
      /\ export' = [NotStarted EXCEPT !.step = "seeding"]
      /\ yieldAccumulator' = 0 /\ file' = file /\ seeded' = seeded
  BY DEF Redeploy
<1>2. HandoverTypes /\ TypeOK /\ seeded = {}
  BY DEF ReadingSound, InUse, RequestInv
<1>3. Counted'
  BY <1>2, RedeployIsInOrder
<1>4. FileSound'
  <2>1. FileSound
    BY <1>1, FileIsSound
  <2>. QED  BY <1>1, <2>1 DEF FileSound, Rows, NamedRows
<1>5. export' \in ExportRecords /\ export'.step = "seeding"
  BY <1>1 DEF NotStarted, ExportRecords
<1>6. HandoverTypes'
  BY <1>1, <1>2, <1>5 DEF HandoverTypes
<1>. QED  BY <1>1, <1>2, <1>3, <1>4, <1>5, <1>6 DEF SeedingSound, Counted

-----------------------------------------------------------------------------
(* The file stands while the contract is seeded.                             *)
LEMMA FileStands ==
    ASSUME SeedingSound, UNCHANGED file
    PROVE  FileSound' /\ Entries' = Entries
  BY DEF SeedingSound, FileSound, Entries, Rows, NamedRows, FiledLoans, FiledDocuments

(* Whatever the call, the list is a sequence of accounts.                    *)
LEMMA ListStaysTyped ==
    ASSUME HandoverTypes, Listed PROVE memberList' \in Seq(Accounts)
  BY DEF HandoverTypes, Listed

(* What an entry is.                                                         *)
LEMMA EntryKinds ==
    ASSUME NEW entry \in Entries
    PROVE  LET kind == entry[1]
               key == entry[2]
           IN  /\ entry = <<kind, key>>
               /\ kind \in {"member", "stake", "pending", "name", "loan", "document"}
               /\ kind \in {"member", "stake", "pending"} => key \in Rows
               /\ kind = "name" => key \in NamedRows
               /\ kind = "loan" => key \in LoanIds
               /\ kind = "document" => key \in DocumentKeys
  BY DEF Entries, FiledLoans, FiledDocuments

(* What a call leaves of it.                                                 *)
Undisturbed(kind, key) ==
    /\ kind = "member" => members'[key] = members[key]
    /\ kind = "stake" => stakes'[key] = stakes[key]
    /\ kind = "pending" => yieldSnapshot'[key] = yieldSnapshot[key]
    /\ kind = "name" => nameOf'[key] = nameOf[key]
                        /\ nameOwner'[nameOf[key]] = nameOwner[nameOf[key]]
    /\ kind = "loan" => loans'[key] = loans[key]
    /\ kind = "document" => documents'[key] = documents[key]

(* An entry in place stays there when the call leaves it alone.              *)
LEMMA UndisturbedStays ==
    ASSUME SeedingSound, UNCHANGED <<file, yieldAccumulator>>,
           NEW entry \in seeded, Undisturbed(entry[1], entry[2])
    PROVE  \A kind, key : entry = <<kind, key>> => InPlace(kind, key)'
<1>. SUFFICES ASSUME NEW kind, NEW key, entry = <<kind, key>> PROVE InPlace(kind, key)'
  OBVIOUS
<1>1. InPlace(kind, key) /\ Undisturbed(kind, key)
  BY DEF SeedingSound
<1>2. kind \in {"member", "stake", "pending", "name", "loan", "document"}
  BY EntryKinds DEF SeedingSound
<1>. QED  BY <1>1, <1>2 DEF InPlace, Undisturbed, PendingYield

(* A call keeps what was seeded if each entry listed was left alone or has   *)
(* just been put in place.                                                   *)
LEMMA SeededStep ==
    ASSUME SeedingSound, Counted', UNCHANGED <<file, yieldAccumulator>>, Listed,
           export' \in ExportRecords,
           \A entry \in seeded' :
              \/ entry \in seeded /\ Undisturbed(entry[1], entry[2])
              \/ entry \in Entries /\ InPlace(entry[1], entry[2])'
    PROVE  SeedingSound'
<1>1. FileSound' /\ Entries' = Entries
  BY FileStands
<1>2. memberList' \in Seq(Accounts)
  BY ListStaysTyped DEF SeedingSound
<1>3. HandoverTypes'
  BY <1>2 DEF SeedingSound, HandoverTypes
<1>4. ASSUME NEW entry \in seeded' PROVE entry \in Entries /\ InPlace(entry[1], entry[2])'
  <2>1. CASE entry \in seeded /\ Undisturbed(entry[1], entry[2])
    <3>1. entry = <<entry[1], entry[2]>> /\ entry \in Entries
      BY <2>1, EntryKinds DEF SeedingSound
    <3>. QED  BY <2>1, <3>1, UndisturbedStays
  <2>. QED  BY <1>4, <2>1
<1>. QED  BY <1>1, <1>3, <1>4 DEF SeedingSound, Counted

(* What a sending does to the list of those sent as they are.                *)
RowNoted(kind, a, source) ==
    IF source = a THEN seeded' = seeded \cup {<<kind, a>>} /\ UNCHANGED export
    ELSE seeded' = seeded \ {<<kind, a>>} /\ export' = [export EXCEPT !.mistakes = @ + 1]

(* Noting a sending keeps the types.                                         *)
LEMMA NotedTyped ==
    ASSUME HandoverTypes, NEW kind, NEW a, NEW source, RowNoted(kind, a, source)
    PROVE  export' \in ExportRecords
  BY DEF HandoverTypes, RowNoted, ExportRecords

(* An entry on the list afterwards was just sent as it is, or was there      *)
(* before and is another.                                                    *)
LEMMA NotedEntries ==
    ASSUME SeedingSound, NEW kind, NEW a, NEW source, RowNoted(kind, a, source),
           NEW entry \in seeded'
    PROVE  \/ source = a /\ entry = <<kind, a>>
           \/ entry \in seeded /\ entry # <<kind, a>> /\ entry = <<entry[1], entry[2]>>
<1>1. CASE entry \in seeded
  <2>1. entry = <<entry[1], entry[2]>>
    BY <1>1, EntryKinds DEF SeedingSound
  <2>. QED  BY <1>1, <2>1 DEF RowNoted
<1>2. CASE entry \notin seeded
  BY <1>2 DEF RowNoted
<1>. QED  BY <1>1, <1>2

(* A member's record is seeded, for the first time, again, or with another   *)
(* row's data: one lemma for each kind of entry from here on.                *)
LEMMA MemberRowSeeded ==
    ASSUME SeedingSound, NEW caller, NEW a \in Rows, NEW source \in Rows,
           SeedMember(caller, a, file.record[source]), RowNoted("member", a, source),
           Listed, UNCHANGED file
    PROVE  SeedingSound'
<1>. DEFINE r == file.record[source]
<1>1. /\ a \in Accounts /\ source \in Accounts
      /\ r \in MemberRecords /\ r.status # "NotMember"
      /\ members \in [Accounts -> MemberRecords]
  BY DEF SeedingSound, FileSound, HandoverTypes, FileRecords, TypeOK, MemberTypes
<1>2. TypeOK' /\ MembershipCounts'
  BY <1>1, SeedMemberTyped, SeedMemberCounted DEF SeedingSound
<1>3. StakesAddUp'
  BY DEF SeedingSound, StakesAddUp, SeedMember, stakeVars
<1>4. export' \in ExportRecords
  BY NotedTyped DEF SeedingSound
<1>5. /\ members' = [members EXCEPT ![a] = r]
      /\ UNCHANGED <<stakes, yieldAccumulator, yieldSnapshot, nameOf, nameOwner, loans,
                     documents, file>>
  BY DEF SeedMember, stakeVars, yieldVars, registryVars, loanVars
<1>6. ASSUME NEW entry \in seeded'
      PROVE  \/ entry \in seeded /\ Undisturbed(entry[1], entry[2])
             \/ entry \in Entries /\ InPlace(entry[1], entry[2])'
  <2>1. CASE source = a /\ entry = <<"member", a>>
    <3>1. entry \in Entries /\ entry[1] = "member" /\ entry[2] = a
      BY <2>1 DEF Entries
    <3>2. members'[a] = file'.record[a]
      BY <1>1, <1>5, <2>1
    <3>. QED  BY <3>1, <3>2 DEF InPlace
  <2>2. CASE entry \in seeded /\ entry # <<"member", a>> /\ entry = <<entry[1], entry[2]>>
    <3>1. entry[1] = "member" => entry[2] # a
      BY <2>2
    <3>2. entry[1] = "member" => members'[entry[2]] = members[entry[2]]
      BY <1>1, <1>5, <3>1
    <3>. QED  BY <1>5, <2>2, <3>2 DEF Undisturbed
  <2>. QED  BY <2>1, <2>2, NotedEntries
<1>. QED  BY <1>2, <1>3, <1>4, <1>5, <1>6, SeededStep DEF Counted

(* A stake is seeded.                                                        *)
LEMMA StakeRowSeeded ==
    ASSUME SeedingSound, NEW caller, NEW a \in Rows, NEW source \in Rows,
           SeedStake(caller, a, file.stake[source]), RowNoted("stake", a, source),
           Listed, UNCHANGED file
    PROVE  SeedingSound'
<1>. DEFINE amount == file.stake[source]
<1>1. /\ a \in Accounts /\ source \in Accounts /\ amount \in Nat
      /\ stakes \in [Accounts -> Nat]
  BY DEF SeedingSound, FileSound, HandoverTypes, FileRecords, TypeOK, StakeTypes
<1>2. TypeOK' /\ StakesAddUp'
  BY <1>1, SeedStakeTyped, SeedStakeSummed DEF SeedingSound
<1>3. MembershipCounts'
  BY CountsFrame DEF SeedingSound, SeedStake
<1>4. export' \in ExportRecords
  BY NotedTyped DEF SeedingSound
<1>5. /\ stakes' = [stakes EXCEPT ![a] = amount]
      /\ UNCHANGED <<members, yieldAccumulator, yieldSnapshot, nameOf, nameOwner, loans,
                     documents, file>>
  BY DEF SeedStake, memberVars, yieldVars, registryVars, loanVars
<1>6. ASSUME NEW entry \in seeded'
      PROVE  \/ entry \in seeded /\ Undisturbed(entry[1], entry[2])
             \/ entry \in Entries /\ InPlace(entry[1], entry[2])'
  <2>1. CASE source = a /\ entry = <<"stake", a>>
    <3>1. entry \in Entries /\ entry[1] = "stake" /\ entry[2] = a
      BY <2>1 DEF Entries
    <3>2. stakes'[a] = file'.stake[a]
      BY <1>1, <1>5, <2>1
    <3>. QED  BY <3>1, <3>2 DEF InPlace
  <2>2. CASE entry \in seeded /\ entry # <<"stake", a>> /\ entry = <<entry[1], entry[2]>>
    <3>1. entry[1] = "stake" => entry[2] # a
      BY <2>2
    <3>2. entry[1] = "stake" => stakes'[entry[2]] = stakes[entry[2]]
      BY <1>1, <1>5, <3>1
    <3>. QED  BY <1>5, <2>2, <3>2 DEF Undisturbed
  <2>. QED  BY <2>1, <2>2, NotedEntries
<1>. QED  BY <1>2, <1>3, <1>4, <1>5, <1>6, SeededStep DEF Counted

(* A pending yield is seeded.                                                *)
LEMMA PendingRowSeeded ==
    ASSUME SeedingSound, NEW caller, NEW a \in Rows, NEW source \in Rows,
           SeedPendingYield(caller, a, file.pending[source]),
           RowNoted("pending", a, source), Listed, UNCHANGED file
    PROVE  SeedingSound'
<1>. DEFINE amount == file.pending[source]
<1>1. /\ a \in Accounts /\ source \in Accounts /\ amount \in Nat
      /\ yieldSnapshot \in [Accounts -> Int]
  BY DEF SeedingSound, FileSound, HandoverTypes, FileRecords, TypeOK, YieldTypes
<1>2. TypeOK'
  BY <1>1, SeedPendingYieldTyped DEF SeedingSound
<1>3. MembershipCounts' /\ StakesAddUp'
  BY CountsFrame DEF SeedingSound, SeedPendingYield, StakesAddUp, stakeVars
<1>4. export' \in ExportRecords
  BY NotedTyped DEF SeedingSound
<1>5. /\ yieldSnapshot' = [yieldSnapshot EXCEPT ![a] = -amount]
      /\ UNCHANGED <<members, stakes, yieldAccumulator, nameOf, nameOwner, loans,
                     documents, file>>
  BY DEF SeedPendingYield, memberVars, stakeVars, registryVars, loanVars
<1>6. ASSUME NEW entry \in seeded'
      PROVE  \/ entry \in seeded /\ Undisturbed(entry[1], entry[2])
             \/ entry \in Entries /\ InPlace(entry[1], entry[2])'
  <2>1. CASE source = a /\ entry = <<"pending", a>>
    <3>1. entry \in Entries /\ entry[1] = "pending" /\ entry[2] = a
      BY <2>1 DEF Entries
    <3>2. yieldSnapshot'[a] = -amount /\ yieldAccumulator' = 0 /\ file'.pending[a] = amount
      BY <1>1, <1>5, <2>1 DEF SeedingSound
    <3>. HIDE DEF amount
    <3>3. PendingYield(a)' = amount
      <4>1. (0 > -amount => 0 - (-amount) = amount) /\ (~(0 > -amount) => amount = 0)
        BY <1>1
      <4>2. PendingYield(a)' = IF 0 > -amount THEN 0 - (-amount) ELSE 0
        BY <3>2 DEF PendingYield
      <4>. QED  BY <4>1, <4>2
    <3>. QED  BY <3>1, <3>2, <3>3 DEF InPlace
  <2>2. CASE entry \in seeded /\ entry # <<"pending", a>> /\ entry = <<entry[1], entry[2]>>
    <3>1. entry[1] = "pending" => entry[2] # a
      BY <2>2
    <3>2. entry[1] = "pending" => yieldSnapshot'[entry[2]] = yieldSnapshot[entry[2]]
      BY <1>1, <1>5, <3>1
    <3>. QED  BY <1>5, <2>2, <3>2 DEF Undisturbed
  <2>. QED  BY <2>1, <2>2, NotedEntries
<1>. QED  BY <1>2, <1>3, <1>4, <1>5, <1>6, SeededStep DEF Counted

(* A name is seeded: no other row has it.                                    *)
LEMMA NameSeeded ==
    ASSUME SeedingSound, NEW caller, NEW a \in NamedRows,
           SeedName(caller, a, file.name[a]), seeded' = seeded \cup {<<"name", a>>},
           Listed, UNCHANGED <<export, file>>
    PROVE  SeedingSound'
<1>. DEFINE name == file.name[a]
<1>1. /\ a \in Accounts /\ name \in Names /\ \A b \in NamedRows : file.name[b] \in Names
      /\ nameOwner \in [Names -> Accounts \cup {NoAccount}]
      /\ nameOf \in [Accounts -> Names \cup {NoName}]
  BY DEF SeedingSound, FileSound, NamedRows, HandoverTypes, FileRecords, TypeOK,
         RegistryTypes
<1>2. TypeOK'
  BY <1>1, SeedNameTyped DEF SeedingSound
<1>3. MembershipCounts' /\ StakesAddUp'
  BY CountsFrame DEF SeedingSound, SeedName, StakesAddUp, stakeVars
<1>4. export' \in ExportRecords
  BY DEF SeedingSound, HandoverTypes
<1>5. /\ nameOwner' = [nameOwner EXCEPT ![name] = a]
      /\ nameOf' = [nameOf EXCEPT ![a] = name]
      /\ UNCHANGED <<members, stakes, yieldAccumulator, yieldSnapshot, loans, documents,
                     file>>
  BY DEF SeedName, memberVars, stakeVars, yieldVars, loanVars
<1>6. ASSUME NEW entry \in seeded'
      PROVE  \/ entry \in seeded /\ Undisturbed(entry[1], entry[2])
             \/ entry \in Entries /\ InPlace(entry[1], entry[2])'
  <2>1. CASE entry = <<"name", a>>
    <3>1. entry \in Entries /\ entry[1] = "name" /\ entry[2] = a
      BY <2>1 DEF Entries
    <3>2. nameOf'[a] = file'.name[a] /\ nameOwner'[nameOf'[a]] = a
      BY <1>1, <1>5
    <3>. QED  BY <3>1, <3>2 DEF InPlace
  <2>2. CASE entry # <<"name", a>>
    <3>1. entry \in seeded /\ entry \in Entries
      BY <1>6, <2>2 DEF SeedingSound
    <3>2. entry = <<entry[1], entry[2]>> /\ (entry[1] = "name" => entry[2] \in NamedRows)
      BY <3>1, EntryKinds
    <3>3. ASSUME entry[1] = "name"
          PROVE  LET b == entry[2]
                 IN  nameOf'[b] = nameOf[b] /\ nameOwner'[nameOf[b]] = nameOwner[nameOf[b]]
      <4>. DEFINE b == entry[2]
      <4>1. b # a /\ b \in NamedRows
        BY <2>2, <3>2, <3>3
      <4>2. InPlace("name", b)
        BY <3>1, <3>3 DEF SeedingSound
      <4>3. nameOf[b] = file.name[b]
        BY <4>2 DEF InPlace
      <4>4. file.name[b] # name
        BY <4>1 DEF SeedingSound, FileSound
      <4>. QED  BY <1>1, <1>5, <4>1, <4>3, <4>4
    <3>. QED  BY <1>5, <3>1, <3>3 DEF Undisturbed
  <2>. QED  BY <2>1, <2>2
<1>. QED  BY <1>2, <1>3, <1>4, <1>5, <1>6, SeededStep DEF Counted

(* A loan is seeded.                                                         *)
LEMMA LoanSeeded ==
    ASSUME SeedingSound, NEW caller, NEW id \in FiledLoans,
           SeedLoan(caller, id, file.loans[id]), seeded' = seeded \cup {<<"loan", id>>},
           Listed, UNCHANGED <<export, file>>
    PROVE  SeedingSound'
<1>1. /\ id \in LoanIds /\ file.loans[id] \in LoanRecords
      /\ loans \in [LoanIds -> LoanRecords]
  BY DEF SeedingSound, FiledLoans, HandoverTypes, FileRecords, TypeOK, LoanTypes
<1>2. TypeOK'
  BY <1>1, SeedLoanTyped DEF SeedingSound
<1>3. MembershipCounts' /\ StakesAddUp'
  BY CountsFrame DEF SeedingSound, SeedLoan, StakesAddUp, stakeVars
<1>4. export' \in ExportRecords
  BY DEF SeedingSound, HandoverTypes
<1>5. /\ loans' = [loans EXCEPT ![id] = file.loans[id]]
      /\ UNCHANGED <<members, stakes, yieldAccumulator, yieldSnapshot, nameOf, nameOwner,
                     documents, file>>
  BY DEF SeedLoan, memberVars, stakeVars, yieldVars, registryVars
<1>6. ASSUME NEW entry \in seeded'
      PROVE  \/ entry \in seeded /\ Undisturbed(entry[1], entry[2])
             \/ entry \in Entries /\ InPlace(entry[1], entry[2])'
  <2>1. CASE entry = <<"loan", id>>
    <3>1. entry \in Entries /\ entry[1] = "loan" /\ entry[2] = id
      BY <2>1 DEF Entries
    <3>2. loans'[id] = file'.loans[id]
      BY <1>1, <1>5
    <3>. QED  BY <3>1, <3>2 DEF InPlace
  <2>2. CASE entry # <<"loan", id>>
    <3>1. entry \in seeded /\ entry = <<entry[1], entry[2]>>
      BY <1>6, <2>2, EntryKinds DEF SeedingSound
    <3>2. entry[1] = "loan" => loans'[entry[2]] = loans[entry[2]]
      BY <1>1, <1>5, <2>2, <3>1
    <3>. QED  BY <1>5, <3>1, <3>2 DEF Undisturbed
  <2>. QED  BY <2>1, <2>2
<1>. QED  BY <1>2, <1>3, <1>4, <1>5, <1>6, SeededStep DEF Counted

(* A document's hash is seeded.                                              *)
LEMMA DocumentSeeded ==
    ASSUME SeedingSound, NEW caller, NEW doc \in FiledDocuments,
           SeedDocument(caller, doc, file.documents[doc]),
           seeded' = seeded \cup {<<"document", doc>>}, Listed, UNCHANGED <<export, file>>
    PROVE  SeedingSound'
<1>1. /\ doc \in DocumentKeys /\ file.documents[doc] \in Hashes
      /\ documents \in [DocumentKeys -> Hashes \cup {NoHash}]
  BY DEF SeedingSound, FiledDocuments, HandoverTypes, FileRecords, TypeOK, DocumentTypes
<1>2. TypeOK'
  BY <1>1, SeedDocumentTyped DEF SeedingSound
<1>3. MembershipCounts' /\ StakesAddUp'
  BY CountsFrame DEF SeedingSound, SeedDocument, StakesAddUp, stakeVars
<1>4. export' \in ExportRecords
  BY DEF SeedingSound, HandoverTypes
<1>5. /\ documents' = [documents EXCEPT ![doc] = file.documents[doc]]
      /\ UNCHANGED <<members, stakes, yieldAccumulator, yieldSnapshot, nameOf, nameOwner,
                     loans, file>>
  BY DEF SeedDocument, memberVars, stakeVars, yieldVars, registryVars
<1>6. ASSUME NEW entry \in seeded'
      PROVE  \/ entry \in seeded /\ Undisturbed(entry[1], entry[2])
             \/ entry \in Entries /\ InPlace(entry[1], entry[2])'
  <2>1. CASE entry = <<"document", doc>>
    <3>1. entry \in Entries /\ entry[1] = "document" /\ entry[2] = doc
      BY <2>1 DEF Entries
    <3>2. documents'[doc] = file'.documents[doc]
      BY <1>1, <1>5
    <3>. QED  BY <3>1, <3>2 DEF InPlace
  <2>2. CASE entry # <<"document", doc>>
    <3>1. entry \in seeded /\ entry = <<entry[1], entry[2]>>
      BY <1>6, <2>2, EntryKinds DEF SeedingSound
    <3>2. entry[1] = "document" => documents'[entry[2]] = documents[entry[2]]
      BY <1>1, <1>5, <2>2, <3>1
    <3>. QED  BY <1>5, <3>1, <3>2 DEF Undisturbed
  <2>. QED  BY <2>1, <2>2
<1>. QED  BY <1>2, <1>3, <1>4, <1>5, <1>6, SeededStep DEF Counted

(* The seeding is locked.                                                    *)
LEMMA LockKeeps ==
    ASSUME SeedingSound, NEW caller, LockSeeding(caller), Listed,
           UNCHANGED <<export, file, seeded>>
    PROVE  SeedingSound'
<1>1. TypeOK'
  BY LockSeedingTyped DEF SeedingSound
<1>2. MembershipCounts' /\ StakesAddUp'
  BY CountsFrame DEF SeedingSound, LockSeeding, StakesAddUp, stakeVars
<1>3. export' \in ExportRecords
  BY DEF SeedingSound, HandoverTypes
<1>4. UNCHANGED <<members, stakes, yieldAccumulator, yieldSnapshot, nameOf, nameOwner, loans,
                  documents>>
  BY DEF LockSeeding, memberVars, stakeVars, yieldVars, registryVars, loanVars
<1>5. \A entry \in seeded' : entry \in seeded /\ Undisturbed(entry[1], entry[2])
  BY <1>4 DEF Undisturbed
<1>. QED  BY <1>1, <1>2, <1>3, <1>4, <1>5, SeededStep DEF Counted

(* Somebody joins before all is in place: an address of no row, or of a row  *)
(* not seeded yet.                                                           *)
LEMMA JoinKeeps ==
    ASSUME SeedingSound, JoinEarly
    PROVE  SeedingSound'
<1>1. PICK m \in Accounts : /\ RegisterMember(m)
                            /\ seeded' = seeded \ {<<"member", m>>, <<"pending", m>>}
  BY DEF JoinEarly
<1>2. Listed /\ export' = [export EXCEPT !.calls = @ + 1] /\ file' = file
  BY DEF JoinEarly
<1>3. TypeOK' /\ MembershipCounts'
  BY <1>1, RegisterMemberTyped, RegisterMemberCounted DEF SeedingSound
<1>4. StakesAddUp'
  BY <1>1 DEF SeedingSound, RegisterMember, StakesAddUp, stakeVars
<1>5. export' \in ExportRecords
  BY <1>2 DEF SeedingSound, HandoverTypes, ExportRecords
<1>6. /\ members' = [members EXCEPT ![m] = Joined(m)]
      /\ yieldSnapshot' = [yieldSnapshot EXCEPT ![m] = SnapshotOnJoining(m)]
      /\ UNCHANGED <<stakes, yieldAccumulator, nameOf, nameOwner, loans, documents>>
      /\ members \in [Accounts -> MemberRecords] /\ yieldSnapshot \in [Accounts -> Int]
  BY <1>1 DEF RegisterMember, stakeVars, registryVars, loanVars, SeedingSound, TypeOK,
              MemberTypes, YieldTypes
<1>7. ASSUME NEW entry \in seeded'
      PROVE  entry \in seeded /\ Undisturbed(entry[1], entry[2])
  <2>1. /\ entry \in seeded /\ entry = <<entry[1], entry[2]>>
        /\ entry # <<"member", m>> /\ entry # <<"pending", m>>
    BY <1>1, <1>7, EntryKinds DEF SeedingSound
  <2>2. /\ entry[1] = "member" => members'[entry[2]] = members[entry[2]]
        /\ entry[1] = "pending" => yieldSnapshot'[entry[2]] = yieldSnapshot[entry[2]]
    BY <1>6, <2>1
  <2>. QED  BY <1>6, <2>1, <2>2 DEF Undisturbed
<1>. QED  BY <1>2, <1>3, <1>4, <1>5, <1>6, <1>7, SeededStep DEF Counted

(* So a call of the admin who seeds keeps what is in place.                  *)
LEMMA SeedStep ==
    ASSUME SeedingSound, NEW caller, Seed(caller)
    PROVE  SeedingSound' /\ export'.step = export.step
<1>1. Listed /\ UNCHANGED file /\ export \in ExportRecords
  BY DEF Seed, SeedingSound, HandoverTypes
<1>2. CASE \E kind \in {"member", "stake", "pending"}, a \in Rows, source \in Rows :
             /\ SeedFrom(caller, kind, a, source)
             /\ RowNoted(kind, a, source)
  <2>1. PICK kind \in {"member", "stake", "pending"}, a \in Rows, source \in Rows :
             /\ SeedFrom(caller, kind, a, source)
             /\ RowNoted(kind, a, source)
    BY <1>2
  <2>2. SeedingSound'
    BY <1>1, <2>1, MemberRowSeeded, StakeRowSeeded, PendingRowSeeded DEF SeedFrom
  <2>3. export'.step = export.step
    BY <1>1, <2>1 DEF RowNoted, ExportRecords
  <2>. QED  BY <2>2, <2>3
<1>3. CASE \E a \in NamedRows : /\ SeedName(caller, a, file.name[a])
                                /\ seeded' = seeded \cup {<<"name", a>>}
                                /\ UNCHANGED export
  BY <1>1, <1>3, NameSeeded
<1>4. CASE \E id \in FiledLoans : /\ SeedLoan(caller, id, file.loans[id])
                                  /\ seeded' = seeded \cup {<<"loan", id>>}
                                  /\ UNCHANGED export
  BY <1>1, <1>4, LoanSeeded
<1>5. CASE \E key \in FiledDocuments : /\ SeedDocument(caller, key, file.documents[key])
                                       /\ seeded' = seeded \cup {<<"document", key>>}
                                       /\ UNCHANGED export
  BY <1>1, <1>5, DocumentSeeded
<1>6. CASE LockSeeding(caller) /\ UNCHANGED <<export, seeded>>
  BY <1>1, <1>6, LockKeeps
<1>. QED  BY <1>2, <1>3, <1>4, <1>5, <1>6 DEF Seed, RowNoted

-----------------------------------------------------------------------------
(* With all entries in place the new deployment stands where the old one     *)
(* stood.                                                                    *)
LEMMA SeedingIsRestored == SeedingSound => Restored
<1>. SUFFICES ASSUME SeedingSound, seeded = Entries, Registered = Rows
              PROVE  totalMembers = file.total /\ activeMembers = file.active
  BY DEF SeedingSound, Restored, StakesAddUp
<1>1. MembershipCounts /\ FileSound
  BY DEF SeedingSound
<1>2. ASSUME NEW a \in Rows PROVE members[a] = file.record[a]
  <2>1. <<"member", a>> \in seeded
    BY DEF Entries
  <2>2. InPlace("member", a)
    BY <2>1 DEF SeedingSound
  <2>. QED  BY <2>2 DEF InPlace
<1>3. ActiveMembers = {a \in Rows : file.record[a].status = "ActiveMember"}
  <2>1. \A a \in Accounts : IsActiveMember(a) => IsMember(a)
    BY DEF IsActiveMember, IsMember
  <2>2. ActiveMembers = {a \in Registered : members[a].status = "ActiveMember"}
    BY <2>1 DEF ActiveMembers, IsActiveMember, Registered
  <2>. QED  BY <1>2, <2>2
<1>. QED  BY <1>1, <1>3 DEF MembershipCounts, FileSound

(* Before and after the new deployment.                                      *)
HandoverSound ==
    IF export.step = "seeding" THEN SeedingSound ELSE ReadingSound

(* Every step of the hand-over keeps it, ...                                 *)
LEMMA HandoverStep == HandoverSound /\ [HandoverNext]_handoverVars => HandoverSound'
<1>. SUFFICES ASSUME HandoverSound, [HandoverNext]_handoverVars PROVE HandoverSound'
  OBVIOUS
<1>1. CASE Others
  BY <1>1, OthersStep DEF HandoverSound, Others
<1>2. CASE Export
  <2>1. ReadingSound
    <3>1. export.step # "seeding"
      BY <1>2 DEF Export, Begin, ReadCounts, ReadPage, ReadStake, ReadPendingYield, ReadName,
                  ReadLoan, ReadDocument, Abort, Reading
    <3>. QED  BY <3>1 DEF HandoverSound
  <2>2. export'.step # "seeding"
    <3>1. export \in ExportRecords
      BY <2>1 DEF ReadingSound, HandoverTypes
    <3>2. CASE Begin
      BY <3>2 DEF Begin, NotStarted
    <3>3. CASE ReadCounts
      BY <3>1, <3>3 DEF ReadCounts, Go, ExportRecords
    <3>4. CASE ReadPage
      BY <3>1, <3>4 DEF ReadPage, Go, ExportRecords
    <3>5. CASE ReadStake
      BY <3>1, <3>5 DEF ReadStake, Go, ExportRecords
    <3>6. CASE ReadPendingYield
      BY <3>1, <3>6 DEF ReadPendingYield, ExportRecords
    <3>7. CASE ReadName
      BY <3>1, <3>7 DEF ReadName, GoOn, ExportRecords
    <3>8. CASE ReadLoan
      BY <3>1, <3>8 DEF ReadLoan, Go, GoOn, ExportRecords
    <3>9. CASE \E kind \in {"Loan", "Treasury"} : ReadDocument(kind)
      BY <3>1, <3>9 DEF ReadDocument, Go, GoOn, ExportRecords
    <3>10. CASE Abort
      BY <3>10 DEF Abort, NotStarted
    <3>. QED  BY <1>2, <3>2, <3>3, <3>4, <3>5, <3>6, <3>7, <3>8, <3>9, <3>10 DEF Export
  <2>. QED  BY <1>2, <2>1, <2>2, ExportStep DEF HandoverSound
<1>3. CASE Redeploy
  BY <1>3, RedeployStep DEF HandoverSound, Redeploy
<1>4. CASE JoinEarly
  <2>1. SeedingSound /\ export \in ExportRecords
    BY <1>4 DEF HandoverSound, JoinEarly, SeedingSound, HandoverTypes
  <2>2. export'.step = "seeding"
    BY <1>4, <2>1 DEF JoinEarly, ExportRecords
  <2>. QED  BY <1>4, <2>1, <2>2, JoinKeeps DEF HandoverSound
<1>5. CASE \E caller \in Migrators : Seed(caller)
  BY <1>5, SeedStep DEF HandoverSound, Seed
<1>6. CASE UNCHANGED handoverVars
  <2>1. UNCHANGED <<vars, memberList, export, file, seeded>>
    BY <1>6 DEF handoverVars
  <2>2. InUse => InUse'
    BY <2>1, InUseStep
  <2>3. ReadingSound => ReadingSound'
    BY <2>1, <2>2
       DEF ReadingSound, HandoverTypes, ListTrue, PagesRead, CalmFile, RowsFaithful, RowRead,
           EntriesFaithful, LoanRead, DocumentRead, PendingYield, Registered, IsMember,
           vars, adminVars, memberVars, yieldVars, stakeVars, loanVars, treasuryVars,
           registryVars
  <2>4. SeedingSound => SeedingSound'
    <3>1. SUFFICES ASSUME SeedingSound PROVE SeedingSound'
      OBVIOUS
    <3>2. TypeOK'
      BY <2>1, <3>1, Frame DEF SeedingSound, TypeOK, vars
    <3>3. MembershipCounts' /\ StakesAddUp'
      BY <2>1, <3>1, CountsFrame DEF SeedingSound, StakesAddUp, vars, stakeVars
    <3>4. UNCHANGED <<members, stakes, yieldAccumulator, yieldSnapshot, nameOf, nameOwner,
                      loans, documents>>
      BY <2>1 DEF vars, memberVars, yieldVars, stakeVars, registryVars, loanVars
    <3>5. HandoverTypes' /\ FileSound'
      BY <2>1, <3>1 DEF SeedingSound, HandoverTypes, FileSound, Rows, NamedRows
    <3>6. seeded' \subseteq Entries'
      BY <2>1, <3>1 DEF SeedingSound, Entries, Rows, NamedRows, FiledLoans, FiledDocuments
    <3>7. \A entry \in seeded' : InPlace(entry[1], entry[2])'
      BY <2>1, <3>1, <3>4 DEF SeedingSound, InPlace, PendingYield
    <3>. QED  BY <3>1, <3>2, <3>3, <3>4, <3>5, <3>6, <3>7 DEF SeedingSound
  <2>. QED  BY <2>1, <2>3, <2>4 DEF HandoverSound
<1>. QED  BY <1>1, <1>2, <1>3, <1>4, <1>5, <1>6 DEF HandoverNext

(* ... and it holds at first.                                                *)
LEMMA HandoverStart == HandoverInit => HandoverSound
<1>. SUFFICES ASSUME HandoverInit PROVE HandoverSound
  OBVIOUS
<1>1. /\ Init /\ memberList = <<>> /\ export = NotStarted /\ file = NoFile /\ seeded = {}
  BY DEF HandoverInit
<1>2. InUse
  BY <1>1, InUseInit
<1>3. NotStarted \in ExportRecords /\ NotStarted.step = "idle" /\ NotStarted.calm = FALSE
  BY DEF NotStarted, ExportRecords
<1>4. NoFile \in FileRecords
  <2>1. NoMember \in MemberRecords /\ NoLoan \in LoanRecords
    BY DEF NoMember, NoLoan, MemberRecords, LoanRecords, MemberStatuses, LoanStatuses
  <2>2. <<>> \in Seq(Accounts) /\ <<>> \in Seq(AdminAccounts)
    OBVIOUS
  <2>. QED  BY <2>1, <2>2 DEF NoFile, FileRecords
<1>5. HandoverTypes
  BY <1>1, <1>3, <1>4 DEF HandoverTypes
<1>6. ListTrue
  <2>1. Registered = {}
    BY <1>1 DEF Init, Registered, IsMember, NoMember
  <2>2. Range(memberList) = {}
    BY <1>1 DEF Range
  <2>. QED  BY <1>1, <2>1, <2>2 DEF ListTrue
<1>7. PagesRead /\ CalmFile
  BY <1>1, <1>3 DEF PagesRead, CalmFile, Reading
<1>. QED  BY <1>1, <1>2, <1>3, <1>5, <1>6, <1>7 DEF ReadingSound, HandoverSound

(* The inductive invariant of the hand-over.                                 *)
THEOREM HandoverInvariant == HandoverSpec => []HandoverSound
  BY HandoverStart, HandoverStep, PTL DEF HandoverSpec

(* Every member on the list when the total was read is in the export         *)
(* exactly once, whatever page size is used and whoever joins while the      *)
(* pages are read.                                                           *)
THEOREM PagesAreAlwaysWhole == HandoverSpec => []PagesWhole
<1>1. HandoverSound => PagesWhole
  BY PagesAreWhole DEF HandoverSound, PagesWhole
<1>. QED  BY <1>1, HandoverInvariant, PTL

(* A finished export of a contract that was paused throughout is one state   *)
(* of it, although every view was a read of its own.                         *)
THEOREM FileIsAlwaysWhole == HandoverSpec => []FileWhole
<1>1. HandoverSound => FileWhole
  BY FileIsWhole DEF HandoverSound, FileWhole
<1>. QED  BY <1>1, HandoverInvariant, PTL

(* Once every entry was last sent as it is in the export the new deployment  *)
(* has the old one's members, counts, stakes, claims, names, loans and       *)
(* documents, in whatever order they were sent, however often, and whatever  *)
(* wrong entries came before.                                                *)
THEOREM HandoverRestores == HandoverSpec => []Restored
<1>1. HandoverSound => Restored
  BY SeedingIsRestored DEF HandoverSound, Restored
<1>. QED  BY <1>1, HandoverInvariant, PTL

-----------------------------------------------------------------------------
(* The keeper.                                                               *)

(* No more ids are handed out than there are, and no more tokens come in.    *)
WithinBounds ==
    /\ nextProposalId <= MaxLoanProposals /\ nextTreasuryId <= MaxTreasuryProposals
    /\ \A asset \in Assets : balance[asset] <= Supply

(* What a run knows.                                                         *)
Runs == [pass : 0 .. 3, count : Nat, id : Nat, due : BOOLEAN, time : Nat, grace : Nat,
         reliable : BOOLEAN]

(* A run looks at no id past the ids handed out, whatever was requested      *)
(* since it counted them.                                                    *)
RunInRange ==
    /\ run \in Runs
    /\ run.pass = 0 => run = Idle
    /\ run.count <= Count(run.pass)
    /\ run.due => run.id < run.count

(* Ids are only ever added, and tokens within the supply.                    *)
LEMMA BoundsStep ==
    ASSUME TypeOK, WithinBounds, [Operate]_vars
    PROVE  /\ WithinBounds'
           /\ nextProposalId' >= nextProposalId /\ nextTreasuryId' >= nextTreasuryId
<1>1. nextProposalId \in Nat /\ nextTreasuryId \in Nat
  BY DEF TypeOK, LoanTypes, TreasuryTypes
<1>2. \/ UNCHANGED nextProposalId
      \/ nextProposalId < MaxLoanProposals /\ nextProposalId' = nextProposalId + 1
  <2>1. CASE LoanBallotCall
    BY <2>1 DEF LoanBallotCall, RequestLoanInAsset, EditLoanProposal, CancelLoanProposal,
                VoteOnLoanProposal, VoteBatch, DisburseApprovedLoan, ExpireLoanProposal
  <2>2. CASE ~ LoanBallotCall
    BY <2>2, LoanSteps DEF loanVars, RepayAmount, MarkLoanDefaulted
  <2>. QED  BY <2>1, <2>2
<1>3. \/ UNCHANGED nextTreasuryId
      \/ nextTreasuryId < MaxTreasuryProposals /\ nextTreasuryId' = nextTreasuryId + 1
  <2>1. CASE Tick \/ \E asset \in Assets, amount \in DonationAmounts : Donate(asset, amount)
    BY <2>1 DEF Tick, Donate, treasuryVars
  <2>2. CASE \E m \in Accounts : MembershipCall(m)
    BY <2>2 DEF MembershipCall, RegisterMember, ExitDao, ClaimRewards, DelegateVote,
                Stake, Unstake, treasuryVars
  <2>3. CASE \E m \in Accounts : LoanCall(m)
    <3>1. PICK m \in Accounts : LoanCall(m)
      BY <2>3
    <3>2. CASE LoanBallotCall
      BY <3>2, LoanBallotFrame DEF treasuryVars
    <3>3. CASE ~ LoanBallotCall
      <4>1. \E id \in LoanIds :
               \/ \E amount \in RepaymentAmounts : RepayLoanPartial(m, id, amount)
               \/ RepayLoan(m, id)
               \/ \E asset \in Assets : RepayLoanInAsset(m, id, asset)
        BY <3>1, <3>3 DEF LoanCall, LoanBallotCall
      <4>2. \E id \in LoanIds : \E amount : RepayAmount(m, id, amount)
        BY <4>1 DEF RepayLoanPartial, RepayLoan, RepayLoanInAsset
      <4>. QED  BY <4>2 DEF RepayAmount, treasuryVars
    <3>. QED  BY <3>2, <3>3
  <2>4. CASE \E m \in Accounts : TreasuryCall(m)
    BY <2>4 DEF TreasuryCall, ProposeWithdrawalInAsset, VoteOnTreasuryProposal, CommitVote,
                RevealVote, CancelTreasuryProposal
  <2>5. CASE \E m \in Accounts : RegistryCall(m)
    BY <2>5 DEF RegistryCall, RegisterName, AttachDocument, treasuryVars
  <2>6. CASE PublicCall
    BY <2>6 DEF PublicCall, DisburseApprovedLoan, ExpireLoanProposal, MarkLoanDefaulted,
                ExecuteTreasuryProposal, ExpireTreasuryProposal, treasuryVars
  <2>7. CASE \E caller \in Governors : AdminCall(caller)
    <3>1. AdminFrame
      BY <2>7 DEF AdminCall, AddAdmin, RemoveAdmin, SetPauser, RevokePauser,
           SetConsensusThreshold, Pause, Unpause, ProposePolicyUpdate,
           ExecutePolicyUpdate, CancelPolicyUpdate, ProposeTokenAddition,
           ExecuteTokenAddition, RemoveToken
    <3>. QED  BY <3>1 DEF AdminFrame, treasuryVars
  <2>8. CASE UNCHANGED vars
    BY <2>8 DEF vars, treasuryVars
  <2>. QED  BY <2>1, <2>2, <2>3, <2>4, <2>5, <2>6, <2>7, <2>8 DEF Operate
<1>4. \A asset \in Assets : balance'[asset] <= Supply
  <2>1. CASE Operate
    BY <2>1 DEF Operate
  <2>2. CASE UNCHANGED vars
    BY <2>2 DEF WithinBounds, vars
  <2>. QED  BY <2>1, <2>2
<1>. QED  BY <1>1, <1>2, <1>3, <1>4, BoundsAssumption DEF WithinBounds

(* What the keeper submits, anyone may call.                                 *)
LEMMA SubmitIsACall ==
    ASSUME TypeOK, WithinBounds, RunInRange, Submit
    PROVE  Operate
<1>1. /\ run.id \in Nat /\ run.id < Count(run.pass) /\ run.pass \in 1 .. 3
      /\ Call(run.pass, run.id)
  <2>1. run.due = TRUE /\ Idle.due = FALSE
    BY DEF Submit, RunInRange, Runs, Idle
  <2>. QED  BY <2>1 DEF Submit, RunInRange, Runs, Idle, Count, TypeOK, LoanTypes, TreasuryTypes
<1>2. PublicCall /\ UNCHANGED balance
  <2>1. CASE run.pass = TreasuryExpiryPass
    <3>1. ExpireTreasuryProposal(run.id) /\ run.id < nextTreasuryId
      BY <1>1, <2>1 DEF Call, Count, DefaultPass, LoanExpiryPass, TreasuryExpiryPass
    <3>2. run.id \in TreasuryIds
      BY <1>1, <3>1, BoundsAssumption DEF WithinBounds, TreasuryIds, TypeOK, TreasuryTypes
    <3>. QED  BY <3>1, <3>2 DEF PublicCall, ExpireTreasuryProposal
  <2>2. CASE run.pass # TreasuryExpiryPass
    <3>1. /\ MarkLoanDefaulted(run.id) \/ ExpireLoanProposal(run.id)
          /\ run.id < nextProposalId
      <4>1. run.pass = DefaultPass \/ run.pass = LoanExpiryPass
        BY <1>1, <2>2 DEF DefaultPass, LoanExpiryPass, TreasuryExpiryPass
      <4>2. CASE run.pass = DefaultPass
        BY <1>1, <2>2, <4>2 DEF Call, Count
      <4>3. CASE run.pass = LoanExpiryPass
        BY <1>1, <2>2, <4>3 DEF Call, Count, DefaultPass, LoanExpiryPass
      <4>. QED  BY <4>1, <4>2, <4>3
    <3>2. run.id \in LoanIds
      BY <1>1, <3>1, BoundsAssumption DEF WithinBounds, LoanIds, TypeOK, LoanTypes
    <3>. QED  BY <3>1, <3>2 DEF PublicCall, MarkLoanDefaulted, ExpireLoanProposal
  <2>. QED  BY <2>1, <2>2
<1>. QED  BY <1>2 DEF Operate, WithinBounds

(* What a run that ends up as r has to satisfy.                              *)
Counts(r, loansCounted, withdrawalsCounted) ==
    /\ r \in Runs
    /\ r.pass = 0 => r = Idle
    /\ r.count <= IF r.pass = TreasuryExpiryPass THEN withdrawalsCounted ELSE loansCounted
    /\ r.due => r.id < r.count

(* A run in range is one of the counters as they are.                        *)
LEMMA RangeIsCounted ==
    /\ RunInRange <=> Counts(run, nextProposalId, nextTreasuryId)
    /\ RunInRange' <=> Counts(run', nextProposalId', nextTreasuryId')
  BY DEF RunInRange, Counts, Count

(* The run stays among the ids it counted, whatever the others do, and so    *)
(* with each step of the run.                                                *)
LEMMA SweepsKeepRange ==
    ASSUME TypeOK, TypeOK', WithinBounds, RunInRange,
           nextProposalId' >= nextProposalId, nextTreasuryId' >= nextTreasuryId,
           \/ (\E reliable \in BOOLEAN : Start(reliable)) \/ Sweep \/ CutShort
           \/ UNCHANGED run
    PROVE  RunInRange'
<1>. DEFINE l == nextProposalId  t == nextTreasuryId
            l2 == nextProposalId'  t2 == nextTreasuryId'
<1>1. /\ l \in Nat /\ t \in Nat /\ l2 \in Nat /\ t2 \in Nat /\ l2 >= l /\ t2 >= t
      /\ Counts(run, l, t)
  BY RangeIsCounted DEF TypeOK, LoanTypes, TreasuryTypes
<1>2. Idle \in Runs /\ Counts(Idle, l2, t2)
  BY <1>1 DEF Counts, Idle, Runs, TreasuryExpiryPass
<1>. SUFFICES Counts(run', l2, t2)
  BY RangeIsCounted
<1>3. CASE \E reliable \in BOOLEAN : Start(reliable)
  <2>1. PICK reliable \in BOOLEAN : Start(reliable)
    BY <1>3
  <2>2. PICK ahead \in 0 .. Skew :
          run' = [pass |-> DefaultPass, count |-> Count(DefaultPass), id |-> 0,
                  due |-> FALSE, time |-> now + ahead,
                  grace |-> policy.default_grace_period, reliable |-> reliable]
    BY <2>1 DEF Start
  <2>3. now + ahead \in Nat /\ policy.default_grace_period \in Nat
    BY SkewAssumption DEF TypeOK, WorldTypes, AdminTypes, PolicyRecords
  <2>4. Count(DefaultPass) = l /\ DefaultPass \in 1 .. 2
    BY DEF Count, DefaultPass, TreasuryExpiryPass
  <2>. HIDE DEF l, t, l2, t2
  <2>. QED  BY <1>1, <2>2, <2>3, <2>4 DEF Counts, Runs, TreasuryExpiryPass
<1>4. CASE Look
  <2>1. /\ run # Idle /\ ~run.due /\ run.id < run.count
        /\ \/ run' = [run EXCEPT !.due = TRUE]
           \/ run' = [run EXCEPT !.id = @ + 1]
    BY <1>4 DEF Look, More
  <2>2. run \in Runs /\ run.id \in Nat
    BY <1>1 DEF Counts, Runs
  <2>3. /\ run' \in Runs /\ run'.pass = run.pass /\ run'.count = run.count
        /\ run'.due => run'.id = run.id
    <3>. DEFINE next == run.id + 1
    <3>1. next \in Nat /\ (run' = [run EXCEPT !.due = TRUE] \/ run' = [run EXCEPT !.id = next])
      BY <2>1, <2>2
    <3>. HIDE DEF next
    <3>2. CASE run' = [run EXCEPT !.due = TRUE]
      BY <2>2, <3>2 DEF Runs
    <3>3. CASE run' = [run EXCEPT !.id = next]
      <4>1. run' \in Runs /\ run'.pass = run.pass /\ run'.count = run.count
        BY <2>2, <3>1, <3>3 DEF Runs
      <4>2. run'.due = run.due
        BY <2>2, <3>1, <3>3 DEF Runs
      <4>. QED  BY <2>1, <4>1, <4>2
    <3>. QED  BY <3>1, <3>2, <3>3
  <2>4. run.pass # 0
    BY <1>1, <2>1 DEF Counts
  <2>. HIDE DEF l, t, l2, t2
  <2>. QED  BY <1>1, <2>1, <2>2, <2>3, <2>4 DEF Counts, Runs, TreasuryExpiryPass
<1>5. CASE Submit \/ Fail
  <2>1. run.due /\ run' = [run EXCEPT !.due = FALSE, !.id = @ + 1]
    BY <1>5 DEF Submit, Fail
  <2>2. run.pass # 0
    BY <1>1, <2>1 DEF Counts, Idle
  <2>3. run \in Runs /\ run.id \in Nat
    BY <1>1 DEF Counts, Runs
  <2>4. run' \in Runs /\ run'.pass = run.pass /\ run'.count = run.count /\ ~run'.due
    <3>. DEFINE next == run.id + 1
    <3>1. next \in Nat /\ run' = [run EXCEPT !.due = FALSE, !.id = next]
      BY <2>1, <2>3
    <3>. HIDE DEF next
    <3>2. /\ run' \in Runs /\ run'.pass = run.pass /\ run'.count = run.count
          /\ run'.due = FALSE
      BY <2>3, <3>1 DEF Runs
    <3>. QED  BY <3>2
  <2>. HIDE DEF l, t, l2, t2
  <2>. QED  BY <1>1, <2>2, <2>4 DEF Counts, Runs, TreasuryExpiryPass
<1>6. CASE Advance
  <2>1. CASE run.pass = TreasuryExpiryPass
    BY <1>2, <1>6, <2>1 DEF Advance
  <2>2. CASE run.pass # TreasuryExpiryPass
    <3>1. /\ run # Idle /\ ~run.due
          /\ run' = [run EXCEPT !.pass = @ + 1, !.id = 0, !.count = Count(run.pass + 1)]
      BY <1>6, <2>2 DEF Advance
    <3>2. Count(run.pass + 1) = IF run.pass + 1 = TreasuryExpiryPass THEN t ELSE l
      BY DEF Count
    <3>3. run \in Runs /\ run.pass # 0
      BY <1>1, <3>1 DEF Counts
    <3>4. run.pass + 1 \in 2 .. 3 /\ Count(run.pass + 1) \in Nat
      BY <1>1, <2>2, <3>2, <3>3 DEF Runs, TreasuryExpiryPass
    <3>5. /\ run' \in Runs /\ run'.pass = run.pass + 1
          /\ run'.count = Count(run.pass + 1) /\ ~run'.due
      <4>. DEFINE c == Count(run.pass + 1)  p == run.pass + 1
      <4>1. c \in Nat /\ p \in 0 .. 3
        BY <3>4
      <4>. HIDE DEF c, p
      <4>2. run' = [run EXCEPT !.pass = p, !.id = 0, !.count = c]
        BY <3>1 DEF c, p
      <4>3. run' \in Runs /\ run'.pass = p /\ run'.count = c /\ run'.due = run.due
        BY <3>3, <4>1, <4>2 DEF Runs
      <4>. QED  BY <3>1, <4>3 DEF c, p
    <3>. HIDE DEF l, t, l2, t2
    <3>. QED  BY <1>1, <3>2, <3>4, <3>5 DEF Counts, TreasuryExpiryPass
  <2>. QED  BY <2>1, <2>2
<1>7. CASE CutShort
  BY <1>2, <1>7 DEF CutShort
<1>8. CASE UNCHANGED run
  <2>. HIDE DEF l, t, l2, t2
  <2>. QED  BY <1>1, <1>8 DEF Counts, Runs, TreasuryExpiryPass
<1>. QED  BY <1>3, <1>4, <1>5, <1>6, <1>7, <1>8 DEF Sweep

(* The inductive invariant of the keeper: types and counts of the contract,  *)
(* and the run in range.                                                     *)
KeeperInv == CountsInv /\ WithinBounds /\ RunInRange

(* It is one, and each of the keeper's steps is a call or leaves the         *)
(* contract alone.                                                           *)
LEMMA KeeperStep ==
    ASSUME KeeperInv, [KeeperNext]_keeperVars
    PROVE  KeeperInv' /\ [Operate]_vars
<1>1. [Operate]_vars
  <2>1. CASE Submit
    BY <2>1, SubmitIsACall DEF KeeperInv, CountsInv
  <2>2. CASE (\E reliable \in BOOLEAN : Start(reliable)) \/ Look \/ Fail \/ Advance \/ CutShort
    BY <2>2 DEF Start, Look, Fail, Advance, CutShort
  <2>. QED  BY <2>1, <2>2 DEF KeeperNext, Sweep, keeperVars
<1>2. CountsInv'
  BY <1>1, CountsStep DEF KeeperInv, Next
<1>3. /\ WithinBounds'
      /\ nextProposalId' >= nextProposalId /\ nextTreasuryId' >= nextTreasuryId
  BY <1>1, BoundsStep DEF KeeperInv, CountsInv
<1>4. RunInRange'
  BY <1>2, <1>3, SweepsKeepRange DEF KeeperInv, CountsInv, KeeperNext, keeperVars
<1>. QED  BY <1>1, <1>2, <1>3, <1>4 DEF KeeperInv

(* It holds before the first run.                                            *)
LEMMA KeeperStart == KeeperInit => KeeperInv
<1>. SUFFICES ASSUME KeeperInit PROVE KeeperInv
  OBVIOUS
<1>1. CountsInv
  BY CountsInit DEF KeeperInit
<1>2. WithinBounds
  <2>1. /\ MaxLoanProposals \in Nat /\ MaxTreasuryProposals \in Nat /\ Supply \in Nat
    BY BoundsAssumption, InputsAssumption
  <2>2. /\ nextProposalId = 0 /\ nextTreasuryId = 0 /\ balance = [a \in Assets |-> 0]
    BY DEF KeeperInit, Init
  <2>. QED  BY <2>1, <2>2 DEF WithinBounds
<1>3. RunInRange
  BY DEF KeeperInit, Init, RunInRange, Runs, Idle, Count
<1>. QED  BY <1>1, <1>2, <1>3 DEF KeeperInv

(* The keeper does to the contract only what anyone may do: with its runs    *)
(* in progress, cut short or refused, the contract is still the one of       *)
(* OperatingSpec, and every theorem on that holds.                           *)
THEOREM KeeperOnlyCalls == KeeperSpec => OperatingSpec
<1>1. KeeperInit => KeeperInv /\ Init
  BY KeeperStart DEF KeeperInit
<1>2. KeeperInv /\ [KeeperNext]_keeperVars => KeeperInv' /\ [Operate]_vars
  BY KeeperStep
<1>. QED  BY <1>1, <1>2, PTL DEF KeeperSpec, OperatingSpec

(* A run never looks at or submits an id past those handed out.              *)
THEOREM KeeperStaysInRange == KeeperSpec => []RunInRange
<1>1. KeeperInit => KeeperInv
  BY KeeperStart
<1>2. KeeperInv /\ [KeeperNext]_keeperVars => KeeperInv'
  BY KeeperStep
<1>3. KeeperInv => RunInRange
  BY DEF KeeperInv
<1>. QED  BY <1>1, <1>2, <1>3, PTL DEF KeeperSpec
=============================================================================
