-------------------------- MODULE GovernanceProofs --------------------------
(***************************************************************************)
(* What members rely on administrators and the registry for. There is always *)
(* an administrator, and none is listed twice, so that a removal leaves no   *)
(* hidden copy. While the pause lasts nothing of a member's changes: every   *)
(* entrypoint of members, keepers and passers-by asks require_not_paused,    *)
(* and what is left are the administrators' calls, which have a frame of     *)
(* their own, the clock, and transfers to the contract. A name and its owner *)
(* point at each other. And admin.rs implements Timelock twice, for the      *)
(* policy and for each token, whatever else the contract does meanwhile; so  *)
(* the notice Timelock gives is given by the contract.                       *)
(***************************************************************************)
EXTENDS MembershipProofs, SequenceTheorems

-----------------------------------------------------------------------------
(* The list of administrators.                                               *)

(* Removing the entry at i moves those after it up by one.                   *)
LEMMA EntriesAfterRemoval ==
    ASSUME NEW list \in Seq(AdminAccounts), NEW i \in 1 .. Len(list)
    PROVE  LET rest == SubSeq(list, 1, i - 1) \o SubSeq(list, i + 1, Len(list))
           IN  /\ Len(rest) = Len(list) - 1
               /\ \A k \in 1 .. Len(list) - 1 :
                     rest[k] = IF k < i THEN list[k] ELSE list[k + 1]
<1>. DEFINE front == SubSeq(list, 1, i - 1)
            back == SubSeq(list, i + 1, Len(list))
<1>1. /\ front \in Seq(AdminAccounts) /\ Len(front) = i - 1
      /\ \A k \in 1 .. i - 1 : front[k] = list[k]
  BY SubSeqProperties
<1>2. /\ back \in Seq(AdminAccounts) /\ Len(back) = Len(list) - i
      /\ \A k \in 1 .. Len(list) - i : back[k] = list[i + k]
  <2>1. \A k \in i + 1 .. Len(list) : list[k] \in AdminAccounts
    OBVIOUS
  <2>2. i + 1 \in Int /\ Len(list) \in Int
    OBVIOUS
  <2>3. /\ back \in Seq(AdminAccounts)
        /\ Len(back) = IF i + 1 <= Len(list) THEN Len(list) - (i + 1) + 1 ELSE 0
        /\ \A k \in 1 .. Len(list) - (i + 1) + 1 : back[k] = list[(i + 1) + k - 1]
    BY <2>1, <2>2, SubSeqProperties
  <2>. HIDE DEF back
  <2>4. Len(list) - (i + 1) + 1 = Len(list) - i
    OBVIOUS
  <2>5. \A k \in 1 .. Len(list) - i : (i + 1) + k - 1 = i + k
    OBVIOUS
  <2>6. Len(back) = Len(list) - i
    <3>1. CASE i + 1 <= Len(list)
      BY <2>3, <2>4, <3>1
    <3>2. CASE i = Len(list)
      <4>1. Len(back) = 0
        BY <2>3, <3>2
      <4>. QED  BY <3>2, <4>1
    <3>. QED  BY <3>1, <3>2
  <2>7. \A k \in 1 .. Len(list) - i : back[k] = list[i + k]
    BY <2>3, <2>4, <2>5
  <2>. QED  BY <2>3, <2>6, <2>7
<1>. HIDE DEF front, back
<1>3. /\ Len(front \o back) = Len(front) + Len(back)
      /\ \A k \in 1 .. Len(front) + Len(back) :
            (front \o back)[k] = IF k <= Len(front) THEN front[k] ELSE back[k - Len(front)]
  BY <1>1, <1>2, ConcatProperties
<1>4. Len(front) + Len(back) = Len(list) - 1
  BY <1>1, <1>2
<1>5. ASSUME NEW k \in 1 .. Len(list) - 1
      PROVE  (front \o back)[k] = IF k < i THEN list[k] ELSE list[k + 1]
  <2>1. CASE k < i
    BY <1>1, <1>3, <1>4, <2>1
  <2>2. CASE k >= i
    <3>1. (front \o back)[k] = back[k - (i - 1)]
      BY <1>1, <1>3, <1>4, <2>2
    <3>2. k - (i - 1) \in 1 .. Len(list) - i /\ i + (k - (i - 1)) = k + 1
      BY <2>2
    <3>3. back[k - (i - 1)] = list[i + (k - (i - 1))]
      BY <1>2, <3>2
    <3>. QED  BY <2>2, <3>1, <3>2, <3>3
  <2>3. k < i \/ k >= i
    OBVIOUS
  <2>. QED  BY <2>1, <2>2, <2>3
<1>. QED  BY <1>3, <1>4, <1>5 DEF front, back

(* remove_admin asks for a second admin, and shortens the list by one.       *)
LEMMA RemoveAdminProper ==
    ASSUME TypeOK, AdminsProper, NEW caller, NEW admin, RemoveAdmin(caller, admin)
    PROVE  AdminsProper'
<1>1. admins \in Seq(AdminAccounts) /\ Len(admins) > 1
  BY DEF TypeOK, AdminTypes, RemoveAdmin, EnoughAdmins
<1>. DEFINE i == CHOOSE k \in 1 .. Len(admins) : admins[k] = admin
<1>2. i \in 1 .. Len(admins)
  <2>1. \E k \in 1 .. Len(admins) : admins[k] = admin
    BY DEF RemoveAdmin, IsAdmin
  <2>. QED  BY <2>1
<1>3. admins' = SubSeq(admins, 1, i - 1) \o SubSeq(admins, i + 1, Len(admins))
  <2>1. admins' = Without(admins, admin)
    BY DEF RemoveAdmin
  <2>. QED  BY <2>1, Zenon DEF Without
<1>. HIDE DEF i
<1>4. /\ Len(admins') = Len(admins) - 1
      /\ \A k \in 1 .. Len(admins) - 1 :
            admins'[k] = IF k < i THEN admins[k] ELSE admins[k + 1]
  <2>1. LET rest == SubSeq(admins, 1, i - 1) \o SubSeq(admins, i + 1, Len(admins))
        IN  /\ Len(rest) = Len(admins) - 1
            /\ \A k \in 1 .. Len(admins) - 1 :
                  rest[k] = IF k < i THEN admins[k] ELSE admins[k + 1]
    BY <1>1, <1>2, EntriesAfterRemoval, Zenon
  <2>. QED  BY <1>3, <2>1, Zenon
<1>5. admins' # <<>>
  BY <1>1, <1>4
<1>6. ASSUME NEW j \in 1 .. Len(admins'), NEW k \in 1 .. Len(admins'),
             admins'[j] = admins'[k]
      PROVE  j = k
  <2>. DEFINE old(n) == IF n < i THEN n ELSE n + 1
  <2>1. Len(admins) \in Nat /\ i \in Int
    BY <1>1, <1>2
  <2>2. /\ old(j) \in 1 .. Len(admins) /\ admins'[j] = admins[old(j)]
        /\ old(k) \in 1 .. Len(admins) /\ admins'[k] = admins[old(k)]
    BY <1>2, <1>4, <2>1
  <2>3. old(j) = old(k)
    <3>. HIDE DEF old
    <3>. QED  BY <1>6, <2>2 DEF AdminsProper
  <2>. QED  BY <2>1, <2>3
<1>. QED  BY <1>5, <1>6 DEF AdminsProper

(* add_admin refuses an admin already listed.                                *)
LEMMA AddAdminProper ==
    ASSUME TypeOK, AdminsProper, NEW caller, NEW admin, AddAdmin(caller, admin)
    PROVE  AdminsProper'
<1>1. admins \in Seq(AdminAccounts)
  BY DEF TypeOK, AdminTypes
<1>2. /\ admins' = Append(admins, admin)
      /\ \A i \in 1 .. Len(admins) : admins[i] # admin
  BY DEF AddAdmin, IsAdmin
<1>3. /\ Len(admins') = Len(admins) + 1
      /\ \A k \in 1 .. Len(admins') :
            admins'[k] = IF k <= Len(admins) THEN admins[k] ELSE admin
  BY <1>1, <1>2
<1>. QED  BY <1>1, <1>2, <1>3 DEF AdminsProper

(* Nothing else touches the list.                                            *)
LEMMA AdminsProperStep == TypeOK /\ AdminsProper /\ [Next]_vars => AdminsProper'
<1>. SUFFICES ASSUME TypeOK, AdminsProper, [Next]_vars PROVE AdminsProper'
  OBVIOUS
<1>1. ASSUME UNCHANGED admins PROVE AdminsProper'
  BY <1>1 DEF AdminsProper
<1>2. CASE \E caller \in Governors : AdminCall(caller)
  BY <1>1, <1>2, AddAdminProper, RemoveAdminProper
     DEF AdminCall, SetPauser, RevokePauser, SetConsensusThreshold, Pause, Unpause,
         ProposePolicyUpdate, ExecutePolicyUpdate, CancelPolicyUpdate,
         ProposeTokenAddition, ExecuteTokenAddition, RemoveToken, adminVars
<1>3. ASSUME NEW m \in Accounts, MembershipCall(m) PROVE UNCHANGED admins
  BY <1>3 DEF MembershipCall, RegisterMember, ExitDao, ClaimRewards, DelegateVote,
         Stake, Unstake, adminVars
<1>4. ASSUME NEW m \in Accounts, LoanCall(m) PROVE UNCHANGED admins
  BY <1>4 DEF LoanCall, RequestLoanInAsset, EditLoanProposal, CancelLoanProposal,
         VoteOnLoanProposal, VoteBatch, RepayLoanPartial, RepayLoan,
         RepayLoanInAsset, RepayAmount, adminVars
<1>5. ASSUME NEW m \in Accounts, TreasuryCall(m) PROVE UNCHANGED admins
  BY <1>5 DEF TreasuryCall, ProposeWithdrawalInAsset, VoteOnTreasuryProposal,
         CommitVote, RevealVote, CancelTreasuryProposal, adminVars
<1>6. ASSUME NEW m \in Accounts, RegistryCall(m) PROVE UNCHANGED admins
  BY <1>6 DEF RegistryCall, RegisterName, AttachDocument, adminVars
<1>7. ASSUME PublicCall PROVE UNCHANGED admins
  BY <1>7 DEF PublicCall, DisburseApprovedLoan, ExpireLoanProposal, MarkLoanDefaulted,
         ExecuteTreasuryProposal, ExpireTreasuryProposal, adminVars
<1>8. ASSUME NEW caller \in Migrators, MigrationCall(caller) PROVE UNCHANGED admins
  BY <1>8 DEF MigrationCall, SeedMember, SeedStake, SeedPendingYield, SeedName,
         SeedLoan, SeedDocument, LockSeeding, adminVars
<1>9. ASSUME Operate PROVE AdminsProper'
  BY <1>1, <1>2, <1>3, <1>4, <1>5, <1>6, <1>7, <1>9
     DEF Operate, Tick, Donate, adminVars
<1>10. ASSUME UNCHANGED vars PROVE AdminsProper'
  BY <1>1, <1>10 DEF vars, adminVars
<1>. QED  BY <1>1, <1>8, <1>9, <1>10 DEF Next, Migrate

(* Every deployment always has an admin, listed once (initialize,            *)
(* add_admin, remove_admin): nobody can lock the DAO out of its own          *)
(* governance, whatever order additions and removals come in.                *)
THEOREM AlwaysAnAdmin == Spec => []AdminsProper
<1>1. Init => AdminsProper
  BY DEF Init, AdminsProper
<1>. QED  BY <1>1, AdminsProperStep, TypeCorrect, PTL DEF Spec

-----------------------------------------------------------------------------
(* The pause.                                                                *)

(* What the pause holds still.                                               *)
Frozen ==
    /\ UNCHANGED <<memberVars, delegation, yieldVars, stakeVars, loanVars,
                   treasuryVars, registryVars, documents>>
    /\ \A asset \in Assets : balance'[asset] >= balance[asset]

(* Untouched holdings have not fallen.                                       *)
LEMMA HoldingsKept == TypeOK /\ balance' = balance
                        => \A asset \in Assets : balance'[asset] >= balance[asset]
  BY DEF TypeOK, WorldTypes

(* No call of a member, a keeper or a passer-by is taken during a pause.     *)
LEMMA PausedCalls ==
    ASSUME paused
    PROVE  /\ \A m \in Accounts : ~MembershipCall(m) /\ ~LoanCall(m)
                                    /\ ~TreasuryCall(m) /\ ~RegistryCall(m)
           /\ ~PublicCall
<1>1. ASSUME NEW m \in Accounts PROVE ~MembershipCall(m)
  BY DEF MembershipCall, RegisterMember, ExitDao, ClaimRewards, DelegateVote,
         Stake, Unstake, MemberCall
<1>2. ASSUME NEW m \in Accounts PROVE ~LoanCall(m)
  BY DEF LoanCall, RequestLoanInAsset, EditLoanProposal, CancelLoanProposal,
         VoteOnLoanProposal, VoteBatch, RepayLoanPartial, RepayLoan,
         RepayLoanInAsset, RepayAmount, MemberCall
<1>3. ASSUME NEW m \in Accounts PROVE ~TreasuryCall(m)
  BY DEF TreasuryCall, ProposeWithdrawalInAsset, VoteOnTreasuryProposal,
         CommitVote, RevealVote, CancelTreasuryProposal, MemberCall
<1>4. ASSUME NEW m \in Accounts PROVE ~RegistryCall(m)
  BY DEF RegistryCall, RegisterName, AttachDocument, MemberCall
<1>5. ~PublicCall
  BY DEF PublicCall, DisburseApprovedLoan, ExpireLoanProposal, MarkLoanDefaulted,
         ExecuteTreasuryProposal, ExpireTreasuryProposal
<1>. QED  BY <1>1, <1>2, <1>3, <1>4, <1>5

(* What can still happen then moves nothing of theirs.                       *)
LEMMA FrozenStep == ASSUME TypeOK, paused, [Operate]_vars PROVE Frozen
<1>1. CASE Tick
  BY <1>1, HoldingsKept DEF Tick, Frozen
<1>2. CASE \E asset \in Assets, amount \in DonationAmounts : Donate(asset, amount)
  <2>1. PICK asset \in Assets, amount \in DonationAmounts : Donate(asset, amount)
    BY <1>2
  <2>2. amount \in Nat
    BY InputsAssumption
  <2>3. \A a \in Assets : balance'[a] >= balance[a]
    BY <2>1, <2>2 DEF Donate, TypeOK, WorldTypes
  <2>. QED  BY <2>1, <2>3 DEF Donate, Frozen
<1>3. CASE \E caller \in Governors : AdminCall(caller)
  <2>1. AdminFrame
    BY <1>3 DEF AdminCall, AddAdmin, RemoveAdmin, SetPauser, RevokePauser,
         SetConsensusThreshold, Pause, Unpause, ProposePolicyUpdate,
         ExecutePolicyUpdate, CancelPolicyUpdate, ProposeTokenAddition,
         ExecuteTokenAddition, RemoveToken
  <2>. QED  BY <2>1, HoldingsKept DEF AdminFrame, Frozen
<1>4. CASE UNCHANGED vars
  BY <1>4, HoldingsKept DEF vars, Frozen
<1>. QED  BY <1>1, <1>2, <1>3, <1>4, PausedCalls DEF Operate

(* The pause stops every call of a member, keeper or passer-by: until an     *)
(* admin resumes, no record of theirs changes and no token leaves the        *)
(* contract, in every deployment set up by `initialize`.                     *)
THEOREM PauseIsAFreeze == OperatingSpec => PauseFreezes
<1>1. TypeOK /\ [Operate]_vars => [paused => Frozen]_vars
  BY FrozenStep
<1>2. [Operate]_vars => [Next]_vars
  BY DEF Next
<1>3. OperatingSpec => Spec
  BY <1>2, PTL DEF OperatingSpec, Spec
<1>4. OperatingSpec => [][paused => Frozen]_vars
  BY <1>1, <1>3, TypeCorrect, PTL DEF OperatingSpec
<1>. QED  BY <1>4 DEF PauseFreezes, Frozen

-----------------------------------------------------------------------------
(* The registry.                                                             *)

(* What leaves the registry alone and lets nobody go keeps it in order.      *)
LEMMA NamesFrame ==
    ASSUME NamesOneToOne, UNCHANGED registryVars,
           \A a \in Accounts : IsActiveMember(a) => members'[a].status = "ActiveMember"
    PROVE  NamesOneToOne'
BY DEF NamesOneToOne, ActiveMembers, IsActiveMember, registryVars

(* Renaming frees the old name and takes the new one.                        *)
LEMMA RegisterNameKeeps ==
    ASSUME TypeOK, NamesOneToOne, NEW m \in Accounts, NEW name \in Names,
           RegisterName(m, name)
    PROVE  NamesOneToOne'
<1>1. /\ nameOwner \in [Names -> Accounts \cup {NoAccount}]
      /\ nameOf \in [Accounts -> Names \cup {NoName}]
      /\ NoName \notin Names /\ NoAccount \notin Accounts
  BY AccountsAssumption, SentinelAssumption DEF TypeOK, RegistryTypes
<1>2. nameOwner[name] \in {NoAccount, m} /\ IsActiveMember(m) /\ members' = members
  BY DEF RegisterName, MemberCall, memberVars
<1>3. \A a \in Accounts : nameOf'[a] = IF a = m THEN name ELSE nameOf[a]
  BY <1>1 DEF RegisterName
<1>4. \A n \in Names :
         nameOwner'[n] = IF n = name THEN m
                         ELSE IF n = nameOf[m] THEN NoAccount ELSE nameOwner[n]
  BY <1>1 DEF RegisterName, OldNameFreed
<1>5. \A a \in Accounts, n \in Names : nameOwner[n] = a <=> nameOf[a] = n
  BY DEF NamesOneToOne
<1>6. ASSUME NEW a \in Accounts, NEW n \in Names
      PROVE  nameOwner'[n] = a <=> nameOf'[a] = n
  <2>1. CASE a = m
    BY <1>1, <1>3, <1>4, <1>5, <2>1
  <2>2. CASE a # m
    BY <1>1, <1>2, <1>3, <1>4, <1>5, <2>2
  <2>. QED  BY <2>1, <2>2
<1>7. ASSUME NEW n \in Names PROVE nameOwner'[n] \in ActiveMembers' \cup {NoAccount}
  BY <1>2, <1>4 DEF NamesOneToOne, ActiveMembers, IsActiveMember
<1>. QED  BY <1>6, <1>7 DEF NamesOneToOne

(* A leaver's name is free again.                                            *)
LEMMA ExitDaoKeepsNames ==
    ASSUME TypeOK, NamesOneToOne, NEW m \in Accounts, ExitDao(m)
    PROVE  NamesOneToOne'
<1>1. /\ nameOwner \in [Names -> Accounts \cup {NoAccount}]
      /\ nameOf \in [Accounts -> Names \cup {NoName}]
      /\ NoName \notin Names /\ NoAccount \notin Accounts
      /\ members \in [Accounts -> MemberRecords]
  BY AccountsAssumption, SentinelAssumption DEF TypeOK, RegistryTypes, MemberTypes
<1>2. \A a \in Accounts \ {m} : members'[a] = members[a]
  BY <1>1 DEF ExitDao
<1>3. \A a \in Accounts : nameOf'[a] = IF a = m THEN NoName ELSE nameOf[a]
  BY <1>1 DEF ExitDao, ReleaseName
<1>4. \A n \in Names : nameOwner'[n] = IF n = nameOf[m] THEN NoAccount ELSE nameOwner[n]
  BY <1>1 DEF ExitDao, ReleaseName
<1>5. \A a \in Accounts, n \in Names : nameOwner[n] = a <=> nameOf[a] = n
  BY DEF NamesOneToOne
<1>6. ASSUME NEW a \in Accounts, NEW n \in Names
      PROVE  nameOwner'[n] = a <=> nameOf'[a] = n
  BY <1>1, <1>3, <1>4, <1>5
<1>7. ASSUME NEW n \in Names PROVE nameOwner'[n] \in ActiveMembers' \cup {NoAccount}
  <2>1. nameOwner'[n] # m
    BY <1>1, <1>4, <1>5
  <2>2. nameOwner'[n] \in ActiveMembers \cup {NoAccount}
    BY <1>4 DEF NamesOneToOne
  <2>. QED  BY <1>2, <2>1, <2>2 DEF ActiveMembers, IsActiveMember
<1>. QED  BY <1>6, <1>7 DEF NamesOneToOne

(* Every call keeps the registry in order.                                   *)
LEMMA NamesStep == CountsInv /\ NamesOneToOne /\ [Operate]_vars => NamesOneToOne'
<1>. SUFFICES ASSUME CountsInv, NamesOneToOne, [Operate]_vars PROVE NamesOneToOne'
  OBVIOUS
<1>1. TypeOK /\ members \in [Accounts -> MemberRecords]
  BY DEF CountsInv, TypeOK, MemberTypes
<1>2. UNCHANGED memberVars /\ UNCHANGED registryVars => NamesOneToOne'
  BY NamesFrame DEF memberVars, IsActiveMember
<1>3. StatusesKept /\ UNCHANGED registryVars => NamesOneToOne'
  BY NamesFrame DEF StatusesKept, IsActiveMember
<1>4. CASE Tick \/ \E asset \in Assets, amount \in DonationAmounts : Donate(asset, amount)
  BY <1>2, <1>4 DEF Tick, Donate
<1>5. ASSUME NEW m \in Accounts, MembershipCall(m) PROVE NamesOneToOne'
  <2>1. CASE RegisterMember(m)
    <3>1. UNCHANGED registryVars
      BY <2>1 DEF RegisterMember
    <3>2. \A a \in Accounts : IsActiveMember(a) => members'[a].status = "ActiveMember"
      BY <1>1, <2>1 DEF RegisterMember, IsActiveMember
    <3>. QED  BY <3>1, <3>2, NamesFrame
  <2>2. CASE ExitDao(m)
    BY <1>1, <2>2, ExitDaoKeepsNames
  <2>. QED  BY <1>2, <1>5, <2>1, <2>2
            DEF MembershipCall, ClaimRewards, DelegateVote, Stake, Unstake
<1>6. ASSUME NEW m \in Accounts, LoanCall(m) PROVE NamesOneToOne'
  <2>1. CASE \/ \E amount \in LoanAmounts, asset \in Assets :
                   RequestLoanInAsset(m, amount, asset)
             \/ \E id \in LoanIds, amount \in LoanAmounts : EditLoanProposal(m, id, amount)
             \/ \E id \in LoanIds : CancelLoanProposal(m, id)
    BY <1>2, <2>1 DEF RequestLoanInAsset, EditLoanProposal, CancelLoanProposal
  <2>2. CASE \/ \E id \in LoanIds, support \in BOOLEAN : VoteOnLoanProposal(m, id, support)
             \/ \E id1, id2 \in LoanIds, s1, s2 \in BOOLEAN : VoteBatch(m, id1, s1, id2, s2)
    <3>1. StatusesKept
      BY <2>2, LoanBallotsCounted
    <3>2. UNCHANGED registryVars
      BY <2>2 DEF VoteOnLoanProposal, VoteBatch
    <3>. QED  BY <1>3, <3>1, <3>2
  <2>3. ASSUME NEW id \in LoanIds, NEW amount, RepayAmount(m, id, amount)
        PROVE  NamesOneToOne'
    <3>1. StatusesKept
      BY <2>3, RepayAmountCounted
    <3>. QED  BY <1>3, <2>3, <3>1 DEF RepayAmount
  <2>4. CASE \E id \in LoanIds :
                \/ \E amount \in RepaymentAmounts : RepayLoanPartial(m, id, amount)
                \/ RepayLoan(m, id)
                \/ \E asset \in Assets : RepayLoanInAsset(m, id, asset)
    BY <2>3, <2>4 DEF RepayLoanPartial, RepayLoan, RepayLoanInAsset
  <2>. QED  BY <1>6, <2>1, <2>2, <2>4 DEF LoanCall
<1>7. ASSUME NEW m \in Accounts, TreasuryCall(m) PROVE NamesOneToOne'
  BY <1>2, <1>7 DEF TreasuryCall, ProposeWithdrawalInAsset, VoteOnTreasuryProposal,
                    CommitVote, RevealVote, CancelTreasuryProposal
<1>8. ASSUME NEW m \in Accounts, RegistryCall(m) PROVE NamesOneToOne'
  <2>1. CASE \E name \in Names : RegisterName(m, name)
    BY <1>1, <2>1, RegisterNameKeeps
  <2>2. CASE \E key \in DocumentKeys, hash \in Hashes : AttachDocument(m, key, hash)
    BY <1>2, <2>2 DEF AttachDocument
  <2>. QED  BY <1>8, <2>1, <2>2 DEF RegistryCall
<1>9. CASE PublicCall
  <2>1. CASE \E id \in LoanIds : DisburseApprovedLoan(id)
    <3>1. StatusesKept
      BY <2>1, DisburseApprovedLoanCounted
    <3>. QED  BY <1>3, <2>1, <3>1 DEF DisburseApprovedLoan
  <2>2. CASE \E id \in LoanIds : MarkLoanDefaulted(id)
    <3>1. StatusesKept
      BY <2>2, MarkLoanDefaultedCounted
    <3>. QED  BY <1>3, <2>2, <3>1 DEF MarkLoanDefaulted
  <2>3. CASE \/ \E id \in LoanIds : ExpireLoanProposal(id)
             \/ \E id \in TreasuryIds : ExecuteTreasuryProposal(id)
             \/ \E id \in TreasuryIds : ExpireTreasuryProposal(id)
    BY <1>2, <2>3 DEF ExpireLoanProposal, ExecuteTreasuryProposal, ExpireTreasuryProposal
  <2>. QED  BY <1>9, <2>1, <2>2, <2>3 DEF PublicCall
<1>10. CASE \E caller \in Governors : AdminCall(caller)
  <2>1. AdminFrame
    BY <1>10 DEF AdminCall, AddAdmin, RemoveAdmin, SetPauser, RevokePauser,
         SetConsensusThreshold, Pause, Unpause, ProposePolicyUpdate,
         ExecutePolicyUpdate, CancelPolicyUpdate, ProposeTokenAddition,
         ExecuteTokenAddition, RemoveToken
  <2>. QED  BY <1>2, <2>1 DEF AdminFrame
<1>11. CASE UNCHANGED vars
  BY <1>2, <1>11 DEF vars
<1>. QED  BY <1>4, <1>5, <1>6, <1>7, <1>8, <1>9, <1>10, <1>11 DEF Operate

(* The registry is one-to-one and holds only active members' names, in every *)
(* deployment set up by `initialize`: whatever members rename and whoever    *)
(* leaves, returns, borrows or defaults (register_name, exit_dao).           *)
THEOREM RegistryIsOneToOne == OperatingSpec => []NamesOneToOne
<1>1. Init => NamesOneToOne
  BY AccountsAssumption, SentinelAssumption DEF Init, NamesOneToOne
<1>2. [Operate]_vars => [Next]_vars
  BY DEF Next
<1>3. OperatingSpec => Spec
  BY <1>2, PTL DEF OperatingSpec, Spec
<1>. QED  BY <1>1, <1>3, NamesStep, CountsInvariant, PTL DEF OperatingSpec

-----------------------------------------------------------------------------
(* The timelocks.                                                            *)

(* At most one update and one addition per token is pending, with the        *)
(* execution time its proposal wrote, and only what validate_policy accepts  *)
(* gets that far.                                                            *)
TimelocksKept ==
    /\ policy \in AcceptablePolicies
    /\ \A u \in pendingPolicy :
          /\ u.policy \in AcceptablePolicies
          /\ u.execution_time = u.proposed_at + TimelockDuration
    /\ \A u, w \in pendingPolicy : u = w
    /\ \A token \in ExtraAssets : \A s, t \in pendingToken[token] : s = t

(* The inductive invariant of both timelocks.                                *)
TimelockInv == TypeOK /\ TimelocksKept

(* Only admins' calls touch what waits out a timelock.                       *)
LEMMA OnlyAdminsTouchTimelocks ==
    ASSUME TypeOK, [Next]_vars, ~\E caller \in Governors : AdminCall(caller)
    PROVE  /\ UNCHANGED <<policy, pendingPolicy, tokenVars>>
           /\ now' \in Nat /\ now' >= now
<1>. DEFINE Still == UNCHANGED <<now, adminVars, tokenVars>>
            Kept == /\ UNCHANGED <<policy, pendingPolicy, tokenVars>>
                    /\ now' \in Nat /\ now' >= now
<1>0. now \in Nat
  BY DEF TypeOK, WorldTypes
<1>1. ASSUME Still PROVE Kept
  BY <1>0, <1>1 DEF adminVars
<1>2. ASSUME Tick PROVE Kept
  BY <1>0, <1>2 DEF Tick, adminVars
<1>. HIDE DEF Kept
<1>3. ASSUME NEW m \in Accounts, MembershipCall(m) PROVE Still
  BY <1>3 DEF MembershipCall, RegisterMember, ExitDao, ClaimRewards,
         DelegateVote, Stake, Unstake
<1>4. ASSUME NEW m \in Accounts, LoanCall(m) PROVE Still
  BY <1>4 DEF LoanCall, RequestLoanInAsset, EditLoanProposal,
         CancelLoanProposal, VoteOnLoanProposal, VoteBatch, RepayLoanPartial,
         RepayLoan, RepayLoanInAsset, RepayAmount
<1>5. ASSUME NEW m \in Accounts, TreasuryCall(m) PROVE Still
  BY <1>5 DEF TreasuryCall, ProposeWithdrawalInAsset, VoteOnTreasuryProposal,
         CommitVote, RevealVote, CancelTreasuryProposal
<1>6. ASSUME NEW m \in Accounts, RegistryCall(m) PROVE Still
  BY <1>6 DEF RegistryCall, RegisterName, AttachDocument
<1>7. ASSUME PublicCall PROVE Still
  BY <1>7 DEF PublicCall, DisburseApprovedLoan, ExpireLoanProposal,
         MarkLoanDefaulted, ExecuteTreasuryProposal, ExpireTreasuryProposal
<1>8. ASSUME NEW caller \in Migrators, MigrationCall(caller) PROVE Still
  BY <1>8 DEF MigrationCall, SeedMember, SeedStake, SeedPendingYield, SeedName,
         SeedLoan, SeedDocument, LockSeeding
<1>9. ASSUME NEW asset, NEW amount, Donate(asset, amount) PROVE Still
  BY <1>9 DEF Donate
<1>10. ASSUME UNCHANGED vars PROVE Still
  BY <1>10 DEF vars
<1>. HIDE DEF Still
<1>11. Kept
  BY <1>1, <1>2, <1>3, <1>4, <1>5, <1>6, <1>7, <1>8, <1>9, <1>10
     DEF Next, Operate, Migrate
<1>. QED  BY <1>11 DEF Kept
-----------------------------------------------------------------------------
(* The six calls that do; every other admin call leaves both timelocks be.   *)
LEMMA AdminCallsOnTimelocks ==
    ASSUME NEW caller, AdminCall(caller)
    PROVE  /\ now' = now
           /\ \/ UNCHANGED <<policy, pendingPolicy, tokenVars>>
              \/ \E p \in PolicyInputs : ProposePolicyUpdate(caller, p)
              \/ ExecutePolicyUpdate(caller)
              \/ CancelPolicyUpdate(caller)
              \/ \E token \in ExtraAssets :
                    \/ ProposeTokenAddition(caller, token)
                    \/ ExecuteTokenAddition(caller, token)
                    \/ RemoveToken(caller, token)
  BY DEF AdminCall, AddAdmin, RemoveAdmin, SetPauser, RevokePauser,
         SetConsensusThreshold, Pause, Unpause, ProposePolicyUpdate,
         ExecutePolicyUpdate, CancelPolicyUpdate, ProposeTokenAddition,
         ExecuteTokenAddition, RemoveToken, AdminFrame

(* What a step does to the policy's timelock ...                             *)
PolicyStep ==
    \/ UNCHANGED <<policy, pendingPolicy>>
    \/ /\ UNCHANGED <<now, policy>>
       /\ \E p \in AcceptablePolicies :
             pendingPolicy' = {[policy |-> p, proposed_at |-> now,
                                execution_time |-> now + TimelockDuration]}
    \/ UNCHANGED <<now, policy>> /\ pendingPolicy' = {}
    \/ /\ UNCHANGED now
       /\ pendingPolicy' = {}
       /\ \E u \in pendingPolicy : now >= u.execution_time /\ policy' = u.policy

(* ... and to the tokens'.                                                   *)
TokenStep ==
    \/ UNCHANGED <<whitelisted, pendingToken>>
    \/ \E token \in ExtraAssets :
         /\ UNCHANGED now
         /\ \/ /\ pendingToken' = [pendingToken EXCEPT ![token] = {now + TimelockDuration}]
               /\ UNCHANGED whitelisted
            \/ /\ \E time \in pendingToken[token] : now >= time
               /\ pendingToken' = [pendingToken EXCEPT ![token] = {}]
               /\ whitelisted' = whitelisted \cup {token}
            \/ UNCHANGED pendingToken /\ whitelisted' = whitelisted \ {token}

(* Every step of the contract is one of these to both, and time does not     *)
(* run backwards.                                                            *)
LEMMA StepsOnTimelocks ==
    ASSUME TypeOK, [Next]_vars
    PROVE  now' \in Nat /\ now' >= now /\ PolicyStep /\ TokenStep
<1>1. CASE ~\E caller \in Governors : AdminCall(caller)
  BY <1>1, OnlyAdminsTouchTimelocks DEF PolicyStep, TokenStep, tokenVars
<1>2. ASSUME NEW caller \in Governors, AdminCall(caller)
      PROVE  now' \in Nat /\ now' >= now /\ PolicyStep /\ TokenStep
  <2>1. now' \in Nat /\ now' >= now /\ now' = now
    BY <1>2, AdminCallsOnTimelocks DEF TypeOK, WorldTypes
  <2>2. CASE UNCHANGED <<policy, pendingPolicy, tokenVars>>
    BY <2>1, <2>2 DEF PolicyStep, TokenStep, tokenVars
  <2>3. ASSUME NEW p \in PolicyInputs, ProposePolicyUpdate(caller, p)
        PROVE  PolicyStep /\ TokenStep
    BY <2>1, <2>3 DEF ProposePolicyUpdate, ExecutionTime, AcceptablePolicies,
       PolicyStep, TokenStep, tokenVars
  <2>4. CASE ExecutePolicyUpdate(caller)
    BY <2>1, <2>4 DEF ExecutePolicyUpdate, PolicyStep, TokenStep, tokenVars
  <2>5. CASE CancelPolicyUpdate(caller)
    BY <2>1, <2>5 DEF CancelPolicyUpdate, PolicyStep, TokenStep, tokenVars
  <2>6. ASSUME NEW token \in ExtraAssets,
               \/ ProposeTokenAddition(caller, token)
               \/ ExecuteTokenAddition(caller, token)
               \/ RemoveToken(caller, token)
        PROVE  PolicyStep /\ TokenStep
    BY <2>1, <2>6 DEF ProposeTokenAddition, ExecuteTokenAddition, RemoveToken,
       TokenTimelockOver, PolicyStep, TokenStep, adminVars
  <2>. QED  BY <1>2, <2>1, <2>2, <2>3, <2>4, <2>5, <2>6, AdminCallsOnTimelocks
<1>. QED  BY <1>1, <1>2

(* The inductive invariant holds ...                                         *)
LEMMA TimelocksInductive ==
    /\ Init => TimelocksKept
    /\ TypeOK /\ TimelocksKept /\ [Next]_vars => TimelocksKept'
<1>1. Init => TimelocksKept
  BY DEF Init, TimelocksKept, AcceptablePolicies
<1>2. ASSUME TypeOK, TimelocksKept, [Next]_vars PROVE TimelocksKept'
  <2>1. PolicyStep /\ TokenStep
    BY <1>2, StepsOnTimelocks
  <2>2. /\ policy' \in AcceptablePolicies
        /\ \A u \in pendingPolicy' :
              /\ u.policy \in AcceptablePolicies
              /\ u.execution_time = u.proposed_at + TimelockDuration
        /\ \A u, w \in pendingPolicy' : u = w
    BY <1>2, <2>1 DEF TimelocksKept, PolicyStep
  <2>3. \A token \in ExtraAssets : \A s, t \in pendingToken'[token] : s = t
    BY <1>2, <2>1 DEF TimelocksKept, TokenStep, TypeOK, TokenTypes
  <2>. QED  BY <2>2, <2>3 DEF TimelocksKept
<1>. QED  BY <1>1, <1>2

(* ... of every deployment.                                                  *)
LEMMA TimelocksCorrect == Spec => []TimelockInv
  BY TimelocksInductive, TypeCorrect, PTL DEF Spec, TimelockInv
-----------------------------------------------------------------------------
(* Every step of the contract is a step, or a stutter, of the policy's       *)
(* timelock.                                                                 *)
LEMMA PolicyTimelockStep ==
    TimelockInv /\ [Next]_vars => [PolicyTimelock!Next]_(PolicyTimelock!timelockVars)
<1>. SUFFICES ASSUME TypeOK, TimelocksKept, [Next]_vars
              PROVE  [PolicyTimelock!Next]_(PolicyTimelock!timelockVars)
  BY DEF TimelockInv
<1>. DEFINE current == [i \in {"policy"} |-> policy]
            announced == [i \in {"policy"} |->
                {[value |-> u.policy, since |-> u.proposed_at] : u \in pendingPolicy}]
<1>1. now' \in Nat /\ now' >= now /\ PolicyStep
  BY StepsOnTimelocks
<1>2. CASE UNCHANGED <<policy, pendingPolicy>>
  <2>1. UNCHANGED <<current, announced>>
    BY <1>2
  <2>2. PolicyTimelock!Elapse
    BY <1>1, <2>1 DEF PolicyTimelock!Elapse
  <2>. QED  BY <2>2 DEF PolicyTimelock!Next
<1>3. ASSUME NEW p \in AcceptablePolicies, UNCHANGED <<now, policy>>,
             pendingPolicy' = {[policy |-> p, proposed_at |-> now,
                                execution_time |-> now + TimelockDuration]}
      PROVE  PolicyTimelock!Next
  <2>1. announced' = [announced EXCEPT !["policy"] = {[value |-> p, since |-> now]}]
    BY <1>3
  <2>2. PolicyTimelock!Announce("policy")
    BY <1>3, <2>1 DEF PolicyTimelock!Announce
  <2>. QED  BY <2>2 DEF PolicyTimelock!Next
<1>4. ASSUME UNCHANGED <<now, policy>>, pendingPolicy' = {} PROVE PolicyTimelock!Next
  <2>1. announced' = [announced EXCEPT !["policy"] = {}]
    BY <1>4
  <2>2. PolicyTimelock!Withdraw("policy")
    BY <1>4, <2>1 DEF PolicyTimelock!Withdraw
  <2>. QED  BY <2>2 DEF PolicyTimelock!Next
<1>5. ASSUME UNCHANGED now, pendingPolicy' = {},
             NEW u \in pendingPolicy, now >= u.execution_time, policy' = u.policy
      PROVE  PolicyTimelock!Next
  <2>. DEFINE notice == [value |-> u.policy, since |-> u.proposed_at]
  <2>1. announced' = [announced EXCEPT !["policy"] = {}]
    BY <1>5
  <2>2. notice \in announced["policy"] /\ now >= notice.since + TimelockDuration
    BY <1>5 DEF TimelocksKept
  <2>3. current' = [current EXCEPT !["policy"] = notice.value]
    BY <1>5
  <2>4. PolicyTimelock!Enact("policy")
    <3>. HIDE DEF notice
    <3>. QED  BY <1>5, <2>1, <2>2, <2>3 DEF PolicyTimelock!Enact
  <2>. QED  BY <2>4 DEF PolicyTimelock!Next
<1>. QED  BY <1>1, <1>2, <1>3, <1>4, <1>5 DEF PolicyStep

(* Every policy that takes effect is acceptable to validate_policy and has   *)
(* stood as the one pending update for the whole timelock: admin.rs          *)
(* implements Timelock for the policy.                                       *)
THEOREM PolicyTimelockImplemented == Spec => PolicyTimelockKept
<1>1. Init => PolicyTimelock!Init
  BY DEF Init, PolicyTimelock!Init, AcceptablePolicies
<1>. QED  BY <1>1, PolicyTimelockStep, TimelocksCorrect, PTL
          DEF Spec, PolicyTimelockKept, PolicyTimelock!Spec

(* And of the timelocks of the tokens.                                       *)
LEMMA TokenTimelockStep ==
    TimelockInv /\ [Next]_vars => [TokenTimelock!Next]_(TokenTimelock!timelockVars)
<1>. SUFFICES ASSUME TypeOK, TimelocksKept, [Next]_vars
              PROVE  [TokenTimelock!Next]_(TokenTimelock!timelockVars)
  BY DEF TimelockInv
<1>. DEFINE since(time) == [value |-> "listed", since |-> time - TimelockDuration]
            current == [token \in ExtraAssets |->
                          IF token \in whitelisted THEN "listed" ELSE "unlisted"]
            announced == [token \in ExtraAssets |->
                             {since(time) : time \in pendingToken[token]}]
<1>1. now' \in Nat /\ now' >= now /\ TokenStep /\ now \in Nat
  BY StepsOnTimelocks DEF TypeOK, WorldTypes
<1>2. CASE UNCHANGED <<whitelisted, pendingToken>>
  <2>1. TokenTimelock!Elapse
    BY <1>1, <1>2 DEF TokenTimelock!Elapse
  <2>. QED  BY <2>1 DEF TokenTimelock!Next
<1>3. ASSUME NEW token \in ExtraAssets, UNCHANGED <<now, whitelisted>>,
             pendingToken' = [pendingToken EXCEPT ![token] = {now + TimelockDuration}]
      PROVE  TokenTimelock!Next
  <2>1. since(now + TimelockDuration) = [value |-> "listed", since |-> now]
    BY <1>1, BoundsAssumption
  <2>2. announced' = [announced EXCEPT ![token] = {since(now + TimelockDuration)}]
    <3>. HIDE DEF since
    <3>. QED  BY <1>3 DEF TypeOK, TokenTypes
  <2>3. announced' = [announced EXCEPT ![token] = {[value |-> "listed", since |-> now]}]
    BY <2>1, <2>2, Zenon
  <2>4. TokenTimelock!Announce(token)
    BY <1>3, <2>3 DEF TokenTimelock!Announce
  <2>. QED  BY <2>4 DEF TokenTimelock!Next
<1>4. ASSUME NEW token \in ExtraAssets, UNCHANGED now,
             NEW time \in pendingToken[token], now >= time,
             pendingToken' = [pendingToken EXCEPT ![token] = {}],
             whitelisted' = whitelisted \cup {token}
      PROVE  TokenTimelock!Next
  <2>1. announced' = [announced EXCEPT ![token] = {}]
    BY <1>4 DEF TypeOK, TokenTypes
  <2>. DEFINE notice == since(time)
  <2>2. notice \in announced[token]
    BY <1>4
  <2>3. now >= notice.since + TimelockDuration /\ notice.value = "listed"
    BY <1>1, <1>4, BoundsAssumption DEF TypeOK, TokenTypes
  <2>4. current' = [current EXCEPT ![token] = "listed"]
    BY <1>4
  <2>5. TokenTimelock!Enact(token)
    <3>. HIDE DEF notice
    <3>. QED  BY <1>4, <2>1, <2>2, <2>3, <2>4 DEF TokenTimelock!Enact
  <2>. QED  BY <2>5 DEF TokenTimelock!Next
<1>5. ASSUME NEW token \in ExtraAssets, UNCHANGED <<now, pendingToken>>,
             whitelisted' = whitelisted \ {token}
      PROVE  TokenTimelock!Next
  <2>1. current' = [current EXCEPT ![token] = "unlisted"]
    BY <1>5
  <2>2. TokenTimelock!Revoke(token)
    BY <1>5, <2>1 DEF TokenTimelock!Revoke
  <2>. QED  BY <2>2 DEF TokenTimelock!Next
<1>. QED  BY <1>1, <1>2, <1>3, <1>4, <1>5 DEF TokenStep

(* Every token that comes to be accepted has been announced for the whole    *)
(* timelock: admin.rs implements Timelock for all tokens together.           *)
THEOREM TokenTimelockImplemented == Spec => TokenTimelockKept
<1>1. Init => TokenTimelock!Init
  BY DEF Init, TokenTimelock!Init
<1>. QED  BY <1>1, TokenTimelockStep, TimelocksCorrect, PTL
          DEF Spec, TokenTimelockKept, TokenTimelock!Spec

(* So members have notice of every policy, and of every token.               *)
THEOREM PolicyNoticeGiven == Spec => PolicyNotice
<1>1. ASSUME NEW CONSTANT p \in PolicyInputs, NEW CONSTANT t \in 1 .. MaxTime
      PROVE  Spec => PolicyTimelock!Notice("policy", p, t)
  <2>1. TimelockDuration \in Nat /\ t \in Nat /\ p \notin {}
    BY BoundsAssumption
  <2>2. PolicyTimelock!Spec => PolicyTimelock!Notice("policy", p, t)
    BY <2>1, PolicyTimelock!NoticeGiven
  <2>. QED  BY <2>2, PolicyTimelockImplemented DEF PolicyTimelockKept
<1>. QED  BY <1>1 DEF PolicyNotice
(* The same for tokens.                                                      *)
THEOREM TokenNoticeGiven == Spec => TokenNotice
<1>1. ASSUME NEW CONSTANT token \in ExtraAssets, NEW CONSTANT t \in 1 .. MaxTime
      PROVE  Spec => TokenTimelock!Notice(token, "listed", t)
  <2>1. TimelockDuration \in Nat /\ t \in Nat /\ "listed" \notin {"unlisted"}
    BY BoundsAssumption
  <2>2. TokenTimelock!Spec => TokenTimelock!Notice(token, "listed", t)
    BY <2>1, TokenTimelock!NoticeGiven
  <2>. QED  BY <2>2, TokenTimelockImplemented DEF TokenTimelockKept
<1>. QED  BY <1>1 DEF TokenNotice
=============================================================================
