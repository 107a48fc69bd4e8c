# OurDAO contract: a TLA+ model, its checks and its proofs

This directory specifies the Soroban contract in `contracts/dao` (a lending
DAO: members pay a fee, lend to each other from a common treasury, vote on
loans and withdrawals) together with the two scripts that work on it: the
keeper that moves its clock-driven records (`scripts/keeper.sh`) and the export
from which a new deployment is seeded (`scripts/export-state.sh`,
`docs/MIGRATION.md`). The specification is written from the Rust code and the
scripts; paths below are relative to `contracts/dao/src` unless they start with
`scripts/` or `docs/`.

## 1. The system

### Components, state, operations

| Part | State (ledger entries) | Operations | Module |
|---|---|---|---|
| Membership (`membership.rs`) | member records, counters, `ActiveContributions`, delegations, yield snapshots | `register_member`, `exit_dao`, `claim_rewards`, `delegate_vote` | `Membership` |
| Staking (`staking.rs`) | stake and last stake time per member, `TotalStaked` | `stake`, `unstake` | `Staking` |
| Lending (`loans.rs`) | loan proposals, who voted, loans, the yield accumulator and remainder | `request_loan*`, `edit_loan_proposal`, `cancel_loan_proposal`, `vote_on_loan_proposal`, `vote_batch`, `disburse_approved_loan`, `expire_loan_proposal`, `repay_loan*`, `mark_loan_defaulted` | `Loans` |
| Withdrawals (`treasury.rs`) | treasury proposals, who voted | `propose_withdrawal*`, `vote`, `execute_approved`, `cancel_treasury_proposal`, `expire_treasury_proposal` | `Treasury` |
| Private ballots (`privacy.rs`) | commitments | `commit_vote`, `reveal_vote` | `Treasury` |
| Administration (`admin.rs`) | admins, pauser, threshold, policy, pending policy, pause flag, token whitelist, pending tokens | `initialize` and the twelve admin calls | `Administration` (`Init` is in `DaoState`) |
| Registry, documents (`registry.rs`, `docs.rs`) | name to owner and back, document hashes | `register_name`, `attach_document` | `Registry` |
| Migration (`migration.rs`) | all of the above, and the lock | `seed_*`, `lock_seeding` | `Migration` |
| Shared reads (`util.rs`, `storage.rs`, `types.rs`) | | treasury balance, voting weight, quota, reserved commitments | `DaoState` |
| Arithmetic (`util.rs` and parts of `loans.rs`, `membership.rs`) | none | `isqrt`, `stake_boost`, `required_votes`, `quote_terms`, shares, penalties | `DaoArithmetic` |
| Entrypoints (`lib.rs`) | the ledger clock, token balances | who may call what, when | `OurDao` |
| Keeper (`scripts/keeper.sh`, and the views it reads) | of a run: pass, id, the clock and grace period read at its start | start, look at a record, submit, fail, next pass, abort | `Keeper` |
| Export and hand-over (`scripts/export-state.sh`, `docs/MIGRATION.md`, and the views they read) | the file written so far, the member list | begin, read counts, pages, rows, loans, documents, abort; redeploy, seed, lock | `Handover` |

### How the parts interact

There are no messages and no threads inside the contract. Each call is one
Soroban invocation: it runs alone, and it either commits all it wrote or, on an
`Err` or a trap, nothing. What interleaves are whole calls of different
accounts, with ledger time passing in between. The parts interact through the
state they share:

* one treasury (token balance less recorded stake) is read or drawn on by loan
  requests, disbursements, withdrawals, exits and claims;
* `active_members` is the base of every quorum, of early rejection and of the
  interest split; joins, exits and migration change it;
* a member's record carries the trace of all loans of that member
  (`has_active_loan`, lifetime counters), and outlives exit and return;
* a ballot's weight is computed from stakes and delegations when it is cast;
* the policy is read at the moment of each call, except for what a proposal
  copies at its creation (voting period, treasury threshold);
* the pause flag is asked for by each entrypoint by itself.

The scripts are processes beside the contract. Each of their views and
submissions is an invocation of its own, so everything they know is as old as
the view they learnt it from, while members, admins, a second keeper and the
clock go on.

### What is hard here

Several proposals of one borrower in flight at once; loans of people who left;
approval now and payment later; two-period private ballots; registration,
exit and return around yield snapshots; interest-first part payments with
surcharges; a lazily written phase; timelocks that are restarted; counters kept
by hand in several files; records that move only when the keeper calls, and a
keeper that acts on what it has read before; an export of many reads of a
contract in use, and a new deployment seeded from it in any order, with entries
sent again. The hazards are listed at their lines in `PROJECT.json`, with the
properties that watch them.

## 2. The specification

One action stands for one **successful** call with everything it writes; a
refused call is a stuttering step. The guard of an action is the conjunction of
the checks of the entrypoint and its helpers, in their order; the frame names
what it leaves alone.

The contract:

* `DaoArithmetic` has no state. `DaoState` declares the constants with their
  named assumptions and the variables, `Init` (what `initialize` leaves, after
  its own checks), and the reads of `util.rs` and `storage.rs`.
* `Membership`, `Staking`, `Loans`, `Treasury`, `Administration`, `Registry` and
  `Migration` each extend `DaoState` with the actions of their files.
* A loan ballot may disburse, and `vote_batch` casts several ballots in one
  call, so `Loans` describes a ballot as a map from a *book* (the entries a
  ballot can change) to the changed book, and applies it once or twice.
* `OurDao` composes them: `Operate` is any call by anybody, the clock (`Tick`)
  and tokens sent to the contract from outside (`Donate`); `Migrate` adds
  seeding. `Spec` has both, `OperatingSpec` is a deployment set up by
  `initialize` alone, `KeptSpec` adds the keeper's effect as fairness.

The scripts, each beside the contract and interleaved with it:

* `Keeper` is a run of `keeper.sh`, one view or one submission a step. `cron`
  starts it; it reads a clock of its own (up to `Skew` ahead of the ledger) and
  the grace period once, the number of records at the start of each pass, and
  each record through the view the script uses: `get_loan` and
  `get_treasury_proposal` return what is stored, `get_loan_proposal` a copy
  whose phase has been refreshed. A submission may be refused or lost, a view
  that fails ends the run.
* `Handover` is `export-state.sh` followed by the procedure of
  `docs/MIGRATION.md`. The export reads configuration, counts, pages of
  members, three views per member, loans and documents, while calls go on in
  between. From an export taken of a contract that was paused throughout, a new
  one is initialized, seeded through `Migration`'s own actions entry by entry
  in any order, with entries sent again, wrong ones first, and a member joining
  before all is in place, and locked. The contract's variables are the old
  deployment's until `Redeploy`, then the new one's.

What the contract promises, apart from how it keeps it:

* `FundRequests`: a request for money is filed, decided once, and if granted
  paid once, at once or later, in the asset and amount decided on and never out
  of stakes; nothing else leaves but what a member takes of their own. Loans
  and withdrawals together implement it (`FundsAccounted`, by
  `INSTANCE FundRequests WITH stage <- ...` in `OurDaoProperties`).
* `Timelock`: what is announced takes effect only after it has stood,
  unreplaced, for the whole delay; taking a permission away is immediate. The
  policy update implements it with one item (`PolicyTimelockKept`), the token
  whitelist with one item per token (`TokenTimelockKept`).

`OurDaoProperties` states the contract's properties, `Keeper` and `Handover`
their own; `MCOurDao`, `MCKeeper`, `MCHandover` and `MCArithmetic` are the
instances for TLC. The theorems are in the modules of section 4.

Correspondence of state: `members`, `stakes`, `loanProposals`, `loans`,
`treasuryProposals`, `commits`, `documents`, ... are the persistent entries of
the `DataKey` of that name, as functions; a key never written holds `NoMember`,
`NoLoan`, ...; an optional singleton is a set with at most one element. `asset`
is a field of the proposal here and an entry of its own (`LoanAsset`,
`TreasuryAsset`) in the code; the member list (`DataKey::Members`), which only
`list_members` reads, is in `Handover`. Definitions marked *Mutant* in a module
are not part of the specification: each is a plausible bug in the definition
below it, and the property it is listed with in `PROJECT.json` fails when it
takes that definition's place.

### Abstractions

Addresses, assets, names and hashes are model values; names are those that pass
`register_name`'s length and charset checks, hashes are of at most 64 bytes.
A commitment is the record of its preimage, without the salt: two preimages
have two hashes, and nothing in the model reads a commitment it did not make.
Left out because no state depends on them: events, error codes, TTL extension,
authorization (`require_auth` is who the caller is), free text, the views no
script reads, `share_balance`, a proposal's quoted terms, a loan's rate and
start time, the cached `OpenProposals` count. The `checked_mul` overflow
fallbacks lie far outside TLC's integers. A seed call carries one entry, not a
batch. `try_execute_policy_update` (`admin.rs` 335-347) does not compile in this
revision, nor does `remove_token` above it, which lacks its closing brace; the
model takes `remove_token` as it is plainly meant and the former as
`execute_policy_update`.

### Bounds

All are constants of their own. `MaxTime` stops the clock;
`MaxLoanProposals` and `MaxTreasuryProposals` bound the two id counters;
`MinStay` is the time a member stays before leaving, without which leaving and
returning fills any bound; `LastJoin` is the last time anybody registers;
`MaxDebt` stops *part* payments on a debt that surcharges raised to it;
`MaxStake` and `Supply` bound what is staked and what the contract can receive.
`LoanAmounts`, `StakeAmounts`, ... name the inputs tried; an empty set takes the
calls that would need one out of that instance. In `Handover`, `MaxCalls` bounds
other people's calls during an export, `LastOpenExport` the time until which an
export of a contract in use is started (later ones are of a paused one),
`MinEntries` the size of an export worth seeding, `MaxMishaps` the entries
seeded wrong and the calls made before seeding is over; `PageSize` is the
script's own parameter. The proofs assume nothing of any of these beyond their
being numbers or sets of numbers.

## 3. What TLC checks

`tlc -config X.cfg M`; module and properties of each run are in `PROJECT.json`.
Every property of a passing run is shown to bite by a mutant.

| Run | Instance | What it shows |
|---|---|---|
| `Lending` | 2 members, 1 borrower who may leave and return, 2 proposals at a time, 4 days, under `KeptSpec` | the loan book, the member's record and exit lock, full repayment, interest that nothing changes after disbursement and that is owed to members as it is received: `MembershipCounts`, `LoanBook`, `TrackRecord`, `ExitLockBacked`, `RepaidInFull`, `YieldBacked`, `InterestFixed`, `InterestShared`; the lending side of `FundsAccounted`; every loan ends, a leaver's too: `LoansSettle` |
| `PrivateBallots` | 2 interchangeable members, 1 private withdrawal, stakes, delegation, 4 days | `BlindWhileCommitting`, `CommitmentBinds`, `StakeHeldByBallots`, `StakesAddUp`, `BallotsCounted`, `TypeOK`; the withdrawal side of `FundsAccounted` |
| `Governance` | 2 potential admins, 3 policies offered, 1 token, timelock 2, 5 days | `AdminsProper`; both timelocks implement `Timelock`: `PolicyTimelockKept`, `TokenTimelockKept`; the notice that follows: `PolicyNotice`, `TokenNotice` |
| `Keeper` | 2 members, 1 loan and 1 withdrawal that compete for the treasury and share a quota of 1, pauses, 4 days, a keeper clock up to a day ahead, under `KeeperSpec` | the script's runs give the fairness `KeptSpec` assumes: `FairnessEarned`; hence `TreasuryProposalsClose`, `LoansSettle`; `QuotaKept`; `FundsAccounted` with two kinds of request |
| `Handover` | 2 members (one may leave), 1 loan id, 1 name, 1 document, pages of one record, one call during the export and one mishap while seeding | an export has everyone once, and is of one state if the contract was paused: `PagesWhole`, `FileWhole`; the new deployment stands where the old one stood: `Restored`, `MembershipCounts`, `FreshIds` |
| `Assets` | 2 members, 2 tokens, 2 names, 1 document, 1 loan of either token, pauses | `NamesOneToOne`, `BallotSubjectFixed`, `PauseFreezes`; `FundsAccounted` with two assets |
| `Arithmetic` | inputs 0..2600 | `RootExact`, `BoostCurve`, `BarIsLeast`, `QuoteFavoursTreasury` |

Why the bounds suffice for these questions. Two members are one borrower and
one voter, which is a quorum, a minority and a split of interest with a
remainder (a single active member, two, and back). The test policies
(`MCOurDao`) have editing, voting, loan and grace periods of one or two units,
so that every period opens, is in its last second, closes and is over before
`MaxTime`; interest (half the amount and more) and penalties are large enough
for rounding and remainders to matter with amounts of 4 and 5. Two proposals of
one borrower suffice for every interplay of two loans in one record, the only
way loans interact. In `Keeper` the amounts 5 and 16 are each within a treasury
of 20 and not within it together, so one approval makes the other wait. A stake
of 100 is one bonus vote, which turns one of two members into a quorum of its
own. Pages of one record make two members two pages, with calls between them;
`MinEntries` asks that there be a loan, a name and a document among what is
seeded. 2600 is past the cap of the staking curve (2500).

### Fairness

`KeptSpec` assumes weak fairness of the clock (ledgers close), of
`mark_loan_defaulted` for each loan and of `expire_treasury_proposal` for each
withdrawal, and of nothing else. `KeeperSpec` does not assume the latter two but
derives them: there fairness is that ledgers close, that cron keeps starting
runs and a run that was started goes on (weak), and that again and again some
run meets a network that answers it throughout (strong fairness of
`Start(TRUE)`). `FairnessEarned` is `KeptSpec`'s fairness, checked as a property
of `KeeperSpec`; the interesting part is that neither aborted runs nor
submissions refused because the keeper's clock ran ahead, or because somebody
else was faster, stop a record from being reached. `expire_loan_proposal` is not
among them, as the script never gets to call it (`KeeperSkips`, section 5). The
script gives up while the contract is paused, as do the actions (their guards
ask `~paused`), and the liveness properties say `\/ paused`. No member has to
vote, repay, claim or reveal.

## 4. What is proved

TLAPS proves the following for every value of the constants that satisfies the
assumptions of the modules. These say: accounts are finitely many, sentinels are
not among the values they stand apart from, bounds are natural numbers, the fee
and the script's page size are positive, offered policies and admin lists have
their types; of the arithmetic, that amounts are natural numbers, that rates and
thresholds are basis points and that the inputs of `isqrt` have no more bits than its loop.
`Spec` includes migration; `OperatingSpec` is a deployment set up by
`initialize` alone; `HandoverSpec` and `KeeperSpec` have a script beside it.

| Module | Theorem | Statement |
|---|---|---|
| `MembershipProofs` | `TypeCorrect`, `MembershipCounted` | `Spec => []TypeOK`, `[]MembershipCounts` |
| `RequestProofs` | `FundsImplemented` | `Spec => FundsAccounted`, that is, the contract implements `FundRequests` |
| | `BallotsAreCounted`, `IdsAreFresh` | `Spec => []BallotsCounted`, `[]FreshIds` |
| `CallProofs` | `BallotsAreBlind`, `CommitmentsBind`, `QuotaIsKept` | `Spec => []BlindWhileCommitting`, `CommitmentBinds`, `[]QuotaKept` |
| | `StakesSummed` | `Spec => []StakesAddUp` |
| | `StakesAreHeld`, `BallotSubjectIsFixed` | `OperatingSpec => StakeHeldByBallots`, `BallotSubjectFixed` |
| `LoanProofs` | `LoanBookKept`, `ExitLockIsBacked`, `TrackRecordKept` | `OperatingSpec => []LoanBook`, `[]ExitLockBacked`, `[]TrackRecord` |
| | `LoansRepaidInFull`, `InterestIsFixed` | `OperatingSpec => []RepaidInFull`, `InterestFixed` |
| | `YieldIsBacked`, `InterestIsShared` | `OperatingSpec => []YieldBacked`, `InterestShared` |
| `Timelock` | `NoticeGiven` | of the abstract timelock: nothing takes effect before it has stood for the delay |
| `GovernanceProofs` | `PolicyTimelockImplemented`, `TokenTimelockImplemented` | `Spec => PolicyTimelockKept`, `TokenTimelockKept`: both implement `Timelock` |
| | `PolicyNoticeGiven`, `TokenNoticeGiven` | `Spec => PolicyNotice`, `TokenNotice` |
| | `AlwaysAnAdmin` | `Spec => []AdminsProper` |
| | `PauseIsAFreeze`, `RegistryIsOneToOne` | `OperatingSpec => PauseFreezes`, `[]NamesOneToOne` |
| `ArithmeticProofs` | `RootAlwaysExact`, `BoostAlwaysOnCurve`, `BarAlwaysLeast`, `QuoteAlwaysFavoursTreasury` | `RootExact`, `BoostCurve`, `BarIsLeast`, `QuoteFavoursTreasury` for every input (`[]` of each, under the `Spec` of `MCArithmetic`, which counts through the inputs) |
| `ScriptProofs` | `PagesAreAlwaysWhole`, `FileIsAlwaysWhole`, `HandoverRestores` | `HandoverSpec => []PagesWhole`, `[]FileWhole`, `[]Restored` |
| | `KeeperOnlyCalls`, `KeeperStaysInRange` | `KeeperSpec => OperatingSpec`, so that all of the above holds beside the keeper; a run stays among the ids handed out |

The argument:

* **Types and counts.** `TypeOK` is not inductive by itself: the interest split
  divides by `active_members` and a repayment needs the loan's borrower to be an
  account. `CountsInv == TypeOK /\ MembershipCounts /\ LoansAttributed` is
  (`LoansAttributed`: a loan or proposal that exists has a borrower among the
  accounts). `MembershipProofs` shows that each call keeps the types given
  `TypeOK` and the few facts it needs, one lemma per action, then that each
  keeps the counts, by the cardinality of a set with one member added or
  removed, and closes the induction for both.
* **Loans.** `LoansInv == CountsInv /\ ProposalsIssued /\ LoanBook /\
  ExitLockBacked /\ TrackRecord`, where `ProposalsIssued` says that ids at and
  past the counter are unused, so that a request lands on a free id. A ballot
  is shown to take sound books to sound books, so single ballots, batches and
  late disbursement share one lemma; `TrackRecord` follows the sets of a
  borrower's loans by status as one id enters or moves between them. Migration
  is excluded: `seed_members` and `seed_loans` store whatever records they are
  given.
* **Requests.** `RequestInv == TypeOK /\ DecidedArePast /\ FreshIds /\
  BallotsCounted` is inductive for all of `Spec`. `DecidedArePast` says that a
  decided loan proposal has left the phases of editing and voting, so that an
  edit finds an undecided one. Under it each call is one step of `FundRequests` (file, amend,
  decide, receive, settle, hold) or leaves its variables alone. A single ballot
  decides and pays at once, and a batch does so for two requests: both, and
  late payments, are maps between books *in order*, and composing two such maps
  gives a third.
* **Timelocks.** That the delay cannot be cut short is proved once, of the
  abstract `Timelock` (`NoticeGiven`); that the policy update and the token
  whitelist implement `Timelock` is proved of the contract; notice of a policy
  and of a token follow.
* **Pause, admins, names.** Every action of `Operate` that changes a frozen
  variable has `~paused` among its guards; what remains (clock, donations,
  `admin.rs`) leaves them alone. The list of admins has no duplicates and is
  not empty; adding asks that the admin is not listed, removing keeps a list
  longer than one without the entry, whose absence of duplicates is a fact about
  `SubSeq` and `\o`. The two maps of the registry are followed through a
  renaming and through an exit, the calls that write them, and through the
  default that ends nobody's membership.
* **Ballots.** A step is a call on a loan proposal, a call on a withdrawal, or
  touches neither (`StepKinds`), so each property needs one case for the file
  it is about. Blindness and binding rest on the commit period ending at the
  moment the reveals begin. The quota is counted by the clock: time passing and
  decisions only close proposals, an edit asks that the proposal is still open,
  and a request is the one step that adds to the count, by one, below the quota.
* **Debts.** `DebtsInv == LoansInv /\ PositiveAmounts /\ RepaidInFull`
  (`PositiveAmounts`: what is asked for is more than 0, so that a loan is not
  repaid at birth). A loan record stays, is paid out with nothing repaid, is
  defaulted, or takes a payment with its surcharge (`DebtMoves`); the last two
  keep the interest, and a payment closes the loan exactly when everything is
  paid.

* **Sums.** A sum over accounts or loans is a fold, and what a fold computes is
  an induction over finite sets. It is done by a smallest counterexample: if two
  solutions of the fold's equation differ on some subset, they differ on one
  none of whose proper subsets they differ on (`SmallestSubset`, from the
  well-foundedness of strict inclusion), and there they cannot differ. From it
  come the laws used afterwards: any element may be taken out first, a sum moves
  by as much as the one value that changes, and by n times as much if n values
  rise alike. `StakesAddUp` is then inductive call by call, migration included.
* **Yields.** `YieldInv == DebtsInv /\ SnapshotsBehind /\ InterestOwed /\
  yieldRemainder >= 0 /\ YieldBacked`. `SnapshotsBehind` (no snapshot is ahead of
  the accumulator) is what keeps claims from being negative, so that a leaver or
  defaulter who falls out of the sum lowers it; `InterestOwed` does the same for
  loans. A payment raises the accumulator by the quotient and carries the
  remainder: with n active members the sum of the claims rises n times that, and
  quotient, remainder and n add up to the interest of the payment. Every other step
  moves snapshots only forward to the accumulator, joins at it, or does nothing.
* **Arithmetic.** The loop of `isqrt` keeps the part of the root found so far
  scaled by its step (`PartOfRoot`), each turn halves the step and finds the next
  bit (`TurnFindsNextBit`), and so the loop is right for *any* number of bits
  (`WalkFindsRoot`, by a least turn that goes wrong): the 15 of the model as the
  64 of the code. The staking curve follows from the root of whole units. A
  quote's roundings are each the least number that makes up a dividend
  (`RoundedUp`, `BpsRoundedUp`, `RatioRoundedUp`), and what is claimed of their
  product follows from these without dividing again.
* **Hand-over.** The invariant `HandoverSound` has two halves. While the old
  contract is read (`ReadingSound`), the member list is its registered members,
  each once, and only grows, so that the pages read are a prefix of it
  (`PagesRead`); of a contract paused since the export began, every view already
  read still says what was written (`CalmFile`, by `PauseIsAFreeze`'s argument);
  and the contract stays in order by the invariants above. While the new one is
  seeded (`SeedingSound`), the file does not change and has sound counts, no two
  rows one name, and each entry last sent as it is in the file stands
  (`InPlace`): no other seed and no early joiner disturbs it. Once all are sent,
  the counts are those of the rows.
* **Keeper.** `KeeperInv == CountsInv /\ WithinBounds /\ RunInRange`, where
  `RunInRange` says that a run stays among the ids counted at the start of its
  pass, and that these still exist. So what it submits is a call of an account
  for an existing id, whose guards are the contract's own, and all else it does
  leaves the contract alone: `KeeperSpec => OperatingSpec`.

### What is only model-checked

Liveness and fairness, which with `ENABLED` are outside the prover:
`LoansSettle`, `TreasuryProposalsClose`, and `FairnessEarned`, the liveness half
of the keeper's refinement whose safety half is `KeeperOnlyCalls`. Every
other property of a passing run, its invariants, action properties and
refinements, has a theorem above.

## 5. Where the code and what is said of it differ

Each has a run (`expect: violation`) whose one property is what the repository
says, and a finding in `PROJECT.json` with both quoted.

| Run | Observation |
|---|---|
| `DelegatedVotes` | a member who votes and then delegates is counted twice |
| `LeaverDefaults` | the default of a borrower who has left reduces `ActiveContributions` a second time |
| `EarlyExpiry` | a private withdrawal can be expired before its reveal period |
| `TwoLoans` | a member can have two Active loans (`docs/INVARIANTS.md` L2) |
| `KeeperSkips` | the keeper's second pass never submits: the view it reads reports an undecided, lapsed loan proposal as already `Expired`, while the stored record stays `Pending` |

Also met while reading, without a run of their own:

* Early rejection of a loan (`loans.rs` 374) counts the ballots of members who
  have left against those still there, so a loan can be rejected before a
  member whose ballot alone would pass it has voted; `README.md` 61 speaks of a
  proposal that can no longer pass.
* `repay_loan_internal` calls `require_not_paused` (`loans.rs` 555), so nobody
  can repay during a pause, while due time and surcharge go on. `README.md` 48,
  `docs/INCIDENT_RUNBOOK.md` 34, `docs/ADMIN_GUIDE.md` 184,
  `docs/PAUSE_FUNCTIONALITY.md` 22 and `docs/MIGRATION.md` 46 and 53 say that
  repayment stays open; the last of these names other calls as open, too, that
  ask `require_not_paused`.
* `docs/MIGRATION.md` 89 says that a bad chunk can be corrected by sending it
  again. For names that does not hold: `seed_names` writes both maps without
  freeing the owner's other name or the name's other owner
  (`migration.rs` 149), and can leave the registry not one-to-one. For members,
  stakes, yields, loans and documents it does (`Restored`).
* What an export leaves behind: delegations, stake times, the yield remainder,
  commitments, who has voted, the asset of each loan. Nothing of these can be
  seeded either.
* When a member joins while the pages are read, the script warns of "exported 2
  of 1 members" although nothing is missing (`PagesWhole`).
* `stake` and `unstake` record an amount and move no token (`staking.rs` 14-68),
  while the comment at `staking.rs` 25 speaks of a failed transfer,
  `tests/staking.rs` 31 expects one, and `exit_dao` pays the recorded stake out
  of what the contract holds.
* `exit_dao` returns the stake without the locks `unstake` has
  (`staking.rs` 70-116).
* G1 of `docs/INVARIANTS.md` (voting weight within 1..6) does not hold with
  delegation, which gives 0 or more than 6.
* The surcharge on a late loan is added anew by every part payment
  (`loans.rs` 569-584).
* The comment in `tally` (`treasury.rs` 120-124) speaks of persisting `Expired`,
  which the code leaves to `expire_treasury_proposal`.
* `docs/LOAN_POLICY_GUIDE.md` makes `membership_contribution` a condition of
  eligibility and no code does.
* An `ApprovedPendingDisbursement` loan that can never be paid reserves treasury
  without end.

## 6. Not modelled

* `error.rs` and `docs/events.schema.json`: a refused call changes nothing, and
  events are read off chain.
* `bench.rs`: it measures resource costs and has no behaviour of its own.
* The view functions of `lib.rs` that neither script reads, and the storage
  TTLs: an archived entry is restored before use. The export's handling of an
  expired entry is left out with them.
* Proposals and balances in the export, which are there to be read and are not
  seeded; the keeper's dry run, which submits nothing.
* `repay_partial` in `loans.rs`, which no entrypoint reaches.
* The deployment, build, binding and cost scripts.

## 7. State of the plan

Done: the whole contract, action by action; the two scripts that work on it and
the fairness one of them earns; two abstract specifications and their
refinements, checked and proved; theorems for every invariant, every action
property and every refinement that the runs check, but for liveness.

Left, in the order of what it would add:

1. Wider instances for the liveness runs: three members with delegation chains
   and mixed stakes, two withdrawals and two assets that compete at once.
2. What the members have claimed so far is no part of the state, so `YieldBacked`
   bounds what is still claimable; with a history variable the same proof
   would bound claimed and claimable together.
3. Batches of seeds with an entry that is refused in the middle.
