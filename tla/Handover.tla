------------------------------ MODULE Handover ------------------------------
(***************************************************************************)
(* Moving the DAO to a new deployment (docs/MIGRATION.md): export-state.sh  *)
(* reads the old contract through its views, one ledger read at a time,     *)
(* while members may go on calling it; a new contract is initialized with   *)
(* the configuration read; an admin seeds it from the export through        *)
(* migration.rs, in any order, sending entries again or wrong ones first;   *)
(* and locks the seeding.                                                   *)
(*                                                                         *)
(* The contract's variables are the old deployment's until Redeploy, then   *)
(* the new one's. Not modelled of the export: proposals and balances, which *)
(* are there to be read and are not seeded, and expired ledger entries.     *)
(***************************************************************************)
EXTENDS OurDaoProperties

CONSTANTS
    PageSize,              \* PAGE_SIZE, records asked of list_members at once
    MaxCalls,              \* bound: others' calls during an export
    LastOpenExport,        \* bound: after this time an export starts only while
                           \* the contract is paused
    MinEntries,            \* bound: an export of fewer entries is not seeded
    MaxMishaps             \* bound: entries seeded with another row's data, and
                           \* others' calls on a deployment being seeded

ASSUME HandoverAssumption ==
    /\ PageSize \in Nat \ {0}
    /\ MaxCalls \in Nat /\ LastOpenExport \in Nat
    /\ MinEntries \in Nat /\ MaxMishaps \in Nat

VARIABLES
    memberList,            \* the contract's list of addresses (DataKey::Members)
    export,                \* how far the export, then the new deployment, has come
    file,                  \* what has been written
    seeded                 \* the entries of the file last seeded as they are in it

handoverVars == <<vars, memberList, export, file, seeded>>

NoFile ==
    [admins |-> <<>>, threshold |-> 0, policy |-> {}, paused |-> FALSE,
     total |-> 0, active |-> 0, addresses |-> <<>>,
     record |-> [a \in Accounts |-> NoMember], stake |-> [a \in Accounts |-> 0],
     pending |-> [a \in Accounts |-> 0], name |-> [a \in Accounts |-> NoName],
     loans |-> [id \in LoanIds |-> NoLoan],
     documents |-> [key \in DocumentKeys |-> NoHash]]

(* `at` is the page's offset, the row's number or the id; `count` what the   *)
(* counter said when its ids began to be read. `calm`: the contract has been *)
(* paused since the export began.                                            *)
NotStarted == [step |-> "idle", at |-> 0, count |-> 0, calm |-> FALSE, calls |-> 0,
               mistakes |-> 0]

HandoverInit ==
    /\ Init
    /\ memberList = <<>>
    /\ export = NotStarted
    /\ file = NoFile
    /\ seeded = {}
-----------------------------------------------------------------------------
(* The list of members: register_member and seed_members append an address   *)
(* they have no record of.                                                   *)
Listed ==
    IF Registered' = Registered THEN UNCHANGED memberList
    ELSE \E a \in Accounts : /\ Registered' = Registered \cup {a}
                             /\ memberList' = Append(memberList, a)

\* Mutant: a page leaves out its last record.
PageShort(from, limit) ==
    SubSeq(memberList, from + 1, Min({from + limit - 1, Len(memberList)}))

(* list_members: the addresses of a page; every one of them has a record.    *)
Page(from, limit) ==
    SubSeq(memberList, from + 1, Min({from + limit, Len(memberList)}))

Go(step, count) == [export EXCEPT !.step = step, !.at = 0, !.count = count]
GoOn == [export EXCEPT !.at = @ + 1]

(* The export starts, over the results of an earlier one if need be ...      *)
Begin ==
    /\ export.step \in {"idle", "done"}
    /\ now > LastOpenExport => paused
    /\ export' = [NotStarted EXCEPT !.step = "header", !.calm = paused]
    /\ file' = [NoFile EXCEPT !.admins = admins, !.threshold = threshold,
                              !.policy = {policy}, !.paused = paused]
    /\ UNCHANGED <<vars, memberList, seeded>>

(* ... with the configuration, and the counts of members;                    *)
ReadCounts ==
    /\ export.step = "header"
    /\ export' = Go("members", 0)
    /\ file' = [file EXCEPT !.total = totalMembers, !.active = activeMembers]
    /\ UNCHANGED <<vars, memberList, seeded>>

(* then list_members, page after page up to the total read ...               *)
ReadPage ==
    /\ export.step = "members"
    /\ IF export.at < file.total
       THEN LET page == Page(export.at, PageSize)
            IN  /\ export' = [export EXCEPT !.at = @ + PageSize]
                /\ file' = [file EXCEPT
                     !.addresses = @ \o page,
                     !.record = [a \in Accounts |->
                                   IF a \in Range(page) THEN members[a] ELSE @[a]]]
       ELSE export' = Go("stake", 0) /\ UNCHANGED file
    /\ UNCHANGED <<vars, memberList, seeded>>

(* ... then, of each member listed, get_stake ...                            *)
ReadStake ==
    /\ export.step = "stake"
    /\ IF export.at < Len(file.addresses)
       THEN LET a == file.addresses[export.at + 1]
            IN  /\ file' = [file EXCEPT !.stake[a] = stakes[a]]
                /\ export' = [export EXCEPT !.step = "pending"]
       ELSE export' = Go("loans", nextProposalId) /\ UNCHANGED file
    /\ UNCHANGED <<vars, memberList, seeded>>

(* ... get_pending_yield and name_of ...                                     *)
ReadPendingYield ==
    LET a == file.addresses[export.at + 1]
    IN  /\ export.step = "pending"
        /\ file' = [file EXCEPT !.pending[a] = PendingYield(a)]
        /\ export' = [export EXCEPT !.step = "name"]
        /\ UNCHANGED <<vars, memberList, seeded>>
ReadName ==
    LET a == file.addresses[export.at + 1]
    IN  /\ export.step = "name"
        /\ file' = [file EXCEPT !.name[a] = nameOf[a]]
        /\ export' = [GoOn EXCEPT !.step = "stake"]
        /\ UNCHANGED <<vars, memberList, seeded>>

(* ... then every loan (collect), as many as the counter said ...            *)
ReadLoan ==
    /\ export.step = "loans"
    /\ IF export.at < export.count
       THEN /\ file' = [file EXCEPT !.loans[export.at] = loans[export.at]]
            /\ export' = GoOn
       ELSE export' = Go("Loan", nextProposalId) /\ UNCHANGED file
    /\ UNCHANGED <<vars, memberList, seeded>>

(* ... and get_document of the proposals of either kind (collect_documents). *)
ReadDocument(kind) ==
    /\ export.step = kind
    /\ IF export.at < export.count
       THEN LET key == <<kind, export.at>>
            IN  /\ file' = [file EXCEPT !.documents[key] = documents[key]]
                /\ export' = GoOn
       ELSE /\ export' = IF kind = "Loan" THEN Go("Treasury", nextTreasuryId)
                         ELSE Go("done", 0)
            /\ UNCHANGED file
    /\ UNCHANGED <<vars, memberList, seeded>>

Reading == {"header", "members", "stake", "pending", "name", "loans", "Loan", "Treasury"}

(* A view that fails ends the run, and nothing is left of it (set -e).       *)
Abort ==
    /\ export.step \in Reading
    /\ export' = NotStarted
    /\ file' = NoFile
    /\ UNCHANGED <<vars, memberList, seeded>>

Export ==
    \/ Begin \/ ReadCounts \/ ReadPage \/ ReadStake \/ ReadPendingYield \/ ReadName
    \/ ReadLoan \/ (\E kind \in {"Loan", "Treasury"} : ReadDocument(kind)) \/ Abort
-----------------------------------------------------------------------------
Rows == Range(file.addresses)
NamedRows == {a \in Rows : file.name[a] # NoName}
FiledLoans == {id \in LoanIds : file.loans[id] # NoLoan}
FiledDocuments == {key \in DocumentKeys : file.documents[key] # NoHash}

(* What the batches are made of, each under the seed call it is sent with.   *)
Entries ==
    ({"member", "stake", "pending"} \X Rows) \cup ({"name"} \X NamedRows)
      \cup ({"loan"} \X FiledLoans) \cup ({"document"} \X FiledDocuments)

(***************************************************************************)
(* A new contract is deployed and initialized with the admins, threshold    *)
(* and policy read, once an export has been taken of a contract paused      *)
(* throughout. Ledger time goes on; the old contract is no longer followed. *)
(***************************************************************************)
Redeploy ==
    /\ export.step = "done" /\ export.calm
    /\ Cardinality(Entries) >= MinEntries
    /\ export' = [NotStarted EXCEPT !.step = "seeding"]
    /\ memberList' = <<>>
    /\ admins' = file.admins /\ threshold' = file.threshold /\ policy' \in file.policy
    /\ pauser' = NoAccount /\ pendingPolicy' = {} /\ paused' = FALSE
    /\ whitelisted' = {} /\ pendingToken' = [a \in ExtraAssets |-> {}]
    /\ balance' = [a \in Assets |-> 0]
    /\ members' = [a \in Accounts |-> NoMember]
    /\ totalMembers' = 0 /\ activeMembers' = 0 /\ activeContributions' = 0
    /\ delegation' = [a \in Accounts |-> NoAccount]
    /\ yieldAccumulator' = 0 /\ yieldRemainder' = 0
    /\ yieldSnapshot' = [a \in Accounts |-> 0]
    /\ stakes' = [a \in Accounts |-> 0] /\ stakeTime' = [a \in Accounts |-> 0]
    /\ totalStaked' = 0
    /\ loanProposals' = [id \in LoanIds |-> NoLoanProposal] /\ nextProposalId' = 0
    /\ loanVoted' = [id \in LoanIds |-> {}] /\ loans' = [id \in LoanIds |-> NoLoan]
    /\ treasuryProposals' = [id \in TreasuryIds |-> NoTreasuryProposal]
    /\ nextTreasuryId' = 0 /\ treasuryVoted' = [id \in TreasuryIds |-> {}]
    /\ commits' = [id \in TreasuryIds |-> [a \in Accounts |-> NoCommit]]
    /\ nameOwner' = [n \in Names |-> NoAccount] /\ nameOf' = [a \in Accounts |-> NoName]
    /\ documents' = [key \in DocumentKeys |-> NoHash]
    /\ seedingLocked' = FALSE
    /\ UNCHANGED <<now, file, seeded>>

(* A row's entry is sent with the data of its own row, or by mistake with    *)
(* that of another, which a later sending corrects.                          *)
SeedFrom(caller, kind, a, source) ==
    \/ kind = "member" /\ SeedMember(caller, a, file.record[source])
    \/ kind = "stake" /\ SeedStake(caller, a, file.stake[source])
    \/ kind = "pending" /\ SeedPendingYield(caller, a, file.pending[source])

Seed(caller) ==
    /\ export.step = "seeding"
    /\ \/ \E kind \in {"member", "stake", "pending"}, a \in Rows, source \in Rows :
             /\ SeedFrom(caller, kind, a, source)
             /\ IF source = a
                THEN seeded' = seeded \cup {<<kind, a>>} /\ UNCHANGED export
                ELSE /\ export.mistakes + export.calls < MaxMishaps
                     /\ seeded' = seeded \ {<<kind, a>>}
                     /\ export' = [export EXCEPT !.mistakes = @ + 1]
       \/ /\ UNCHANGED export
          /\ \/ \E a \in NamedRows : /\ SeedName(caller, a, file.name[a])
                                     /\ seeded' = seeded \cup {<<"name", a>>}
             \/ \E id \in FiledLoans : /\ SeedLoan(caller, id, file.loans[id])
                                       /\ seeded' = seeded \cup {<<"loan", id>>}
             \/ \E key \in FiledDocuments :
                   /\ SeedDocument(caller, key, file.documents[key])
                   /\ seeded' = seeded \cup {<<"document", key>>}
             \/ LockSeeding(caller) /\ UNCHANGED seeded
    /\ Listed
    /\ UNCHANGED file

(* Anyone's calls, and the clock, before and during the export.              *)
Others ==
    LET called == export.step # "idle" /\ now' = now
    IN  /\ export.step # "seeding"
        /\ Operate
        /\ Listed
        /\ called => export.calls < MaxCalls
        /\ export' = [export EXCEPT !.calls = IF called THEN @ + 1 ELSE @,
                                    !.calm = @ /\ paused']
        /\ UNCHANGED <<file, seeded>>

(* Nothing keeps members from calling a contract that is still being seeded: *)
(* of what they may do only joining is modelled. What it overwrites has to   *)
(* be sent again.                                                            *)
JoinEarly ==
    /\ export.step = "seeding"
    /\ export.mistakes + export.calls < MaxMishaps
    /\ \E m \in Accounts : /\ RegisterMember(m)
                           /\ seeded' = seeded \ {<<"member", m>>, <<"pending", m>>}
    /\ Listed
    /\ export' = [export EXCEPT !.calls = @ + 1]
    /\ UNCHANGED file

HandoverNext ==
    \/ Others \/ Export \/ Redeploy \/ JoinEarly
    \/ \E caller \in Migrators : Seed(caller)

HandoverSpec == HandoverInit /\ [][HandoverNext]_handoverVars
-----------------------------------------------------------------------------
(* However the records change and whoever joins while the pages are read,    *)
(* the export holds each member once, and everyone who had joined when the   *)
(* total was read (list_members, export-state.sh).                           *)
PagesWhole ==
    export.step \in {"stake", "pending", "name", "loans", "Loan", "Treasury", "done"} =>
        /\ Len(file.addresses) \in file.total .. Len(memberList)
        /\ file.addresses = SubSeq(memberList, 1, Len(file.addresses))

(* An export of a contract that was paused throughout is not torn: its many  *)
(* reads are those of one state, the one the contract is still in.           *)
FileWhole ==
    export.step = "done" /\ export.calm =>
        /\ file.total = totalMembers /\ file.active = activeMembers
        /\ Rows = Registered /\ Cardinality(Rows) = Len(file.addresses)
        /\ file.record = members
        /\ file.stake = stakes
        /\ \A a \in Rows : file.pending[a] = PendingYield(a)
        /\ file.name = nameOf
        /\ file.loans = loans
        /\ file.documents = documents

InPlace(kind, key) ==
    CASE kind = "member" -> members[key] = file.record[key]
      [] kind = "stake" -> stakes[key] = file.stake[key]
      [] kind = "pending" -> PendingYield(key) = file.pending[key]
      [] kind = "name" -> nameOf[key] = file.name[key] /\ nameOwner[nameOf[key]] = key
      [] kind = "loan" -> loans[key] = file.loans[key]
      [] kind = "document" -> documents[key] = file.documents[key]

(* The new contract comes to stand where the old one stood, in whatever      *)
(* order the entries are sent: what has been sent is in place, and no other  *)
(* seed disturbs it; total_staked is the stakes' sum all along; and once all *)
(* has been sent, and sent again where it was wrong or a member joined over  *)
(* it, the member counts are those exported.                                 *)
Restored ==
    export.step = "seeding" =>
        /\ \A entry \in seeded : InPlace(entry[1], entry[2])
        /\ totalStaked = SumFunctionOnSet(stakes, Accounts)
        /\ seeded = Entries /\ Registered = Rows =>
              totalMembers = file.total /\ activeMembers = file.active
============================================================================
