----------------------------- MODULE ServerMode -----------------------------
(***************************************************************************)
(* Several servers over the same two databases, each started with a        *)
(* configuration of its own: in demo mode, where BankID is a mock, or in   *)
(* sharp mode against BankID's test environment or its production.  What   *)
(* stops a server from starting, whom it trusts, and what it may do with   *)
(* an election that a server of another mode or environment created.       *)
(*                                                                         *)
(* A process never changes its configuration; a server may be stopped and  *)
(* started with another.  Acts are drawn as one check and one write, one   *)
(* at a time; how they meet is the subject of modules of their own.        *)
(***************************************************************************)
EXTENDS Naturals, FiniteSets

CONSTANTS
    Servers,
    RootFiles,    \* what BANKID_ROOT_CERTIFICATES may hold, sets of roots
    Unset

VARIABLES
    tested,       \* READER_TESTED_AGAINST_REAL_SIGNATURE, of the code that is deployed
    server,       \* per server, Unset while it is down, or what it runs with
    election,     \* the two rows of an election, its phase, its votes, and the acts of
                  \* servers that were unlike the one that made it
    act,          \* the act that has passed its check
    outside       \* the rows that were written past the application

modeVars == <<tested, server, election, act, outside>>

Environments == {"test", "production"}

\* Read when it is asked for; what a configuration does not state is Unset.
Configurations ==
    [mode : {"DEMO", "SHARP"}, env : Environments \cup {Unset},
     roots : RootFiles \cup {Unset},
     certificate : {Unset, "expired", "publicTest", "own"},
     rest : BOOLEAN]     \* the cookie, the origins and the pepper

BankIdKind(mode, env) ==
    IF mode = "DEMO" THEN "mock" ELSE IF env = Unset THEN "none" ELSE env

electionBankIdEnvironmentFor(kind) == IF kind \in Environments THEN kind ELSE "none"

\* trustedBankIdRoots: without a file the mock's root in demo mode, and none otherwise.
trustedBankIdRoots(config) ==
    IF config.roots # Unset THEN config.roots
    ELSE IF config.mode = "DEMO" THEN {"mock"} ELSE {}

----------------------------------------------------------------------------
(***************************************************************************)
(* The start.                                                              *)
(***************************************************************************)
rpCredentialHolds(config) ==
    /\ config.certificate \notin {Unset, "expired"}
    /\ config.env = "production" => config.certificate # "publicTest"

\* Flawed: one root of the file that is the environment's is enough.
customerRootHolds_One(config) == config.roots # Unset /\ config.env \in config.roots

\* Every root of the file is the customer root of the environment.
customerRootHolds(config) == config.roots # Unset /\ config.roots = {config.env}

rootsAreNotTheMock(config) == config.roots # Unset /\ "mock" \notin config.roots

readerTested(config, isTested) == isTested \/ config.env = "test"

sharpModeRequirements(config, isTested) ==
    /\ config.env # Unset
    /\ rpCredentialHolds(config)
    /\ readerTested(config, isTested)
    /\ customerRootHolds(config)
    /\ rootsAreNotTheMock(config)
    /\ config.rest

assertBootable(config, isTested) ==
    config.mode = "DEMO" \/ sharpModeRequirements(config, isTested)

Running(config) ==
    LET kind == BankIdKind(config.mode, config.env)
    IN [mode |-> config.mode, kind |-> kind, env |-> electionBankIdEnvironmentFor(kind),
        trusts |-> trustedBankIdRoots(config)]

\* What a server may come to run with, by whether the reader is tested.
Bootable ==
    [isTested \in BOOLEAN |->
        {Running(config) : config \in {c \in Configurations : assertBootable(c, isTested)}}]

StartServer(s) ==
    /\ server[s] = Unset
    /\ \E running \in Bootable[tested] : server' = [server EXCEPT ![s] = running]
    /\ UNCHANGED <<tested, election, act, outside>>

StopServer(s) ==
    /\ server[s] # Unset
    /\ server' = [server EXCEPT ![s] = Unset]
    /\ act' = IF act # Unset /\ act.server = s THEN Unset ELSE act
    /\ UNCHANGED <<tested, election, outside>>

----------------------------------------------------------------------------
(***************************************************************************)
(* An election, and what is done with it.                                  *)
(***************************************************************************)
Row(s) == [mode |-> server[s].mode, env |-> server[s].env]

\* Flawed: the demo's passphrases are taken in every mode.
MayUse_KnownPhrases(s, known) == TRUE

MayUse(s, known) == server[s].mode = "SHARP" => ~known

\* createElection, with phrases that everybody knows or with others; the seeding of
\* the demo election, which runs in demo mode only, among them.
CreateElection(s, known) ==
    /\ server[s] # Unset /\ election = Unset
    /\ MayUse(s, known)
    /\ election' = [made |-> Row(s), known |-> known, voters |-> Row(s), votes |-> Row(s),
                    phase |-> "OPEN", post |-> Unset, signedUnder |-> {},
                    strangers |-> {}]
    /\ UNCHANGED <<tested, server, act, outside>>

Acts == {"cast", "close", "count", "certify", "publish", "reset"}

electionBelongsToThisServer(s, row) == row = Row(s)

\* Flawed: the row in the voters database says enough.
checkElectionMode_OneRow(s) == electionBelongsToThisServer(s, election.voters)

\* Both rows, one after the other; a row that is not there is not asked.
checkElectionMode(s) ==
    /\ electionBelongsToThisServer(s, election.voters)
    /\ election.votes # Unset => electionBelongsToThisServer(s, election.votes)

IsDemo(row) == row # Unset /\ row.mode = "DEMO" /\ row.env = "none"

PhaseFor(a) ==
    CASE a \in {"cast", "close"} -> {"OPEN"}
      [] a = "count" -> {"STRIPPED"}
      [] a = "certify" -> {"TALLIED"}
      [] a = "publish" -> {"TALLIED", "CERTIFIED"}
      [] a = "reset" -> {"OPEN", "STRIPPED", "TALLIED", "CERTIFIED"}

\* A casting asks the row it reads, in the voters database; a reset asks for the demo's.
PassesCheck(s, a) ==
    \/ a = "cast" /\ electionBelongsToThisServer(s, election.voters)
    \/ /\ a = "reset" /\ server[s].mode = "DEMO"
       /\ IsDemo(election.voters) /\ IsDemo(election.votes)
    \/ a \notin {"cast", "reset"} /\ checkElectionMode(s)

BeginAct(s, a) ==
    /\ server[s] # Unset /\ election # Unset /\ act = Unset
    /\ election.phase \in PhaseFor(a)
    /\ PassesCheck(s, a)
    /\ act' = [server |-> s, act |-> a]
    /\ UNCHANGED <<tested, server, election, outside>>

\* Flawed: the post does not tell which BankID it was.
certifiedEventTypeFor_One(kind) == "mock"

\* The post's type is that of the server's BankID at the moment it is written.
certifiedEventTypeFor(kind) == kind

AfterAct(s, a) ==
    CASE a = "cast"    -> [election EXCEPT !.signedUnder = @ \cup server[s].trusts]
      [] a = "close"   -> [election EXCEPT !.phase = "STRIPPED"]
      [] a = "count"   -> [election EXCEPT !.phase = "TALLIED"]
      [] a = "certify" -> [election EXCEPT !.phase = "CERTIFIED",
                                           !.post = certifiedEventTypeFor(server[s].kind)]
      [] a = "publish" -> election
      [] a = "reset"   -> [election EXCEPT !.phase = "OPEN", !.signedUnder = {}]

FinishAct ==
    /\ act # Unset
    /\ election.phase \in PhaseFor(act.act)
    /\ election' = [AfterAct(act.server, act.act) EXCEPT
           !.strangers = @ \cup IF Row(act.server) = election.made THEN {} ELSE {act.act}]
    /\ act' = Unset
    /\ UNCHANGED <<tested, server, outside>>

\* What servers write.
Rows == {[mode |-> "DEMO", env |-> "none"]} \cup [mode : {"SHARP"}, env : Environments]

Elections ==
    [made : Rows, known : BOOLEAN, voters : Rows, votes : Rows \cup {Unset},
     phase : {"OPEN", "STRIPPED", "TALLIED", "CERTIFIED"},
     post : {Unset, "mock"} \cup Environments,
     signedUnder : SUBSET ({"mock"} \cup UNION RootFiles), strangers : SUBSET Acts]

ASSUME ModeAssumption == Unset \notin Rows \cup Elections

\* The columns are written when the election is created, and by nobody else.
WriteRow ==
    /\ election # Unset
    /\ \E side \in {"voters", "votes"}, row \in Rows :
          /\ outside' = outside \cup {side}
          /\ Cardinality(outside') <= 1
          /\ election' = [election EXCEPT ![side] = row]
    /\ UNCHANGED <<tested, server, act>>

DeleteVotesRow ==
    /\ election # Unset /\ outside = {}
    /\ outside' = {"votes"}
    /\ election' = [election EXCEPT !.votes = Unset]
    /\ UNCHANGED <<tested, server, act>>

ModeInit ==
    /\ tested \in BOOLEAN
    /\ server = [s \in Servers |-> Unset]
    /\ election = Unset /\ act = Unset
    /\ outside = {}

ModeNext ==
    \/ \E s \in Servers : StartServer(s) \/ StopServer(s)
    \/ \E s \in Servers, known \in BOOLEAN : CreateElection(s, known)
    \/ \E s \in Servers, a \in Acts : BeginAct(s, a)
    \/ FinishAct
    \/ WriteRow \/ DeleteVotesRow

ModeSpec == ModeInit /\ [][ModeNext]_modeVars

----------------------------------------------------------------------------
(***************************************************************************)
(* Properties                                                              *)
(***************************************************************************)
ModeTypeOK ==
    /\ \A s \in Servers : server[s] # Unset =>
          /\ server[s].kind \in {"mock"} \cup Environments
          /\ server[s].env \in {"none"} \cup Environments
    /\ tested \in BOOLEAN
    /\ election # Unset => election \in Elections
    /\ act # Unset => act \in [server : Servers, act : Acts]
    /\ outside \subseteq {"voters", "votes"}

\* election-mode.ts: whatever servers run beside each other, and with one of the two
\* rows rewritten past the application, an election is closed, counted, certified,
\* published and set back only by a server like the one that created it; a casting
\* asks one row only, and is safe while that one is.
DoneByItsOwn ==
    election # Unset =>
        election.strangers \subseteq IF "voters" \in outside THEN {"cast"} ELSE {}

\* No vote of an election against BankID's production rests on another root than the
\* customer root of production, and none is cast in it by code that was not tested on
\* a real signature.
ProductionIsReal ==
    election # Unset /\ election.made.env = "production" /\ "voters" \notin outside =>
        /\ election.signedUnder \subseteq {"production"}
        /\ tested

\* The certification's post, which the hash chain binds, tells the BankID that the
\* election was created with.
PostTellsTheEnvironment ==
    election # Unset /\ election.post # Unset =>
        electionBankIdEnvironmentFor(election.post) = election.made.env

\* The shares of an election in sharp mode are not behind passphrases that everybody knows.
SharpPhrasesAreUnknown == election # Unset /\ election.made.mode = "SHARP" => ~election.known

\* What holds of servers of different modes beside each other (election-mode.ts).
ModeHolds ==
    ModeTypeOK /\ DoneByItsOwn /\ ProductionIsReal /\ PostTellsTheEnvironment /\ SharpPhrasesAreUnknown
=============================================================================
