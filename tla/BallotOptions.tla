---------------------------- MODULE BallotOptions ----------------------------
(***************************************************************************)
(* The options of a ballot in the order in which they are encrypted,       *)
(* counted and named: blank, the parties, their candidates, or the answers *)
(* of a question.  The voter's page, the server that verifies the vote and *)
(* the server that publishes the result build the list each for itself,    *)
(* from reads of their own.  No proof would show that two of them differ.  *)
(*                                                                         *)
(* A ballot's rows are added one by one.  The rows of one kind under one   *)
(* parent have different places, as the creation gives them.               *)
(***************************************************************************)
EXTENDS Naturals, FiniteSets, Sequences, SequencesExt

CONSTANTS
    PartyIds, CandidateIds, AnswerIds,
    MaxPlace       \* the places on a ballot, displayOrder, some of which stay free

\* A name is the id of what it names: nothing else is called as the blank vote is.
ASSUME OptionAssumption == MaxPlace \in Nat /\ "Blankt" \notin PartyIds \cup AnswerIds

VARIABLES
    kind,                 \* of the ballot, "FRAGA" or "RIKSDAG"
    allowsCandidateVote,
    parties,              \* ballot_party
    candidates,           \* candidate
    answers               \* ballot_option

optionVars == <<kind, allowsCandidateVote, parties, candidates, answers>>

DisplayOrders == 1..MaxPlace

OptionInit ==
    /\ kind \in {"FRAGA", "RIKSDAG"}
    /\ allowsCandidateVote \in BOOLEAN
    /\ parties = {} /\ candidates = {} /\ answers = {}

Taken(rows) == {row.displayOrder : row \in rows}

\* A row of the other kind than the ballot's is written past the creation only.
AddParty(i, place) ==
    /\ i \notin {p.id : p \in parties} /\ place \notin Taken(parties)
    /\ parties' = parties \cup {[id |-> i, displayOrder |-> place]}
    /\ UNCHANGED <<kind, allowsCandidateVote, candidates, answers>>

AddCandidate(i, p, place) ==
    /\ i \notin {c.id : c \in candidates}
    /\ place \notin Taken({c \in candidates : c.party = p.id})
    /\ candidates' = candidates \cup {[id |-> i, party |-> p.id, displayOrder |-> place]}
    /\ UNCHANGED <<kind, allowsCandidateVote, parties, answers>>

AddAnswer(i, place) ==
    /\ i \notin {a.id : a \in answers} /\ place \notin Taken(answers)
    /\ answers' = answers \cup {[id |-> i, displayOrder |-> place]}
    /\ UNCHANGED <<kind, allowsCandidateVote, parties, candidates>>

OptionNext ==
    \/ \E i \in PartyIds, place \in DisplayOrders : AddParty(i, place)
    \/ \E i \in CandidateIds, p \in parties, place \in DisplayOrders : AddCandidate(i, p, place)
    \/ \E i \in AnswerIds, place \in DisplayOrders : AddAnswer(i, place)

OptionSpec == OptionInit /\ [][OptionNext]_optionVars

----------------------------------------------------------------------------
(***************************************************************************)
(* The list.                                                               *)
(***************************************************************************)
\* sort: by displayOrder, and those with the same stay as they stood.
Ahead(list, i) ==
    {j \in DOMAIN list : \/ list[j].displayOrder < list[i].displayOrder
                         \/ list[j].displayOrder = list[i].displayOrder /\ j < i}

Sorted(list) ==
    [place \in DOMAIN list |->
        list[CHOOSE i \in DOMAIN list : Cardinality(Ahead(list, i)) = place - 1]]

Blank           == [kind |-> "BLANK"]
Party(p)        == [kind |-> "PARTY", party |-> p.id]
Candidate(p, c) == [kind |-> "CANDIDATE", party |-> p.id, candidate |-> c.id]
Answer(a)       == [kind |-> "OPTION", option |-> a.id]

Each(Op(_), list) == [i \in DOMAIN list |-> Op(list[i])]

\* canonicalOptions: every candidate after every party, in the order of the parties.
canonicalOptions(shape) ==
    LET inOrder == Sorted(shape.parties)
        of(p) == LET Named(c) == Candidate(p, c) IN Each(Named, Sorted(p.candidates))
    IN <<Blank>>
       \o Each(Party, inOrder)
       \o (IF shape.allowsCandidateVote THEN FlattenSeq(Each(of, inOrder)) ELSE <<>>)
       \o Each(Answer, Sorted(shape.options))

\* orderBy displayOrder
OrderBy(rows) == Sorted(SetToSeq(rows))

CandidatesOf(p) == OrderBy({c \in candidates : c.party = p.id})

PartiesWithCandidates ==
    LET With(p) == [id |-> p.id, displayOrder |-> p.displayOrder, candidates |-> CandidatesOf(p)]
    IN Each(With, OrderBy(parties))

(***************************************************************************)
(* getBallotChoices: what the voter chooses from, and the names.           *)
(***************************************************************************)
getBallotChoices ==
    IF kind = "FRAGA"
    THEN [kind |-> "QUESTION", options |-> OrderBy(answers)]
    ELSE [kind |-> "PARTY", allowsCandidateVote |-> allowsCandidateVote,
          parties |-> PartiesWithCandidates]

\* The page's list, from the choices it was given.
OptionsOfThePage ==
    LET choices == getBallotChoices
    IN canonicalOptions(
           IF choices.kind = "PARTY"
           THEN [allowsCandidateVote |-> choices.allowsCandidateVote,
                 parties |-> choices.parties, options |-> <<>>]
           ELSE [allowsCandidateVote |-> FALSE, parties |-> <<>>, options |-> choices.options])

\* What the voter may choose: a party or one of its candidates, or an answer or blank.
MayChoose ==
    LET choices == getBallotChoices
    IN IF choices.kind = "QUESTION"
       THEN {Blank} \cup {Answer(a) : a \in ToSet(choices.options)}
       ELSE {Party(p) : p \in ToSet(choices.parties)} \cup
            UNION {{Candidate(p, c) : c \in ToSet(p.candidates)} :
                       p \in {q \in ToSet(choices.parties) : choices.allowsCandidateVote}}

\* findIndex: the first that is the same.
indexOfChoice(options, choice) ==
    CHOOSE i \in DOMAIN options :
        options[i] = choice /\ \A j \in 1..(i - 1) : options[j] # choice

unitVector(length, index) == [position \in 1..length |-> IF position = index THEN 1 ELSE 0]

VectorOf(choice) ==
    LET options == OptionsOfThePage
    IN unitVector(Len(options), indexOfChoice(options, choice))

(***************************************************************************)
(* getEncryptedBallotShape: how many options there are to verify and to    *)
(* count.  The places are those in the rows that were read.                *)
(***************************************************************************)
Numbered(rows) == [i \in DOMAIN rows |-> [id |-> rows[i].id, displayOrder |-> i]]

\* Flawed: rows of the other kind are on the ballot too.
getEncryptedBallotShape_EveryRow ==
    LET With(p) == [id |-> p.id, displayOrder |-> p.displayOrder, candidates |-> Numbered(CandidatesOf(p))]
    IN canonicalOptions([allowsCandidateVote |-> kind # "FRAGA" /\ allowsCandidateVote,
                         parties |-> Each(With, OrderBy(parties)),
                         options |-> Numbered(OrderBy(answers))])

getEncryptedBallotShape ==
    LET isQuestion == kind = "FRAGA"
        rows == IF isQuestion THEN <<>> ELSE OrderBy(parties)
        shapeOf(i) == [id |-> rows[i].id, displayOrder |-> i,
                       candidates |-> Numbered(CandidatesOf(rows[i]))]
    IN canonicalOptions([allowsCandidateVote |-> ~isQuestion /\ allowsCandidateVote,
                         parties |-> [i \in DOMAIN rows |-> shapeOf(i)],
                         options |-> IF isQuestion THEN Numbered(OrderBy(answers)) ELSE <<>>])

(***************************************************************************)
(* optionLabelsOf: the names beside the numbers that are published.        *)
(***************************************************************************)
LabelOf(option) ==
    CASE option.kind = "BLANK" -> <<"Blankt">>
      [] option.kind = "OPTION" -> <<option.option>>
      [] option.kind = "PARTY" -> <<option.party>>
      [] option.kind = "CANDIDATE" -> <<option.candidate, option.party>>

\* Flawed: the names as they are read, the candidates under their parties.
optionLabelsOf_AsTheyAreRead ==
    LET choices == getBallotChoices
        Under(p) == LET Named(c) == <<c.id, p.id>> IN <<<<p.id>>>> \o Each(Named, p.candidates)
        Option(a) == <<a.id>>
    IN <<<<"Blankt">>>> \o (IF choices.kind = "QUESTION"
                           THEN Each(Option, choices.options)
                           ELSE FlattenSeq(Each(Under, choices.parties)))

optionLabelsOf == Each(LabelOf, OptionsOfThePage)

----------------------------------------------------------------------------
(***************************************************************************)
(* Properties                                                              *)
(***************************************************************************)
OptionTypeOK ==
    /\ \A p \in parties : p.id \in PartyIds /\ p.displayOrder \in DisplayOrders
    /\ \A c \in candidates : c.party \in {p.id : p \in parties}

\* ballot-encoding.ts, "the order must be the same everywhere": a choice is one of as
\* many numbers as the server verifies and counts, and the number beside which the
\* choice's own name is published, no other, is the one it adds to.
OptionsAgree ==
    LET shape == getEncryptedBallotShape
        labels == optionLabelsOf
    IN /\ Len(labels) = Len(shape)
       /\ \A choice \in MayChoose :
             LET vector == VectorOf(choice)
             IN /\ Len(vector) = Len(shape)
                /\ \A i \in DOMAIN vector :
                      /\ vector[i] = 1 <=> shape[i] = choice
                      /\ vector[i] = 1 <=> labels[i] = LabelOf(choice)
=============================================================================
