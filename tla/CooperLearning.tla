--------------------------- MODULE CooperLearning ---------------------------
(***************************************************************************)
(* How COOPER learns (src/bin/radnet_tools.rs).  cooper-lessons distills   *)
(* the unknown queries of the logs into a file of lessons; cooper-cards    *)
(* makes cards of the profile and these lessons, writes them to one file   *)
(* and, inside the image of a flash bank with a checksum, to another;      *)
(* learning-bank builds an image of the cards file, and reads an image     *)
(* back.  The commands are run by hand: in any order, on files that are    *)
(* older than what they were made of, and some of which a full disk or a   *)
(* crash has left half written.                                            *)
(*                                                                         *)
(* A query is taken for the text of its lesson.  The checksum and the hash *)
(* of a card's id are taken to be injective.                               *)
(***************************************************************************)
EXTENDS Integers, SequencesExt

CONSTANTS
    Queries,       \* what the logs quote, spaces and all
    Normal,        \* normalize_text of each; "" where nothing is left
    TagOf,         \* tag_for_query of each normalised query
    Logs,          \* log files, numbered in the order they are named
    Profiles,      \* profile_cards of each profile: a sequence of [tag, text]
    Chars,         \* length of each text
    Priority,      \* tag_priority
    Rank,          \* of every card: the order of the ids
    AllowedTags, MaxCards, MaxChars,
    BankRoom,      \* characters of cards an image has room for
    MaxCooperSteps \* bound

ASSUME LogsAssumption == IsFiniteSet(Logs) /\ Logs \subseteq Int
ASSUME DeckAssumption ==
    /\ MaxCards \in Nat
    /\ \A t \in AllowedTags : Priority[t] \in Int
    /\ \A a, b \in DOMAIN Rank : Rank[a] \in Int /\ (Rank[a] = Rank[b] => a = b)
ASSUME LinesAssumption ==
    /\ \A p \in Profiles :
           /\ Len(p) \in Nat /\ DOMAIN p = 1 .. Len(p)
           /\ \A n \in DOMAIN p : p[n] \in DOMAIN Rank
    /\ \A q \in Queries :
           Normal[q] # "" => [tag |-> TagOf[Normal[q]], text |-> Normal[q]] \in DOMAIN Rank

VARIABLES
    log,           \* log[f]: the queries in file f
    lessons,       \* the lessons file
    profile,
    cards,         \* the cards file, or Torn
    image,         \* the bank file: [len, header, payload]
    building,      \* cards whose image cooper-cards has yet to write, or NoCards
    payload,       \* what learning-bank inspect wrote out
    cooperSteps,
    \* history
    madeOf,        \* what the cards in cards or building were made of
    stored        \* the contents of the cards file so far

clVars == <<log, lessons, profile, cards, image, building, payload, cooperSteps, madeOf, stored>>

Torn == <<[tag |-> "", text |-> "torn"]>>
NoCards == <<[tag |-> "", text |-> "none"]>>
NoImage == [len |-> "short", header |-> NoCards, payload |-> NoCards]

CLInit ==
    /\ log = [f \in Logs |-> <<>>]
    /\ lessons = <<>> /\ profile \in Profiles
    /\ cards = Torn /\ image = NoImage
    /\ building = NoCards /\ payload = NoCards
    /\ cooperSteps = 0
    /\ madeOf = [profile |-> <<>>, lessons |-> <<>>]
    /\ stored = {}

CooperCommand ==
    /\ building = NoCards
    /\ cooperSteps < MaxCooperSteps /\ cooperSteps' = cooperSteps + 1

-----------------------------------------------------------------------------

(* External: the radio logs a query it cannot answer, or the profile is    *)
(* edited.                                                                 *)
LogQuery(f, q) ==
    /\ CooperCommand
    /\ log' = [log EXCEPT ![f] = Append(@, q)]
    /\ UNCHANGED <<lessons, profile, cards, image, building, payload, madeOf, stored>>

EditProfile(p) ==
    /\ CooperCommand
    /\ profile' = p
    /\ UNCHANGED <<log, lessons, cards, image, building, payload, madeOf, stored>>

(* A set as a sequence: each element has as many before it as there are to *)
(* go before it.                                                           *)
InOrder(S, Precedes(_, _)) ==
    [k \in 1 .. Cardinality(S) |->
        CHOOSE x \in S : Cardinality({y \in S : Precedes(y, x)}) = k - 1]

\* The lines of the logs: <<file, line>>.
Lines == UNION {{f} \X DOMAIN log[f] : f \in Logs}
Earlier(d, e) == d[1] < e[1] \/ (d[1] = e[1] /\ d[2] < e[2])
QueryAt(e) == Normal[log[e[1]][e[2]]]

(* Each query once, where it was seen first, whatever its spaces.          *)
FirstAsked ==
    {e \in Lines : QueryAt(e) # "" /\ \A d \in Lines : Earlier(d, e) => QueryAt(d) # QueryAt(e)}
Distilled == LET found == InOrder(FirstAsked, Earlier)
             IN  [k \in DOMAIN found |-> QueryAt(found[k])]

(* A write that stops leaves the lines before; half a line is skipped when *)
(* the file is read.                                                       *)
build_cooper_offline_lessons ==
    /\ CooperCommand
    /\ \E n \in 0 .. Len(Distilled) : lessons' = SubSeq(Distilled, 1, n)
    /\ UNCHANGED <<log, profile, cards, image, building, payload, madeOf, stored>>

-----------------------------------------------------------------------------

LessonCards == [n \in DOMAIN lessons |-> [tag |-> TagOf[lessons[n]], text |-> lessons[n]]]

\* insert_card: a repeated line is one card.
MayBeCard(line) ==
    line.tag # "" /\ line.text # "" /\ line.tag \in AllowedTags /\ Chars[line.text] <= MaxChars

GoesBefore(a, b) ==
    \/ Priority[a.tag] > Priority[b.tag]
    \/ Priority[a.tag] = Priority[b.tag] /\ Rank[a] < Rank[b]

Cards ==
    LET unique == {line \in ToSet(profile) \cup ToSet(LessonCards) : MayBeCard(line)}
        sorted == InOrder(unique, GoesBefore)
    IN  IF Len(sorted) > MaxCards THEN SubSeq(sorted, 1, MaxCards) ELSE sorted

RoomFor(p) == FoldLeft(LAMBDA n, c : n + Chars[c.text], 0, p) <= BankRoom

(* build_bank_image: the header says how long the payload is and what its  *)
(* checksum is.                                                            *)
Image(p) == [len |-> "full", header |-> p, payload |-> p]

(* What a write that fails leaves: a short file, or after a crash one of   *)
(* its full length with blocks that were never written.                    *)
PiecesOf(p) ==
    {NoImage, [Image(p) EXCEPT !.header = NoCards], [Image(p) EXCEPT !.payload = NoCards]}

(* The image is made before either file is touched: cards that do not fit  *)
(* leave both as they are.                                                 *)
build_cooper_cards ==
    /\ CooperCommand
    /\ RoomFor(Cards)
    /\ madeOf' = [profile |-> profile, lessons |-> lessons]
    /\ \/ cards' = Cards /\ building' = Cards /\ stored' = stored \cup {Cards}
       \/ cards' = Torn /\ UNCHANGED <<building, stored>>
    /\ UNCHANGED <<log, lessons, profile, image, payload>>

(* The process may also end before this write, and the image be an old one.*)
WriteBank ==
    /\ building # NoCards
    /\ image' \in {image, Image(building)} \cup PiecesOf(building)
    /\ building' = NoCards
    /\ UNCHANGED <<log, lessons, profile, cards, payload, cooperSteps, madeOf, stored>>

(* learning-bank build on the cards file: half a JSON text is refused.     *)
BuildBank ==
    /\ CooperCommand
    /\ cards # Torn /\ RoomFor(cards)
    /\ image' \in {Image(cards)} \cup PiecesOf(cards)
    /\ UNCHANGED <<log, lessons, profile, cards, building, payload, madeOf, stored>>

Sound(im) == im.len = "full" /\ im.header # NoCards /\ im.header = im.payload

(* learning-bank inspect: size, magic and version, length and checksum.    *)
Inspect ==
    /\ CooperCommand
    /\ Sound(image)
    /\ payload' = image.payload
    /\ UNCHANGED <<log, lessons, profile, cards, image, building, madeOf, stored>>

CLNext ==
    \/ \E f \in Logs, q \in Queries : LogQuery(f, q)
    \/ \E p \in Profiles : EditProfile(p)
    \/ build_cooper_offline_lessons \/ build_cooper_cards \/ WriteBank \/ BuildBank \/ Inspect

CLSpec == CLInit /\ [][CLNext]_clVars

-----------------------------------------------------------------------------

(* The cards are the best of the profile and the lessons: none that may    *)
(* not be one, none twice, and one is left out only when the deck is full  *)
(* of cards of at least its priority.  So a flood of unknown queries never *)
(* pushes a principle out but for lessons of its own priority or above.    *)
CardsAreTheBest ==
    LET kept == ToSet(cards)
        candidates ==
            {c \in ToSet(madeOf.profile) \cup
                   {[tag |-> TagOf[q], text |-> q] : q \in ToSet(madeOf.lessons)} :
                c.tag # "" /\ c.text # "" /\ c.tag \in AllowedTags /\ Chars[c.text] <= MaxChars}
    IN  cards # Torn =>
            /\ kept \subseteq candidates /\ Cardinality(kept) = Len(cards)
            /\ \A n \in 1 .. Len(cards) - 1 : Priority[cards[n].tag] >= Priority[cards[n + 1].tag]
            /\ kept # candidates =>
                   /\ Len(cards) = MaxCards
                   /\ \A c \in candidates \ kept, k \in kept : Priority[k.tag] >= Priority[c.tag]

(* No query is a lesson twice, though it was asked again and again and in  *)
(* several logs, and every lesson was asked.                               *)
LessonsWereAsked ==
    /\ IsInjective(lessons)
    /\ \A n \in DOMAIN lessons :
           \E f \in Logs : \E q \in ToSet(log[f]) : Normal[q] = lessons[n]

(* Whatever was interrupted, an image that is accepted holds cards that    *)
(* the cards file held before: the bank never runs ahead of it, and no     *)
(* half written image gets past the checks.                                *)
BankFollowsCards ==
    /\ payload # NoCards => payload \in stored
    /\ Sound(image) => image.payload \in stored

(* What is learned is what was asked, and what is kept is what was learned.*)
LearningIsHonest == CardsAreTheBest /\ LessonsWereAsked /\ BankFollowsCards
=============================================================================
