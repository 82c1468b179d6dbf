------------------------------- MODULE Categories -------------------------------
(***************************************************************************)
(* The member categories of a club and the age transition                       *)
(* (src/src/routes/club-members.ts, lib/member-lifecycle.ts,                     *)
(* lib/age-transition.ts): the board creates, changes and archives categories   *)
(* and moves people; the hourly sweep moves everybody who is older than the     *)
(* category allows to the category it names, and tells them.                    *)
(*                                                                         *)
(* Every write locks the categories of the club before the rows of its members, *)
(* so each is one step.  A year is the unit of time; an age is the number of    *)
(* years since the birth, which the board may correct.                          *)
(***************************************************************************)
EXTENDS Integers, FiniteSets

CONSTANTS
  Categories,   \* categories of the club
  Default,      \* the category aktiv
  Members,      \* club_members
  LastYear,     \* bound on the calendar
  MaxCategoryEdits,     \* bound on the board's calls
  NoCategory

ASSUME CategoriesAssumption ==
  /\ Default \in Categories /\ NoCategory \notin Categories
  /\ LastYear \in Nat /\ MaxCategoryEdits \in Nat

VARIABLES
  categories,   \* member_categories
  people,       \* club_members: category, year of birth, whether they left
  year,
  categoryEdits,        \* calls of the board so far
  notices       \* jobs age_transition_member_notify: queued, and told

categoryVars == <<categories, people, year, categoryEdits, notices>>

-----------------------------------------------------------------------------
Years == 0..LastYear
NoLimitOfAge == LastYear + 1     \* max_age is null

Category == [made: BOOLEAN, archived: BOOLEAN,
             upTo: Years \cup {NoLimitOfAge}, goes: Categories \cup {NoCategory}]
Unmade == [made |-> FALSE, archived |-> FALSE, upTo |-> NoLimitOfAge, goes |-> NoCategory]
Notice == [who: Members, to: Categories, in: Years]

CategoriesTypeOK ==
  /\ categories \in [Categories -> Category]
  /\ people \in [Members -> [category: Categories, born: Years, left: BOOLEAN]]
  /\ year \in Years /\ categoryEdits \in 0..MaxCategoryEdits
  /\ notices.queued \subseteq Notice /\ notices.told \subseteq Notice

CategoriesInit ==
  /\ categories = [k \in Categories |-> [Unmade EXCEPT !.made = (k = Default)]]
  /\ people = [m \in Members |-> [category |-> Default, born |-> 0, left |-> FALSE]]
  /\ year = 0 /\ categoryEdits = 0
  /\ notices = [queued |-> {}, told |-> {}]

-----------------------------------------------------------------------------
Usable(k) == categories[k].made /\ ~categories[k].archived
Current == {m \in Members : ~people[m].left}
AgeOf(m) == year - people[m].born

\* suggestCategory
Suggested(m) ==
  LET from == categories[people[m].category]
  IN  /\ m \in Current
      /\ ~from.archived /\ from.goes # NoCategory /\ from.upTo # NoLimitOfAge
      /\ AgeOf(m) > from.upTo
      /\ Usable(from.goes)
DueForTransition == {m \in Members : Suggested(m)}

\* Sets of categories that no transition leaves.
ClosedSets ==
  {set \in SUBSET Categories :
     \A k \in set : categories[k].goes # NoCategory => categories[k].goes \in set}

\* wouldCreateCycle: the chain of transitions from target comes to key, which is
\* to say that whoever follows them from target cannot keep away from key.
LeadsTo(target, key) == \A set \in ClosedSets : target \in set => key \in set

\* validateCategoryRules
RulesAllowCycles(k, upTo, goes) ==
  goes # NoCategory => (upTo # NoLimitOfAge /\ goes # k /\ Usable(goes))
RulesAllow(k, upTo, goes) ==
  goes # NoCategory => (upTo # NoLimitOfAge /\ goes # k /\ Usable(goes) /\ ~LeadsTo(goes, k))

EditCategory == categoryEdits < MaxCategoryEdits /\ categoryEdits' = categoryEdits + 1

-----------------------------------------------------------------------------
\* POST /club-members/categories: an archived category keeps its key.
CreatesCategory(k, upTo, goes) ==
  /\ EditCategory /\ ~categories[k].made /\ RulesAllow(k, upTo, goes)
  /\ categories' = [categories EXCEPT ![k] = [Unmade EXCEPT !.made = TRUE, !.upTo = upTo, !.goes = goes]]
  /\ UNCHANGED <<people, year, notices>>

\* PATCH /club-members/categories/:id: an archived one is renamed at most, and its limits are not looked at.
ChangesCategory(k, upTo, goes) ==
  /\ EditCategory /\ categories[k].made
  /\ IF categories[k].archived THEN goes \in {categories[k].goes, NoCategory}
     ELSE RulesAllow(k, upTo, goes)
  /\ categories' = [categories EXCEPT ![k].upTo = upTo, ![k].goes = goes]
  /\ UNCHANGED <<people, year, notices>>

\* DELETE /club-members/categories/:id?moveTo=: archives.
ArchivesCategory(k, moveTo) ==
  LET moved == {m \in Current : people[m].category = k}
  IN  /\ EditCategory /\ Usable(k) /\ k # Default
      /\ moved # {} => (moveTo # NoCategory /\ moveTo # k /\ Usable(moveTo))
      /\ people' = [m \in Members |-> IF m \in moved THEN [people[m] EXCEPT !.category = moveTo] ELSE people[m]]
      /\ categories' = [l \in Categories |->
           [categories[l] EXCEPT !.goes = IF @ = k THEN NoCategory ELSE @,
                                 !.archived = @ \/ l = k]]
      /\ UNCHANGED <<year, notices>>

\* PATCH /club-members/:id and POST /club-members/:id/transition with a category.
MovesMember(m, k) ==
  /\ EditCategory /\ Usable(k) /\ people[m].category # k
  /\ people' = [people EXCEPT ![m].category = k]
  /\ UNCHANGED <<categories, year, notices>>

CorrectsBirth(m, born) ==
  /\ EditCategory /\ born \in 0..year /\ born # people[m].born
  /\ people' = [people EXCEPT ![m].born = born]
  /\ UNCHANGED <<categories, year, notices>>

\* POST /club-members/:id/transition: leaving, and coming back with or without a category.
LeavesClub(m) ==
  /\ EditCategory /\ m \in Current
  /\ people' = [people EXCEPT ![m].left = TRUE]
  /\ UNCHANGED <<categories, year, notices>>

ComesBack(m, k) ==
  /\ EditCategory /\ m \notin Current /\ k \in {people[m].category} \cup {l \in Categories : Usable(l)}
  /\ people' = [people EXCEPT ![m].left = FALSE, ![m].category = k]
  /\ UNCHANGED <<categories, year, notices>>

-----------------------------------------------------------------------------
\* Everybody in chosen who qualifies moves one category on; each move queues one
\* notice, which carries the member, the day and the target.
Transition(chosen) ==
  LET moved == DueForTransition \cap chosen
      new == {[who |-> m, to |-> categories[people[m].category].goes, in |-> year] : m \in moved}
  IN  /\ moved # {}
      /\ people' = [m \in Members |->
           IF m \in moved THEN [people[m] EXCEPT !.category = categories[@].goes] ELSE people[m]]
      /\ notices' = [notices EXCEPT !.queued = @ \cup (new \ notices.told)]
      /\ UNCHANGED <<categories, year>>

\* POST /club-members/transition-suggestions/apply, for the ones the board ticked.
AppliesSuggestions(chosen) == EditCategory /\ Transition(chosen)

\* applyAgeTransitionsForClub
SweepsAges == Transition(Members) /\ UNCHANGED categoryEdits

\* handleAgeTransitionMemberNotify
StillInUnasked(n) == TRUE
StillIn(n) == people[n.who].category = n.to

TellsTransition(n) ==
  /\ n \in notices.queued
  /\ notices' = [queued |-> notices.queued \ {n},
                 told |-> IF StillIn(n) THEN notices.told \cup {n} ELSE notices.told]
  /\ UNCHANGED <<categories, people, year, categoryEdits>>

YearPasses == year < LastYear /\ year' = year + 1 /\ UNCHANGED <<categories, people, categoryEdits, notices>>

OnCategory(k) ==
  \/ \E upTo \in Years \cup {NoLimitOfAge}, goes \in Categories \cup {NoCategory} :
       CreatesCategory(k, upTo, goes) \/ ChangesCategory(k, upTo, goes)
  \/ \E moveTo \in Categories \cup {NoCategory} : ArchivesCategory(k, moveTo)

OnMember(m) ==
  \/ LeavesClub(m)
  \/ \E k \in Categories : MovesMember(m, k) \/ ComesBack(m, k)
  \/ \E born \in Years : CorrectsBirth(m, born)

TellsAll == \E n \in notices.queued : TellsTransition(n)

CategoriesNext ==
  \/ \E k \in Categories : OnCategory(k)
  \/ \E m \in Members : OnMember(m)
  \/ \E chosen \in SUBSET Members : AppliesSuggestions(chosen)
  \/ SweepsAges \/ TellsAll \/ YearPasses

CategoriesSpec == CategoriesInit /\ [][CategoriesNext]_categoryVars
CategoriesFairness == WF_categoryVars(SweepsAges) /\ WF_categoryVars(TellsAll)

-----------------------------------------------------------------------------
\* Transitions lead nowhere but to categories in use, whatever was archived in
\* between (routes/club-members.ts:1320), and nobody who still belongs to the
\* club is put into an archived category; who comes back may still be in one.
TransitionsLeadOn == \A k \in Categories : categories[k].goes # NoCategory => Usable(categories[k].goes)

\* "Two parallel PATCHes cannot jointly create a cycle" (routes/club-members.ts:1188):
\* no transition, an archived category's included, leads back to where it starts.
NoCircles ==
  \A k \in Categories : categories[k].goes # NoCategory => ~LeadsTo(categories[k].goes, k)

NobodyIsArchived ==
  [][\A m \in Current : (Usable(people[m].category) /\ ~people'[m].left)
       => ~categories'[people'[m].category].archived]_categoryVars

\* A notice names the category the person is in when it is sent, although the
\* move may have been taken back since (lib/age-transition.ts:171).
NoticesAreTrue ==
  [][\A n \in notices'.told \ notices.told : people[n.who].category = n.to]_categoryVars

CategoriesPromise == [](CategoriesTypeOK /\ TransitionsLeadOn /\ NoCircles) /\ NobodyIsArchived /\ NoticesAreTrue

\* The hourly sweep comes to rest: however the board rewires the categories, it
\* never sends anybody round in circles (lib/member-lifecycle.ts:101).
SweepComesToRest == <>[](DueForTransition = {})
=============================================================================
