-------------------------- MODULE DnsSnapshotProofs --------------------------
(***************************************************************************)
(* Proof that the reads of one question amount to Resolution, for all      *)
(* tables and names, when no row changes and no read fails meanwhile.      *)
(***************************************************************************)
EXTENDS DnsProofs

-----------------------------------------------------------------------------
(***************************************************************************)
(* The inductive invariant: how much of the resolution has been done.      *)
(***************************************************************************)

\* The rows of a name, and what its lookup returns.
Own(name) == Matching(db.records, name, asked.type)
Below(name) == Closest(db.records, name, asked.type)

\* A name and the first i of its wildcards have no rows.
NoneUpTo(name, i) ==
    Own(name) = {} /\ \A j \in 1 .. i : Own(Wildcard(name, j)) = {}

\* The lookup of the question's name, and the aliases in it.
First == Below(asked.name)
Aliases == {c \in First : c.type = "CNAME"}

\* The answer once the targets of the aliases cs have been looked up.
AnswerWith(cs) ==
    {r \in First \cup UNION {Below(c.target) : c \in cs} : r.type # "MX"}

Resolving ==
    /\ at.step = "wildcard" => NoneUpTo(at.name, at.index - 1)
    /\ Working /\ ~Direct =>
          /\ First # {} /\ chase \subseteq Aliases
          /\ \E c \in Aliases \ chase :
                c.target = at.name /\ answer = AnswerWith(Aliases \ (chase \cup {c}))
    /\ at.step \in {"zone", "details"} =>
          /\ First = {}
          /\ \A j \in 1 .. at.index - 1 : Suffix(asked.name, j) \notin db.active
    /\ at.step = "details" => Suffix(asked.name, at.index) \in db.active
    /\ Replied => [answer |-> answer, reply |-> reply] = Resolution(db, asked)

SnapshotInv == ~failed /\ edits = 0 => Resolving
-----------------------------------------------------------------------------
(***************************************************************************)
(* The reference definition, in these terms.                               *)
(***************************************************************************)

\* A statement returns what the reference calls the matching rows.
LEMMA RowsMatch ==
    ASSUME asked \in Questions, NEW name
    PROVE  /\ Rows(name, asked.type) = Own(name)
           /\ Rows(name, "CNAME") = {}
           /\ asked.type = "CNAME" => Own(name) = {}
<1>1. asked.type \in Types
  BY QuestionsAssumption
<1>2. QED
  BY <1>1 DEF Rows, Own, Matching, Markers, Values, Wanted, Types

\* What a lookup returns has a type that was asked for, or is an alias.
LEMMA BelowTypes ==
    ASSUME NEW name, NEW r \in Below(name)
    PROVE  r \in db.records /\ (r.type = "CNAME" => asked.type \in {"A", "AAAA"})
<1>1. \E n : r \in Own(n)
  BY DEF Below, Closest, Own
<1>2. QED
  BY <1>1 DEF Own, Matching

LEMMA OwnRowsBelow ==
    ASSUME NEW name, Own(name) # {}
    PROVE  Below(name) = Own(name)
BY DEF Below, Closest, Own

\* The first wildcard that has rows is the longest one that has.
LEMMA WildcardBelow ==
    ASSUME NEW name \in Seq(Labels), NEW i \in 1 .. Len(name),
           NoneUpTo(name, i - 1), Own(Wildcard(name, i)) # {}
    PROVE  Below(name) = Own(Wildcard(name, i))
<1> DEFINE wild == {w \in Wildcards(name) : Own(w) # {}}
           longest == CHOOSE w \in wild : \A v \in wild : Len(v) <= Len(w)
<1>1. Len(name) \in Nat
  OBVIOUS
<1>2. Wildcard(name, i) \in wild
  BY WildcardOwns DEF Owners, NoneUpTo
<1>3. ASSUME NEW v \in wild
      PROVE  \E j \in i .. Len(name) : v = Wildcard(name, j)
  <2>1. PICK j \in 1 .. Len(name) : v = Wildcard(name, j)
    BY WildcardsTried
  <2>2. ~(j \in 1 .. i - 1)
    BY <2>1 DEF NoneUpTo
  <2>3. QED
    BY <1>1, <2>1, <2>2
<1>4. \A v \in wild : Len(v) <= Len(Wildcard(name, i))
  <2> SUFFICES ASSUME NEW v \in wild PROVE Len(v) <= Len(Wildcard(name, i))
    OBVIOUS
  <2>1. PICK j \in i .. Len(name) : v = Wildcard(name, j)
    BY <1>3
  <2>2. /\ Len(v) = Len(name) + 1 - j
        /\ Len(Wildcard(name, i)) = Len(name) + 1 - i
    BY <1>1, <2>1, WildcardOwns
  <2>3. QED
    BY <1>1, <2>2
<1>5. longest \in wild /\ \A v \in wild : Len(v) <= Len(longest)
  BY <1>2, <1>4
<1>6. Own(name) = {} /\ wild # {}
  BY <1>2 DEF NoneUpTo
<1>7. Below(name) = Own(longest)
  BY <1>6 DEF Below, Closest, Own
<1> HIDE DEF longest
<1>8. longest = Wildcard(name, i)
  <2>1. PICK j \in i .. Len(name) : longest = Wildcard(name, j)
    BY <1>3, <1>5
  <2>2. j \in 1 .. Len(name) /\ j >= i
    OBVIOUS
  <2>3. /\ Len(longest) = Len(name) + 1 - j
        /\ Len(Wildcard(name, i)) = Len(name) + 1 - i
    BY <2>1, <2>2, WildcardOwns
  <2>4. Len(Wildcard(name, i)) <= Len(longest)
    BY <1>2, <1>5
  <2>5. j = i
    BY <1>1, <2>2, <2>3, <2>4
  <2>6. QED
    BY <2>1, <2>5
<1>9. QED
  BY <1>7, <1>8

LEMMA NothingBelow ==
    ASSUME NEW name \in Seq(Labels), NoneUpTo(name, Len(name))
    PROVE  Below(name) = {}
<1>1. \A w \in Wildcards(name) : Own(w) = {}
  BY WildcardsTried DEF NoneUpTo
<1>2. QED
  BY <1>1 DEF NoneUpTo, Below, Closest, Own

\* The resolution of a name that has records, and of one that has none.
LEMMA ResolvedRecords ==
    ASSUME First # {}
    PROVE  Resolution(db, asked) = [answer |-> AnswerWith(Aliases), reply |-> NoReply]
<1>1. First = Closest(db.records, asked.name, asked.type)
  BY DEF First, Below
<1>2. UNION {Closest(db.records, t, asked.type) : t \in {r.target : r \in Aliases}}
        = UNION {Below(c.target) : c \in Aliases}
  BY DEF Below
<1>3. QED
  BY <1>1, <1>2 DEF Resolution, AnswerWith, Aliases

LEMMA ResolvedZone ==
    ASSUME First = {}, asked.name \in Seq(Labels), NEW i \in 1 .. Len(asked.name),
           Suffix(asked.name, i) \in db.active,
           \A j \in 1 .. i - 1 : Suffix(asked.name, j) \notin db.active
    PROVE  Resolution(db, asked) =
              [answer |-> {},
               reply |-> IF Suffix(asked.name, i) \in db.details
                         THEN [rcode |-> "noerror", ns |-> {Suffix(asked.name, i)}]
                         ELSE [rcode |-> "nxdomain", ns |-> {NoName}]]
<1> DEFINE zones == {k \in 1 .. Len(asked.name) : Suffix(asked.name, k) \in db.active}
           closest == CHOOSE k \in zones : \A j \in zones : k <= j
<1>1. Len(asked.name) \in Nat
  OBVIOUS
<1>2. i \in zones /\ \A j \in zones : i <= j
  BY <1>1
<1>3. closest \in zones /\ \A j \in zones : closest <= j
  BY <1>2
<1>4. closest = i
  BY <1>1, <1>2, <1>3
<1>5. Closest(db.records, asked.name, asked.type) = {}
  BY DEF First, Below
<1>6. QED
  BY <1>2, <1>4, <1>5 DEF Resolution

LEMMA ResolvedNowhere ==
    ASSUME First = {}, \A j \in 1 .. Len(asked.name) : Suffix(asked.name, j) \notin db.active
    PROVE  Resolution(db, asked) =
              [answer |-> {}, reply |-> [rcode |-> "nxdomain", ns |-> {NoName}]]
<1>1. Closest(db.records, asked.name, asked.type) = {}
  BY DEF First, Below
<1>2. {k \in 1 .. Len(asked.name) : Suffix(asked.name, k) \in db.active} = {}
  OBVIOUS
<1>3. QED
  BY <1>1, <1>2 DEF Resolution
-----------------------------------------------------------------------------
(***************************************************************************)
(* The lookups.                                                            *)
(***************************************************************************)

\* Another read for the same name.
GoesOn(step, index) == Goes(step, index) /\ UNCHANGED <<chase, answer, reply>>

\* The lookup of a name ends with these rows, or with none.
Finishes(rows) ==
    /\ answer' = answer \cup Emitted(rows)
    /\ IF rows = {} /\ Direct
       THEN /\ at' = [step |-> "zone", name |-> asked.name, index |-> 1]
            /\ UNCHANGED <<chase, reply>>
       ELSE Continues(Left(rows))

LEMMA FoundFinishes ==
    ASSUME NEW rows, rows # {}, Found(rows)
    PROVE  Finishes(rows)
BY FoundEffect DEF Finishes

LEMMA NotFoundFinishes ==
    ASSUME NotFound
    PROVE  Finishes({})
<1>1. Emitted({}) = {} /\ (~Direct => Left({}) = chase)
  BY DEF Emitted, Left
<1>2. QED
  BY <1>1, NotFoundEffect DEF Finishes

\* What a lookup does when it gets all it asks for.
LEMMA LookUpReads ==
    ASSUME IInv, Resolving, Looks, ~failed'
    PROVE  /\ UNCHANGED <<db, asked, edits>>
           /\ \/ at.step = "cname" /\ GoesOn("exact", 1)
              \/ at.step = "exact" /\ Own(at.name) = {} /\ GoesOn("wildcard", 1)
              \/ /\ at.step = "wildcard" /\ at.index \in Nat \ {0}
                 /\ Own(Wildcard(at.name, at.index)) = {} /\ GoesOn("wildcard", at.index + 1)
              \/ Finishes(Below(at.name))
<1>1. /\ asked \in Questions /\ failed \in BOOLEAN /\ at.name \in Seq(Labels)
      /\ at.index \in Nat \ {0} /\ Len(at.name) \in Nat
      /\ at.step = "wildcard" => at.index <= Len(at.name)
  BY NamesAreSequences DEF IInv, TypeOK, Searching
<1>2. UNCHANGED <<db, asked, edits>>
  BY LookUpEffect DEF IInv
<1>3. CASE LookUpCname
  BY <1>1, <1>2, <1>3, RowsMatch DEF LookUpCname, GoesOn, Go, Goes
<1>4. CASE LookUpExact
  <2>1. PICK rows \in SUBSET Rows(at.name, asked.type) :
          /\ Reads(Rows(at.name, asked.type), rows)
          /\ IF rows # {} THEN Found(rows)
             ELSE Go("wildcard", at.name, 1) /\ UNCHANGED <<chase, answer, reply>>
    BY <1>4 DEF LookUpExact
  <2>2. rows = Rows(at.name, asked.type)
    BY <1>1, <2>1, ReadsKeep, Zenon
  <2>3. rows = Own(at.name) /\ at.step = "exact"
    BY <1>1, <1>4, <2>2, RowsMatch DEF LookUpExact
  <2>4. CASE rows = {}
    BY <1>2, <2>1, <2>3, <2>4 DEF GoesOn, Go, Goes
  <2>5. CASE rows # {}
    BY <1>2, <2>1, <2>3, <2>5, FoundFinishes, OwnRowsBelow
  <2>6. QED
    BY <2>4, <2>5
<1>5. CASE LookUpWildcard
  <2>1. PICK rows \in SUBSET Rows(Wildcard(at.name, at.index), asked.type) :
          /\ Reads(Rows(Wildcard(at.name, at.index), asked.type), rows)
          /\ IF rows # {} THEN Found(rows)
             ELSE IF at.index < Len(at.name)
                  THEN /\ Go("wildcard", at.name, at.index + 1)
                       /\ UNCHANGED <<chase, answer, reply>>
                  ELSE NotFound
    BY <1>5 DEF LookUpWildcard
  <2>2. rows = Rows(Wildcard(at.name, at.index), asked.type)
    BY <1>1, <2>1, ReadsKeep, Zenon
  <2>3. rows = Own(Wildcard(at.name, at.index)) /\ at.step = "wildcard"
    BY <1>1, <1>5, <2>2, RowsMatch DEF LookUpWildcard
  <2>4. at.index \in 1 .. Len(at.name) /\ NoneUpTo(at.name, at.index - 1)
    BY <1>1, <2>3 DEF Resolving
  <2>5. CASE rows # {}
    <3>1. Below(at.name) = rows
      BY <1>1, <2>3, <2>4, <2>5, WildcardBelow
    <3>2. QED
      BY <1>2, <2>1, <2>5, <3>1, FoundFinishes
  <2>6. CASE rows = {} /\ at.index < Len(at.name)
    BY <1>1, <1>2, <2>1, <2>3, <2>6 DEF GoesOn, Go, Goes
  <2>7. CASE rows = {} /\ ~(at.index < Len(at.name))
    <3>1. at.index = Len(at.name)
      BY <1>1, <2>4, <2>7
    <3>2. NoneUpTo(at.name, Len(at.name))
      <4>1. \A j \in 1 .. Len(at.name) : j = at.index \/ j \in 1 .. at.index - 1
        BY <1>1, <3>1
      <4>2. QED
        BY <2>3, <2>4, <2>7, <4>1 DEF NoneUpTo
    <3>3. Below(at.name) = {}
      BY <1>1, <3>2, NothingBelow
    <3>4. QED
      BY <1>2, <2>1, <2>7, <3>3, NotFoundFinishes
  <2>8. QED
    BY <2>5, <2>6, <2>7
<1>6. QED
  BY <1>3, <1>4, <1>5 DEF Looks

\* The lookup of the question's name: its aliases are to be followed.
LEMMA FirstFinishes ==
    ASSUME IInv, Direct, Working, at.step \notin {"zone", "details"},
           Finishes(Below(at.name)), UNCHANGED <<db, asked>>
    PROVE  Resolving'
<1>1. /\ at.name = asked.name /\ chase = {} /\ answer = {} /\ reply = NoReply
      /\ at.step \in Steps
  BY DEF IInv, TypeOK, Searching, Direct, Working
<1>2. Below(at.name) = First /\ First' = First /\ Aliases' = Aliases
      /\ \A cs : AnswerWith(cs)' = AnswerWith(cs)
  BY <1>1 DEF First, Aliases, Below, AnswerWith
<1>3. CASE First = {}
  <2>1. at' = [step |-> "zone", name |-> asked.name, index |-> 1] /\ answer' = {}
    BY <1>1, <1>2, <1>3 DEF Finishes, Emitted
  <2>2. QED
    BY <1>2, <1>3, <2>1 DEF Resolving, Direct, Replied
<1>4. CASE First # {}
  <2>1. Left(First) = Aliases
    BY BelowTypes DEF Left, Aliases, First
  <2>2. answer' = {r \in First : r.type # "MX"} /\ Continues(Aliases)
    <3>1. Emitted(First) = {r \in First : r.type # "MX"}
      BY BelowTypes, CandidatesAssumption DEF IInv, TypeOK, Tables, Emitted, First, Types
    <3>2. QED
      BY <1>1, <1>2, <1>4, <2>1, <3>1 DEF Finishes
  <2>3. CASE Aliases = {} /\ at'.step = "replied" /\ reply' = NoReply
    <3>1. answer' = AnswerWith(Aliases)
      BY <2>2, <2>3 DEF AnswerWith
    <3>2. Resolution(db', asked') = Resolution(db, asked)
      OBVIOUS
    <3>3. QED
      BY <1>4, <2>3, <3>1, <3>2, ResolvedRecords DEF Resolving, Working, Replied
  <2>4. CASE \E r \in Aliases : /\ at' = [step |-> "cname", name |-> r.target, index |-> 1]
                               /\ chase' = Aliases \ {r}
    <3>1. PICK r \in Aliases : /\ at' = [step |-> "cname", name |-> r.target, index |-> 1]
                               /\ chase' = Aliases \ {r}
      BY <2>4
    <3>2. r \in Aliases \ chase' /\ chase' \subseteq Aliases /\ Aliases \ (chase' \cup {r}) = {}
      BY <3>1
    <3>3. answer' = AnswerWith({})
      BY <2>2 DEF AnswerWith
    <3>4. QED
      BY <1>2, <1>4, <3>1, <3>2, <3>3 DEF Resolving, Replied
  <2>5. QED
    BY <2>2, <2>3, <2>4 DEF Continues
<1>5. QED
  BY <1>3, <1>4

\* The lookup of a target: its records join the answer.
LEMMA TargetFinishes ==
    ASSUME IInv, Resolving, ~Direct, Working, Finishes(Below(at.name)), UNCHANGED <<db, asked>>
    PROVE  Resolving'
<1>1. /\ First # {} /\ chase \subseteq Aliases /\ reply = NoReply
  BY DEF Resolving, IInv, Searching, Working
<1>2. PICK c \in Aliases \ chase :
        c.target = at.name /\ answer = AnswerWith(Aliases \ (chase \cup {c}))
  BY DEF Resolving
<1>3. First' = First /\ Aliases' = Aliases /\ \A cs : AnswerWith(cs)' = AnswerWith(cs)
  BY DEF First, Aliases, Below, AnswerWith
<1>4. Emitted(Below(at.name)) = {r \in Below(c.target) : r.type # "MX"}
  BY <1>2, BelowTypes, CandidatesAssumption DEF IInv, TypeOK, Tables, Emitted, Types
<1>5. answer' = AnswerWith(Aliases \ chase)
  <2>1. Aliases \ chase = (Aliases \ (chase \cup {c})) \cup {c}
    OBVIOUS
  <2>2. QED
    BY <1>2, <1>4, <2>1 DEF AnswerWith, Finishes
<1>6. Continues(chase)
  BY DEF Finishes, Left
<1>7. CASE chase = {} /\ at'.step = "replied" /\ reply' = NoReply
  <2>1. answer' = AnswerWith(Aliases)
    BY <1>5, <1>7
  <2>2. QED
    BY <1>1, <1>7, <2>1, ResolvedRecords DEF Resolving, Working, Replied
<1>8. CASE \E r \in chase : /\ at' = [step |-> "cname", name |-> r.target, index |-> 1]
                           /\ chase' = chase \ {r}
  <2>1. PICK r \in chase : /\ at' = [step |-> "cname", name |-> r.target, index |-> 1]
                           /\ chase' = chase \ {r}
    BY <1>8
  <2>2. /\ r \in Aliases \ chase' /\ chase' \subseteq Aliases
        /\ Aliases \ (chase' \cup {r}) = Aliases \ chase
    BY <1>1, <2>1
  <2>3. QED
    BY <1>1, <1>3, <1>5, <2>1, <2>2 DEF Resolving, Replied
<1>9. QED
  BY <1>6, <1>7, <1>8 DEF Continues

LEMMA LookUpResolving ==
    ASSUME IInv, Resolving, Looks, ~failed'
    PROVE  Resolving'
<1>1. /\ at.step \in {"cname", "exact", "wildcard"} /\ Working
      /\ UNCHANGED <<db, asked, edits>>
  BY LookUpEffect, LookUpReads DEF IInv, Working
<1>2. CASE Finishes(Below(at.name))
  BY <1>1, <1>2, FirstFinishes, TargetFinishes
<1>3. ASSUME NEW step \in {"exact", "wildcard"}, NEW index, GoesOn(step, index),
             step = "wildcard" => NoneUpTo(at.name, index - 1)
      PROVE  Resolving'
  <2>1. /\ at'.step = step /\ at'.name = at.name /\ at'.index = index
        /\ chase' = chase /\ answer' = answer
    BY <1>3 DEF GoesOn, Goes
  <2>2. First' = First /\ Aliases' = Aliases /\ \A cs : AnswerWith(cs)' = AnswerWith(cs)
    BY <1>1 DEF First, Aliases, Below, AnswerWith
  <2>3. \A n, k : NoneUpTo(n, k)' <=> NoneUpTo(n, k)
    BY <1>1 DEF NoneUpTo, Own
  <2>4. (at.step = "wildcard" => NoneUpTo(at.name, at.index - 1))'
    BY <1>3, <2>1, <2>3
  <2>5. QED
    BY <1>1, <2>1, <2>2, <2>4 DEF Resolving, Working, Direct, Replied
<1>4. CASE at.step = "cname" /\ GoesOn("exact", 1)
  BY <1>3, <1>4
<1>5. CASE at.step = "exact" /\ Own(at.name) = {} /\ GoesOn("wildcard", 1)
  <2>1. NoneUpTo(at.name, 1 - 1)
    BY <1>5 DEF NoneUpTo
  <2>2. QED
    BY <1>3, <1>5, <2>1
<1>6. CASE /\ at.step = "wildcard" /\ at.index \in Nat \ {0}
           /\ Own(Wildcard(at.name, at.index)) = {} /\ GoesOn("wildcard", at.index + 1)
  <2>1. \A j \in 1 .. (at.index + 1) - 1 : j = at.index \/ j \in 1 .. at.index - 1
    BY <1>6
  <2>2. NoneUpTo(at.name, (at.index + 1) - 1)
    BY <1>6, <2>1 DEF NoneUpTo, Resolving
  <2>3. QED
    BY <1>3, <1>6, <2>2
<1>7. QED
  BY <1>2, <1>4, <1>5, <1>6, LookUpReads
-----------------------------------------------------------------------------
(***************************************************************************)
(* The walk to a zone.                                                     *)
(***************************************************************************)
LEMMA WalkResolving ==
    ASSUME IInv, Resolving, FindZone \/ GetZone, ~failed'
    PROVE  Resolving'
<1>1. /\ UNCHANGED <<db, asked, answer>> /\ answer = {} /\ at.name = asked.name
      /\ at.step \in {"zone", "details"}
  BY WalkEffect
<1>2. /\ asked.name \in Seq(Labels) /\ Len(asked.name) \in Nat /\ failed \in BOOLEAN
      /\ at.index \in Nat \ {0} /\ at.index <= Len(asked.name) + 1
      /\ at.step = "details" => at.index <= Len(asked.name)
  BY <1>1, NamesAreSequences DEF IInv, TypeOK, Searching
<1>3. /\ First = {} /\ First' = First
      /\ \A j \in 1 .. at.index - 1 : Suffix(asked.name, j) \notin db.active
      /\ at.step = "details" => Suffix(asked.name, at.index) \in db.active
      /\ Resolution(db', asked') = Resolution(db, asked)
  BY <1>1 DEF Resolving, First, Below
<1>4. CASE FindZone
  <2>1. PICK rows \in SUBSET ({Suffix(at.name, at.index)} \cap db.active) :
          /\ Reads({Suffix(at.name, at.index)} \cap db.active, rows)
          /\ \/ rows # {} /\ Go("details", at.name, at.index) /\ UNCHANGED reply
             \/ /\ rows = {} /\ ~PastRoot(at.name, at.index)
                /\ Go("zone", at.name, Following(at.index)) /\ UNCHANGED reply
             \/ rows = {} /\ PastRoot(at.name, at.index) /\ NoZone
    BY <1>4 DEF FindZone
  <2>2. rows = {Suffix(at.name, at.index)} \cap db.active
    BY <1>2, <2>1, ReadsKeep, Zenon
  <2>3. CASE rows # {} /\ Go("details", at.name, at.index)
    <3>1. Suffix(asked.name, at.index) \in db.active
      BY <1>1, <2>2, <2>3
    <3>2. QED
      BY <1>1, <1>3, <2>3, <3>1 DEF Go, Resolving, Direct, Replied
  <2>4. CASE rows = {} /\ Go("zone", at.name, Following(at.index))
    <3>1. \A j \in 1 .. (at.index + 1) - 1 : j = at.index \/ j \in 1 .. at.index - 1
      BY <1>2
    <3>2. \A j \in 1 .. (at.index + 1) - 1 : Suffix(asked.name, j) \notin db.active
      BY <1>1, <1>3, <2>2, <2>4, <3>1
    <3>3. QED
      BY <1>1, <1>3, <2>4, <3>2 DEF Go, Following, Resolving, Direct, Replied
  <2>5. CASE PastRoot(at.name, at.index) /\ NoZone
    <3>1. \A j \in 1 .. Len(asked.name) : j \in 1 .. at.index - 1
      BY <1>1, <1>2, <2>5 DEF PastRoot
    <3>2. Resolution(db, asked) =
             [answer |-> {}, reply |-> [rcode |-> "nxdomain", ns |-> {NoName}]]
      BY <1>3, <3>1, ResolvedNowhere
    <3>3. QED
      BY <1>1, <1>3, <2>5, <3>2 DEF NoZone, EndWith, Go, Resolving, Working, Replied
  <2>6. QED
    BY <2>1, <2>3, <2>4, <2>5
<1>5. CASE GetZone
  <2>1. PICK rows \in SUBSET ({Suffix(at.name, at.index)} \cap db.details) :
          /\ Reads({Suffix(at.name, at.index)} \cap db.details, rows)
          /\ IF rows = {} THEN NoZone ELSE NoData(rows)
    BY <1>5 DEF GetZone
  <2>2. rows = {Suffix(at.name, at.index)} \cap db.details
    BY <1>2, <2>1, ReadsKeep, Zenon
  <2>3. at.index \in 1 .. Len(asked.name) /\ Suffix(asked.name, at.index) \in db.active
    BY <1>2, <1>3, <1>5 DEF GetZone
  <2>4. Resolution(db, asked) =
           [answer |-> {},
            reply |-> IF Suffix(asked.name, at.index) \in db.details
                      THEN [rcode |-> "noerror", ns |-> {Suffix(asked.name, at.index)}]
                      ELSE [rcode |-> "nxdomain", ns |-> {NoName}]]
    BY <1>2, <1>3, <2>3, ResolvedZone
  <2>5. /\ at'.step = "replied"
        /\ reply' = IF Suffix(asked.name, at.index) \in db.details
                    THEN [rcode |-> "noerror", ns |-> {Suffix(asked.name, at.index)}]
                    ELSE [rcode |-> "nxdomain", ns |-> {NoName}]
    BY <1>1, <2>1, <2>2 DEF NoZone, NoData, EndWith, Go
  <2>6. QED
    BY <1>1, <1>3, <2>4, <2>5 DEF Resolving, Working, Replied
<1>6. QED
  BY <1>4, <1>5

-----------------------------------------------------------------------------
(***************************************************************************)
(* The invariant holds.                                                    *)
(***************************************************************************)
LEMMA InitSnapshot == Init => SnapshotInv
BY DEF Init, Idle, SnapshotInv, Resolving, Working, Direct, Replied

LEMMA StepSnapshot == IInv /\ SnapshotInv /\ [Next]_vars => SnapshotInv'
<1> SUFFICES ASSUME IInv, SnapshotInv, [Next]_vars, ~failed', edits' = 0
             PROVE  Resolving'
  BY DEF SnapshotInv
<1>1. failed \in BOOLEAN /\ edits \in Nat
  BY MaxEditsAssumption DEF IInv, TypeOK
<1>2. CASE Looks
  <2>1. ~failed /\ edits = 0
    BY <1>1, <1>2, LookUpEffect DEF IInv
  <2>2. QED
    BY <1>2, <2>1, LookUpResolving DEF SnapshotInv
<1>3. CASE FindZone \/ GetZone
  <2>1. ~failed /\ edits = 0
    BY <1>1, <1>3, WalkEffect
  <2>2. QED
    BY <1>3, <2>1, WalkResolving DEF SnapshotInv
<1>4. CASE \E q \in Questions : Ask(q)
  BY <1>4 DEF IInv, Searching, Ask, Go, Resolving, Working, Direct, Replied
<1>5. CASE Send \/ CloseZoneFails
  BY <1>5 DEF Send, CloseZoneFails, EndQuestion, Idle, Resolving, Working, Direct, Replied
<1>6. CASE EditRow
  BY <1>1, <1>6 DEF EditRow
<1>7. CASE UNCHANGED vars
  <2>1. Resolving
    BY <1>7 DEF SnapshotInv, vars
  <2>2. QED
    BY <1>7, <2>1 DEF vars, Resolving, NoneUpTo, Own, First, Aliases, AnswerWith, Below,
       Working, Direct, Replied
<1>8. QED
  BY <1>2, <1>3, <1>4, <1>5, <1>6, <1>7 DEF Next, Looks

\* Over tables at rest and with no failing read, the message ServeDNS sends is
\* the function Resolution of the tables and the question: lookupActiveRecords,
\* appendAnswers and findActiveZone with all their reads and loops.
THEOREM SnapshotsResolved == Spec => []ResolvesSnapshot
<1>1. SnapshotInv => ResolvesSnapshot
  BY DEF SnapshotInv, Resolving, ResolvesSnapshot, Faultless
<1>2. QED
  BY <1>1, InitSnapshot, StepSnapshot, Invariance, PTL DEF Spec
=============================================================================
