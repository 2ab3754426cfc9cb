----------------------------- MODULE DnsProofs ------------------------------
(***************************************************************************)
(* Proofs about Dns, for all tables, names and numbers of edits.           *)
(***************************************************************************)
EXTENDS Dns, TLAPS

-----------------------------------------------------------------------------
(***************************************************************************)
(* The inductive invariant.                                                *)
(***************************************************************************)

\* Where a question is: at its own name until there is an answer, then at the
\* target of an alias in it.
Searching ==
    /\ at.name # NoName
    /\ at.step = "wildcard" => at.index <= Len(at.name)
    /\ at.step \in {"zone", "details"} => Direct
    /\ at.step = "details" => at.index <= Len(at.name)
    /\ Direct => at.name = asked.name /\ chase = {}
    /\ at.step \in {"idle", "replied"} => chase = {}
    /\ at.step = "idle" => answer = {} /\ ~failed
    /\ at.step # "replied" => reply = NoReply
    /\ chase \subseteq {r \in answer : r.type = "CNAME"}
    /\ ~Direct /\ at.step # "replied" =>
          \E c \in answer : c.type = "CNAME" /\ c.target = at.name

\* What has been there all along is there, and what is there has been.
Witnessed ==
    /\ stable.records \subseteq db.records /\ db.records \subseteq ever.records
    /\ stable.active \subseteq db.active /\ db.active \subseteq ever.active
    /\ stable.details \subseteq db.details /\ db.details \subseteq ever.details

\* Provenance, before the message is complete as well.
Owned ==
    \A r \in answer :
        /\ r \in ever.records
        /\ \/ r.name \in Owners(asked.name)
           \/ \E c \in answer : c.type = "CNAME" /\ r.name \in Owners(c.target)

\* No zone was there all along that the walk has passed by.
Walked ==
    /\ at.step \in {"zone", "details"} =>
          \A j \in 1 .. at.index - 1 : Suffix(at.name, j) \in stable.active => failed
    /\ at.step = "details" => Suffix(at.name, at.index) \in ever.active

\* A lookup has the records of its name in the answer, or has been past them.
PastExact == answer # {} \/ at.step \in {"wildcard", "zone", "details", "replied"}

Complete ==
    ~failed /\ asked.type \in Answerable =>
        /\ PastExact =>
              \A r \in stable.records :
                  r.name = asked.name /\ r.type \in Wanted(asked.type) => r \in answer
        /\ asked.type # "TXT" /\ answer # {} =>
              \A r, s \in stable.records :
                  /\ r.name = asked.name /\ r.type = "CNAME"
                  /\ s.name = r.target /\ s.type = asked.type
                  => \/ s \in answer
                     \/ r \in chase
                     \/ at.step \in {"cname", "exact"} /\ at.name = r.target

\* ... and its wildcards are tried from the closest on.
Nearest ==
    ~failed /\ asked.type \in Answerable =>
        /\ at.step = "wildcard" /\ Direct =>
              \A r \in stable.records, j \in 1 .. at.index - 1 :
                  r.type \in Wanted(asked.type) => r.name # Wildcard(asked.name, j)
        /\ answer # {} /\ (\A r \in answer : r.type # "CNAME") =>
              \A r \in answer, s \in stable.records :
                  r.name \in Wildcards(asked.name) /\ s.type = asked.type =>
                      /\ s.name # asked.name
                      /\ s.name \in Wildcards(asked.name) => Len(s.name) <= Len(r.name)

IInv ==
    /\ TypeOK /\ Searching /\ Witnessed /\ Owned /\ Walked /\ Complete /\ Nearest
    /\ ZoneNotDenied /\ SoaOfClosestZone

-----------------------------------------------------------------------------
(***************************************************************************)
(* Names and their suffixes.                                               *)
(***************************************************************************)
LEMMA NamesAreSequences == Names \subseteq Seq(Labels) /\ \A n \in Names : Len(n) \in Nat
<1>1. Names \subseteq Seq(Labels)
  BY CandidatesAssumption, QuestionsAssumption DEF Names
<1>2. QED
  BY <1>1

LEMMA SomeQuestion == AnyQuestion \in Questions /\ AnyQuestion.name \in Names /\ AnyQuestion.name # NoName
BY QuestionsAssumption DEF AnyQuestion, Names

LEMMA SuffixLength ==
    ASSUME NEW name \in Seq(Labels), NEW i \in 1 .. Len(name) + 1
    PROVE  /\ Suffix(name, i) \in Seq(Labels)
           /\ Len(Suffix(name, i)) = Len(name) + 1 - i
BY DEF Suffix

LEMMA StarLabel == <<"*">> \in Seq(Labels) /\ Len(<<"*">>) = 1
BY LabelsAssumption

\* The wildcards that are tried are those the name falls under.
LEMMA WildcardOwns ==
    ASSUME NEW name \in Seq(Labels), NEW i \in 1 .. Len(name)
    PROVE  /\ Wildcard(name, i) \in Owners(name)
           /\ Len(Wildcard(name, i)) = Len(name) + 1 - i
<1>1. i + 1 \in 2 .. Len(name) + 1 /\ i + 1 \in 1 .. Len(name) + 1 /\ Len(name) \in Nat
  OBVIOUS
<1>2. Suffix(name, i + 1) \in Seq(Labels) /\ Len(Suffix(name, i + 1)) = Len(name) - i
  BY <1>1, SuffixLength
<1>3. <<"*">> \in Seq(Labels) /\ Len(<<"*">>) = 1
  BY StarLabel
<1>4. Len(Wildcard(name, i)) = 1 + (Len(name) - i)
  BY <1>2, <1>3 DEF Wildcard
<1>5. Wildcard(name, i) = <<"*">> \o SubSeq(name, i + 1, Len(name))
  BY DEF Wildcard, Suffix
<1>6. Wildcard(name, i) \in Owners(name)
  BY <1>1, <1>5 DEF Owners, Wildcards
<1>7. Len(name) \in Nat /\ i \in Nat
  OBVIOUS
<1>8. QED
  BY <1>4, <1>6, <1>7

LEMMA WildcardsTried ==
    ASSUME NEW name \in Seq(Labels), NEW w \in Wildcards(name)
    PROVE  w # name /\ \E i \in 1 .. Len(name) : w = Wildcard(name, i)
<1>1. PICK i \in 2 .. Len(name) + 1 : w = <<"*">> \o SubSeq(name, i, Len(name))
  BY DEF Wildcards
<1>2. i - 1 \in 1 .. Len(name) /\ (i - 1) + 1 = i
  OBVIOUS
<1>3. w = Wildcard(name, i - 1)
  BY <1>1, <1>2 DEF Wildcard, Suffix
<1>4. QED
  BY <1>2, <1>3 DEF Wildcards

-----------------------------------------------------------------------------
(***************************************************************************)
(* The lookups of active records have one shape.                           *)
(***************************************************************************)

\* What a statement may return for a name.
May == {r \in db.records : r.name \in Owners(at.name) /\ r.type \in Wanted(asked.type)}

Goes(step, index) == at' = [step |-> step, name |-> at.name, index |-> index]

\* What is left out of it: nothing of a name's own or a wildcard's rows, if no
\* read has failed.
Returned(rows) ==
    /\ at.step = "cname" => rows = {}
    /\ at.step = "exact" => \A r \in rows : r.name = at.name
    /\ at.step = "wildcard" => \A r \in rows : r.name = Wildcard(at.name, at.index)
    /\ ~failed' /\ asked.type \in Answerable =>
          \A r \in db.records :
              r.type \in Wanted(asked.type) =>
                  /\ at.step = "exact" /\ r.name = at.name => r \in rows
                  /\ at.step = "wildcard" /\ r.name = Wildcard(at.name, at.index) => r \in rows

Looks == LookUpCname \/ LookUpExact \/ LookUpWildcard

\* Records are found, or the name has none, or there is another read for it.
Looked(rows) ==
    \/ rows # {} /\ Found(rows)
    \/ rows = {} /\ NotFound /\ at.step = "wildcard"
    \/ /\ rows = {} /\ UNCHANGED <<chase, answer, reply>>
       /\ \/ at.step = "cname" /\ Goes("exact", 1)
          \/ at.step = "exact" /\ Goes("wildcard", 1)
          \/ at.step = "wildcard" /\ at.index < Len(at.name) /\ Goes("wildcard", at.index + 1)

\* A read that has not failed has returned everything, as those before it.
LEMMA ReadsKeep ==
    ASSUME failed \in BOOLEAN, NEW all, NEW rows, Reads(all, rows)
    PROVE  /\ failed' \in BOOLEAN /\ (failed => failed')
           /\ ~failed' => ~failed /\ rows = all
<1>1. CASE rows = all /\ failed' = failed
  BY <1>1
<1>2. CASE failed' = TRUE
  BY <1>2
<1>3. QED
  BY <1>1, <1>2 DEF Reads

LEMMA LookUpEffect ==
    ASSUME TypeOK, Searching, Looks
    PROVE  /\ UNCHANGED <<db, asked, ever, stable, edits>>
           /\ failed' \in BOOLEAN /\ (failed => failed')
           /\ at.step \in {"cname", "exact", "wildcard"}
           /\ \E rows \in SUBSET May : Looked(rows) /\ Returned(rows)
<1>1. at.name \in Seq(Labels) /\ at.index \in Nat \ {0} /\ failed \in BOOLEAN
  BY NamesAreSequences DEF TypeOK
<1>2. at.name \in Owners(at.name)
  BY DEF Owners
<1> USE DEF history
<1>3. CASE LookUpCname
  <2>1. Rows(at.name, "CNAME") = {}
    BY DEF Rows, Markers, Values
  <2>2. Looked({}) /\ Returned({})
    BY <1>3, <2>1 DEF LookUpCname, Looked, Go, Goes, Returned
  <2>3. QED
    <3>1. failed' \in BOOLEAN /\ (failed => failed')
      <4>1. PICK rows : Reads(Rows(at.name, "CNAME"), rows)
        BY <1>3 DEF LookUpCname
      <4>2. QED
        BY <1>1, <4>1, ReadsKeep, Zenon
    <3>2. UNCHANGED <<db, asked, ever, stable, edits>> /\ at.step = "cname" /\ {} \in SUBSET May
      BY <1>3 DEF LookUpCname
    <3>3. QED
      BY <2>2, <3>1, <3>2, Zenon
<1>4. CASE LookUpExact
  <2>1. Rows(at.name, asked.type) \subseteq May
    BY <1>2 DEF Rows, May
  <2>2. PICK rows \in SUBSET Rows(at.name, asked.type) :
          /\ Reads(Rows(at.name, asked.type), rows)
          /\ IF rows # {} THEN Found(rows)
             ELSE Go("wildcard", at.name, 1) /\ UNCHANGED <<chase, answer, reply>>
    BY <1>4 DEF LookUpExact
  <2>3. Looked(rows)
    BY <1>4, <2>2 DEF LookUpExact, Looked, Go, Goes
  <2>4. ~failed' => rows = Rows(at.name, asked.type)
    BY <1>1, <2>2, ReadsKeep, Zenon
  <2>5. asked.type \in Answerable =>
           Rows(at.name, asked.type) = {r \in db.records : r.name = at.name /\ r.type \in Wanted(asked.type)}
    BY DEF Rows, Answerable, Markers, Values
  <2>6. \A r \in rows : r.name = at.name
    BY DEF Rows
  <2>7. Returned(rows)
    BY <1>4, <2>4, <2>5, <2>6 DEF Returned, LookUpExact
  <2>8. QED
    <3>1. failed' \in BOOLEAN /\ (failed => failed')
      BY <1>1, <2>2, ReadsKeep, Zenon
    <3>2. UNCHANGED <<db, asked, ever, stable, edits>> /\ at.step = "exact" /\ rows \in SUBSET May
      BY <1>4, <2>1 DEF LookUpExact
    <3>3. QED
      BY <2>3, <2>7, <3>1, <3>2, Zenon
<1>5. CASE LookUpWildcard
  <2>1. at.index \in 1 .. Len(at.name)
    BY <1>1, <1>5 DEF LookUpWildcard, Searching
  <2>2. Rows(Wildcard(at.name, at.index), asked.type) \subseteq May
    BY <1>1, <2>1, WildcardOwns DEF Rows, May
  <2>3. PICK rows \in SUBSET Rows(Wildcard(at.name, at.index), asked.type) :
          /\ Reads(Rows(Wildcard(at.name, at.index), asked.type), rows)
          /\ IF rows # {} THEN Found(rows)
             ELSE IF at.index < Len(at.name)
                  THEN /\ Go("wildcard", at.name, at.index + 1)
                       /\ UNCHANGED <<chase, answer, reply>>
                  ELSE NotFound
    BY <1>5 DEF LookUpWildcard
  <2>4. Looked(rows)
    BY <1>5, <2>3 DEF LookUpWildcard, Looked, Go, Goes
  <2>5. ~failed' => rows = Rows(Wildcard(at.name, at.index), asked.type)
    BY <1>1, <2>3, ReadsKeep, Zenon
  <2>6. asked.type \in Answerable =>
           Rows(Wildcard(at.name, at.index), asked.type)
             = {r \in db.records : r.name = Wildcard(at.name, at.index) /\ r.type \in Wanted(asked.type)}
    BY DEF Rows, Answerable, Markers, Values
  <2>7. \A r \in rows : r.name = Wildcard(at.name, at.index)
    BY DEF Rows
  <2>8. Returned(rows)
    BY <1>5, <2>5, <2>6, <2>7 DEF Returned, LookUpWildcard
  <2>9. QED
    <3>1. failed' \in BOOLEAN /\ (failed => failed')
      BY <1>1, <2>3, ReadsKeep, Zenon
    <3>2. UNCHANGED <<db, asked, ever, stable, edits>> /\ at.step = "wildcard" /\ rows \in SUBSET May
      BY <1>5, <2>2 DEF LookUpWildcard
    <3>3. QED
      BY <2>4, <2>8, <3>1, <3>2, Zenon
<1>6. QED
  BY <1>3, <1>4, <1>5 DEF Looks

\* The end of a question, or the target of the next alias.
Continues(left) ==
    \/ /\ left = {} /\ at' = [step |-> "replied", name |-> asked.name, index |-> 1]
       /\ chase' = {} /\ reply' = NoReply
    \/ \E r \in left :
          /\ at' = [step |-> "cname", name |-> r.target, index |-> 1]
          /\ chase' = left \ {r} /\ reply' = reply

Left(rows) ==
    IF Direct THEN {r \in rows : r.type = "CNAME" /\ asked.type # "CNAME"} ELSE chase

LEMMA FoundEffect ==
    ASSUME NEW rows, Found(rows)
    PROVE  answer' = answer \cup Emitted(rows) /\ Continues(Left(rows))
BY DEF Found, Left, Continue, Continues, Answered, EndWith, NoReply, Go

LEMMA NotFoundEffect ==
    ASSUME NotFound
    PROVE  /\ answer' = answer
           /\ IF Direct
              THEN /\ at' = [step |-> "zone", name |-> asked.name, index |-> 1]
                   /\ UNCHANGED <<chase, reply>>
              ELSE Continues(chase)
BY DEF NotFound, FirstSuffix, Continue, Continues, Answered, EndWith, NoReply, Go

\* Records that are found but not emitted bring no alias.
LEMMA LeftEmitted ==
    ASSUME Searching, NEW rows
    PROVE  Left(rows) \subseteq {r \in answer \cup Emitted(rows) : r.type = "CNAME"}
BY DEF Left, Emitted, Searching

LEMMA LookUpType ==
    ASSUME TypeOK, Searching, Looks
    PROVE  TypeOK'
<1>1. /\ UNCHANGED <<db, asked, ever, stable, edits>> /\ failed' \in BOOLEAN
      /\ at.step \in {"cname", "exact", "wildcard"}
  BY LookUpEffect
<1>2. PICK rows \in SUBSET May : Looked(rows)
  BY LookUpEffect
<1>3. /\ at \in [step : Steps, name : Names, index : Nat \ {0}] /\ asked \in Questions
      /\ answer \subseteq Candidates /\ chase \subseteq Candidates /\ at.index <= Len(at.name) + 1
      /\ Len(at.name) \in Nat /\ asked.name \in Names /\ Len(asked.name) \in Nat
      /\ reply \in [rcode : {"noerror", "nxdomain"}, ns : SUBSET (Domains \cup {NoName})]
  BY NamesAreSequences DEF TypeOK, Names
<1>4. rows \subseteq Candidates /\ Emitted(rows) \subseteq Candidates /\ Left(rows) \subseteq Candidates
  BY <1>3 DEF TypeOK, Tables, May, Emitted, Left
<1>5. ASSUME NEW left \in SUBSET Candidates, Continues(left)
      PROVE  /\ at' \in [step : Steps, name : Names, index : Nat \ {0}]
             /\ at'.index <= Len(at'.name) + 1 /\ chase' \subseteq Candidates
             /\ reply' \in [rcode : {"noerror", "nxdomain"}, ns : SUBSET (Domains \cup {NoName})]
  <2>1. \A r \in left : r.target \in Names /\ Len(r.target) \in Nat
    BY NamesAreSequences DEF Names
  <2>2. NoReply \in [rcode : {"noerror", "nxdomain"}, ns : SUBSET (Domains \cup {NoName})]
    BY DEF NoReply
  <2>3. QED
    BY <1>3, <1>5, <2>1, <2>2 DEF Continues, Steps
<1>6. CASE Found(rows)
  BY <1>1, <1>3, <1>4, <1>5, <1>6, FoundEffect DEF TypeOK
<1>7. CASE NotFound
  <2>1. CASE Direct
    BY <1>1, <1>3, <1>7, <2>1, NotFoundEffect DEF TypeOK, Steps
  <2>2. CASE ~Direct
    BY <1>1, <1>3, <1>5, <1>7, <2>2, NotFoundEffect DEF TypeOK
  <2>3. QED
    BY <2>1, <2>2
<1>8. CASE UNCHANGED <<chase, answer, reply>> /\ ~Found(rows) /\ ~NotFound
  BY <1>1, <1>2, <1>3, <1>8 DEF Looked, Goes, TypeOK, Steps
<1>9. QED
  BY <1>2, <1>6, <1>7, <1>8 DEF Looked

LEMMA LookUpSearching ==
    ASSUME TypeOK, Searching, Looks
    PROVE  Searching'
<1>1. /\ UNCHANGED <<db, asked, ever, stable, edits>>
      /\ at.step \in {"cname", "exact", "wildcard"}
  BY LookUpEffect
<1>2. PICK rows \in SUBSET May : Looked(rows)
  BY LookUpEffect
<1>3. /\ asked \in Questions /\ asked.name # NoName /\ answer \subseteq Candidates
      /\ at.name \in Seq(Labels) /\ at.index \in Nat \ {0} /\ rows \subseteq Candidates
  BY NamesAreSequences, QuestionsAssumption DEF TypeOK, Tables, May
<1>4. Emitted(rows) \subseteq Candidates
  BY <1>3 DEF Emitted
<1>5. ASSUME NEW left, left \subseteq {r \in answer' : r.type = "CNAME"}, answer' \subseteq Candidates,
             Continues(left)
      PROVE  Searching'
  <2>1. CASE left = {} /\ at' = [step |-> "replied", name |-> asked.name, index |-> 1] /\ chase' = {}
    BY <1>1, <1>3, <2>1 DEF Searching, Direct
  <2>2. CASE \E r \in left : /\ at' = [step |-> "cname", name |-> r.target, index |-> 1]
                            /\ chase' = left \ {r} /\ reply' = reply
    <3>1. PICK r \in left : /\ at' = [step |-> "cname", name |-> r.target, index |-> 1]
                            /\ chase' = left \ {r} /\ reply' = reply
      BY <2>2
    <3>2. r \in answer' /\ r.type = "CNAME" /\ r.target # NoName
      BY <1>5, CandidatesAssumption
    <3>3. reply = NoReply
      BY <1>1 DEF Searching
    <3>4. QED
      BY <1>5, <3>1, <3>2, <3>3 DEF Searching, Direct
  <2>3. QED
    BY <1>5, <2>1, <2>2 DEF Continues
<1>6. CASE Found(rows)
  BY <1>3, <1>4, <1>5, <1>6, FoundEffect, LeftEmitted
<1>7. CASE NotFound
  <2>1. CASE Direct
    BY <1>1, <1>3, <1>7, <2>1, NotFoundEffect DEF Searching, Direct
  <2>2. CASE ~Direct
    BY <1>3, <1>5, <1>7, <2>2, NotFoundEffect DEF Searching
  <2>3. QED
    BY <2>1, <2>2
<1>8. CASE UNCHANGED <<chase, answer, reply>> /\ ~Found(rows) /\ ~NotFound
  <2>1. Len(at.name) \in Nat /\ Len(at.name) # 0
    BY <1>3 DEF Searching, NoName
  <2>2. QED
    BY <1>1, <1>2, <1>3, <1>8, <2>1 DEF Looked, Goes, Searching, Direct
<1>9. QED
  BY <1>2, <1>6, <1>7, <1>8 DEF Looked

LEMMA LookUpOwned ==
    ASSUME TypeOK, Searching, Witnessed, Owned, Looks
    PROVE  Owned'
<1>1. UNCHANGED <<asked, ever>> /\ at.step # "replied"
  BY LookUpEffect
<1>2. PICK rows \in SUBSET May : Looked(rows)
  BY LookUpEffect
<1>3. CASE answer' = answer
  BY <1>1, <1>3 DEF Owned
<1>4. CASE answer' = answer \cup Emitted(rows)
  <2>1. ASSUME NEW r \in Emitted(rows)
        PROVE  /\ r \in ever.records
               /\ \/ r.name \in Owners(asked.name)
                  \/ \E c \in answer : c.type = "CNAME" /\ r.name \in Owners(c.target)
    BY <1>1 DEF Emitted, May, Searching, Witnessed
  <2>2. QED
    BY <1>1, <1>4, <2>1 DEF Owned
<1>5. QED
  BY <1>2, <1>3, <1>4, FoundEffect, NotFoundEffect DEF Looked

LEMMA LookUpComplete ==
    ASSUME TypeOK, Searching, Witnessed, Complete, Looks
    PROVE  Complete'
<1>1. /\ UNCHANGED <<asked, stable>> /\ at.step \in {"cname", "exact", "wildcard"}
      /\ failed => failed'
  BY LookUpEffect
<1>2. PICK rows \in SUBSET May : Looked(rows) /\ Returned(rows)
  BY LookUpEffect
<1>3. SUFFICES ASSUME ~failed', ~failed, asked.type \in Answerable
               PROVE  /\ PastExact' =>
                            \A r \in stable.records :
                                r.name = asked.name /\ r.type \in Wanted(asked.type) => r \in answer'
                      /\ asked.type # "TXT" /\ answer' # {} =>
                            \A r, s \in stable.records :
                                /\ r.name = asked.name /\ r.type = "CNAME"
                                /\ s.name = r.target /\ s.type = asked.type
                                => \/ s \in answer'
                                   \/ r \in chase'
                                   \/ at'.step \in {"cname", "exact"} /\ at'.name = r.target
  BY <1>1 DEF Complete
<1>4. answer \subseteq answer' /\ (answer' # answer => Found(rows))
  BY <1>2, FoundEffect, NotFoundEffect DEF Looked
<1>5. \A r \in rows : r.type \in Wanted(asked.type) /\ r \in Emitted(rows)
  BY <1>3 DEF May, Emitted, Wanted, Answerable
<1>6. \A r \in stable.records :
          /\ at.step = "exact" /\ r.name = at.name /\ r.type \in Wanted(asked.type) => r \in rows
  BY <1>2, <1>3 DEF Returned, Witnessed
<1>7. asked.type \in Wanted(asked.type) /\ (asked.type # "TXT" => "CNAME" \in Wanted(asked.type))
  BY <1>3 DEF Wanted, Answerable
<1>8. PastExact' =>
          \A r \in stable.records : r.name = asked.name /\ r.type \in Wanted(asked.type) => r \in answer'
  <2>1. CASE PastExact
    BY <1>3, <1>4, <2>1 DEF Complete
  <2>2. CASE ~PastExact
    <3>1. answer = {} /\ at.step \in {"cname", "exact"} /\ at.name = asked.name
      BY <1>1, <2>2 DEF PastExact, Searching, Direct
    <3>2. CASE at.step = "cname"
      BY <1>2, <3>1, <3>2 DEF Returned, Looked, Goes, PastExact
    <3>3. CASE at.step = "exact" /\ rows # {}
      BY <1>2, <1>5, <1>6, <3>1, <3>3, FoundEffect DEF Looked
    <3>4. CASE at.step = "exact" /\ rows = {}
      BY <1>6, <3>1, <3>4
    <3>5. QED
      BY <3>1, <3>2, <3>3, <3>4
  <2>3. QED
    BY <2>1, <2>2
<1>9. ASSUME asked.type # "TXT", answer' # {}, NEW r \in stable.records, NEW s \in stable.records,
             r.name = asked.name, r.type = "CNAME", s.name = r.target, s.type = asked.type
      PROVE  \/ s \in answer'
             \/ r \in chase'
             \/ at'.step \in {"cname", "exact"} /\ at'.name = r.target
  <2>1. ASSUME NEW left, Continues(left), r \in left
        PROVE  r \in chase' \/ (at'.step = "cname" /\ at'.name = r.target)
    BY <2>1 DEF Continues
  <2>2. CASE answer = {}
    <3>1. Found(rows) /\ Direct
      BY <1>4, <1>9, <2>2 DEF Direct
    <3>2. at.step = "exact"
      <4>1. at.step # "cname"
        BY <1>2, <1>9, <2>2, <3>1, FoundEffect DEF Returned, Emitted
      <4>2. at.step # "wildcard"
        BY <1>3, <1>7, <1>9, <2>2 DEF Complete, PastExact
      <4>3. QED
        BY <1>1, <4>1, <4>2
    <3>3. r \in rows
      BY <1>6, <1>7, <1>9, <3>1, <3>2 DEF Searching
    <3>4. r \in Left(rows)
      BY <1>3, <1>9, <3>1, <3>3 DEF Left, Answerable
    <3>5. QED
      BY <2>1, <3>1, <3>4, FoundEffect
  <2>3. CASE answer # {}
    <3>1. ~Direct /\ Left(rows) = chase
      BY <2>3 DEF Direct, Left
    <3>2. \/ s \in answer
          \/ r \in chase
          \/ at.step \in {"cname", "exact"} /\ at.name = r.target
      BY <1>3, <1>9, <2>3 DEF Complete
    <3>3. CASE s \in answer
      BY <1>4, <3>3
    <3>4. CASE r \in chase
      BY <1>2, <2>1, <3>1, <3>4, FoundEffect, NotFoundEffect DEF Looked
    <3>5. CASE at.step = "cname" /\ at.name = r.target
      BY <1>2, <3>5 DEF Returned, Looked, Goes
    <3>6. CASE at.step = "exact" /\ at.name = r.target
      <4>1. s \in rows
        BY <1>6, <1>7, <1>9, <3>6
      <4>2. QED
        BY <1>2, <1>5, <4>1, FoundEffect DEF Looked
    <3>7. QED
      BY <3>2, <3>3, <3>4, <3>5, <3>6
  <2>4. QED
    BY <2>2, <2>3
<1>10. QED
  BY <1>8, <1>9

LEMMA LookUpNearest ==
    ASSUME TypeOK, Searching, Witnessed, Complete, Nearest, Looks
    PROVE  Nearest'
<1>1. /\ UNCHANGED <<asked, stable>> /\ at.step \in {"cname", "exact", "wildcard"}
      /\ failed => failed'
  BY LookUpEffect
<1>2. PICK rows \in SUBSET May : Looked(rows) /\ Returned(rows)
  BY LookUpEffect
<1>3. SUFFICES ASSUME ~failed', ~failed, asked.type \in Answerable
               PROVE  /\ at'.step = "wildcard" /\ Direct' =>
                            \A r \in stable.records, j \in 1 .. at'.index - 1 :
                                r.type \in Wanted(asked.type) => r.name # Wildcard(asked.name, j)
                      /\ answer' # {} /\ (\A r \in answer' : r.type # "CNAME") =>
                            \A r \in answer', s \in stable.records :
                                r.name \in Wildcards(asked.name) /\ s.type = asked.type =>
                                    /\ s.name # asked.name
                                    /\ s.name \in Wildcards(asked.name) => Len(s.name) <= Len(r.name)
  BY <1>1 DEF Nearest
<1>4. answer \subseteq answer' /\ (answer' # answer => Found(rows) /\ rows # {})
  <2>1. rows = {} => Emitted(rows) = {}
    BY DEF Emitted
  <2>2. QED
    BY <1>2, <2>1, FoundEffect, NotFoundEffect DEF Looked
<1>5. at.index \in Nat \ {0} /\ asked.name \in Seq(Labels)
  BY QuestionsAssumption DEF TypeOK
<1>6. ASSUME at'.step = "wildcard", Direct', NEW r \in stable.records, NEW j \in 1 .. at'.index - 1,
             r.type \in Wanted(asked.type)
      PROVE  r.name # Wildcard(asked.name, j)
  <2>1. answer = {} /\ Direct /\ at.name = asked.name
    BY <1>4, <1>6 DEF Direct, Searching
  <2>2. /\ rows = {} /\ at.step = "wildcard" /\ at'.index = at.index + 1
    <3>1. \A left : ~Continues(left)
      BY <1>6 DEF Continues
    <3>2. at.step = "exact" => at'.index # 1
      BY <1>6
    <3>3. QED
      BY <1>2, <1>6, <2>1, <3>1, <3>2, FoundEffect, NotFoundEffect DEF Looked, Goes
  <2>3. CASE j < at.index
    <3>1. j \in 1 .. at.index - 1
      BY <1>5, <2>2, <2>3
    <3>2. QED
      BY <1>3, <1>6, <2>1, <2>2, <3>1 DEF Nearest
  <2>4. CASE j = at.index
    BY <1>2, <1>3, <1>6, <2>1, <2>2, <2>4 DEF Returned, Witnessed
  <2>5. QED
    BY <1>5, <2>2, <2>3, <2>4
<1>7. ASSUME answer' # {}, \A r \in answer' : r.type # "CNAME", NEW r \in answer', NEW s \in stable.records,
             r.name \in Wildcards(asked.name), s.type = asked.type
      PROVE  /\ s.name # asked.name
             /\ s.name \in Wildcards(asked.name) => Len(s.name) <= Len(r.name)
  <2>1. answer = {} /\ at.name = asked.name /\ Direct
    BY <1>1, <1>4, <1>7 DEF Searching, Direct
  <2>2. r \in rows /\ rows # {}
    BY <1>4, <1>7, <2>1, FoundEffect DEF Emitted
  <2>3. at.step = "wildcard" /\ r.name = Wildcard(asked.name, at.index)
    BY <1>1, <1>2, <1>7, <2>1, <2>2 DEF Returned, Wildcards
  <2>4. at.index \in 1 .. Len(asked.name)
    BY <1>5, <2>1, <2>3 DEF Searching
  <2>5. s.type \in Wanted(asked.type)
    BY <1>3, <1>7 DEF Wanted, Answerable
  <2>6. s.name # asked.name
    BY <1>3, <2>1, <2>3, <2>5 DEF Complete, PastExact
  <2>7. ASSUME s.name \in Wildcards(asked.name)
        PROVE  Len(s.name) <= Len(r.name)
    <3>1. PICK j \in 1 .. Len(asked.name) : s.name = Wildcard(asked.name, j)
      BY <1>5, <2>7, WildcardsTried
    <3>2. ~(j < at.index)
      <4>1. SUFFICES ASSUME j \in 1 .. at.index - 1 PROVE FALSE
        BY <1>5
      <4>2. QED
        BY <1>3, <2>1, <2>3, <2>5, <3>1, <4>1 DEF Nearest
    <3>3. /\ Len(s.name) = Len(asked.name) + 1 - j
          /\ Len(r.name) = Len(asked.name) + 1 - at.index
      BY <1>5, <2>3, <2>4, <3>1, WildcardOwns
    <3>4. Len(asked.name) \in Nat
      BY <1>5
    <3>5. QED
      BY <1>5, <3>2, <3>3, <3>4
  <2>8. QED
    BY <2>6, <2>7
<1>8. QED
  BY <1>6, <1>7

\* A lookup comes before the walk to a zone.
LEMMA LookUpWalked ==
    ASSUME TypeOK, Searching, Looks
    PROVE  Walked' /\ ZoneNotDenied' /\ SoaOfClosestZone'
<1>1. PICK rows \in SUBSET May : Looked(rows)
  BY LookUpEffect
<1>2. /\ at'.step = "zone" => at'.index = 1
      /\ at'.step # "details"
      /\ at'.step = "replied" => reply' = NoReply
  BY <1>1, FoundEffect, NotFoundEffect DEF Looked, Goes, Continues
<1>3. QED
  BY <1>2 DEF Walked, ZoneNotDenied, SoaOfClosestZone, Replied, Faultless, NoReply

LEMMA LookUpInvariant == IInv /\ Looks => IInv'
<1> SUFFICES ASSUME IInv, Looks PROVE IInv'
  OBVIOUS
<1>1. Witnessed'
  BY LookUpEffect DEF IInv, Witnessed
<1>2. QED
  BY <1>1, LookUpType, LookUpSearching, LookUpOwned, LookUpComplete, LookUpNearest, LookUpWalked
     DEF IInv

-----------------------------------------------------------------------------
(***************************************************************************)
(* The walk to the closest zone.                                           *)
(***************************************************************************)

\* A walk goes on with the name itself, or ends the question.
LEMMA WalkEffect ==
    ASSUME IInv, FindZone \/ GetZone
    PROVE  /\ UNCHANGED <<db, asked, chase, answer, ever, stable, edits>>
           /\ failed' \in BOOLEAN /\ (failed => failed')
           /\ Direct /\ at.name = asked.name /\ chase = {} /\ answer = {} /\ at.step \in {"zone", "details"}
           /\ \/ /\ at'.step \in {"zone", "details"} /\ at'.name = asked.name /\ reply' = reply
                 /\ at' \in [step : Steps, name : Names, index : Nat \ {0}]
                 /\ at.step = "zone"
                 /\ \/ at'.step = "zone" /\ at'.index = at.index + 1 /\ at.index <= Len(at.name)
                    \/ at'.step = "details" /\ at'.index = at.index
              \/ /\ at' = [step |-> "replied", name |-> asked.name, index |-> 1]
                 /\ reply' \in [rcode : {"noerror", "nxdomain"}, ns : SUBSET (Domains \cup {NoName})]
<1>1. /\ at \in [step : Steps, name : Names, index : Nat \ {0}] /\ failed \in BOOLEAN
      /\ Direct => at.name = asked.name /\ chase = {} /\ answer = {}
      /\ at.step \in {"zone", "details"} => Direct
      /\ db.active \subseteq Domains /\ db.details \subseteq Domains
  BY DEF IInv, TypeOK, Searching, Direct, Tables
<1>2. CASE FindZone
  <2>1. PICK rows \in SUBSET ({Suffix(at.name, at.index)} \cap db.active) :
          /\ Reads({Suffix(at.name, at.index)} \cap db.active, rows)
          /\ \/ rows # {} /\ Go("details", at.name, at.index) /\ UNCHANGED reply
             \/ rows = {} /\ at.index <= Len(at.name)
                /\ Go("zone", at.name, at.index + 1) /\ UNCHANGED reply
             \/ rows = {} /\ at.index > Len(at.name) /\ NoZone
    <3>1. at.index \in Nat /\ Len(at.name) \in Nat
      BY <1>1, NamesAreSequences
    <3>2. ~PastRoot(at.name, at.index) <=> at.index <= Len(at.name)
      BY <3>1 DEF PastRoot
    <3>3. QED
      BY <1>2, <3>2 DEF FindZone, Following, PastRoot
  <2>2. failed' \in BOOLEAN /\ (failed => failed')
    BY <1>1, <2>1, ReadsKeep, Zenon
  <2>3. UNCHANGED <<db, asked, chase, answer, ever, stable, edits>> /\ at.step = "zone"
    BY <1>2 DEF FindZone, history
  <2>4. QED
    BY <1>1, <2>1, <2>2, <2>3 DEF Go, NoZone, EndWith, Steps
<1>3. CASE GetZone
  <2>1. PICK rows \in SUBSET ({Suffix(at.name, at.index)} \cap db.details) :
          /\ Reads({Suffix(at.name, at.index)} \cap db.details, rows)
          /\ IF rows = {} THEN NoZone ELSE NoData(rows)
    BY <1>3 DEF GetZone
  <2>2. failed' \in BOOLEAN /\ (failed => failed')
    BY <1>1, <2>1, ReadsKeep, Zenon
  <2>3. UNCHANGED <<db, asked, chase, answer, ever, stable, edits>> /\ at.step = "details"
    BY <1>3 DEF GetZone, history
  <2>4. QED
    BY <1>1, <2>1, <2>2, <2>3 DEF Go, NoZone, EndWith, NoData
<1>4. QED
  BY <1>2, <1>3

LEMMA FindZoneWalked ==
    ASSUME IInv, FindZone
    PROVE  /\ Walked' /\ ZoneNotDenied' /\ SoaOfClosestZone'
           /\ at'.step = "details" => at'.index <= Len(at'.name)
<1>1. /\ UNCHANGED <<asked, ever, stable>> /\ at.name = asked.name
      /\ failed => failed'
  BY WalkEffect
<1>2. /\ at.index \in Nat \ {0} /\ at.index <= Len(at.name) + 1 /\ at.name \in Seq(Labels)
      /\ failed \in BOOLEAN /\ db.active \subseteq Domains /\ at.step = "zone"
      /\ stable.active \subseteq db.active /\ db.active \subseteq ever.active
      /\ \A j \in 1 .. at.index - 1 : Suffix(at.name, j) \in stable.active => failed
  BY NamesAreSequences DEF IInv, TypeOK, Tables, Witnessed, Walked, FindZone
<1>3. PICK rows \in SUBSET ({Suffix(at.name, at.index)} \cap db.active) :
          /\ Reads({Suffix(at.name, at.index)} \cap db.active, rows)
          /\ \/ rows # {} /\ Go("details", at.name, at.index) /\ UNCHANGED reply
             \/ rows = {} /\ at.index <= Len(at.name)
                /\ Go("zone", at.name, at.index + 1) /\ UNCHANGED reply
             \/ rows = {} /\ at.index > Len(at.name) /\ NoZone
  <2>1. ~PastRoot(at.name, at.index) <=> at.index <= Len(at.name)
    BY <1>2 DEF PastRoot
  <2>2. QED
    BY <2>1 DEF FindZone, Following, PastRoot
<1>4. ~failed' => rows = {Suffix(at.name, at.index)} \cap db.active
  BY <1>2, <1>3, ReadsKeep, Zenon
<1>5. CASE rows # {} /\ Go("details", at.name, at.index)
  <2>1. Suffix(at.name, at.index) \in db.active
    BY <1>3, <1>5
  <2>2. at.index <= Len(at.name)
    <3>1. SUFFICES ASSUME at.index = Len(at.name) + 1 PROVE FALSE
      BY <1>2
    <3>2. Suffix(at.name, at.index) = NoName
      BY <1>2, <3>1 DEF Suffix, NoName
    <3>3. QED
      BY <1>2, <2>1, <3>2, DomainsAssumption
  <2>3. QED
    BY <1>1, <1>2, <1>5, <2>1, <2>2
       DEF Go, Walked, ZoneNotDenied, SoaOfClosestZone, Replied, Faultless
<1>6. CASE rows = {} /\ Go("zone", at.name, at.index + 1)
  <2>1. \A j \in 1 .. (at.index + 1) - 1 : j = at.index \/ j \in 1 .. at.index - 1
    BY <1>2
  <2>2. Suffix(at.name, at.index) \in stable.active => failed'
    BY <1>2, <1>4, <1>6
  <2>3. QED
    BY <1>1, <1>2, <1>6, <2>1, <2>2
       DEF Go, Walked, ZoneNotDenied, SoaOfClosestZone, Replied, Faultless
<1>7. CASE at.index > Len(at.name) /\ NoZone
  <2>1. \A i \in 1 .. Len(asked.name) : i \in 1 .. at.index - 1
    BY <1>1, <1>2, <1>7
  <2>2. QED
    BY <1>1, <1>2, <1>7, <2>1
       DEF NoZone, EndWith, Go, Walked, ZoneNotDenied, SoaOfClosestZone, Replied, Faultless
<1>8. QED
  BY <1>3, <1>5, <1>6, <1>7

LEMMA GetZoneWalked ==
    ASSUME IInv, GetZone
    PROVE  Walked' /\ ZoneNotDenied' /\ SoaOfClosestZone'
<1>1. /\ UNCHANGED <<asked, ever, stable>> /\ at.name = asked.name
      /\ failed => failed'
  BY WalkEffect
<1>2. /\ at.index \in Nat \ {0} /\ at.index <= Len(at.name) /\ at.name \in Seq(Labels)
      /\ failed \in BOOLEAN
      /\ stable.details \subseteq db.details /\ db.details \subseteq ever.details
      /\ \A j \in 1 .. at.index - 1 : Suffix(at.name, j) \in stable.active => failed
      /\ Suffix(at.name, at.index) \in ever.active
  BY NamesAreSequences DEF IInv, TypeOK, Searching, Witnessed, Walked, GetZone
<1>3. PICK rows \in SUBSET ({Suffix(at.name, at.index)} \cap db.details) :
          /\ Reads({Suffix(at.name, at.index)} \cap db.details, rows)
          /\ IF rows = {} THEN NoZone ELSE NoData(rows)
  BY DEF GetZone
<1>4. ~failed' => rows = {Suffix(at.name, at.index)} \cap db.details
  BY <1>2, <1>3, ReadsKeep, Zenon
<1>5. Walked'
  BY <1>3 DEF NoZone, EndWith, NoData, Go, Walked
<1>6. at.index \in 1 .. Len(asked.name)
  BY <1>1, <1>2
<1>7. CASE rows = {} /\ NoZone
  <2>1. ASSUME ~failed', NEW i \in 1 .. Len(asked.name),
               Suffix(asked.name, i) \in stable.active \cap stable.details
        PROVE  \E j \in 1 .. i - 1 : Suffix(asked.name, j) \in ever.active
    <3>1. ~(i \in 1 .. at.index - 1)
      BY <1>1, <1>2, <2>1
    <3>2. i # at.index
      BY <1>1, <1>2, <1>4, <1>7, <2>1
    <3>3. at.index \in 1 .. i - 1
      BY <1>6, <3>1, <3>2
    <3>4. QED
      BY <1>1, <1>2, <3>3
  <2>2. QED
    BY <1>1, <1>5, <1>7, <2>1
       DEF NoZone, EndWith, NoData, Go, ZoneNotDenied, SoaOfClosestZone, Replied, Faultless
<1>8. CASE rows # {} /\ NoData(rows)
  <2>1. reply'.rcode = "noerror" /\ reply'.ns = rows
    BY <1>8 DEF EndWith, NoData
  <2>2. \A d \in rows : d = Suffix(asked.name, at.index) /\ d \in ever.active \cap ever.details
    BY <1>1, <1>2, <1>3
  <2>3. \A j \in 1 .. at.index - 1 : Suffix(asked.name, j) \in stable.active => failed'
    BY <1>1, <1>2
  <2>4. QED
    BY <1>1, <1>5, <1>6, <2>1, <2>2, <2>3 DEF ZoneNotDenied, SoaOfClosestZone, Faultless
<1>9. QED
  BY <1>3, <1>7, <1>8

LEMMA WalkInvariant == IInv /\ (FindZone \/ GetZone) => IInv'
<1> SUFFICES ASSUME IInv, FindZone \/ GetZone PROVE IInv'
  OBVIOUS
<1>1. /\ UNCHANGED <<db, asked, chase, answer, ever, stable, edits>>
      /\ failed' \in BOOLEAN /\ (failed => failed')
      /\ Direct /\ at.name = asked.name /\ chase = {} /\ answer = {} /\ at.step \in {"zone", "details"}
  BY WalkEffect
<1>2. /\ asked.name \in Names /\ Len(asked.name) \in Nat /\ at.index \in Nat /\ asked.name # NoName
  BY NamesAreSequences, QuestionsAssumption DEF IInv, TypeOK, Names
<1>3. /\ at' \in [step : Steps, name : Names, index : Nat \ {0}] /\ at'.name = asked.name
      /\ at'.index <= Len(at'.name) + 1
      /\ reply' \in [rcode : {"noerror", "nxdomain"}, ns : SUBSET (Domains \cup {NoName})]
      /\ at'.step \in {"zone", "details", "replied"}
      /\ at'.step # "replied" => reply' = reply
  BY <1>1, <1>2, WalkEffect DEF IInv, TypeOK, Steps
<1>4. TypeOK'
  BY <1>1, <1>3 DEF IInv, TypeOK
<1>5. Walked' /\ ZoneNotDenied' /\ SoaOfClosestZone' /\ (at'.step = "details" => at'.index <= Len(at'.name))
  <2>1. GetZone => at'.step = "replied"
    BY DEF GetZone, NoZone, EndWith, NoData, Go
  <2>2. QED
    BY <2>1, FindZoneWalked, GetZoneWalked
<1>6. Searching'
  BY <1>1, <1>2, <1>3, <1>5 DEF IInv, Searching, Direct
<1>7. Witnessed' /\ Owned'
  BY <1>1 DEF IInv, Witnessed, Owned
<1>8. Complete' /\ Nearest'
  BY <1>1, <1>3 DEF IInv, Complete, Nearest, PastExact
<1>9. QED
  BY <1>4, <1>5, <1>6, <1>7, <1>8 DEF IInv

-----------------------------------------------------------------------------
(***************************************************************************)
(* The question, the message and the edits.                                *)
(***************************************************************************)
LEMMA InitInvariant == Init => IInv
<1> SUFFICES ASSUME Init PROVE IInv
  OBVIOUS
<1>1. /\ at = Idle /\ at.step = "idle" /\ at.name = AnyQuestion.name /\ at.index = 1
      /\ asked = AnyQuestion /\ chase = {} /\ answer = {} /\ reply = NoReply /\ ever = db /\ stable = db
      /\ db \in Tables /\ ~failed /\ failed \in BOOLEAN /\ edits = 0
  BY DEF Init, Idle
<1>2. at \in [step : Steps, name : Names, index : Nat \ {0}] /\ Len(at.name) \in Nat
  BY <1>1, SomeQuestion, NamesAreSequences DEF Idle, Steps
<1>3. TypeOK
  BY <1>1, <1>2, SomeQuestion, MaxEditsAssumption DEF TypeOK, NoReply
<1>4. Searching
  BY <1>1, SomeQuestion DEF Searching, Direct
<1>5. Witnessed /\ Owned /\ Walked /\ Complete /\ Nearest /\ ZoneNotDenied /\ SoaOfClosestZone
  BY <1>1 DEF Witnessed, Owned, Walked, Complete, Nearest, PastExact, ZoneNotDenied, SoaOfClosestZone,
     Replied, Faultless
<1>6. QED
  BY <1>3, <1>4, <1>5 DEF IInv

LEMMA AskInvariant ==
    ASSUME IInv, NEW q \in Questions, Ask(q)
    PROVE  IInv'
<1>1. /\ at.step = "idle" /\ asked' = q /\ at' = [step |-> "cname", name |-> q.name, index |-> 1]
      /\ UNCHANGED <<db, chase, answer, reply, failed, ever, stable, edits>>
  BY DEF Ask, Go, history
<1>2. q.name \in Names /\ q.name # NoName /\ Len(q.name) \in Nat
  BY NamesAreSequences, QuestionsAssumption DEF Names
<1>3. chase = {} /\ answer = {} /\ reply = NoReply
  BY <1>1 DEF IInv, Searching
<1>4. TypeOK'
  BY <1>1, <1>2 DEF IInv, TypeOK, Steps
<1>5. Searching' /\ Witnessed'
  BY <1>1, <1>2, <1>3 DEF IInv, Searching, Witnessed, Direct
<1>6. Owned' /\ Walked' /\ Complete' /\ Nearest' /\ ZoneNotDenied' /\ SoaOfClosestZone'
  BY <1>1, <1>3 DEF Owned, Walked, Complete, Nearest, PastExact, ZoneNotDenied, SoaOfClosestZone,
     Replied, Faultless
<1>7. QED
  BY <1>4, <1>5, <1>6 DEF IInv

LEMMA EndInvariant == IInv /\ EndQuestion => IInv'
<1> SUFFICES ASSUME IInv, EndQuestion PROVE IInv'
  OBVIOUS
<1>1. /\ at' = Idle /\ at'.step = "idle" /\ at'.name = AnyQuestion.name /\ at'.index = 1
      /\ asked' = AnyQuestion /\ chase' = {} /\ answer' = {} /\ reply' = NoReply
      /\ ever' = db /\ stable' = db /\ db' = db /\ ~failed' /\ failed' \in BOOLEAN /\ edits' = 0
  BY DEF EndQuestion, Idle
<1>2. at' \in [step : Steps, name : Names, index : Nat \ {0}] /\ Len(at'.name) \in Nat
  BY <1>1, SomeQuestion, NamesAreSequences DEF Idle, Steps
<1>3. TypeOK'
  BY <1>1, <1>2, SomeQuestion, MaxEditsAssumption DEF IInv, TypeOK, NoReply
<1>4. Searching'
  BY <1>1, SomeQuestion DEF Searching, Direct
<1>5. Witnessed' /\ Owned' /\ Walked' /\ Complete' /\ Nearest' /\ ZoneNotDenied' /\ SoaOfClosestZone'
  BY <1>1 DEF Witnessed, Owned, Walked, Complete, Nearest, PastExact, ZoneNotDenied, SoaOfClosestZone,
     Replied, Faultless
<1>6. QED
  BY <1>3, <1>4, <1>5 DEF IInv

\* An edit adds to what has ever been there and takes from what always was.
LEMMA EditEffect ==
    ASSUME TypeOK, EditRow
    PROVE  /\ db' \in Tables /\ ever' \in Tables /\ stable' \in Tables
           /\ ever'.records = ever.records \cup db'.records /\ ever'.active = ever.active \cup db'.active
           /\ ever'.details = ever.details \cup db'.details
           /\ stable'.records = stable.records \cap db'.records
           /\ stable'.active = stable.active \cap db'.active
           /\ stable'.details = stable.details \cap db'.details
<1>1. /\ db \in Tables /\ ever \in Tables /\ stable \in Tables
  BY DEF TypeOK
<1>2. db' \in Tables
  BY <1>1 DEF EditRow, Toggled, Tables
<1>3. /\ ever' = [table \in DOMAIN ever |-> ever[table] \cup db'[table]]
      /\ stable' = [table \in DOMAIN stable |-> stable[table] \cap db'[table]]
      /\ DOMAIN ever = {"records", "active", "details"} /\ DOMAIN stable = {"records", "active", "details"}
  BY <1>1 DEF EditRow, Tables
<1>4. /\ ever' = [records |-> ever.records \cup db'.records, active |-> ever.active \cup db'.active,
                  details |-> ever.details \cup db'.details]
      /\ stable' = [records |-> stable.records \cap db'.records, active |-> stable.active \cap db'.active,
                    details |-> stable.details \cap db'.details]
  BY <1>3
<1>5. QED
  BY <1>1, <1>2, <1>4 DEF Tables

LEMMA EditInvariant == IInv /\ EditRow => IInv'
<1> SUFFICES ASSUME IInv, EditRow PROVE IInv'
  OBVIOUS
<1>1. /\ UNCHANGED <<asked, at, chase, answer, reply, failed>> /\ at.step \notin {"idle", "replied"}
      /\ edits < MaxEdits /\ edits' = edits + 1
  BY DEF EditRow
<1>2. /\ db' \in Tables /\ ever' \in Tables /\ stable' \in Tables
      /\ stable'.records \subseteq stable.records /\ stable'.active \subseteq stable.active
      /\ ever.records \subseteq ever'.records /\ ever.active \subseteq ever'.active
      /\ Witnessed'
  BY EditEffect DEF IInv, Witnessed
<1>3. TypeOK'
  BY <1>1, <1>2, MaxEditsAssumption DEF IInv, TypeOK
<1>4. Searching'
  BY <1>1 DEF IInv, Searching, Direct
<1>5. Owned'
  BY <1>1, <1>2 DEF IInv, Owned
<1>6. Walked'
  BY <1>1, <1>2 DEF IInv, Walked
<1>7. Complete'
  BY <1>1, <1>2 DEF IInv, Complete, PastExact
<1>8. Nearest'
  BY <1>1, <1>2 DEF IInv, Nearest, Direct
<1>9. ZoneNotDenied' /\ SoaOfClosestZone'
  BY <1>1 DEF ZoneNotDenied, SoaOfClosestZone, Replied, Faultless
<1>10. QED
  BY <1>2, <1>3, <1>4, <1>5, <1>6, <1>7, <1>8, <1>9 DEF IInv

LEMMA StutterInvariant == IInv /\ UNCHANGED vars => IInv'
BY DEF IInv, TypeOK, Searching, Witnessed, Owned, Walked, Complete, Nearest, PastExact, Direct,
   ZoneNotDenied, SoaOfClosestZone, Replied, Faultless, vars

-----------------------------------------------------------------------------
(***************************************************************************)
(* The invariant holds, and with it what it was made for.                  *)
(***************************************************************************)

\* IInv holds initially and after every read, message and edit.
THEOREM Invariance == Spec => []IInv
<1>1. Init => IInv
  BY InitInvariant
<1>2. IInv /\ [Next]_vars => IInv'
  BY AskInvariant, LookUpInvariant, WalkInvariant, EndInvariant, EditInvariant, StutterInvariant
     DEF Next, Looks, CloseZoneFails, Send
<1>3. QED
  BY <1>1, <1>2, PTL DEF Spec

\* The types of the tables and of what a question keeps.
THEOREM TypeCorrect == Spec => []TypeOK
BY Invariance, PTL DEF IInv

\* Edits to other rows do not hide a record from lookupActiveRecords and
\* appendAnswers, for any tables, names and edits.
THEOREM StableRecordsAnswered == Spec => []StableAnswered
<1>1. IInv => StableAnswered
  <2>1. SUFFICES ASSUME IInv, Faultless, asked.type \in Answerable, NEW r \in stable.records
                 PROVE  /\ r.name = asked.name /\ r.type = asked.type => r \in answer
                        /\ r.name = asked.name /\ r.type = "CNAME" /\ asked.type # "TXT" =>
                              \A s \in stable.records :
                                  s.name = r.target /\ s.type = asked.type => {r, s} \subseteq answer
    BY DEF StableAnswered
  <2>2. /\ ~failed /\ PastExact /\ chase = {} /\ at.step = "replied"
    BY <2>1 DEF IInv, Faultless, Replied, PastExact, Searching
  <2>3. asked.type \in Wanted(asked.type) /\ (asked.type # "TXT" => "CNAME" \in Wanted(asked.type))
    BY <2>1 DEF Wanted, Answerable
  <2>4. r.name = asked.name /\ r.type \in Wanted(asked.type) => r \in answer
    BY <2>1, <2>2 DEF IInv, Complete
  <2>5. QED
    BY <2>1, <2>2, <2>3, <2>4 DEF IInv, Complete
<1>2. QED
  BY <1>1, Invariance, PTL

\* Whatever lookupActiveRecords and appendAnswers put together is owned by the
\* name, a wildcard above it, or those of an alias in the answer.
THEOREM AnswersHaveOwners == Spec => []Provenance
<1>1. IInv => Provenance
  BY DEF IInv, Owned, Provenance
<1>2. QED
  BY <1>1, Invariance, PTL

\* The wildcard loop of lookupActiveRecords: a closer record wins.
THEOREM ClosestWins == Spec => []ClosestFirst
<1>1. IInv => ClosestFirst
  BY DEF IInv, Nearest, ClosestFirst, Faultless, Replied
<1>2. QED
  BY <1>1, Invariance, PTL

\* findActiveZone and getZoneByID deny no name of a zone that stays.
THEOREM ZonesNotDenied == Spec => []ZoneNotDenied
<1>1. IInv => ZoneNotDenied
  BY DEF IInv
<1>2. QED
  BY <1>1, Invariance, PTL

\* The SOA record of a NODATA message is that of a zone around the name, and
\* findActiveZone passes no smaller one by that stays.
THEOREM SoaIsOfClosestZone == Spec => []SoaOfClosestZone
<1>1. IInv => SoaOfClosestZone
  BY DEF IInv
<1>2. QED
  BY <1>1, Invariance, PTL

-----------------------------------------------------------------------------
(***************************************************************************)
(* A question comes to an end: its steps follow a measure.                 *)
(***************************************************************************)

\* An alias of the answer is looked up at most once.
LEMMA ContinueDecreases ==
    ASSUME NEW left, Continues(left)
    PROVE  at'.step = "replied" \/ (chase' \subseteq left /\ chase' # left)
BY DEF Continues

LEMMA LookUpAdvances ==
    ASSUME IInv, Looks
    PROVE  \/ at'.step = "replied"
           \/ Direct /\ ~Direct'
           \/ ~Direct /\ chase' \subseteq chase /\ chase' # chase
           \/ chase' = chase /\ at'.name = at.name /\ Stage < Stage'
<1>1. TypeOK /\ Searching
  BY DEF IInv
<1>2. PICK rows \in SUBSET May : Looked(rows)
  BY <1>1, LookUpEffect
<1>3. at.index \in Nat \ {0} /\ Len(at.name) \in Nat /\ at.step \in {"cname", "exact", "wildcard"}
  BY <1>1, NamesAreSequences, LookUpEffect DEF TypeOK
<1>4. CASE Found(rows)
  <2>1. CASE Direct /\ answer' = {}
    <3>1. Left(rows) = {}
      BY <1>1, <1>4, <2>1, FoundEffect, LeftEmitted
    <3>2. QED
      BY <1>4, <3>1, FoundEffect DEF Continues
  <2>2. CASE ~Direct
    BY <1>4, <2>2, FoundEffect, ContinueDecreases DEF Left
  <2>3. QED
    BY <2>1, <2>2 DEF Direct
<1>5. CASE NotFound /\ at.step = "wildcard"
  <2>1. CASE Direct
    <3>1. at.index <= Len(at.name) /\ at.name = asked.name
      BY <1>1, <1>5, <2>1 DEF Searching
    <3>2. QED
      BY <1>3, <1>5, <2>1, <3>1, NotFoundEffect DEF Stage
  <2>2. CASE ~Direct
    BY <1>5, <2>2, NotFoundEffect, ContinueDecreases
  <2>3. QED
    BY <2>1, <2>2
<1>6. CASE /\ UNCHANGED <<chase, answer, reply>>
           /\ \/ at.step = "cname" /\ Goes("exact", 1)
              \/ at.step = "exact" /\ Goes("wildcard", 1)
              \/ at.step = "wildcard" /\ at.index < Len(at.name) /\ Goes("wildcard", at.index + 1)
  BY <1>3, <1>6 DEF Goes, Stage
<1>7. QED
  BY <1>2, <1>4, <1>5, <1>6 DEF Looked

LEMMA WalkAdvances ==
    ASSUME IInv, FindZone \/ GetZone
    PROVE  at'.step = "replied" \/ (chase' = chase /\ at'.name = at.name /\ Stage < Stage')
<1>1. at.index \in Nat \ {0} /\ Len(at.name) \in Nat /\ at.index <= Len(at.name) + 1
  BY NamesAreSequences DEF IInv, TypeOK
<1>2. QED
  BY <1>1, WalkEffect DEF Stage

\* ServeDNS ends every question, whatever the tables hold and become: the loop
\* over wildcards, the walk to a zone and the aliases to follow all run out.
THEOREM QuestionsEnd == Spec => Terminates
<1>1. IInv /\ [Next]_vars =>
         [Working /\ at' # at =>
             \/ ~Working'
             \/ Direct /\ ~Direct'
             \/ ~Direct /\ chase' \subseteq chase /\ chase' # chase
             \/ chase' = chase /\ at'.name = at.name /\ Stage < Stage']_vars
  <2> SUFFICES ASSUME IInv, Next, Working, at' # at
               PROVE  \/ ~Working'
                      \/ Direct /\ ~Direct'
                      \/ ~Direct /\ chase' \subseteq chase /\ chase' # chase
                      \/ chase' = chase /\ at'.name = at.name /\ Stage < Stage'
    OBVIOUS
  <2>1. CASE Looks
    BY <2>1, LookUpAdvances DEF Working
  <2>2. CASE FindZone \/ GetZone
    BY <2>2, WalkAdvances DEF Working
  <2>3. CASE CloseZoneFails
    BY <2>3 DEF CloseZoneFails, EndQuestion, Idle, Working
  <2>4. QED
    BY <2>1, <2>2, <2>3 DEF Next, Looks, Working, Ask, Send, EditRow
<1>2. QED
  BY <1>1, Invariance, PTL DEF Spec, Terminates
=============================================================================
