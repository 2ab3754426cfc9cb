-------------------------------- MODULE Dns ---------------------------------
(***************************************************************************)
(* The DNS backend (pkg/daemons/dns/query.go): one question looked up in   *)
(* tables that others write meanwhile.                                     *)
(*                                                                         *)
(* A question costs a series of reads of the database, each of them one    *)
(* action.  No read is part of a transaction, so rows come and go between  *)
(* them, and the error of a failed read is dropped, but for one: what it   *)
(* has not returned counts as not there.  The server keeps nothing between *)
(* two questions and every question has its own goroutine, so one question *)
(* against changing tables shows all there is.  A message has one question *)
(* here; the code loops over several.                                      *)
(*                                                                         *)
(* A name is its sequence of labels, without the root, as normalizeFQDN    *)
(* leaves it: names are asked for, and targets followed, in lower case.    *)
(***************************************************************************)
EXTENDS Naturals, Sequences

CONSTANTS
    Labels,       \* what names are made of
    Candidates,   \* rows active_records may have: [name, type, target]
    Domains,      \* names there may be a zone for
    Questions,    \* what is asked: [name, type]
    MaxEdits      \* bound: rows that change during one question

Types == {"A", "AAAA", "CNAME", "TXT", "MX"}

NoName == <<>>

ASSUME LabelsAssumption == "*" \in Labels
ASSUME CandidatesAssumption ==
    \A r \in Candidates :
        /\ r.name \in Seq(Labels) /\ r.type \in Types /\ r.target \in Seq(Labels)
        /\ r.target = NoName <=> r.type # "CNAME"
ASSUME QuestionsAssumption ==
    /\ Questions # {}
    /\ \A q \in Questions : q.name \in Seq(Labels) \ {NoName} /\ q.type \in Types
ASSUME DomainsAssumption == NoName \notin Domains
ASSUME MaxEditsAssumption == MaxEdits \in Nat

VARIABLES
    db,           \* active_records, active_zones and zones_by_id
    asked,        \* the question
    at,           \* the read that comes next, and what it is about
    chase,        \* CNAME records whose target is still to be looked up
    answer,       \* the records in the answer section
    reply,        \* the message: its code, and the zones whose SOA it has
    ever,         \* history: rows there have been during the question
    stable,       \* history: rows there have been all along
    failed,       \* history: whether a read has failed
    edits

vars == <<db, asked, at, chase, answer, reply, ever, stable, failed, edits>>
history == <<ever, stable, edits>>

\* A zone's id, by which zones_by_id is read, stands for its domain.
Tables == [records : SUBSET Candidates, active : SUBSET Domains, details : SUBSET Domains]

Steps == {"idle", "cname", "exact", "wildcard", "zone", "details", "replied"}
Names == {q.name : q \in Questions} \cup {r.target : r \in Candidates}

TypeOK ==
    /\ db \in Tables /\ ever \in Tables /\ stable \in Tables
    /\ asked \in Questions
    /\ at \in [step : Steps, name : Names, index : Nat \ {0}]
    /\ at.index <= Len(at.name) + 1
    /\ chase \subseteq Candidates /\ answer \subseteq Candidates
    /\ reply \in [rcode : {"noerror", "nxdomain"}, ns : SUBSET (Domains \cup {NoName})]
    /\ failed \in BOOLEAN
    /\ edits \in 0 .. MaxEdits

\* The message before anything is known.
NoReply == [rcode |-> "noerror", ns |-> {}]

AnyQuestion == CHOOSE q \in Questions : TRUE

Idle == [step |-> "idle", name |-> AnyQuestion.name, index |-> 1]

Init ==
    /\ db \in Tables
    /\ ever = db /\ stable = db
    /\ asked = AnyQuestion
    /\ at = Idle
    /\ chase = {} /\ answer = {}
    /\ reply = NoReply
    /\ failed = FALSE
    /\ edits = 0

-----------------------------------------------------------------------------
\* strings.Join(parts[i:], "."), counted from 1; the last one is empty.
Suffix(name, i) == SubSeq(name, i, Len(name))

\* Mutants of the walk's loop: it begins with the parent, leaves out every
\* other name, does not end.
FirstSuffixParent == 2
FollowingSecond(i) == i + 2
PastRootNever(name, i) == FALSE

\* The loop of the walk to a zone, from the name itself to the root.
FirstSuffix == 1
Following(i) == i + 1
PastRoot(name, i) == i > Len(name)

\* Mutant of Wildcard: the labels from i on.
WildcardOfSelf(name, i) == <<"*">> \o Suffix(name, i)

\* Mutant of Wildcard: from the root on.
WildcardFromRoot(name, i) == <<"*">> \o Suffix(name, Len(name) + 2 - i)

\* The i-th wildcard that is tried for a name.
Wildcard(name, i) == <<"*">> \o Suffix(name, i + 1)

(***************************************************************************)
(* queryActiveRecords builds the statement in one place and binds it in    *)
(* another; a statement with an unbound marker is an error, and nothing.   *)
(***************************************************************************)
Markers(type) == IF type \in {"A", "AAAA"} THEN 1 ELSE 2
Values(type) == IF type \in {"A", "AAAA", "CNAME"} THEN 1 ELSE 2

\* Mutant of Wanted: the statement for addresses asks for no aliases.
WantedNoAlias(type) == IF type \in {"A", "AAAA"} THEN {"A", "AAAA"} ELSE {type}

Wanted(type) == IF type \in {"A", "AAAA"} THEN {"A", "AAAA", "CNAME"} ELSE {type}

Rows(name, type) ==
    IF Markers(type) # Values(type) THEN {}
    ELSE {r \in db.records : r.name = name /\ r.type \in Wanted(type)}

\* createRRFromRecord knows these types.
Emitted(rows) == {r \in rows : r.type \in {"A", "AAAA", "CNAME", "TXT"}}

\* A read returns all there is, or fails on its way.
Reads(all, rows) ==
    \/ rows = all /\ UNCHANGED failed
    \/ rows \subseteq all /\ failed' = TRUE

\* The next read.
Go(step, name, index) == at' = [step |-> step, name |-> name, index |-> index]

EndWith(rcode, ns) ==
    /\ Go("replied", asked.name, 1)
    /\ reply' = [rcode |-> rcode, ns |-> ns]

\* The answer section is complete.
Answered == EndWith("noerror", {}) /\ chase' = {}

\* NODATA, with the SOA records of the zones that were read.
NoData(zones) == EndWith("noerror", zones)

\* NXDOMAIN, with the default SOA record, that of the root.
NoZone == EndWith("nxdomain", {NoName})

\* Mutant of Continue: the targets of CNAME records are left to the client.
ContinueNot(left) == Answered

\* appendAnswers: on to the target of a CNAME record, or the end.
Continue(left) ==
    \/ left = {} /\ Answered
    \/ \E r \in left :
          /\ Go("cname", r.target, 1)
          /\ chase' = left \ {r}
          /\ UNCHANGED reply

\* The lookup is that of the question's name, and not of a target.
Direct == answer = {}

\* Mutant of Found: the CNAME records of targets are followed as well.
FoundAgain(rows) ==
    /\ answer' = answer \cup Emitted(rows)
    /\ Continue(chase \cup {r \in rows : r.type = "CNAME" /\ asked.type # "CNAME"})

\* The lookup has returned records.
Found(rows) ==
    /\ answer' = answer \cup Emitted(rows)
    /\ Continue(IF Direct
                THEN {r \in rows : r.type = "CNAME" /\ asked.type # "CNAME"}
                ELSE chase)

\* It has returned none.
NotFound ==
    /\ UNCHANGED answer
    /\ IF Direct
       THEN Go("zone", asked.name, FirstSuffix) /\ UNCHANGED <<chase, reply>>
       ELSE Continue(chase)

-----------------------------------------------------------------------------
\* A question arrives.
Ask(q) ==
    /\ at.step = "idle"
    /\ asked' = q
    /\ Go("cname", q.name, 1)
    /\ UNCHANGED <<db, chase, answer, reply, failed, history>>

\* lookupActiveRecords, step 1.
LookUpCname ==
    /\ at.step = "cname"
    /\ \E rows \in SUBSET Rows(at.name, "CNAME") :
          /\ Reads(Rows(at.name, "CNAME"), rows)
          /\ IF rows # {} THEN Found(rows)
             ELSE Go("exact", at.name, 1) /\ UNCHANGED <<chase, answer, reply>>
    /\ UNCHANGED <<db, asked, history>>

\* Step 2.
LookUpExact ==
    /\ at.step = "exact"
    /\ \E rows \in SUBSET Rows(at.name, asked.type) :
          /\ Reads(Rows(at.name, asked.type), rows)
          /\ IF rows # {} THEN Found(rows)
             ELSE Go("wildcard", at.name, 1) /\ UNCHANGED <<chase, answer, reply>>
    /\ UNCHANGED <<db, asked, history>>

\* Step 3, from the closest wildcard to that of the root.
LookUpWildcard ==
    /\ at.step = "wildcard"
    /\ LET all == Rows(Wildcard(at.name, at.index), asked.type)
       IN  \E rows \in SUBSET all :
              /\ Reads(all, rows)
              /\ IF rows # {} THEN Found(rows)
                 ELSE IF at.index < Len(at.name)
                      THEN /\ Go("wildcard", at.name, at.index + 1)
                           /\ UNCHANGED <<chase, answer, reply>>
                      ELSE NotFound
    /\ UNCHANGED <<db, asked, history>>

\* findActiveZone
FindZone ==
    /\ at.step = "zone"
    /\ LET all == {Suffix(at.name, at.index)} \cap db.active
       IN  \E rows \in SUBSET all :
              /\ Reads(all, rows)
              /\ \/ rows # {} /\ Go("details", at.name, at.index) /\ UNCHANGED reply
                 \/ /\ rows = {} /\ ~PastRoot(at.name, at.index)
                    /\ Go("zone", at.name, Following(at.index)) /\ UNCHANGED reply
                 \/ rows = {} /\ PastRoot(at.name, at.index) /\ NoZone
    /\ UNCHANGED <<db, asked, chase, answer, history>>

\* getZoneByID: NODATA with the zone's SOA record, or no zone after all.
GetZone ==
    /\ at.step = "details"
    /\ LET all == {Suffix(at.name, at.index)} \cap db.details
       IN  \E rows \in SUBSET all :
              /\ Reads(all, rows)
              /\ IF rows = {} THEN NoZone ELSE NoData(rows)
    /\ UNCHANGED <<db, asked, chase, answer, history>>

\* The goroutine of the question ends.
EndQuestion ==
    /\ asked' = AnyQuestion
    /\ at' = Idle
    /\ chase' = {} /\ answer' = {}
    /\ reply' = NoReply
    /\ failed' = FALSE
    /\ ever' = db /\ stable' = db
    /\ edits' = 0
    /\ UNCHANGED db

\* The message is sent.
Send == at.step = "replied" /\ EndQuestion

\* getZoneByID has its row, and closing the read fails: the error is the one
\* that Query returns, and no message is sent.
CloseZoneFails ==
    /\ at.step = "details"
    /\ Suffix(at.name, at.index) \in db.details
    /\ EndQuestion

-----------------------------------------------------------------------------
\* A row comes, or goes if it is there.
Toggled(rows, row) == (rows \ {row}) \cup ({row} \ rows)

\* Whoever manages the zones writes one row of one table.
EditRow ==
    /\ at.step \notin {"idle", "replied"} /\ edits < MaxEdits
    /\ \/ \E r \in Candidates : db' = [db EXCEPT !.records = Toggled(@, r)]
       \/ \E d \in Domains : db' = [db EXCEPT !.active = Toggled(@, d)]
       \/ \E d \in Domains : db' = [db EXCEPT !.details = Toggled(@, d)]
    /\ ever' = [table \in DOMAIN ever |-> ever[table] \cup db'[table]]
    /\ stable' = [table \in DOMAIN stable |-> stable[table] \cap db'[table]]
    /\ edits' = edits + 1
    /\ UNCHANGED <<asked, at, chase, answer, reply, failed>>

Next ==
    \/ \E q \in Questions : Ask(q)
    \/ LookUpCname
    \/ LookUpExact
    \/ LookUpWildcard
    \/ FindZone
    \/ GetZone
    \/ CloseZoneFails
    \/ Send
    \/ EditRow

Spec == Init /\ [][Next]_vars

-----------------------------------------------------------------------------
Replied == at.step = "replied"
Faultless == Replied /\ ~failed

\* Types of which createRRFromRecord and the bound statements leave nothing out.
Answerable == {"A", "AAAA", "TXT"}

\* The wildcards a name falls under, the name itself not being one of them.
Wildcards(name) ==
    {<<"*">> \o SubSeq(name, i, Len(name)) : i \in 2 .. Len(name) + 1} \ {name}
Owners(name) == {name} \cup Wildcards(name)

(***************************************************************************)
(* Edits to other rows do not hide a record: what the name had all along,  *)
(* and what the target of a CNAME record it had all along had all along,   *)
(* is in the answer.                                                       *)
(***************************************************************************)
StableAnswered ==
    Faultless /\ asked.type \in Answerable =>
        \A r \in stable.records :
            /\ r.name = asked.name /\ r.type = asked.type => r \in answer
            /\ r.name = asked.name /\ r.type = "CNAME" /\ asked.type # "TXT" =>
                  \A s \in stable.records :
                      s.name = r.target /\ s.type = asked.type => {r, s} \subseteq answer

(***************************************************************************)
(* An answer is made of records there have been since the question came,   *)
(* each of them owned by the name asked for, a wildcard above it, or the   *)
(* same of the target of a CNAME record in the answer.                     *)
(***************************************************************************)
Provenance ==
    Replied =>
        \A r \in answer :
            /\ r \in ever.records
            /\ \/ r.name \in Owners(asked.name)
               \/ \E c \in answer : c.type = "CNAME" /\ r.name \in Owners(c.target)

(***************************************************************************)
(* A wildcard never stands in for a record that is closer to the name and  *)
(* was there all along.                                                    *)
(***************************************************************************)
ClosestFirst ==
    Faultless /\ asked.type \in Answerable /\ (\A r \in answer : r.type # "CNAME") =>
        \A r \in answer, s \in stable.records :
            r.name \in Wildcards(asked.name) /\ s.type = asked.type =>
                /\ s.name # asked.name
                /\ s.name \in Wildcards(asked.name) => Len(s.name) <= Len(r.name)

(***************************************************************************)
(* A name in a zone that was there all along is not denied, unless a       *)
(* smaller zone around the name was there for a while: findActiveZone      *)
(* settles on that one, and getZoneByID may come too late for it.          *)
(***************************************************************************)
ZoneNotDenied ==
    Faultless /\ reply.rcode = "nxdomain" =>
        \A i \in 1 .. Len(asked.name) :
            Suffix(asked.name, i) \in stable.active \cap stable.details =>
                \E j \in 1 .. i - 1 : Suffix(asked.name, j) \in ever.active

(***************************************************************************)
(* A NODATA message has the SOA record of a zone around the name that was  *)
(* there, and of no larger one than the smallest that was there all along, *)
(* unless a read has failed.                                               *)
(***************************************************************************)
SoaOfClosestZone ==
    Replied =>
        \A d \in reply.ns \ {NoName} :
            /\ d \in ever.active \cap ever.details
            /\ \E i \in 1 .. Len(asked.name) :
                  /\ d = Suffix(asked.name, i)
                  /\ \A j \in 1 .. i - 1 :
                        Suffix(asked.name, j) \in stable.active => failed

(***************************************************************************)
(* What the series of reads amounts to: over tables that do not change, it *)
(* is this function of the tables and the question.  The records are those *)
(* of the name or else of its closest wildcard; an alias among them brings *)
(* those of its target, found the same way, and no further ones.           *)
(***************************************************************************)
Matching(records, name, type) ==
    {r \in records :
        /\ r.name = name
        /\ \/ type \in {"A", "AAAA"} /\ r.type \in {"A", "AAAA", "CNAME"}
           \/ type \in {"TXT", "MX"} /\ r.type = type}

Closest(records, name, type) ==
    LET own  == Matching(records, name, type)
        wild == {w \in Wildcards(name) : Matching(records, w, type) # {}}
    IN  IF own # {} \/ wild = {} THEN own
        ELSE Matching(records, CHOOSE w \in wild : \A v \in wild : Len(v) <= Len(w), type)

Resolution(tables, q) ==
    LET first   == Closest(tables.records, q.name, q.type)
        targets == {r.target : r \in {c \in first : c.type = "CNAME"}}
        zones   == {i \in 1 .. Len(q.name) : Suffix(q.name, i) \in tables.active}
        zone    == Suffix(q.name, CHOOSE i \in zones : \A j \in zones : i <= j)
    IN  [answer |-> {r \in first \cup UNION {Closest(tables.records, t, q.type) : t \in targets} :
                        r.type # "MX"},
         reply  |-> CASE first # {} -> NoReply
                      [] first = {} /\ zones # {} /\ zone \in tables.details ->
                            [rcode |-> "noerror", ns |-> {zone}]
                      [] OTHER -> [rcode |-> "nxdomain", ns |-> {NoName}]]

ResolvesSnapshot ==
    Faultless /\ edits = 0 => [answer |-> answer, reply |-> reply] = Resolution(db, asked)

(***************************************************************************)
(* A question comes to an end, whatever the tables hold and become: every  *)
(* read goes on to the next one for its name, ends the lookup of the       *)
(* question, or ends that of a target and leaves fewer of them.  A loop of *)
(* aliases is not followed.                                                *)
(***************************************************************************)
Stage ==
    CASE at.step = "cname" -> 0
      [] at.step = "exact" -> 1
      [] at.step = "wildcard" -> 1 + at.index
      [] at.step = "zone" -> 1 + Len(at.name) + at.index
      [] at.step = "details" -> 3 + 2 * Len(at.name)
      [] OTHER -> 0

Working == at.step \notin {"idle", "replied"}

Terminates ==
    [][Working /\ at' # at =>
          \/ ~Working'
          \/ Direct /\ ~Direct'
          \/ ~Direct /\ chase' \subseteq chase /\ chase' # chase
          \/ chase' = chase /\ at'.name = at.name /\ Stage < Stage']_vars

-----------------------------------------------------------------------------
(***************************************************************************)
(* Statement of the repository that the code does not keep.                *)
(*                                                                         *)
(* pkg/daemons/dns/query.go:75: "CNAME first (DNS rule)".  A name that has *)
(* a CNAME record is answered with it, whatever type is asked for.         *)
(***************************************************************************)
CnameFirst ==
    Faultless =>
        \A r \in stable.records : r.name = asked.name /\ r.type = "CNAME" => r \in answer
=============================================================================
