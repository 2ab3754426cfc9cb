----------------------------- MODULE CniProofs ------------------------------
(***************************************************************************)
(* Proofs about Cni, for all sandboxes, networks and numbers of requests.  *)
(***************************************************************************)
EXTENDS Cni, FiniteSetTheorems, TLAPS

-----------------------------------------------------------------------------
(***************************************************************************)
(* The inductive invariant.                                                *)
(***************************************************************************)

\* What the sandbox of a request has to do with it: its phase, the rows found
\* for it, and what it has reported without having done it.
Requests ==
    /\ \A w \in Workers :
          /\ job[w].step \in AddSteps =>
                IF job[w].awaited THEN phase[job[w].sandbox] = "adding"
                                  ELSE job[w].sandbox \in overrun
          /\ job[w].step \in DelSteps => phase[job[w].sandbox] \in {"stopping", "gone"}
          /\ \A t \in job[w].found : IdOf[t] = IdOf[job[w].sandbox]
    /\ \A w, v \in Workers :
          Busy(w) /\ Busy(v) /\ job[w].awaited /\ job[v].awaited
            /\ job[w].sandbox = job[v].sandbox => w = v
    /\ \A s \in overrun : phase[s] \notin {"new", "adding"}
    /\ \A s \in alone : phase[s] # "new"
    /\ \A s \in Sandboxes : <<s, "delPort">> \in unheeded => phase[s] # "new"

\* No DEL of sandbox s that could still be answered has passed its logical
\* port by: it has not looked yet, or has found that port.
NotPassed(s) ==
    \A w \in Workers :
        job[w].sandbox = s /\ job[w].awaited =>
            /\ job[w].step \notin {"findHostPort", "delPort"}
            /\ job[w].step = "deletePort" => s \in job[w].found

\* The sandbox that made a logical port accounts for it, unless its ADD may
\* have made it after the DEL, or the DEL was refused.
AccountsFor(s) ==
    /\ lsp[s] = NetOf[s]
    /\ \/ s \in overrun
       \/ <<s, "deletePort">> \in unheeded
       \/ phase[s] \notin {"new", "gone"} /\ NotPassed(s)

\* Names are unique, so whoever looks for a name finds the port there is.
Accounted ==
    /\ \A s, t \in Sandboxes :
          IdOf[s] = IdOf[t] /\ lsp[s] # NoSwitch /\ lsp[t] # NoSwitch => s = t
    /\ \A s \in Sandboxes : lsp[s] # NoSwitch => AccountsFor(s)

Plugged(s) == s \in bridge \/ <<s, "addPort">> \in unheeded

\* From the request of its ADD on, nobody else works for the pod of a sandbox
\* that was alone, and its port stays once it is plugged.
Undisturbed ==
    \A s \in alone :
        phase[s] \in {"adding", "running"} =>
            /\ \A t \in Siblings(s) : phase[t] \in {"new", "gone"}
            /\ \A w \in Workers :
                  Busy(w) /\ IdOf[job[w].sandbox] = IdOf[s] =>
                      /\ job[w].sandbox = s /\ phase[s] = "adding"
                      /\ job[w].step \in AddSteps /\ job[w].awaited
                      /\ job[w].step \in {"setup", "addPort", "rollback", "undo"} \/ Plugged(s)
            /\ phase[s] = "running" => Plugged(s)

IInv == TypeOK /\ Requests /\ Accounted /\ Undisturbed /\ PortsBounded

-----------------------------------------------------------------------------
(***************************************************************************)
(* The state of a request is read and written through job.                 *)
(***************************************************************************)
USE SandboxAssumption, PublicAssumption, SwitchAssumption

LEMMA IdleType == TypeOK => Idle \in Jobs
BY DEF Idle, AnySandbox, Steps, Jobs

-----------------------------------------------------------------------------
(***************************************************************************)
(* What a handler's step does to the requests: its own goes on, with rows  *)
(* of its pod in hand, or ends with a result that the runtime takes if it  *)
(* still waits.                                                            *)
(***************************************************************************)
Advances(w) ==
    /\ \E step \in Steps, found \in SUBSET Sandboxes :
          /\ job[w].step \in AddSteps => step \in AddSteps \ {"setup"}
          /\ job[w].step \in DelSteps => step \in DelSteps \ {"findPort"}
          /\ step = "addPort" => job[w].step = "setup"
          /\ \A t \in found : IdOf[t] = IdOf[job[w].sandbox]
          /\ job' = [job EXCEPT ![w].step = step, ![w].found = found]
    /\ UNCHANGED phase

Ends(w) ==
    /\ job' = [job EXCEPT ![w] = Idle]
    /\ \E result \in {"running", "failed", "stopping", "gone"} :
          /\ job[w].step \in AddSteps => result \in {"running", "failed"}
          /\ job[w].step \in DelSteps => result \in {"stopping", "gone"}
          /\ result = "gone" => job[w].step = "delPort"
          /\ result = "running" => job[w].step = "insertPort"
          /\ phase' = IF job[w].awaited
                      THEN [phase EXCEPT ![job[w].sandbox] = result]
                      ELSE phase

LEMMA HandlerEffect ==
    ASSUME TypeOK, NEW w \in Workers, Handler(w)
    PROVE  /\ Busy(w)
           /\ Advances(w) \/ Ends(w)
           /\ UNCHANGED <<overrun, alone>>
<1> USE DEF Advances, Ends, GoWith, Go, Reply, runtimeVars, Busy, Steps, AddSteps, DelSteps,
            TypeOK, OvsTypeOK
<1>1. CASE SetUp(w)
  BY <1>1 DEF SetUp
<1>2. CASE AddHostPort(w)
  BY <1>2 DEF AddHostPort
<1>3. CASE FindSwitch(w)
  <2>1. job[w].step = "findSwitch" /\ (Go(w, "insertPort") \/ Go(w, "rollback"))
    BY <1>3 DEF FindSwitch
  <2>2. QED
    BY <2>1
<1>4. CASE InsertLogicalPort(w)
  BY <1>4 DEF InsertLogicalPort
<1>5. CASE RollBack(w)
  <2>1. job[w].step = "rollback"
    BY <1>5 DEF RollBack
  <2>2. ASSUME NEW t \in PortsOf(IdOf[job[w].sandbox]), GoWith(w, "undo", {t})
        PROVE  Advances(w)
    <3>1. {t} \in SUBSET Sandboxes /\ \A u \in {t} : IdOf[u] = IdOf[job[w].sandbox]
      BY DEF PortsOf
    <3>2. QED
      BY <2>1, <2>2, <3>1
  <2>3. QED
    BY <1>5, <2>1, <2>2 DEF RollBack
<1>6. CASE Undo(w)
  BY <1>6 DEF Undo
<1>7. CASE FindLogicalPort(w)
  <2>1. job[w].step = "findPort"
    BY <1>7 DEF FindLogicalPort
  <2>2. ASSUME NEW t \in LogicalPortsOf(IdOf[job[w].sandbox]), GoWith(w, "deletePort", {t})
        PROVE  Advances(w)
    <3>1. {t} \in SUBSET Sandboxes /\ \A u \in {t} : IdOf[u] = IdOf[job[w].sandbox]
      BY DEF LogicalPortsOf
    <3>2. QED
      BY <2>1, <2>2, <3>1
  <2>3. QED
    BY <1>7, <2>1, <2>2 DEF FindLogicalPort
<1>8. CASE DeleteLogicalPort(w)
  BY <1>8 DEF DeleteLogicalPort
<1>9. CASE FindHostPort(w)
  <2>1. job[w].step = "findHostPort"
    BY <1>9 DEF FindHostPort
  <2>2. ASSUME NEW t \in PortsOf(IdOf[job[w].sandbox]), GoWith(w, "delPort", {t})
        PROVE  Advances(w)
    <3>1. {t} \in SUBSET Sandboxes /\ \A u \in {t} : IdOf[u] = IdOf[job[w].sandbox]
      BY DEF PortsOf
    <3>2. QED
      BY <2>1, <2>2, <3>1
  <2>3. QED
    BY <1>9, <2>1, <2>2 DEF FindHostPort
<1>10. CASE DeleteHostPort(w)
  BY <1>10 DEF DeleteHostPort
<1>11. QED
  BY <1>1, <1>2, <1>3, <1>4, <1>5, <1>6, <1>7, <1>8, <1>9, <1>10 DEF Handler

\* What is recorded is the step of the request itself.
LEMMA HandlerUnheeded ==
    ASSUME NEW w \in Workers, Handler(w)
    PROVE  \/ UNCHANGED unheeded
           \/ /\ unheeded' = unheeded \cup {<<job[w].sandbox, job[w].step>>}
              /\ job[w].step \in {"addPort", "deletePort", "delPort"}
BY DEF Handler, SetUp, AddHostPort, FindSwitch, InsertLogicalPort, RollBack, Undo, FindLogicalPort,
   DeleteLogicalPort, FindHostPort, DeleteHostPort, CountAsDone

\* The other requests stay as they are, and an ADD stays an ADD.
LEMMA OthersStay ==
    ASSUME TypeOK, NEW w \in Workers, Advances(w) \/ Ends(w)
    PROVE  /\ \A v \in Workers \ {w} : job'[v] = job[v]
           /\ job[w].step \in AddSteps =>
                 job'[w].step \in AddSteps \/ (Ends(w) /\ job'[w].step = "idle")
           /\ job'[w].step # "idle" =>
                 job'[w].sandbox = job[w].sandbox /\ job'[w].awaited = job[w].awaited
<1>1. job \in [Workers -> Jobs] /\ job[w] \in Jobs
  BY DEF TypeOK
<1>2. CASE Advances(w)
  <2>1. PICK step \in Steps, found \in SUBSET Sandboxes :
           /\ job[w].step \in AddSteps => step \in AddSteps
           /\ job' = [job EXCEPT ![w].step = step, ![w].found = found]
    BY <1>2 DEF Advances
  <2>2. /\ \A v \in Workers \ {w} : job'[v] = job[v]
        /\ job'[w] = [job[w] EXCEPT !.step = step, !.found = found]
    BY <1>1, <2>1
  <2>3. /\ job'[w].step = step
        /\ job'[w].sandbox = job[w].sandbox /\ job'[w].awaited = job[w].awaited
    BY <1>1, <2>2 DEF Jobs
  <2>4. QED
    BY <2>1, <2>2, <2>3
<1>3. CASE Ends(w)
  <2>1. job'[w] = Idle /\ \A v \in Workers \ {w} : job'[v] = job[v]
    BY <1>1, <1>3 DEF Ends
  <2>2. QED
    BY <1>3, <2>1 DEF Idle
<1>4. QED
  BY <1>2, <1>3

\* TypeOK survives every step of a request.
LEMMA HandlerType ==
    ASSUME TypeOK, NEW w \in Workers, Handler(w)
    PROVE  TypeOK'
<1>1. /\ Advances(w) \/ Ends(w)
      /\ UNCHANGED <<overrun, alone>>
  BY HandlerEffect
<1>2. /\ job \in [Workers -> Jobs] /\ phase \in [Sandboxes -> Phases]
      /\ bridge \subseteq Sandboxes /\ OvnTypeOK /\ job[w] \in Jobs /\ job[w].sandbox \in Sandboxes
  BY DEF TypeOK, OvsTypeOK, Jobs
<1>3. job' \in [Workers -> Jobs]
  <2>1. CASE Advances(w)
    <3>1. PICK step \in Steps, found \in SUBSET Sandboxes :
             job' = [job EXCEPT ![w].step = step, ![w].found = found]
      BY <2>1 DEF Advances
    <3>2. [job[w] EXCEPT !.step = step, !.found = found] \in Jobs
      BY <1>2 DEF Jobs
    <3>3. QED
      BY <1>2, <3>1, <3>2
  <2>2. CASE Ends(w)
    BY <1>2, <2>2, IdleType DEF Ends
  <2>3. QED
    BY <1>1, <2>1, <2>2
<1>4. phase' \in [Sandboxes -> Phases]
  BY <1>1, <1>2 DEF Advances, Ends, Phases
<1>5. unheeded' \subseteq Sandboxes \X {"addPort", "deletePort", "delPort"}
  BY <1>2, HandlerUnheeded DEF TypeOK
<1>6. bridge' \subseteq Sandboxes
  BY <1>2 DEF Handler, SetUp, AddHostPort, FindSwitch, InsertLogicalPort, RollBack, Undo,
     FindLogicalPort, DeleteLogicalPort, FindHostPort, DeleteHostPort, AddPort, DelPort
<1>7. OvnTypeOK'
  <2>1. UNCHANGED <<switches, refused>>
    BY DEF Handler, SetUp, AddHostPort, FindSwitch, InsertLogicalPort, RollBack, Undo,
       FindLogicalPort, DeleteLogicalPort, FindHostPort, DeleteHostPort, ovnVars
  <2>2. \/ UNCHANGED lsp
        \/ \E s \in Sandboxes : InsertPort(s, NetOf[s])
        \/ \E found \in SUBSET Sandboxes, l \in Switches \cup {NoSwitch} : DeletePort(found, l)
    BY <1>2 DEF Handler, SetUp, AddHostPort, FindSwitch, InsertLogicalPort, RollBack, Undo, DelSwitch,
       FindLogicalPort, DeleteLogicalPort, FindHostPort, DeleteHostPort, ovnVars, Jobs
  <2>3. lsp' \in [Sandboxes -> Switches \cup {NoSwitch}]
    BY <1>2, <2>2 DEF OvnTypeOK, InsertPort, DeletePort
  <2>4. QED
    BY <1>2, <2>1, <2>3 DEF OvnTypeOK
<1>8. QED
  BY <1>1, <1>3, <1>4, <1>5, <1>6, <1>7 DEF TypeOK, OvsTypeOK

LEMMA HandlerRequests ==
    ASSUME TypeOK, Requests, NEW w \in Workers, Handler(w)
    PROVE  Requests'
<1> PICK s \in Sandboxes : s = job[w].sandbox
  BY DEF TypeOK, Jobs
<1>1. job \in [Workers -> Jobs]
  BY DEF TypeOK
<1>2. Busy(w) /\ UNCHANGED <<overrun, alone>>
  BY HandlerEffect
<1>3. job[w].step \in AddSteps \cup DelSteps
  BY <1>1, <1>2 DEF Busy, Steps, Jobs
<1>4. phase \in [Sandboxes -> Phases] /\ overrun \subseteq Sandboxes /\ alone \subseteq Sandboxes
  BY DEF TypeOK
<1>5. \A t \in Sandboxes : phase'[t] = "new" => phase[t] = "new"
  BY <1>4, HandlerEffect DEF Advances, Ends
<1>6. \A t \in Sandboxes : <<t, "delPort">> \in unheeded' => phase'[t] # "new"
  <2>1. job[w].step = "delPort" => phase[s] # "new"
    BY DEF Requests, DelSteps
  <2>2. QED
    BY <1>5, <2>1, HandlerUnheeded DEF Requests
<1>7. CASE Advances(w)
  <2>1. UNCHANGED phase
    BY <1>7 DEF Advances
  <2>2. PICK step \in Steps, found \in SUBSET Sandboxes :
                              /\ job[w].step \in AddSteps => step \in AddSteps \ {"setup"}
                              /\ job[w].step \in DelSteps => step \in DelSteps \ {"findPort"}
                              /\ \A t \in found : IdOf[t] = IdOf[job[w].sandbox]
                              /\ job' = [job EXCEPT ![w].step = step, ![w].found = found]
    BY <1>7 DEF Advances
  <2>3. /\ \A v \in Workers \ {w} : job'[v] = job[v]
        /\ job'[w] = [job[w] EXCEPT !.step = step, !.found = found]
        /\ job[w] \in Jobs
    BY <1>1, <2>2
  <2>4. \A v \in Workers :
          /\ job'[v].step \in AddSteps <=> job[v].step \in AddSteps
          /\ job'[v].step \in DelSteps <=> job[v].step \in DelSteps
          /\ job'[v].awaited = job[v].awaited /\ job'[v].sandbox = job[v].sandbox
          /\ job'[v].step # "idle" <=> job[v].step # "idle"
          /\ (\A t \in job[v].found : IdOf[t] = IdOf[job[v].sandbox]) =>
                \A t \in job'[v].found : IdOf[t] = IdOf[job[v].sandbox]
    <3>1. /\ job'[w].step = step /\ job'[w].found = found
          /\ job'[w].awaited = job[w].awaited /\ job'[w].sandbox = job[w].sandbox
      BY <2>3 DEF Jobs
    <3>2. /\ step \in AddSteps <=> job[w].step \in AddSteps
          /\ step \in DelSteps <=> job[w].step \in DelSteps
          /\ step # "idle" /\ job[w].step # "idle"
      BY <1>3, <2>2 DEF AddSteps, DelSteps
    <3>3. QED
      BY <2>2, <2>3, <3>1, <3>2
  <2>5. QED
    BY <1>2, <1>6, <2>1, <2>4 DEF Requests, Busy
<1>8. CASE Ends(w)
  <2>1. PICK result \in {"running", "failed", "stopping", "gone"} :
          /\ job[w].step \in AddSteps => result \in {"running", "failed"}
          /\ job[w].step \in DelSteps => result \in {"stopping", "gone"}
          /\ phase' = IF job[w].awaited THEN [phase EXCEPT ![s] = result] ELSE phase
    BY <1>8 DEF Ends
  <2>2. job'[w] = Idle /\ \A v \in Workers \ {w} : job'[v] = job[v]
    BY <1>1, <1>8 DEF Ends
  <2>3. ASSUME NEW v \in Workers, v # w
        PROVE  /\ job'[v].step \in AddSteps =>
                     IF job'[v].awaited THEN phase'[job'[v].sandbox] = "adding"
                                        ELSE job'[v].sandbox \in overrun
               /\ job'[v].step \in DelSteps => phase'[job'[v].sandbox] \in {"stopping", "gone"}
               /\ \A t \in job'[v].found : IdOf[t] = IdOf[job'[v].sandbox]
    <3>1. job'[v] = job[v] /\ job[v].sandbox \in Sandboxes
      BY <1>1, <2>2, <2>3 DEF Jobs
    <3>2. CASE ~job[w].awaited \/ job[v].sandbox # s
      BY <1>4, <2>1, <3>1, <3>2 DEF Requests
    <3>3. CASE job[w].awaited /\ job[v].sandbox = s
      BY <1>1, <1>2, <1>3, <1>4, <2>1, <2>3, <3>1, <3>3 DEF Requests, Busy, AddSteps, DelSteps
    <3>4. QED
      BY <3>2, <3>3
  <2>4. \A v \in Workers :
               /\ job'[v].step \in AddSteps =>
                     IF job'[v].awaited THEN phase'[job'[v].sandbox] = "adding"
                                        ELSE job'[v].sandbox \in overrun
               /\ job'[v].step \in DelSteps => phase'[job'[v].sandbox] \in {"stopping", "gone"}
               /\ \A t \in job'[v].found : IdOf[t] = IdOf[job'[v].sandbox]
    BY <2>2, <2>3 DEF Idle, AddSteps, DelSteps
  <2>5. \A v, u \in Workers :
          job'[v].step # "idle" /\ job'[u].step # "idle" /\ job'[v].awaited /\ job'[u].awaited
            /\ job'[v].sandbox = job'[u].sandbox => v = u
    BY <2>2 DEF Requests, Busy, Idle
  <2>6. \A t \in overrun : phase'[t] \notin {"new", "adding"}
    BY <1>4, <2>1 DEF Requests
  <2>7. \A t \in alone : phase'[t] # "new"
    BY <1>4, <2>1 DEF Requests
  <2>8. QED
    BY <1>2, <1>6, <2>4, <2>5, <2>6, <2>7 DEF Requests, Busy
<1>9. QED
  BY HandlerEffect, <1>7, <1>8

-----------------------------------------------------------------------------
(***************************************************************************)
(* Logical ports.                                                          *)
(***************************************************************************)

\* A logical port stays, goes, or is the new one of the request's sandbox.
LEMMA HandlerPorts ==
    ASSUME TypeOK, NEW w \in Workers, Handler(w), NEW s \in Sandboxes
    PROVE  \/ lsp'[s] \in {lsp[s], NoSwitch}
           \/ /\ s = job[w].sandbox /\ job[w].step = "insertPort"
              /\ lsp'[s] = NetOf[s] /\ LogicalPortsOf(IdOf[s]) = {}
<1>1. lsp \in [Sandboxes -> Switches \cup {NoSwitch}] /\ job[w].sandbox \in Sandboxes
  BY DEF TypeOK, OvnTypeOK, Jobs
<1>2. CASE InsertLogicalPort(w)
  BY <1>1, <1>2 DEF InsertLogicalPort, InsertPort
<1>3. CASE DeleteLogicalPort(w)
  BY <1>1, <1>3 DEF DeleteLogicalPort, DeletePort
<1>4. CASE UNCHANGED lsp
  BY <1>4
<1>5. QED
  BY <1>2, <1>3, <1>4 DEF Handler, SetUp, AddHostPort, FindSwitch, RollBack, Undo, FindLogicalPort,
     FindHostPort, DeleteHostPort, ovnVars

\* A DEL passes a port of its sandbox by only if it is refused.
LEMMA HandlerPasses ==
    ASSUME TypeOK, Accounted, NEW w \in Workers, Handler(w),
           NEW s \in Sandboxes, job[w].sandbox = s, job[w].awaited,
           lsp[s] # NoSwitch, lsp'[s] # NoSwitch, NotPassed(s)
    PROVE  /\ job'[w].step \in {"findHostPort", "delPort"} => <<s, "deletePort">> \in unheeded'
           /\ job'[w].step = "deletePort" => s \in job'[w].found
<1>1. job \in [Workers -> Jobs] /\ job[w] \in Jobs
  BY DEF TypeOK
<1>2. /\ job[w].step \notin {"findHostPort", "delPort"}
      /\ job[w].step = "deletePort" => s \in job[w].found
  BY DEF NotPassed
<1>3. s \in LogicalPortsOf(IdOf[s]) /\ \A t \in LogicalPortsOf(IdOf[s]) : t = s
  BY DEF Accounted, LogicalPortsOf
<1>4. CASE FindLogicalPort(w)
  <2>1. CASE Reply(w, "stopping")
    BY <1>1, <2>1 DEF Reply, Idle
  <2>2. CASE GoWith(w, "deletePort", {s})
    <3>1. job'[w] = [job[w] EXCEPT !.step = "deletePort", !.found = {s}]
      BY <1>1, <2>2 DEF GoWith
    <3>2. QED
      BY <1>1, <3>1 DEF Jobs
  <2>3. QED
    BY <1>3, <1>4, <2>1, <2>2 DEF FindLogicalPort
<1>5. CASE DeleteLogicalPort(w)
  <2>1. CASE Reply(w, "stopping")
    BY <1>1, <2>1 DEF Reply, Idle
  <2>2. CASE Go(w, "findHostPort") /\ CountAsDone(w, \A t \in job[w].found : lsp'[t] = NoSwitch)
    <3>1. job[w].step = "deletePort" /\ s \in job[w].found
      BY <1>2, <1>5 DEF DeleteLogicalPort
    <3>2. unheeded' = unheeded \cup {<<s, "deletePort">>}
      BY <2>2, <3>1 DEF CountAsDone
    <3>3. job'[w].step = "findHostPort"
      BY <1>1, <2>2 DEF Go, GoWith, Jobs
    <3>4. QED
      BY <3>2, <3>3
  <2>3. QED
    BY <1>5, <2>1, <2>2 DEF DeleteLogicalPort
<1>6. job'[w].step \notin DelSteps \/ FindLogicalPort(w) \/ DeleteLogicalPort(w)
  <2>1. CASE job[w].step \in AddSteps
    <3>1. job'[w].step \in AddSteps \cup {"idle"}
      BY <2>1, HandlerEffect, OthersStay
    <3>2. QED
      BY <3>1 DEF AddSteps, DelSteps
  <2>2. CASE job[w].step \notin AddSteps
    BY <1>2, <2>2 DEF Handler, SetUp, AddHostPort, FindSwitch, InsertLogicalPort, RollBack, Undo,
       FindHostPort, DeleteHostPort, AddSteps
  <2>3. QED
    BY <2>1, <2>2
<1>7. QED
  BY <1>4, <1>5, <1>6 DEF DelSteps

\* Whoever accounts for a port that stays goes on accounting for it.
LEMMA HandlerKeepsOwner ==
    ASSUME TypeOK, Accounted, NEW w \in Workers, Handler(w),
           NEW s \in Sandboxes, lsp[s] # NoSwitch, lsp'[s] = lsp[s]
    PROVE  AccountsFor(s)'
<1>1. /\ job \in [Workers -> Jobs] /\ phase \in [Sandboxes -> Phases]
      /\ AccountsFor(s)
  BY DEF TypeOK, Accounted
<1>2. /\ Advances(w) \/ Ends(w)
      /\ UNCHANGED overrun /\ unheeded \subseteq unheeded'
  BY HandlerEffect, HandlerUnheeded
<1>3. /\ \A v \in Workers \ {w} : job'[v] = job[v]
      /\ job'[w].step # "idle" =>
            job'[w].sandbox = job[w].sandbox /\ job'[w].awaited = job[w].awaited
  BY <1>2, OthersStay
<1>4. CASE s \in overrun \/ <<s, "deletePort">> \in unheeded
  BY <1>1, <1>2, <1>4 DEF AccountsFor
<1>5. CASE phase[s] \notin {"new", "gone"} /\ NotPassed(s)
  <2>1. phase'[s] \notin {"new", "gone"}
    BY <1>1, <1>2, <1>5 DEF Advances, Ends, NotPassed
  <2>2. CASE job[w].sandbox = s /\ job[w].awaited
    <3>1. /\ job'[w].step \in {"findHostPort", "delPort"} => <<s, "deletePort">> \in unheeded'
          /\ job'[w].step = "deletePort" => s \in job'[w].found
      BY <1>5, <2>2, HandlerPasses
    <3>2. \A v \in Workers : v # w /\ job'[v].sandbox = s /\ job'[v].awaited =>
            /\ job'[v].step \notin {"findHostPort", "delPort"}
            /\ job'[v].step = "deletePort" => s \in job'[v].found
      BY <1>3, <1>5 DEF NotPassed
    <3>3. QED
      BY <1>1, <2>1, <3>1, <3>2 DEF AccountsFor, NotPassed
  <2>3. CASE ~(job[w].sandbox = s /\ job[w].awaited)
    <3>1. NotPassed(s)'
      BY <1>3, <1>5, <2>3 DEF NotPassed
    <3>2. QED
      BY <1>1, <2>1, <3>1 DEF AccountsFor
  <2>4. QED
    BY <2>2, <2>3
<1>6. QED
  BY <1>1, <1>4, <1>5 DEF AccountsFor

LEMMA HandlerAccounted ==
    ASSUME TypeOK, Requests, Accounted, NEW w \in Workers, Handler(w)
    PROVE  Accounted'
<1>1. /\ job \in [Workers -> Jobs] /\ phase \in [Sandboxes -> Phases]
      /\ lsp \in [Sandboxes -> Switches \cup {NoSwitch}]
  BY DEF TypeOK, OvnTypeOK
<1>2. UNCHANGED overrun /\ (Advances(w) \/ Ends(w)) /\ unheeded \subseteq unheeded'
  BY HandlerEffect, HandlerUnheeded
<1>3. ASSUME NEW s \in Sandboxes, lsp'[s] # NoSwitch
      PROVE  AccountsFor(s)'
  <2>1. CASE lsp[s] = NoSwitch
    <3>1. s = job[w].sandbox /\ job[w].step = "insertPort" /\ lsp'[s] = NetOf[s]
      BY <1>3, <2>1, HandlerPorts
    <3>2. s \in overrun \/ phase[s] = "adding"
      BY <3>1 DEF Requests, AddSteps
    <3>3. CASE phase[s] = "adding"
      <4>1. phase'[s] \in {"adding", "running", "failed"}
        BY <1>1, <1>2, <3>1, <3>3 DEF Advances, Ends, AddSteps
      <4>2. ASSUME NEW v \in Workers, job'[v].sandbox = s
            PROVE  job'[v].step \notin DelSteps
        <5>1. CASE v = w
          <6>1. job[w].step \in AddSteps
            BY <3>1 DEF AddSteps
          <6>2. job'[w].step \in AddSteps \cup {"idle"}
            BY <1>2, <6>1, OthersStay
          <6>3. QED
            BY <5>1, <6>2 DEF AddSteps, DelSteps
        <5>2. CASE v # w
          BY <1>2, <3>3, <4>2, <5>2, OthersStay DEF Requests
        <5>3. QED
          BY <5>1, <5>2
      <4>3. NotPassed(s)'
        BY <4>2 DEF NotPassed, DelSteps
      <4>4. QED
        BY <3>1, <4>1, <4>3 DEF AccountsFor
    <3>4. QED
      BY <1>2, <3>1, <3>2, <3>3 DEF AccountsFor
  <2>2. CASE lsp[s] # NoSwitch
    <3>1. lsp'[s] = lsp[s]
      BY <1>3, <2>2, HandlerPorts DEF LogicalPortsOf
    <3>2. QED
      BY <2>2, <3>1, HandlerKeepsOwner
  <2>3. QED
    BY <2>1, <2>2
<1>4. ASSUME NEW s \in Sandboxes, NEW t \in Sandboxes, IdOf[s] = IdOf[t],
             lsp'[s] # NoSwitch, lsp'[t] # NoSwitch
      PROVE  s = t
  <2>1. CASE lsp[s] # NoSwitch /\ lsp[t] # NoSwitch
    BY <1>4, <2>1 DEF Accounted
  <2>2. CASE lsp[s] = NoSwitch
    <3>1. s = job[w].sandbox /\ LogicalPortsOf(IdOf[s]) = {}
      BY <1>4, <2>2, HandlerPorts
    <3>2. lsp[t] = NoSwitch
      BY <1>4, <3>1 DEF LogicalPortsOf
    <3>3. QED
      BY <1>4, <3>1, <3>2, HandlerPorts
  <2>3. CASE lsp[t] = NoSwitch
    <3>1. t = job[w].sandbox /\ LogicalPortsOf(IdOf[t]) = {}
      BY <1>4, <2>3, HandlerPorts
    <3>2. lsp[s] = NoSwitch
      BY <1>4, <3>1 DEF LogicalPortsOf
    <3>3. QED
      BY <1>4, <3>1, <3>2, HandlerPorts
  <2>4. QED
    BY <2>1, <2>2, <2>3
<1>5. QED
  BY <1>3, <1>4 DEF Accounted

-----------------------------------------------------------------------------
(***************************************************************************)
(* Ports of the bridge.                                                    *)
(***************************************************************************)

\* A step plugs the port of its sandbox, or takes a port of its pod away.
LEMMA HandlerBridge ==
    ASSUME TypeOK, Requests, NEW w \in Workers, Handler(w)
    PROVE  \/ bridge' = bridge
           \/ bridge' = bridge \cup {job[w].sandbox} /\ job[w].step = "addPort"
           \/ /\ job[w].step \in {"undo", "delPort"} /\ job'[w].step = "idle"
              /\ bridge' \subseteq bridge
              /\ \E t \in PortsOf(IdOf[job[w].sandbox]) : t \notin bridge'
              /\ \A t \in bridge : IdOf[t] # IdOf[job[w].sandbox] => t \in bridge'
<1>1. job \in [Workers -> Jobs] /\ \A t \in job[w].found : IdOf[t] = IdOf[job[w].sandbox]
  BY DEF TypeOK, Requests
<1>2. CASE AddHostPort(w)
  BY <1>2 DEF AddHostPort, AddPort
<1>3. CASE Undo(w)
  BY <1>1, <1>3 DEF Undo, DelPort, PortsOf, Reply, Idle
<1>4. CASE DeleteHostPort(w)
  BY <1>1, <1>4 DEF DeleteHostPort, DelPort, PortsOf, Reply, Idle
<1>5. CASE UNCHANGED bridge
  BY <1>5
<1>6. QED
  BY <1>2, <1>3, <1>4, <1>5 DEF Handler, SetUp, FindSwitch, InsertLogicalPort, RollBack,
     FindLogicalPort, DeleteLogicalPort, FindHostPort

\* ADD goes on with its port plugged, or takes it for plugged.
LEMMA HandlerPlugs ==
    ASSUME TypeOK, NEW w \in Workers, Handler(w), job[w].awaited,
           NEW s \in Sandboxes, s = job[w].sandbox
    PROVE  /\ job[w].step = "setup" => job'[w].step \in {"addPort", "idle"}
           /\ job[w].step = "addPort" /\ job'[w].step # "idle" => Plugged(s)'
           /\ job[w].step \in {"rollback", "undo"} => job'[w].step \in {"undo", "idle"}
<1>1. job \in [Workers -> Jobs] /\ job[w] \in Jobs
  BY DEF TypeOK
<1>2. CASE SetUp(w)
  BY <1>1, <1>2 DEF SetUp, Go, GoWith, Reply, Idle, Jobs
<1>3. CASE AddHostPort(w)
  <2>1. job[w].step = "addPort"
    BY <1>3 DEF AddHostPort
  <2>2. CASE Reply(w, "failed")
    BY <1>1, <2>1, <2>2 DEF Reply, Idle
  <2>3. CASE CountAsDone(w, job[w].sandbox \in bridge')
    BY <2>1, <2>3 DEF CountAsDone, Plugged
  <2>4. QED
    BY <1>3, <2>2, <2>3 DEF AddHostPort
<1>4. CASE RollBack(w)
  BY <1>1, <1>4 DEF RollBack, GoWith, Reply, Idle, Jobs
<1>5. CASE Undo(w)
  BY <1>1, <1>5 DEF Undo, Reply, Idle, Jobs
<1>6. QED
  BY <1>2, <1>3, <1>4, <1>5 DEF Handler, FindSwitch, InsertLogicalPort, FindLogicalPort,
     DeleteLogicalPort, FindHostPort, DeleteHostPort

LEMMA HandlerUndisturbed ==
    ASSUME TypeOK, Requests, Undisturbed, NEW w \in Workers, Handler(w)
    PROVE  Undisturbed'
<1> PICK o \in Sandboxes : o = job[w].sandbox
  BY DEF TypeOK, Jobs
<1>1. /\ job \in [Workers -> Jobs]
      /\ phase \in [Sandboxes -> Phases] /\ alone \subseteq Sandboxes
  BY DEF TypeOK
<1>2. /\ Busy(w)
      /\ Advances(w) \/ Ends(w)
      /\ UNCHANGED <<overrun, alone>> /\ unheeded \subseteq unheeded'
  BY HandlerEffect, HandlerUnheeded
<1>3. /\ \A v \in Workers \ {w} : job'[v] = job[v]
      /\ job'[w].step # "idle" => job'[w].sandbox = o /\ job'[w].awaited = job[w].awaited
  BY <1>2, OthersStay
<1>4. SUFFICES ASSUME NEW s \in alone, phase'[s] \in {"adding", "running"}
               PROVE  /\ \A t \in Siblings(s) : phase'[t] \in {"new", "gone"}
                      /\ \A v \in Workers :
                            job'[v].step # "idle" /\ IdOf[job'[v].sandbox] = IdOf[s] =>
                                /\ job'[v].sandbox = s /\ phase'[s] = "adding"
                                /\ job'[v].step \in AddSteps /\ job'[v].awaited
                                /\ \/ job'[v].step \in {"setup", "addPort", "rollback", "undo"}
                                   \/ Plugged(s)'
                      /\ phase'[s] = "running" => Plugged(s)'
  BY <1>2, Zenon DEF Undisturbed, Busy, Siblings
<1>5. s \in Sandboxes
  BY <1>1
<1>6. CASE IdOf[o] # IdOf[s]
  <2>1. \A t \in Sandboxes : IdOf[t] = IdOf[s] => phase'[t] = phase[t]
    BY <1>1, <1>2, <1>6 DEF Advances, Ends
  <2>2. Plugged(s) => Plugged(s)'
    BY <1>2, <1>6, HandlerBridge DEF Plugged
  <2>3. \A v \in Workers : job'[v].step # "idle" /\ IdOf[job'[v].sandbox] = IdOf[s] => job'[v] = job[v]
    BY <1>3, <1>6
  <2>4. QED
    BY <1>4, <1>5, <2>1, <2>2, <2>3 DEF Undisturbed, Busy, Siblings
<1>7. CASE IdOf[o] = IdOf[s]
  <2>1. phase[s] \in {"adding", "running"}
    BY <1>1, <1>2, <1>4, <1>5 DEF Advances, Ends, Requests, AddSteps
  <2>2. /\ \A t \in Siblings(s) : phase[t] \in {"new", "gone"}
        /\ \A v \in Workers :
              job[v].step # "idle" /\ IdOf[job[v].sandbox] = IdOf[s] =>
                  /\ job[v].sandbox = s /\ phase[s] = "adding"
                  /\ job[v].step \in AddSteps /\ job[v].awaited
                  /\ job[v].step \in {"setup", "addPort", "rollback", "undo"} \/ Plugged(s)
    BY <2>1 DEF Undisturbed, Busy
  <2>3. /\ o = s /\ phase[s] = "adding" /\ job[w].step \in AddSteps /\ job[w].awaited
        /\ job[w].step \in {"setup", "addPort", "rollback", "undo"} \/ Plugged(s)
    BY <1>2, <1>7, <2>2 DEF Busy
  <2>4. \A t \in Siblings(s) : phase'[t] \in {"new", "gone"}
    BY <1>1, <1>2, <2>2, <2>3 DEF Advances, Ends, Siblings
  <2>5. \A v \in Workers \ {w} : ~(job'[v].step # "idle" /\ IdOf[job'[v].sandbox] = IdOf[s])
    <3>1. SUFFICES ASSUME NEW v \in Workers, v # w, job[v].step # "idle",
                          IdOf[job[v].sandbox] = IdOf[s]
                   PROVE  FALSE
      BY <1>3
    <3>2. job[v].sandbox = job[w].sandbox /\ job[v].awaited
      BY <2>2, <2>3, <3>1
    <3>3. QED
      BY <1>2, <2>3, <3>1, <3>2 DEF Requests, Busy
  <2>6. job[w].step \notin {"setup", "addPort", "rollback", "undo"} => Plugged(s)'
    BY <1>2, <2>3, HandlerBridge DEF Plugged, AddSteps
  <2>7. CASE Advances(w)
    <3>1. job'[w].step \in AddSteps /\ phase' = phase
      <4>1. PICK step \in AddSteps, found \in SUBSET Sandboxes :
               job' = [job EXCEPT ![w].step = step, ![w].found = found]
        BY <2>3, <2>7 DEF Advances
      <4>2. job'[w] = [job[w] EXCEPT !.step = step, !.found = found] /\ job[w] \in Jobs
        BY <1>1, <4>1
      <4>3. QED
        BY <2>7, <4>2 DEF Advances, Jobs
    <3>2. job'[w].step \in {"setup", "addPort", "rollback", "undo"} \/ Plugged(s)'
      BY <2>3, <2>6, <3>1, HandlerPlugs DEF AddSteps
    <3>3. QED
      BY <1>3, <2>3, <2>4, <2>5, <3>1, <3>2 DEF AddSteps
  <2>8. CASE Ends(w)
    <3>1. job'[w].step = "idle"
      BY <1>1, <2>8 DEF Ends, Idle
    <3>2. phase'[s] = "running" => job[w].step = "insertPort"
      BY <1>1, <2>3, <2>8 DEF Ends
    <3>3. phase'[s] = "running" => Plugged(s)'
      BY <2>6, <3>2
    <3>4. QED
      BY <2>4, <2>5, <3>1, <3>3
  <2>9. QED
    BY <1>2, <2>7, <2>8
<1>8. QED
  BY <1>6, <1>7

-----------------------------------------------------------------------------
(***************************************************************************)
(* Counting, for sets that differ by one element.                          *)
(***************************************************************************)
LEMMA NoMore ==
    ASSUME NEW S, NEW T, IsFiniteSet(S), T \subseteq S
    PROVE  /\ Cardinality(T) \in Nat /\ Cardinality(S) \in Nat
           /\ Cardinality(T) <= Cardinality(S)
BY FS_Subset, FS_CardinalityType

LEMMA AtMostOneMore ==
    ASSUME NEW S, NEW T, NEW x, IsFiniteSet(S), T \subseteq S \cup {x}
    PROVE  /\ Cardinality(T) \in Nat /\ Cardinality(S) \in Nat
           /\ Cardinality(T) <= Cardinality(S) + 1
<1>1. Cardinality(S) \in Nat
  BY FS_CardinalityType
<1>2. /\ IsFiniteSet(S \cup {x})
      /\ Cardinality(S \cup {x}) = IF x \in S THEN Cardinality(S) ELSE Cardinality(S) + 1
  BY FS_AddElement
<1>3. Cardinality(T) \in Nat /\ Cardinality(T) <= Cardinality(S \cup {x})
  BY <1>2, NoMore
<1>4. QED
  BY <1>1, <1>2, <1>3

LEMMA OneFewer ==
    ASSUME NEW S, NEW T, NEW x \in S, IsFiniteSet(S), T \subseteq S \ {x}
    PROVE  /\ Cardinality(T) \in Nat /\ Cardinality(S) \in Nat
           /\ Cardinality(T) + 1 <= Cardinality(S)
<1>1. Cardinality(S) \in Nat
  BY FS_CardinalityType
<1>2. IsFiniteSet(S \ {x}) /\ Cardinality(S \ {x}) = Cardinality(S) - 1
  BY FS_RemoveElement
<1>3. Cardinality(T) \in Nat /\ Cardinality(T) <= Cardinality(S \ {x})
  BY <1>2, NoMore
<1>4. QED
  BY <1>1, <1>2, <1>3

LEMMA PodsFinite ==
    ASSUME NEW id
    PROVE  /\ IsFiniteSet(PortsOf(id) \cap Sandboxes)
           /\ IsFiniteSet(Plugging(id)) /\ IsFiniteSet(Undeleted(id))
           /\ IsFiniteSet(Plugging(id)') /\ IsFiniteSet(Undeleted(id)')
BY FiniteAssumption, FS_Subset DEF PortsOf, Plugging, Undeleted

\* A step that adds no port, no ADD and deletes no sandbox.
LEMMA StillBounded ==
    ASSUME TypeOK, PortsBounded, NEW id \in Ids,
           PortsOf(id)' \subseteq PortsOf(id), Plugging(id)' \subseteq Plugging(id),
           Undeleted(id) \subseteq Undeleted(id)'
    PROVE  Cardinality(PortsOf(id)') + Cardinality(Plugging(id)') <= Cardinality(Undeleted(id)')
<1>1. PortsOf(id) \subseteq Sandboxes
  BY DEF TypeOK, OvsTypeOK, PortsOf
<1>2. IsFiniteSet(PortsOf(id))
  BY <1>1, FiniteAssumption, FS_Subset
<1>3. /\ Cardinality(PortsOf(id)') \in Nat /\ Cardinality(PortsOf(id)) \in Nat
      /\ Cardinality(PortsOf(id)') <= Cardinality(PortsOf(id))
  BY <1>2, NoMore
<1>4. /\ Cardinality(Plugging(id)') \in Nat /\ Cardinality(Plugging(id)) \in Nat
      /\ Cardinality(Plugging(id)') <= Cardinality(Plugging(id))
  BY PodsFinite, NoMore
<1>5. /\ Cardinality(Undeleted(id)') \in Nat /\ Cardinality(Undeleted(id)) \in Nat
      /\ Cardinality(Undeleted(id)) <= Cardinality(Undeleted(id)')
  BY PodsFinite, NoMore
<1>6. QED
  BY <1>3, <1>4, <1>5 DEF PortsBounded

\* No step brings an ADD nearer to its port but those that set it up.
LEMMA HandlerPlugging ==
    ASSUME TypeOK, NEW w \in Workers, Busy(w), Advances(w) \/ Ends(w)
    PROVE  job'[w].step \in {"setup", "addPort"} => job[w].step = "setup"
<1>1. /\ job \in [Workers -> Jobs] /\ job[w] \in Jobs
      /\ job[w].step \in AddSteps \cup DelSteps
  BY DEF TypeOK, Busy, Jobs, Steps
<1>2. CASE Advances(w)
  <2>1. PICK step \in Steps, found \in SUBSET Sandboxes :
           /\ job[w].step \in AddSteps => step \in AddSteps \ {"setup"}
           /\ job[w].step \in DelSteps => step \in DelSteps \ {"findPort"}
           /\ step = "addPort" => job[w].step = "setup"
           /\ job' = [job EXCEPT ![w].step = step, ![w].found = found]
    BY <1>2 DEF Advances
  <2>2. job'[w] = [job[w] EXCEPT !.step = step, !.found = found]
    BY <1>1, <2>1
  <2>3. job'[w].step = step
    BY <1>1, <2>2 DEF Jobs
  <2>4. QED
    BY <1>1, <2>1, <2>3 DEF DelSteps
<1>3. CASE Ends(w)
  <2>1. job'[w] = Idle
    BY <1>1, <1>3 DEF Ends
  <2>2. QED
    BY <2>1 DEF Idle
<1>4. QED
  BY <1>2, <1>3

\* A DEL that is answered without having deleted a port is recorded.
LEMMA HandlerRecords ==
    ASSUME TypeOK, Requests, NEW w \in Workers, Handler(w), NEW s \in Sandboxes,
           phase[s] # "gone", phase'[s] = "gone", PortsOf(IdOf[s])' = PortsOf(IdOf[s])
    PROVE  <<s, "delPort">> \in unheeded'
<1>1. /\ phase \in [Sandboxes -> Phases]
      /\ Busy(w) /\ (Advances(w) \/ Ends(w))
  BY HandlerEffect DEF TypeOK
<1>2. job[w].step = "delPort" /\ job[w].awaited /\ job[w].sandbox = s
  BY <1>1 DEF Advances, Ends
<1>3. bridge' = bridge
  BY <1>2, HandlerBridge DEF PortsOf
<1>4. DeleteHostPort(w)
  BY <1>2 DEF Handler, SetUp, AddHostPort, FindSwitch, InsertLogicalPort, RollBack, Undo,
     FindLogicalPort, DeleteLogicalPort, FindHostPort
<1>5. ~Reply(w, "stopping")
  BY <1>1, <1>2 DEF Reply
<1>6. CountAsDone(w, bridge' # bridge)
  BY <1>4, <1>5 DEF DeleteHostPort
<1>7. QED
  BY <1>2, <1>3, <1>6 DEF CountAsDone

LEMMA HandlerBounded ==
    ASSUME TypeOK, Requests, PortsBounded, NEW w \in Workers, Handler(w)
    PROVE  PortsBounded'
<1> PICK o \in Sandboxes : o = job[w].sandbox
  BY DEF TypeOK, Jobs
<1>1. /\ job \in [Workers -> Jobs]
      /\ phase \in [Sandboxes -> Phases] /\ bridge \subseteq Sandboxes
  BY DEF TypeOK, OvsTypeOK
<1>2. /\ Busy(w)
      /\ Advances(w) \/ Ends(w)
      /\ unheeded \subseteq unheeded'
  BY HandlerEffect, HandlerUnheeded
<1>3. /\ \A v \in Workers \ {w} : job'[v] = job[v]
      /\ job'[w].step # "idle" => job'[w].sandbox = o
  BY <1>2, OthersStay
<1>4. SUFFICES ASSUME NEW id \in Ids
               PROVE  Cardinality(PortsOf(id)') + Cardinality(Plugging(id)')
                        <= Cardinality(Undeleted(id)')
  BY DEF PortsBounded
<1>5. IsFiniteSet(PortsOf(id))
  BY <1>1, FiniteAssumption, FS_Subset DEF PortsOf
<1>6. Plugging(id)' \subseteq Plugging(id)
  <2>1. job'[w].step \in {"setup", "addPort"} => job[w].step = "setup"
    BY <1>2, HandlerPlugging
  <2>2. QED
    BY <1>3, <2>1 DEF Plugging
<1>7. CASE IdOf[o] # id
  <2>1. PortsOf(id)' \subseteq PortsOf(id)
    BY <1>7, HandlerBridge DEF PortsOf
  <2>2. Undeleted(id) \subseteq Undeleted(id)'
    BY <1>1, <1>2, <1>7 DEF Undeleted, Advances, Ends
  <2>3. QED
    BY <1>6, <2>1, <2>2, StillBounded
<1>8. CASE IdOf[o] = id /\ job[w].step = "addPort"
  <2>1. PortsOf(id)' \subseteq PortsOf(id) \cup {o}
    BY <1>8, HandlerBridge DEF PortsOf
  <2>2. w \in Plugging(id)
    BY <1>8 DEF Plugging
  <2>3. Plugging(id)' \subseteq Plugging(id) \ {w}
    <3>1. job'[w].step \notin {"setup", "addPort"}
      BY <1>2, <1>8, HandlerPlugging
    <3>2. QED
      BY <1>6, <3>1 DEF Plugging
  <2>4. /\ Cardinality(PortsOf(id)') \in Nat /\ Cardinality(PortsOf(id)) \in Nat
        /\ Cardinality(PortsOf(id)') <= Cardinality(PortsOf(id)) + 1
    BY <1>5, <2>1, AtMostOneMore
  <2>5. /\ Cardinality(Plugging(id)') \in Nat /\ Cardinality(Plugging(id)) \in Nat
        /\ Cardinality(Plugging(id)') + 1 <= Cardinality(Plugging(id))
    BY <2>2, <2>3, PodsFinite, OneFewer
  <2>6. Undeleted(id) \subseteq Undeleted(id)'
    BY <1>1, <1>2, <1>8 DEF Undeleted, Advances, Ends
  <2>7. /\ Cardinality(Undeleted(id)') \in Nat /\ Cardinality(Undeleted(id)) \in Nat
        /\ Cardinality(Undeleted(id)) <= Cardinality(Undeleted(id)')
    BY <2>6, PodsFinite, NoMore
  <2>8. QED
    BY <2>4, <2>5, <2>7 DEF PortsBounded
<1>9. CASE IdOf[o] = id /\ job[w].step # "addPort" /\ PortsOf(id)' # PortsOf(id)
  <2>1. PICK t \in PortsOf(id) : PortsOf(id)' \subseteq PortsOf(id) \ {t}
    BY <1>9, HandlerBridge DEF PortsOf
  <2>2. Undeleted(id) \subseteq Undeleted(id)' \cup {o}
    BY <1>1, <1>2 DEF Undeleted, Advances, Ends
  <2>3. /\ Cardinality(PortsOf(id)') \in Nat /\ Cardinality(PortsOf(id)) \in Nat
        /\ Cardinality(PortsOf(id)') + 1 <= Cardinality(PortsOf(id))
    BY <1>5, <2>1, OneFewer
  <2>4. /\ Cardinality(Plugging(id)') \in Nat /\ Cardinality(Plugging(id)) \in Nat
        /\ Cardinality(Plugging(id)') <= Cardinality(Plugging(id))
    BY <1>6, PodsFinite, NoMore
  <2>5. /\ Cardinality(Undeleted(id)') \in Nat /\ Cardinality(Undeleted(id)) \in Nat
        /\ Cardinality(Undeleted(id)) <= Cardinality(Undeleted(id)') + 1
    BY <2>2, PodsFinite, AtMostOneMore
  <2>6. QED
    BY <2>3, <2>4, <2>5 DEF PortsBounded
<1>10. CASE IdOf[o] = id /\ PortsOf(id)' = PortsOf(id)
  <2>1. Undeleted(id) \subseteq Undeleted(id)'
    BY <1>1, <1>2, <1>10, HandlerRecords DEF Undeleted, Advances, Ends
  <2>2. QED
    BY <1>6, <1>10, <2>1, StillBounded
<1>11. QED
  BY <1>7, <1>8, <1>9, <1>10

-----------------------------------------------------------------------------
(***************************************************************************)
(* The steps of the runtime.                                               *)
(***************************************************************************)
LEMMA InitInvariant == Init => IInv
<1> SUFFICES ASSUME Init PROVE IInv
  OBVIOUS
<1> USE DEF Init, OvsInit, OvnInit
<1>1. Idle \in Jobs
  BY DEF Idle, AnySandbox, Steps, Jobs
<1>2. TypeOK
  BY <1>1 DEF TypeOK, OvsTypeOK, OvnTypeOK, Phases
<1>3. Requests /\ Accounted /\ Undisturbed
  BY DEF Requests, Accounted, Undisturbed, Idle, Busy, AddSteps, DelSteps
<1>4. PortsBounded
  <2>1. ASSUME NEW id \in Ids
        PROVE  PortsOf(id) = {} /\ Plugging(id) = {} /\ Undeleted(id) = {}
    BY DEF PortsOf, Plugging, Undeleted, Idle
  <2>2. QED
    BY <2>1, FS_EmptySet DEF PortsBounded
<1>5. QED
  BY <1>2, <1>3, <1>4 DEF IInv

\* A new ADD: its sandbox had no request, and now makes room for one port.
LEMMA RequestAddInvariant ==
    ASSUME IInv, NEW w \in Workers, NEW s \in Sandboxes, RequestAdd(w, s)
    PROVE  IInv'
<1>1. /\ job \in [Workers -> Jobs]
      /\ phase \in [Sandboxes -> Phases] /\ alone \subseteq Sandboxes /\ overrun \subseteq Sandboxes
      /\ bridge \subseteq Sandboxes
  BY DEF IInv, TypeOK, OvsTypeOK
<1>2. /\ phase[s] = "new" /\ ~Busy(w)
      /\ \A t \in Siblings(s) : phase[t] \notin {"adding", "running"}
      /\ job' = [job EXCEPT ![w] = [step |-> "setup", sandbox |-> s, awaited |-> TRUE, found |-> {}]]
      /\ phase' = [phase EXCEPT ![s] = "adding"]
      /\ alone' \in {alone, alone \cup {s}}
      /\ UNCHANGED <<overrun, unheeded, bridge, ovnVars>>
  BY DEF RequestAdd, Call
<1>3. \A v \in Workers : job[v].sandbox = s => job[v].step \notin AddSteps \cup DelSteps
  BY <1>1, <1>2 DEF IInv, Requests
<1>4. \A v \in Workers : Busy(v) => job[v].sandbox # s
  BY <1>1, <1>3 DEF Busy, Steps, Jobs
<1>5. TypeOK'
  BY <1>1, <1>2 DEF IInv, TypeOK, OvsTypeOK, OvnTypeOK, ovnVars, Jobs, Steps, AddSteps, Phases
<1>6. Requests'
  BY <1>1, <1>2, <1>4 DEF IInv, Requests, Busy, AddSteps, DelSteps
<1>7. Accounted'
  <2>1. ASSUME NEW t \in Sandboxes, AccountsFor(t)
        PROVE  AccountsFor(t)'
    BY <1>1, <1>2, <2>1 DEF AccountsFor, NotPassed, Jobs, ovnVars
  <2>2. QED
    BY <1>2, <2>1 DEF IInv, Accounted, ovnVars
<1>8. Undisturbed'
  <2>1. /\ job'[w].sandbox = s /\ job'[w].step = "setup" /\ job'[w].awaited
        /\ \A v \in Workers \ {w} : job'[v] = job[v]
    BY <1>1, <1>2
  <2>0. bridge' = bridge /\ unheeded' = unheeded
    BY <1>2
  <2>2. SUFFICES ASSUME NEW t \in alone', phase'[t] \in {"adding", "running"}
                 PROVE  /\ \A u \in Siblings(t) : phase'[u] \in {"new", "gone"}
                        /\ \A v \in Workers :
                              job'[v].step # "idle" /\ IdOf[job'[v].sandbox] = IdOf[t] =>
                                  /\ job'[v].sandbox = t /\ phase'[t] = "adding"
                                  /\ job'[v].step \in AddSteps /\ job'[v].awaited
                                  /\ \/ job'[v].step \in {"setup", "addPort", "rollback", "undo"}
                                     \/ Plugged(t)'
                        /\ phase'[t] = "running" => Plugged(t)'
    BY Zenon DEF Undisturbed, Busy, Siblings
  <2>3. t \in Sandboxes
    BY <1>1, <1>2
  <2>4. CASE t = s
    <3>1. s \notin alone
      BY <1>2 DEF IInv, Requests
    <3>2. /\ \A u \in Siblings(s) : phase[u] \in {"new", "gone"}
          /\ \A v \in Workers : Busy(v) => IdOf[job[v].sandbox] # IdOf[s]
      BY <2>4, <3>1 DEF RequestAdd
    <3>3. QED
      BY <1>1, <1>2, <2>0, <2>1, <2>4, <3>2 DEF Busy, Siblings, AddSteps
  <2>5. CASE t # s
    <3>1. t \in alone /\ phase[t] \in {"adding", "running"}
      BY <1>1, <1>2, <2>2, <2>3, <2>5
    <3>2. IdOf[t] # IdOf[s]
      BY <1>2, <2>3, <2>5, <3>1 DEF Siblings
    <3>3. \A u \in Sandboxes : IdOf[u] = IdOf[t] => phase'[u] = phase[u]
      BY <1>1, <1>2, <3>2
    <3>4. \A v \in Workers : job'[v].step # "idle" /\ IdOf[job'[v].sandbox] = IdOf[t] => job'[v] = job[v]
      BY <2>1, <3>2
    <3>5. QED
      BY <2>0, <2>3, <3>1, <3>3, <3>4 DEF IInv, Undisturbed, Plugged, Busy, Siblings
  <2>6. QED
    BY <2>4, <2>5
<1>9. PortsBounded'
  <2>1. SUFFICES ASSUME NEW id \in Ids
                 PROVE  Cardinality(PortsOf(id)') + Cardinality(Plugging(id)')
                          <= Cardinality(Undeleted(id)')
    BY DEF PortsBounded
  <2>2. PortsOf(id)' = PortsOf(id) /\ IsFiniteSet(PortsOf(id))
    BY <1>1, <1>2, FiniteAssumption, FS_Subset DEF PortsOf
  <2>3. CASE IdOf[s] # id
    <3>1. Plugging(id)' \subseteq Plugging(id) /\ Undeleted(id) \subseteq Undeleted(id)'
      BY <1>1, <1>2, <2>3 DEF Plugging, Undeleted
    <3>2. QED
      BY <2>2, <3>1, StillBounded DEF IInv
  <2>4. CASE IdOf[s] = id
    <3>1. Plugging(id)' \subseteq Plugging(id) \cup {w}
      BY <1>1, <1>2 DEF Plugging
    <3>2. s \in Undeleted(id)' /\ Undeleted(id) \subseteq Undeleted(id)' \ {s}
      BY <1>1, <1>2, <2>4 DEF IInv, Requests, Undeleted
    <3>3. /\ Cardinality(Plugging(id)') \in Nat /\ Cardinality(Plugging(id)) \in Nat
          /\ Cardinality(Plugging(id)') <= Cardinality(Plugging(id)) + 1
      BY <3>1, PodsFinite, AtMostOneMore
    <3>4. /\ Cardinality(Undeleted(id)') \in Nat /\ Cardinality(Undeleted(id)) \in Nat
          /\ Cardinality(Undeleted(id)) + 1 <= Cardinality(Undeleted(id)')
      BY <3>2, PodsFinite, OneFewer
    <3>5. Cardinality(PortsOf(id)) \in Nat
      BY <2>2, FS_CardinalityType
    <3>6. QED
      BY <2>2, <3>3, <3>4, <3>5 DEF IInv, PortsBounded
  <2>5. QED
    BY <2>3, <2>4
<1>10. QED
  BY <1>5, <1>6, <1>7, <1>8, <1>9 DEF IInv

\* A DEL: its sandbox is no longer being added by a request it waits for.
LEMMA RequestDelInvariant ==
    ASSUME IInv, NEW w \in Workers, NEW s \in Sandboxes, RequestDel(w, s)
    PROVE  IInv'
<1>1. /\ job \in [Workers -> Jobs]
      /\ phase \in [Sandboxes -> Phases] /\ alone \subseteq Sandboxes /\ bridge \subseteq Sandboxes
  BY DEF IInv, TypeOK, OvsTypeOK
<1>2. /\ phase[s] \in {"running", "failed", "stopping"} /\ ~Busy(w)
      /\ \A v \in Workers : Busy(v) /\ job[v].sandbox = s => ~job[v].awaited
      /\ job' = [job EXCEPT ![w] = [step |-> "findPort", sandbox |-> s, awaited |-> TRUE, found |-> {}]]
      /\ phase' = [phase EXCEPT ![s] = "stopping"]
      /\ UNCHANGED <<overrun, alone, unheeded, bridge, ovnVars>>
  BY DEF RequestDel, Call
<1>3. TypeOK'
  BY <1>1, <1>2 DEF IInv, TypeOK, OvsTypeOK, OvnTypeOK, ovnVars, Jobs, Steps, DelSteps, Phases
<1>4. Requests'
  BY <1>1, <1>2 DEF IInv, Requests, Busy, AddSteps, DelSteps
<1>5. Accounted'
  <2>1. ASSUME NEW t \in Sandboxes, AccountsFor(t)
        PROVE  AccountsFor(t)'
    BY <1>1, <1>2, <2>1 DEF AccountsFor, NotPassed, Jobs, ovnVars
  <2>2. QED
    BY <1>2, <2>1 DEF IInv, Accounted, ovnVars
<1>6. Undisturbed'
  <2>1. /\ job'[w].sandbox = s
        /\ \A v \in Workers \ {w} : job'[v] = job[v]
    BY <1>1, <1>2
  <2>0. bridge' = bridge /\ unheeded' = unheeded /\ alone' = alone
    BY <1>2
  <2>2. SUFFICES ASSUME NEW t \in alone, phase'[t] \in {"adding", "running"}
                 PROVE  /\ \A u \in Siblings(t) : phase'[u] \in {"new", "gone"}
                        /\ \A v \in Workers :
                              job'[v].step # "idle" /\ IdOf[job'[v].sandbox] = IdOf[t] =>
                                  /\ job'[v].sandbox = t /\ phase'[t] = "adding"
                                  /\ job'[v].step \in AddSteps /\ job'[v].awaited
                                  /\ \/ job'[v].step \in {"setup", "addPort", "rollback", "undo"}
                                     \/ Plugged(t)
                        /\ phase'[t] = "running" => Plugged(t)
    BY <2>0, Zenon DEF Undisturbed, Busy, Siblings, Plugged
  <2>3. t \in Sandboxes /\ phase[t] \in {"adding", "running"} /\ t # s
    BY <1>1, <1>2, <2>2
  <2>4. IdOf[t] # IdOf[s]
    BY <1>2, <2>3 DEF IInv, Undisturbed, Siblings
  <2>5. \A u \in Sandboxes : IdOf[u] = IdOf[t] => phase'[u] = phase[u]
    BY <1>1, <1>2, <2>4
  <2>6. \A v \in Workers : job'[v].step # "idle" /\ IdOf[job'[v].sandbox] = IdOf[t] => job'[v] = job[v]
    BY <2>1, <2>4
  <2>7. QED
    BY <2>3, <2>5, <2>6 DEF IInv, Undisturbed, Busy, Siblings
<1>7. PortsBounded'
  <2>1. ASSUME NEW id \in Ids
        PROVE  /\ PortsOf(id)' \subseteq PortsOf(id) /\ Plugging(id)' \subseteq Plugging(id)
               /\ Undeleted(id) \subseteq Undeleted(id)'
    BY <1>1, <1>2 DEF PortsOf, Plugging, Undeleted
  <2>2. QED
    BY <2>1, StillBounded DEF IInv, PortsBounded
<1>8. QED
  BY <1>3, <1>4, <1>5, <1>6, <1>7 DEF IInv

\* The runtime gives up on a request: only the sandbox of an ADD is affected.
LEMMA TimeOutInvariant ==
    ASSUME IInv, NEW w \in Workers, TimeOut(w)
    PROVE  IInv'
<1> PICK s \in Sandboxes : s = job[w].sandbox
  BY DEF IInv, TypeOK, Jobs
<1>1. /\ job \in [Workers -> Jobs]
      /\ phase \in [Sandboxes -> Phases] /\ alone \subseteq Sandboxes /\ bridge \subseteq Sandboxes
  BY DEF IInv, TypeOK, OvsTypeOK
<1>2. /\ Busy(w) /\ job[w].awaited
      /\ job' = [job EXCEPT ![w].awaited = FALSE]
      /\ \/ /\ phase[s] = "adding" /\ phase' = [phase EXCEPT ![s] = "failed"]
            /\ overrun' = overrun \cup {s}
         \/ phase[s] # "adding" /\ UNCHANGED <<phase, overrun>>
      /\ UNCHANGED <<alone, unheeded, bridge, ovnVars>>
  BY DEF TimeOut
<1>3. TypeOK'
  <2>1. [job[w] EXCEPT !.awaited = FALSE] \in Jobs
    BY <1>1 DEF Jobs
  <2>2. job' \in [Workers -> Jobs]
    BY <1>1, <1>2, <2>1
  <2>3. QED
    BY <1>1, <1>2, <2>2 DEF IInv, TypeOK, OvsTypeOK, OvnTypeOK, ovnVars, Phases
<1>4. Requests'
  <2>1. /\ job'[w].step = job[w].step /\ job'[w].sandbox = s /\ ~job'[w].awaited
        /\ job'[w].found = job[w].found
        /\ \A v \in Workers \ {w} : job'[v] = job[v]
    BY <1>1, <1>2 DEF Jobs
  <2>2. job[w].step \in AddSteps \cup DelSteps
    BY <1>1, <1>2 DEF Busy, Steps, Jobs
  <2>3. job[w].step \in AddSteps => s \in overrun'
    BY <1>2 DEF IInv, Requests
  <2>4. job[w].step \in DelSteps => phase[s] \in {"stopping", "gone"} /\ phase' = phase
    BY <1>2 DEF IInv, Requests
  <2>5. ASSUME NEW v \in Workers, v # w
        PROVE  /\ job'[v].step \in AddSteps =>
                     IF job'[v].awaited THEN phase'[job'[v].sandbox] = "adding"
                                        ELSE job'[v].sandbox \in overrun'
               /\ job'[v].step \in DelSteps => phase'[job'[v].sandbox] \in {"stopping", "gone"}
    <3>1. /\ job[v].step \in AddSteps =>
                IF job[v].awaited THEN phase[job[v].sandbox] = "adding"
                                  ELSE job[v].sandbox \in overrun
          /\ job[v].step \in DelSteps => phase[job[v].sandbox] \in {"stopping", "gone"}
          /\ Busy(v) /\ job[v].awaited => job[v].sandbox # s
      BY <1>2, <2>5 DEF IInv, Requests
    <3>2. job[v].step \in AddSteps => Busy(v)
      BY DEF Busy, AddSteps
    <3>3. job[v].sandbox \in Sandboxes /\ job'[v] = job[v]
      BY <1>1, <2>1, <2>5 DEF Jobs
    <3>4. QED
      BY <1>1, <1>2, <3>1, <3>2, <3>3
  <2>6. \A v \in Workers :
               /\ job'[v].step \in AddSteps =>
                     IF job'[v].awaited THEN phase'[job'[v].sandbox] = "adding"
                                        ELSE job'[v].sandbox \in overrun'
               /\ job'[v].step \in DelSteps => phase'[job'[v].sandbox] \in {"stopping", "gone"}
    BY <2>1, <2>3, <2>4, <2>5
  <2>7. \A v, u \in Workers :
          job'[v].step # "idle" /\ job'[u].step # "idle" /\ job'[v].awaited /\ job'[u].awaited
            /\ job'[v].sandbox = job'[u].sandbox => v = u
    BY <2>1 DEF IInv, Requests, Busy
  <2>8. /\ \A t \in overrun' : phase'[t] \notin {"new", "adding"}
        /\ \A t \in alone' : phase'[t] # "new"
    BY <1>1, <1>2 DEF IInv, TypeOK, Requests
  <2>9. QED
    BY <1>1, <1>2, <2>1, <2>6, <2>7, <2>8 DEF IInv, Requests, Busy
<1>5. Accounted'
  <2>1. ASSUME NEW t \in Sandboxes, AccountsFor(t)
        PROVE  AccountsFor(t)'
    BY <1>1, <1>2, <2>1 DEF AccountsFor, NotPassed, Jobs, ovnVars
  <2>2. QED
    BY <1>2, <2>1 DEF IInv, Accounted, ovnVars
<1>6. Undisturbed'
  <2>1. /\ job'[w].sandbox = s /\ job'[w].step = job[w].step
        /\ \A v \in Workers \ {w} : job'[v] = job[v]
    BY <1>1, <1>2 DEF Jobs
  <2>0. bridge' = bridge /\ unheeded' = unheeded /\ alone' = alone
    BY <1>2
  <2>2. SUFFICES ASSUME NEW t \in alone, phase'[t] \in {"adding", "running"}
                 PROVE  /\ \A u \in Siblings(t) : phase'[u] \in {"new", "gone"}
                        /\ \A v \in Workers :
                              job'[v].step # "idle" /\ IdOf[job'[v].sandbox] = IdOf[t] =>
                                  /\ job'[v].sandbox = t /\ phase'[t] = "adding"
                                  /\ job'[v].step \in AddSteps /\ job'[v].awaited
                                  /\ \/ job'[v].step \in {"setup", "addPort", "rollback", "undo"}
                                     \/ Plugged(t)
                        /\ phase'[t] = "running" => Plugged(t)
    BY <2>0, Zenon DEF Undisturbed, Busy, Siblings, Plugged
  <2>3. t \in Sandboxes /\ phase[t] \in {"adding", "running"} /\ phase'[t] = phase[t]
    BY <1>1, <1>2, <2>2
  <2>4. IdOf[t] # IdOf[s]
    BY <1>1, <1>2, <2>2, <2>3 DEF IInv, Undisturbed
  <2>5. \A u \in Sandboxes : IdOf[u] = IdOf[t] => phase'[u] = phase[u]
    BY <1>1, <1>2, <2>4
  <2>6. \A v \in Workers : job'[v].step # "idle" /\ IdOf[job'[v].sandbox] = IdOf[t] => job'[v] = job[v]
    BY <2>1, <2>4
  <2>7. QED
    BY <2>3, <2>5, <2>6 DEF IInv, Undisturbed, Busy, Siblings
<1>7. PortsBounded'
  <2>1. ASSUME NEW id \in Ids
        PROVE  /\ PortsOf(id)' \subseteq PortsOf(id) /\ Plugging(id)' \subseteq Plugging(id)
               /\ Undeleted(id) \subseteq Undeleted(id)'
    BY <1>1, <1>2 DEF PortsOf, Plugging, Undeleted
  <2>2. QED
    BY <2>1, StillBounded DEF IInv, PortsBounded
<1>8. QED
  BY <1>3, <1>4, <1>5, <1>6, <1>7 DEF IInv

\* A crash ends every request.
LEMMA CrashInvariant == IInv /\ CrashDaemon => IInv'
<1> SUFFICES ASSUME IInv, CrashDaemon PROVE IInv'
  OBVIOUS
<1>1. /\ job' = [v \in Workers |-> Idle]
      /\ phase' = [s \in Sandboxes |-> IF phase[s] = "adding" THEN "failed" ELSE phase[s]]
      /\ UNCHANGED <<overrun, alone, unheeded, bridge, ovnVars>>
  BY DEF CrashDaemon
<1>2. /\ phase \in [Sandboxes -> Phases] /\ alone \subseteq Sandboxes /\ overrun \subseteq Sandboxes
      /\ bridge \subseteq Sandboxes
  BY DEF IInv, TypeOK, OvsTypeOK
<1>3. TypeOK'
  BY <1>1, <1>2, IdleType DEF IInv, TypeOK, OvsTypeOK, OvnTypeOK, ovnVars, Phases
<1>4. Requests'
  BY <1>1, <1>2 DEF IInv, Requests, Busy, Idle, AddSteps, DelSteps
<1>5. Accounted'
  <2>1. ASSUME NEW t \in Sandboxes, AccountsFor(t)
        PROVE  AccountsFor(t)'
    BY <1>1, <2>1 DEF AccountsFor, NotPassed, Jobs, ovnVars, Idle
  <2>2. QED
    BY <1>1, <2>1 DEF IInv, Accounted, ovnVars
<1>6. Undisturbed'
  BY <1>1, <1>2 DEF IInv, Undisturbed, Plugged, Busy, Siblings, Idle
<1>7. PortsBounded'
  <2>1. ASSUME NEW id \in Ids
        PROVE  /\ PortsOf(id)' \subseteq PortsOf(id) /\ Plugging(id)' \subseteq Plugging(id)
               /\ Undeleted(id) \subseteq Undeleted(id)'
    BY <1>1 DEF PortsOf, Plugging, Undeleted, Idle
  <2>2. QED
    BY <2>1, StillBounded DEF IInv, PortsBounded
<1>8. QED
  BY <1>3, <1>4, <1>5, <1>6, <1>7 DEF IInv

\* The others' writes to the northbound database only take logical ports away.
LEMMA OvnInvariant == IInv /\ OvnNext /\ UNCHANGED <<bridge, cniVars>> => IInv'
<1> SUFFICES ASSUME IInv, OvnNext, UNCHANGED <<bridge, cniVars>> PROVE IInv'
  OBVIOUS
<1>1. OvnTypeOK' /\ \A s \in Sandboxes : lsp'[s] \in {lsp[s], NoSwitch}
  BY DEF IInv, TypeOK, OvnTypeOK, OvnNext, AddSwitch, RemoveSwitch, OnAddLogicalSwitch,
     CreateLogicalSwitch
<1>2. TypeOK'
  BY <1>1 DEF IInv, TypeOK, OvsTypeOK, cniVars, runtimeVars
<1>3. Requests' /\ Undisturbed'
  BY DEF IInv, Requests, Undisturbed, Plugged, Busy, Siblings, cniVars, runtimeVars
<1>4. Accounted'
  BY <1>1 DEF IInv, Accounted, AccountsFor, NotPassed, cniVars, runtimeVars
<1>5. PortsBounded'
  BY DEF IInv, PortsBounded, PortsOf, Plugging, Undeleted, cniVars, runtimeVars
<1>6. QED
  BY <1>2, <1>3, <1>4, <1>5 DEF IInv

LEMMA StutterInvariant == IInv /\ UNCHANGED vars => IInv'
BY DEF IInv, TypeOK, OvsTypeOK, OvnTypeOK, Requests, Accounted, AccountsFor, NotPassed, Undisturbed,
   Plugged, PortsBounded, PortsOf, Plugging, Undeleted, Busy, Siblings, vars, ovnVars, cniVars,
   runtimeVars

-----------------------------------------------------------------------------
(***************************************************************************)
(* The invariant holds, and with it what it was made for.                  *)
(***************************************************************************)

\* IInv holds initially and after every step of the runtime, the daemon and
\* the others that write the northbound database.
THEOREM Invariance == Spec => []IInv
<1>1. Init => IInv
  BY InitInvariant
<1>2. IInv /\ [Next]_vars => IInv'
  <2> SUFFICES ASSUME IInv, [Next]_vars PROVE IInv'
    OBVIOUS
  <2>1. ASSUME NEW w \in Workers, Handler(w) PROVE IInv'
    BY <2>1, HandlerType, HandlerRequests, HandlerAccounted, HandlerUndisturbed, HandlerBounded
       DEF IInv
  <2>2. QED
    BY <2>1, RequestAddInvariant, RequestDelInvariant, TimeOutInvariant, CrashInvariant,
       OvnInvariant, StutterInvariant DEF Next
<1>3. QED
  BY <1>1, <1>2, PTL DEF Spec

\* The types of the daemon's and the runtime's state.
THEOREM TypeCorrect == Spec => []TypeOK
BY Invariance, PTL DEF IInv

\* AddPort and DelPort by iface-id, with give-ups, retries and crashes, never
\* leave a pod more ports than it has sandboxes that are not deleted or whose
\* DEL was answered without having deleted a port: one it looked up was gone
\* by the time of its transaction, or the transaction was refused.
THEOREM PortsStayBounded == Spec => []PortsBounded
BY Invariance, PTL DEF IInv

\* CreateLogicalPort and DeleteLogicalPort leave a logical port only where a
\* sandbox is still to be deleted, where an ADD outlived the runtime's patience
\* or where the transaction of a DEL was refused and the DEL went on.
THEOREM LogicalPortsStayOwned == Spec => []LogicalPortsOwned
<1>1. IInv => LogicalPortsOwned
  BY DEF IInv, Accounted, AccountsFor, LogicalPortsOwned
<1>2. QED
  BY <1>1, Invariance, PTL

\* What handleAdd and handleDel look up, delete and fail at for other pods never
\* takes the port of a running sandbox that met no leftover of its pod; it only
\* runs without one if the database refused it and AddPort did not notice.
THEOREM RunningStaysPlugged == Spec => []StaysPlugged
<1>1. IInv => StaysPlugged
  BY DEF IInv, Undisturbed, Plugged, StaysPlugged
<1>2. QED
  BY <1>1, Invariance, PTL
=============================================================================
