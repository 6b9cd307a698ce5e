------------------------ MODULE WorkerRegistry_proofs ------------------------
(***************************************************************************)
(* For any number of machines and registrations: if the server stops       *)
(* working on a registration its worker has given up, no machine is ever   *)
(* locked out and every running worker is authenticated; and whether or    *)
(* not it does, two hostname assignments never hand out the same number.   *)
(***************************************************************************)
EXTENDS WorkerRegistry, WellFoundedInduction, TLAPS

\* The initial state: nothing is registered and nothing is on disk.
LEMMA InitRegistry == Init => RegistryInv
BY RegistryAssumption
   DEF Init, RegistryInv, TokensTyped, Tokens, Stages, Live, NotLockedOut, RunningIsAuthenticated

\* The steps that leave tokens, processes and registrations alone
\* (AssignHostname), and setup-host.sh writing the enrollment token.
LEMMA SetupSteps ==
  ASSUME RegistryInv, NEW m \in Machines,
         \/ UNCHANGED vars
         \/ WriteConfig(m)
         \/ AssignHostnameKnown(m) \/ AssignHostnameRead(m)
         \/ AssignHostnameWrite(m) \/ AssignHostnameFails(m)
  PROVE  RegistryInv'
<1>1. CASE WriteConfig(m)
  BY <1>1, RegistryAssumption
     DEF WriteConfig, RegistryInv, TokensTyped, Tokens, NotLockedOut, RunningIsAuthenticated,
         tablevars, reqvars
<1>2. CASE UNCHANGED <<hash, disk, proc, mem, cur, stage, owner, shows>>
  BY <1>2, Zenon DEF RegistryInv, TokensTyped, NotLockedOut, RunningIsAuthenticated
<1> QED
  BY <1>1, <1>2, Zenon
     DEF vars, tablevars, macvars, reqvars, AssignHostnameKnown, AssignHostnameRead,
         AssignHostnameWrite, AssignHostnameFails

\* A process starts with the token on its disk: a new registration, which
\* nobody else waits for.
LEMMA StartStep ==
  ASSUME RegistryInv, NEW m \in Machines, Start(m)
  PROVE  RegistryInv'
<1>1. PICK r \in Requests :
        /\ stage[r] = "unused"
        /\ stage' = [stage EXCEPT ![r] = "sent"]
        /\ owner' = [owner EXCEPT ![r] = m]
        /\ shows' = [shows EXCEPT ![r] = disk[m]]
        /\ cur' = [cur EXCEPT ![m] = r]
  BY Zenon DEF Start
<1>2. /\ proc[m] = "down"
      /\ proc' = [proc EXCEPT ![m] = "registering"]
      /\ mem' = [mem EXCEPT ![m] = disk[m]]
      /\ hash' = hash /\ disk' = disk
  BY Zenon DEF Start, tablevars
<1>3. TokensTyped'
  BY <1>1, <1>2, Zenon DEF RegistryInv, TokensTyped, Tokens, Stages
<1>4. cur[m] = None
  BY <1>2, Zenon DEF RegistryInv
<1>5. \A q \in Requests : (stage[q] \in Live)' => owner'[q] \in Machines /\ cur'[owner'[q]] = q
  BY <1>1, <1>4, RegistryAssumption DEF RegistryInv, TokensTyped, Live
<1>6. \A q \in Requests : stage'[q] \in {"accepted", "upserted"} => shows'[q] = Enroll
  BY <1>1 DEF RegistryInv, TokensTyped
<1>7. \A n \in Machines : cur'[n] # None =>
        /\ proc'[n] = "registering"
        /\ owner'[cur'[n]] = n
        /\ stage'[cur'[n]] # "unused"
        /\ mem'[n] = shows'[cur'[n]]
        /\ shows'[cur'[n]] = Enroll => disk'[n] = Enroll
        /\ stage'[cur'[n]] = "issued" => hash'[n] = cur'[n]
        /\ stage'[cur'[n]] \in {"known", "ok"} => hash'[n] = shows'[cur'[n]]
  BY <1>1, <1>2 DEF RegistryInv, TokensTyped
<1>8. NotLockedOut' /\ RunningIsAuthenticated'
  BY <1>2 DEF RegistryInv, TokensTyped, NotLockedOut, RunningIsAuthenticated
<1> QED  BY <1>3, <1>5, <1>6, <1>7, <1>8, Zenon DEF RegistryInv

\* The answer arrives: the token the process goes on with, and the one it may
\* save, is the table's.
LEMMA RegisteredStep ==
  ASSUME RegistryInv, NEW m \in Machines, Registered(m)
  PROVE  RegistryInv'
<1>1. /\ cur[m] \in Requests
      /\ stage[cur[m]] \in {"ok", "issued"}
      /\ proc' = [proc EXCEPT ![m] = "running"]
      /\ cur' = [cur EXCEPT ![m] = None]
      /\ hash' = hash
      /\ UNCHANGED <<stage, owner, shows>>
  BY DEF Registered, register, RegistryInv, TokensTyped, tablevars, reqvars
<1>2. /\ \/ mem' = mem /\ stage[cur[m]] = "ok"
         \/ mem' = [mem EXCEPT ![m] = cur[m]] /\ stage[cur[m]] = "issued"
      /\ \/ disk' = disk
         \/ disk' = [disk EXCEPT ![m] = cur[m]] /\ stage[cur[m]] = "issued"
  BY <1>1, Zenon DEF Registered, register
<1>3. TokensTyped'
  BY <1>1, <1>2 DEF RegistryInv, TokensTyped, Tokens
<1>4. \A q \in Requests : (stage[q] \in Live)' => owner'[q] \in Machines /\ cur'[owner'[q]] = q
  BY <1>1 DEF RegistryInv, TokensTyped, Live
<1>5. \A n \in Machines : cur'[n] # None => n # m /\ cur'[n] = cur[n] /\ disk'[n] = disk[n] /\ mem'[n] = mem[n]
  BY <1>1, <1>2 DEF RegistryInv, TokensTyped
<1>6. \A n \in Machines : cur'[n] # None =>
        /\ proc'[n] = "registering"
        /\ owner'[cur'[n]] = n
        /\ stage'[cur'[n]] # "unused"
        /\ mem'[n] = shows'[cur'[n]]
        /\ shows'[cur'[n]] = Enroll => disk'[n] = Enroll
        /\ stage'[cur'[n]] = "issued" => hash'[n] = cur'[n]
        /\ stage'[cur'[n]] \in {"known", "ok"} => hash'[n] = shows'[cur'[n]]
  BY <1>1, <1>5 DEF RegistryInv, TokensTyped
<1>7. NotLockedOut'
  BY <1>1, <1>2, RegistryAssumption DEF RegistryInv, TokensTyped, NotLockedOut
<1>8. RunningIsAuthenticated'
  BY <1>1, <1>2, RegistryAssumption DEF RegistryInv, TokensTyped, RunningIsAuthenticated
<1> QED  BY <1>1, <1>3, <1>4, <1>6, <1>7, <1>8 DEF RegistryInv

\* A process ends.  The server gives up the registration it waited for, so no
\* late statement changes the token of the machine.
LEMMA StopStep ==
  ASSUME Notices, RegistryInv, NEW m \in Machines, Stop(m)
  PROVE  RegistryInv'
<1>1. /\ proc' = [proc EXCEPT ![m] = "down"]
      /\ mem' = [mem EXCEPT ![m] = None]
      /\ cur' = [cur EXCEPT ![m] = None]
      /\ hash' = hash /\ disk' = disk
      /\ UNCHANGED <<owner, shows>>
      /\ stage' = IF cur[m] # None THEN [stage EXCEPT ![cur[m]] = "gone"] ELSE stage
  BY Zenon DEF Stop, tablevars
<1>2. TokensTyped'
  BY <1>1, Zenon DEF RegistryInv, TokensTyped, Tokens, Stages
<1>3. \A q \in Requests : stage'[q] # stage[q] => stage'[q] = "gone" /\ q = cur[m]
  BY <1>1, Zenon DEF RegistryInv, TokensTyped
<1>4. \A q \in Requests : (stage[q] \in Live)' => owner'[q] \in Machines /\ cur'[owner'[q]] = q
  <2> SUFFICES ASSUME NEW q \in Requests, stage'[q] \in Live
               PROVE  owner'[q] \in Machines /\ cur'[owner'[q]] = q
    BY Zenon DEF Live
  <2>1. stage[q] \in Live
    BY <1>3, Zenon DEF Live
  <2>2. owner[q] \in Machines /\ cur[owner[q]] = q
    BY <2>1, Zenon DEF RegistryInv
  <2>3. owner[q] # m
    <3> SUFFICES ASSUME owner[q] = m PROVE FALSE
      BY Zenon
    <3>1. cur[m] = q /\ q # None
      BY <2>2, RegistryAssumption, Zenon
    <3>2. stage'[q] = "gone"
      BY <1>1, <3>1 DEF RegistryInv, TokensTyped
    <3> QED  BY <3>2, Zenon DEF Live
  <2> QED  BY <1>1, <2>2, <2>3, Zenon DEF RegistryInv, TokensTyped
<1>5. \A q \in Requests : stage'[q] \in {"accepted", "upserted"} => shows'[q] = Enroll
  BY <1>1, <1>3, Zenon DEF RegistryInv
<1>6. \A n \in Machines : cur'[n] # None =>
        n # m /\ cur'[n] = cur[n] /\ mem'[n] = mem[n] /\ proc'[n] = proc[n] /\ stage'[cur[n]] = stage[cur[n]]
  <2> SUFFICES ASSUME NEW n \in Machines, cur'[n] # None
               PROVE  n # m /\ cur'[n] = cur[n] /\ mem'[n] = mem[n] /\ proc'[n] = proc[n]
                        /\ stage'[cur[n]] = stage[cur[n]]
    BY Zenon
  <2>1. n # m /\ cur'[n] = cur[n] /\ mem'[n] = mem[n] /\ proc'[n] = proc[n] /\ cur[n] \in Requests
    BY <1>1 DEF RegistryInv, TokensTyped
  <2>2. cur[n] # cur[m]
    BY <2>1 DEF RegistryInv
  <2> QED  BY <2>1, <2>2, <1>3, Zenon
<1>7. \A n \in Machines : cur'[n] # None =>
        /\ proc'[n] = "registering"
        /\ owner'[cur'[n]] = n
        /\ stage'[cur'[n]] # "unused"
        /\ mem'[n] = shows'[cur'[n]]
        /\ shows'[cur'[n]] = Enroll => disk'[n] = Enroll
        /\ stage'[cur'[n]] = "issued" => hash'[n] = cur'[n]
        /\ stage'[cur'[n]] \in {"known", "ok"} => hash'[n] = shows'[cur'[n]]
  BY <1>1, <1>6 DEF RegistryInv
<1>8. NotLockedOut' /\ RunningIsAuthenticated'
  BY <1>1 DEF RegistryInv, TokensTyped, NotLockedOut, RunningIsAuthenticated
<1> QED  BY <1>2, <1>4, <1>5, <1>7, <1>8, Zenon DEF RegistryInv

\* The server's statements.  Each works on a registration its process waits
\* for; only issuing a token changes the table's, and then the machine still
\* has the enrollment token.
LEMMA RegisterSteps ==
  ASSUME RegistryInv, NEW r \in Requests,
         \/ shouldIssueWorkerToken(r) \/ UpsertWorker(r)
         \/ IssueWorkerToken(r) \/ RegisterFails(r)
  PROVE  RegistryInv'
<1>1. /\ stage[r] \in Live
      /\ stage'[r] \in Stages \ {"unused"}
      /\ stage' = [stage EXCEPT ![r] = stage'[r]]
      /\ UNCHANGED <<disk, proc, mem, cur, owner, shows>>
  BY DEF RegistryInv, TokensTyped, Live, Stages, macvars,
         shouldIssueWorkerToken, UpsertWorker, IssueWorkerToken, RegisterFails
<1>2. PICK m \in Machines : m = owner[r] /\ cur[m] = r /\ proc[m] = "registering"
  BY <1>1, RegistryAssumption DEF RegistryInv
<1>3. /\ hash' \in [Machines -> Requests \cup {None}]
      /\ \A n \in Machines \ {m} : hash'[n] = hash[n]
      /\ \/ hash' = hash /\ stage'[r] # "issued"
         \/ hash'[m] = r /\ stage[r] = "upserted" /\ stage'[r] = "issued"
  BY <1>1, <1>2 DEF RegistryInv, TokensTyped, tablevars,
         shouldIssueWorkerToken, UpsertWorker, IssueWorkerToken, RegisterFails
<1>4. /\ stage'[r] \in {"accepted", "upserted"} => shows[r] = Enroll
      /\ stage'[r] \in {"known", "ok"} => hash'[m] = shows[r]
  <2>1. CASE shouldIssueWorkerToken(r)
    BY <2>1, <1>1, <1>2 DEF RegistryInv, TokensTyped, tablevars, shouldIssueWorkerToken
  <2>2. CASE UpsertWorker(r)
    <3>1. /\ stage[r] \in {"accepted", "known"} /\ hash' = hash
          /\ stage'[r] = IF stage[r] = "known" THEN "ok" ELSE "upserted"
      BY <2>2, Zenon DEF RegistryInv, TokensTyped, UpsertWorker
    <3>2. stage[r] = "accepted" => shows[r] = Enroll
      BY Zenon DEF RegistryInv
    <3>3. stage[r] = "known" => hash[m] = shows[r]
      BY <1>2, RegistryAssumption DEF RegistryInv
    <3> QED  BY <3>1, <3>2, <3>3, Zenon
  <2>3. CASE IssueWorkerToken(r) \/ RegisterFails(r)
    BY <2>3 DEF RegistryInv, TokensTyped, IssueWorkerToken, RegisterFails
  <2> QED  BY <2>1, <2>2, <2>3, Zenon
<1>5. TokensTyped'
  BY <1>1, <1>3 DEF RegistryInv, TokensTyped
<1>6. \A q \in Requests : (stage[q] \in Live)' => owner'[q] \in Machines /\ cur'[owner'[q]] = q
  BY <1>1, <1>2 DEF RegistryInv, TokensTyped, Live
<1>7. \A q \in Requests : stage'[q] \in {"accepted", "upserted"} => shows'[q] = Enroll
  BY <1>1, <1>4 DEF RegistryInv, TokensTyped
<1>8. \A n \in Machines \ {m} : cur[n] # None => cur[n] \in Requests /\ stage'[cur[n]] = stage[cur[n]]
  BY <1>1, <1>2 DEF RegistryInv, TokensTyped
<1>9. \A n \in Machines : cur'[n] # None =>
        /\ proc'[n] = "registering"
        /\ owner'[cur'[n]] = n
        /\ stage'[cur'[n]] # "unused"
        /\ mem'[n] = shows'[cur'[n]]
        /\ shows'[cur'[n]] = Enroll => disk'[n] = Enroll
        /\ stage'[cur'[n]] = "issued" => hash'[n] = cur'[n]
        /\ stage'[cur'[n]] \in {"known", "ok"} => hash'[n] = shows'[cur'[n]]
  BY <1>1, <1>2, <1>3, <1>4, <1>8 DEF RegistryInv
<1>10. NotLockedOut'
  <2>1. CASE hash' = hash
    BY <2>1, <1>1, Zenon DEF RegistryInv, NotLockedOut
  <2>2. CASE hash'[m] = r /\ stage[r] = "upserted"
    <3>1. disk[m] = Enroll
      BY <2>2, <1>2, RegistryAssumption DEF RegistryInv
    <3> QED  BY <3>1, <1>1, <1>3, RegistryAssumption DEF RegistryInv, NotLockedOut
  <2> QED  BY <1>3, <2>1, <2>2, Zenon
<1>11. RunningIsAuthenticated'
  BY <1>1, <1>2, <1>3 DEF RegistryInv, RunningIsAuthenticated
<1> QED  BY <1>5, <1>6, <1>7, <1>9, <1>10, <1>11, Zenon DEF RegistryInv

\* Every step keeps the invariant.
LEMMA NextKeepsRegistryInv ==
  Notices /\ RegistryInv /\ [Next]_vars => RegistryInv'
<1> SUFFICES ASSUME Notices, RegistryInv, [Next]_vars PROVE RegistryInv'
  BY Zenon
<1>1. ASSUME UNCHANGED vars PROVE RegistryInv'
  BY <1>1, Zenon DEF vars, tablevars, macvars, reqvars, RegistryInv, TokensTyped, NotLockedOut, RunningIsAuthenticated
<1>2. ASSUME NEW m \in Machines,
             \/ WriteConfig(m) \/ AssignHostnameKnown(m)
             \/ AssignHostnameRead(m) \/ AssignHostnameWrite(m) \/ AssignHostnameFails(m)
      PROVE  RegistryInv'
  BY <1>2, SetupSteps, Zenon
<1>3. ASSUME NEW m \in Machines, Start(m) PROVE RegistryInv'
  BY <1>3, StartStep, Zenon
<1>4. ASSUME NEW m \in Machines, Registered(m) PROVE RegistryInv'
  BY <1>4, RegisteredStep, Zenon
<1>5. ASSUME NEW m \in Machines, Stop(m) PROVE RegistryInv'
  BY <1>5, StopStep, Zenon
<1>6. ASSUME NEW r \in Requests,
             \/ shouldIssueWorkerToken(r) \/ UpsertWorker(r)
             \/ IssueWorkerToken(r) \/ RegisterFails(r)
      PROVE  RegistryInv'
  BY <1>6, RegisterSteps, Zenon
<1> QED  BY <1>1, <1>2, <1>3, <1>4, <1>5, <1>6, Zenon DEF Next

\* The invariant of enrollment holds in every reachable state, provided the
\* server's work on a registration ends with its worker (r.Context()).
THEOREM RegistryInvariant == Notices => (Spec => []RegistryInv)
<1> SUFFICES ASSUME Notices PROVE Spec => []RegistryInv
  BY Zenon
<1>1. RegistryInv /\ [Next]_vars => RegistryInv'
  BY NextKeepsRegistryInv, Zenon
<1> QED  BY InitRegistry, <1>1, PTL DEF Spec

\* No machine is locked out: the worker token that replaced the enrollment
\* token in config.yaml is always the one handleWorkerRegister accepts.
THEOREM NobodyIsLockedOut == Notices => (Spec => []NotLockedOut)
<1> SUFFICES ASSUME Notices PROVE Spec => []NotLockedOut
  BY Zenon
<1>1. RegistryInv => NotLockedOut
  BY Zenon DEF RegistryInv
<1>2. Spec => []RegistryInv
  BY RegistryInvariant, Zenon
<1> QED  BY <1>1, <1>2, PTL

\* Every process in its management loop holds the token requireWorkerAuth
\* looks up.
THEOREM RunningWorkersAreAuthenticated == Notices => (Spec => []RunningIsAuthenticated)
<1> SUFFICES ASSUME Notices PROVE Spec => []RunningIsAuthenticated
  BY Zenon
<1>1. RegistryInv => RunningIsAuthenticated
  BY Zenon DEF RegistryInv
<1>2. Spec => []RegistryInv
  BY RegistryInvariant, Zenon
<1> QED  BY <1>1, <1>2, PTL

-----------------------------------------------------------------------------
(* The names *)

\* A set of naturals that is not empty has a least element.
LEMMA LeastNatural ==
  ASSUME NEW T, T \subseteq Nat, T # {}
  PROVE  \E x \in T : \A y \in T : x <= y
<1> DEFINE R == OpToRel(<, Nat)
<1>1. IsWellFoundedOn(R, Nat)
  BY NatLessThanWellFounded, Zenon
<1>2. R = {ss \in Nat \X Nat : ss[1] < ss[2]}
  BY Zenon DEF OpToRel
<1> HIDE DEF R
<1>3. \E x \in T : \A y \in T : ~ (<<y, x>> \in R)
  BY <1>1, WFMin, Zenon
<1>4. \A x, y \in Nat : y < x => <<y, x>> \in R
  BY <1>2, Zenon
<1>5. \A x, y \in Nat : ~ (y < x) => x <= y
  OBVIOUS
<1> QED  BY <1>3, <1>4, <1>5, Zenon

\* What Max returns for a set of naturals that has a bound.
LEMMA MaxOfBounded ==
  ASSUME NEW S, S \subseteq Nat, S # {}, NEW B \in Nat, \A x \in S : x <= B
  PROVE  Max(S) \in S /\ \A y \in S : y <= Max(S)
<1> DEFINE T == {B - x : x \in S}
<1>1. T \subseteq Nat /\ T # {}
  <2>1. \A x \in S : x \in Nat /\ x <= B
    BY Zenon
  <2>2. \A x \in S : B - x \in Nat
    BY <2>1
  <2> QED  BY <2>2, Zenon
<1>2. PICK t \in T : \A y \in T : t <= y
  <2> HIDE DEF T
  <2> QED  BY <1>1, LeastNatural, Zenon
<1>3. PICK x \in S : t = B - x
  BY Zenon
<1>4. \A y \in S : x >= y
  <2> TAKE y \in S
  <2>1. B - y \in T
    BY Zenon
  <2>2. B - x <= B - y
    BY <1>2, <1>3, <2>1, Zenon
  <2>3. x \in Nat /\ y \in Nat
    BY Zenon
  <2>4. \A a, b, d \in Nat : a - b <= a - d => b >= d
    OBVIOUS
  <2> QED  BY <2>2, <2>3, <2>4, Zenon
<1> HIDE DEF T
<1>5. Max(S) \in S /\ \A y \in S : Max(S) >= y
  BY <1>4, Zenon DEF Max
<1> QED  BY <1>5, Zenon

\* All names in the table, on the machines and in registrations are below B.
NamesBelow(B) ==
  /\ \A m \in Machines : name[m] <= B /\ next[m] <= B /\ sysname[m] <= B
  /\ \A r \in Requests : says[r] <= B

\* There is such a bound at any time, so MAX(...) of the hostnames exists.
NamesBounded == \E B \in Nat : NamesBelow(B)

\* The name AssignHostname computes is larger than every name in the table.
LEMMA NextNameFacts ==
  ASSUME NamesInv, NEW B \in Nat, NamesBelow(B)
  PROVE  /\ NextName \in Nat \ {0} /\ NextName <= B + 1
         /\ \A m \in rows : name[m] < NextName
<1> DEFINE S == {0} \cup {name[m] : m \in rows}
<1>1. S \subseteq Nat /\ S # {} /\ \A x \in S : x <= B
  BY DEF NamesInv, NamesTyped, NamesBelow
<1>2. \A m \in rows : name[m] \in S
  BY Zenon
<1>3. NextName = Max(S) + 1
  BY Zenon DEF NextName
<1> HIDE DEF S
<1>4. Max(S) \in S /\ \A y \in S : y <= Max(S)
  BY <1>1, MaxOfBounded, Zenon
<1>5. Max(S) \in Nat /\ Max(S) <= B
  BY <1>1, <1>4, Zenon
<1>6. \A m \in rows : name[m] \in Nat /\ name[m] <= Max(S)
  BY <1>2, <1>4, Zenon DEF NamesInv, NamesTyped
<1> QED  BY <1>3, <1>5, <1>6

\* A registration goes on, is answered or is given up: no name changes, and
\* no registration without a machine comes to life.
LEMMA QuietNames ==
  ASSUME NamesInv, NamesBounded, UNCHANGED <<rows, active, name, next, sysname, owner, says>>,
         stage' \in [Requests -> Stages],
         \A r \in Requests : stage'[r] \in Live => stage[r] \in Live
  PROVE  NamesInv' /\ NamesBounded'
<1>1. NamesBounded'
  BY Zenon DEF NamesBounded, NamesBelow
<1>2. AssignmentsDiffer' /\ NamesTyped'
  BY Zenon DEF NamesInv, AssignmentsDiffer, NamesTyped
<1> QED  BY <1>1, <1>2, Zenon DEF NamesInv

\* AssignHostname reads the largest name, under the lock.
LEMMA ReadNames ==
  ASSUME NamesInv, NamesBounded, NEW m \in Machines, AssignHostnameRead(m)
  PROVE  NamesInv' /\ NamesBounded'
<1>1. PICK B \in Nat : NamesBelow(B)
  BY Zenon DEF NamesBounded
<1>2. /\ NextName \in Nat \ {0} /\ NextName <= B + 1
      /\ \A n \in rows : name[n] < NextName
  BY <1>1, NextNameFacts, Zenon
<1>3. /\ next' = [next EXCEPT ![m] = NextName] /\ \A n \in Machines : next[n] = 0
      /\ UNCHANGED <<rows, active, name, sysname, stage, owner, says>>
  BY Zenon DEF AssignHostnameRead, Locked, tablevars, macvars, reqvars
<1>4. NamesTyped' /\ AssignmentsDiffer'
  BY <1>2, <1>3, Zenon DEF NamesInv, NamesTyped, AssignmentsDiffer
<1>5. next'[m] = NextName /\ \A n \in Machines \ {m} : next'[n] = 0
  BY <1>3, Zenon DEF NamesInv, NamesTyped
<1>6. NamesBelow(B + 1)'
  BY <1>1, <1>2, <1>3, <1>5 DEF NamesBelow, NamesInv, NamesTyped
<1>7. NamesBounded'
  BY <1>6 DEF NamesBounded
<1> QED  BY <1>2, <1>3, <1>4, <1>5, <1>7, Zenon DEF NamesInv

\* The name that was read is written, or the assignment is rolled back: nobody
\* else holds the lock, and no machine that is named and has not registered has
\* that name.
LEMMA WriteNames ==
  ASSUME NamesInv, NamesBounded, NEW m \in Machines,
         AssignHostnameWrite(m) \/ AssignHostnameFails(m)
  PROVE  NamesInv' /\ NamesBounded'
<1>1. PICK B \in Nat : NamesBelow(B)
  BY Zenon DEF NamesBounded
<1>2. /\ next[m] # 0 /\ next' = [next EXCEPT ![m] = 0]
      /\ UNCHANGED <<active, stage, owner, says>>
      /\ \/ rows' = rows \cup {m} /\ name' = [name EXCEPT ![m] = next[m]]
         \/ UNCHANGED <<rows, name>>
      /\ sysname' \in {sysname, [sysname EXCEPT ![m] = next[m]]}
  BY Zenon DEF AssignHostnameWrite, AssignHostnameFails, tablevars, macvars, reqvars
<1>3. NamesTyped'
  BY <1>2, Zenon DEF NamesInv, NamesTyped
<1>4. \A n \in Machines : next'[n] = 0
  BY <1>2, Zenon DEF NamesInv, NamesTyped
<1>5. AssignmentsDiffer'
  <2>1. /\ \A n \in rows \ active : name[n] < next[m] /\ name[n] \in Nat
        /\ next[m] \in Nat
    BY <1>2, Zenon DEF NamesInv, NamesTyped
  <2>2. \/ rows' = rows /\ name' = name
        \/ /\ rows' = rows \cup {m} /\ name'[m] = next[m]
           /\ \A n \in Machines \ {m} : name'[n] = name[n]
    BY <1>2, Zenon DEF NamesInv, NamesTyped
  <2>3. \A n \in rows \ active : n \in Machines /\ name[n] # next[m]
    BY <2>1 DEF NamesInv, NamesTyped
  <2> QED  BY <1>2, <2>2, <2>3 DEF NamesInv, AssignmentsDiffer
<1>6. NamesBelow(B)'
  BY <1>1, <1>2, <1>4 DEF NamesBelow, NamesInv, NamesTyped
<1> QED  BY <1>2, <1>3, <1>4, <1>5, <1>6, Zenon DEF NamesInv, NamesBounded

\* A machine is told the name it has, or presents its name, or another one, in
\* a new registration.
LEMMA MachineNames ==
  ASSUME NamesInv, NamesBounded, NEW m \in Machines, AssignHostnameKnown(m) \/ Start(m)
  PROVE  NamesInv' /\ NamesBounded'
<1>1. PICK B \in Nat : NamesBelow(B)
  BY Zenon DEF NamesBounded
<1>2. CASE AssignHostnameKnown(m)
  <2>1. /\ UNCHANGED <<rows, active, name, next, stage, owner, says>>
        /\ sysname' \in {sysname, [sysname EXCEPT ![m] = name[m]]}
    BY <1>2, Zenon DEF AssignHostnameKnown, tablevars, reqvars
  <2>2. NamesTyped' /\ AssignmentsDiffer'
    BY <2>1, Zenon DEF NamesInv, NamesTyped, AssignmentsDiffer
  <2>3. NamesBelow(B)'
    BY <1>1, <2>1, Zenon DEF NamesBelow, NamesInv, NamesTyped
  <2> QED  BY <2>1, <2>2, <2>3, Zenon DEF NamesInv, NamesBounded
<1>3. CASE Start(m)
  <2>1. PICK r \in Requests, n \in {0, sysname[m]} :
          /\ stage' = [stage EXCEPT ![r] = "sent"]
          /\ owner' = [owner EXCEPT ![r] = m]
          /\ says' = [says EXCEPT ![r] = n]
    BY <1>3, Zenon DEF Start
  <2>2. UNCHANGED <<rows, active, name, next, sysname>>
    BY <1>3, Zenon DEF Start, tablevars
  <2>3. n \in Nat /\ n <= B
    BY <1>1 DEF NamesBelow, NamesInv, NamesTyped
  <2>4. NamesTyped' /\ AssignmentsDiffer'
    BY <2>1, <2>2, <2>3, Zenon DEF NamesInv, NamesTyped, AssignmentsDiffer
  <2>5. NamesBelow(B)'
    BY <1>1, <2>1, <2>2, <2>3, Zenon DEF NamesBelow, NamesInv, NamesTyped
  <2>6. /\ stage' \in [Requests -> Stages] /\ owner' \in [Requests -> Machines \cup {None}]
        /\ \A q \in Requests : stage'[q] \in Live => owner'[q] \in Machines
    BY <2>1, Zenon DEF NamesInv, Stages, Live
  <2> QED  BY <2>2, <2>4, <2>5, <2>6, Zenon DEF NamesInv, NamesBounded
<1> QED  BY <1>2, <1>3, Zenon

\* UpsertWorker writes the name the worker presents, of a machine that counts
\* as registered from now on.
LEMMA UpsertNames ==
  ASSUME NamesInv, NamesBounded, NEW r \in Requests, UpsertWorker(r)
  PROVE  NamesInv' /\ NamesBounded'
<1>1. PICK B \in Nat : NamesBelow(B)
  BY Zenon DEF NamesBounded
<1>2. PICK m \in Machines :
        /\ owner[r] = m /\ rows' = rows \cup {m} /\ active' = active \cup {m}
        /\ name' = [name EXCEPT ![m] = says[r]]
  BY Zenon DEF UpsertWorker, NamesInv, Live
<1>3. /\ UNCHANGED <<next, sysname, owner, says>> /\ stage' \in [Requests -> Stages]
      /\ \A q \in Requests : stage'[q] \in Live => stage[q] \in Live
  BY Zenon DEF UpsertWorker, macvars, NamesInv, Stages, Live
<1>4. NamesTyped'
  BY <1>2, <1>3, Zenon DEF NamesInv, NamesTyped
<1>5. NamesBelow(B)'
  BY <1>1, <1>2, <1>3, Zenon DEF NamesBelow, NamesInv, NamesTyped
<1>6. /\ rows' \ active' \subseteq rows \ active
      /\ \A n \in rows' \ active' : name'[n] = name[n]
  BY <1>2, Zenon DEF NamesInv, NamesTyped
<1>7. AssignmentsDiffer'
  BY <1>6, Zenon DEF NamesInv, AssignmentsDiffer
<1>8. \A n \in Machines : next'[n] # 0 => \A k \in (rows \ active)' : name'[k] < next'[n]
  BY <1>3, <1>6, Zenon DEF NamesInv
<1> QED  BY <1>3, <1>4, <1>5, <1>7, <1>8, Zenon DEF NamesInv, NamesBounded

\* Every step keeps the invariant of the names, for either value of Notices.
LEMMA NextNames ==
  NamesInv /\ NamesBounded /\ [Next]_vars => (NamesInv /\ NamesBounded)'
<1> SUFFICES ASSUME NamesInv, NamesBounded, [Next]_vars PROVE NamesInv' /\ NamesBounded'
  BY Zenon
<1>1. ASSUME NEW m \in Machines, WriteConfig(m) \/ Registered(m) \/ Stop(m)
      PROVE  NamesInv' /\ NamesBounded'
  <2>1. UNCHANGED <<rows, active, name, next, sysname, owner, says>>
    BY <1>1, Zenon DEF WriteConfig, Registered, Stop, tablevars, reqvars
  <2>2. stage' = stage \/ stage' = [stage EXCEPT ![cur[m]] = "gone"]
    BY <1>1, Zenon DEF WriteConfig, Registered, Stop, reqvars
  <2>3. /\ stage' \in [Requests -> Stages]
        /\ \A r \in Requests : stage'[r] \in Live => stage[r] \in Live
    BY <2>2, Zenon DEF NamesInv, Stages, Live
  <2> QED  BY <2>1, <2>3, QuietNames, Zenon
<1>2. ASSUME NEW r \in Requests,
             shouldIssueWorkerToken(r) \/ IssueWorkerToken(r) \/ RegisterFails(r)
      PROVE  NamesInv' /\ NamesBounded'
  <2>1. UNCHANGED <<rows, active, name, next, sysname, owner, says>>
    BY <1>2, Zenon DEF shouldIssueWorkerToken, IssueWorkerToken, RegisterFails, tablevars, macvars
  <2>2. stage[r] \in Live /\ \E s \in Stages : stage' = [stage EXCEPT ![r] = s]
    BY <1>2, Zenon DEF shouldIssueWorkerToken, IssueWorkerToken, RegisterFails, Live, Stages
  <2>3. /\ stage' \in [Requests -> Stages]
        /\ \A q \in Requests : stage'[q] \in Live => stage[q] \in Live
    BY <2>2, Zenon DEF NamesInv
  <2> QED  BY <2>1, <2>3, QuietNames, Zenon
<1>3. CASE UNCHANGED vars
  BY <1>3, QuietNames, Zenon DEF NamesInv, vars, tablevars, macvars, reqvars
<1> QED
  BY <1>1, <1>2, <1>3, ReadNames, WriteNames, MachineNames, UpsertNames, Zenon DEF Next

\* Whatever registrations do to the table meanwhile, and whether or not they
\* are given up in time, two assignments never hand out the same number.
THEOREM NamesDiffer == Spec => []AssignmentsDiffer
<1>1. Init => NamesInv /\ NamesBounded
  <2>1. Init => NamesInv
    BY DEF Init, NamesInv, NamesTyped, AssignmentsDiffer, Stages, Live
  <2>2. Init => NamesBelow(0)
    BY DEF Init, NamesBelow
  <2> QED  BY <2>1, <2>2, Zenon DEF NamesBounded
<1>2. NamesInv => AssignmentsDiffer
  BY Zenon DEF NamesInv
<1> QED  BY <1>1, <1>2, NextNames, PTL DEF Spec
=============================================================================
